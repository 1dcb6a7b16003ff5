-------------------------- MODULE MCDaemonControl --------------------------
(* Constants of DaemonControl for TLC: two backends, a configuration with    *)
(* both, a rate and a schedule, and the fresh one, which has neither.        *)
EXTENDS DaemonControl

CONSTANTS b1, b2, both, fresh

MCOrder == <<b1, b2>>
MCConfig == {both, fresh}
MCEnabled == [f \in MCConfig |-> IF f = both THEN {b1, b2} ELSE {}]
MCMaxRate == [f \in MCConfig |-> IF f = both THEN 1 ELSE None]
MCScheduled == {both}
MCRate == 0..1

=============================================================================
