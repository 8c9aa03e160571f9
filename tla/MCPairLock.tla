----------------------------- MODULE MCPairLock -----------------------------
(* Configurations of PairLock for TLC.                                      *)
EXTENDS PairLock

Manual == [auto |-> FALSE, conditional |-> TRUE, protective |-> TRUE,
           ignoreSl |-> FALSE, waitEnd |-> FALSE, sl |-> TRUE, faults |-> {}]
ManualImmediate == [Manual EXCEPT !.conditional = FALSE]
Auto == [Manual EXCEPT !.auto = TRUE, !.conditional = FALSE, !.ignoreSl = TRUE]
AutoUntilEnd == [Auto EXCEPT !.waitEnd = TRUE, !.conditional = TRUE, !.sl = FALSE]
AutoUnprotected == [Auto EXCEPT !.protective = FALSE, !.sl = FALSE]

MCConfigs == {Manual, Auto, ManualImmediate,
              [Manual EXCEPT !.faults = {"error"}],
              [ManualImmediate EXCEPT !.faults = {"error", "user", "expiry"}],
              [AutoUntilEnd EXCEPT !.faults = {"error", "expiry"}],
              [AutoUnprotected EXCEPT !.faults = {"user", "expiry"}]}
=============================================================================
