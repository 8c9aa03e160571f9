--------------------------- MODULE MCOnceTrigger ---------------------------
(* Two windows are enough for the state of one market to meet the other,   *)
(* and two outcomes for two locks of one market.                           *)
EXTENDS OnceTrigger

Plain == [markets |-> 2, outcomes |-> 1, faults |-> {}, scope |-> "market", attempts |-> 0, deferred |-> FALSE,
          confirm |-> FALSE, level |-> FALSE, first |-> TRUE, window |-> FALSE, fillLock |-> FALSE]

OneMarket == [Plain EXCEPT !.markets = 1]
Reentering == [OneMarket EXCEPT !.attempts = 1]
TwoOutcomes == [OneMarket EXCEPT !.outcomes = 2]
RunScoped == [Plain EXCEPT !.scope = "run", !.faults = {"crash"}]
Deferring == [TwoOutcomes EXCEPT !.deferred = TRUE]
DeferringWithErrors == [OneMarket EXCEPT !.deferred = TRUE, !.faults = {"error"}]
Windowed == [OneMarket EXCEPT !.window = TRUE]
FillLocked == [OneMarket EXCEPT !.fillLock = TRUE]
Confirming == [OneMarket EXCEPT !.confirm = TRUE, !.first = FALSE]

MCConfigs == {Reentering, TwoOutcomes, RunScoped, Deferring, DeferringWithErrors, Windowed,
              FillLocked, Confirming}
=============================================================================
