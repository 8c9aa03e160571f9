--------------------------- MODULE TradeLifecycle ---------------------------
(***************************************************************************)
(* What the row of a legacy trade promises to whoever reads it (the risk   *)
(* gate, the dashboard): a trade moves forward through its phases, leaves  *)
(* a phase only for the next one, may be halted at any time, and is closed *)
(* only when nothing was entered or when it has left its position.  A      *)
(* closed trade is never opened again.                                     *)
(***************************************************************************)

VARIABLES
    phase,     \* the phase of trades.state
    isClosed   \* trades.closed_at is set

lifecycleVars == <<phase, isClosed>>

Phases == {"opening", "entering", "holding", "exited", "settled", "halted"}

\* The phase that follows each phase when the trade goes well.
Following ==
    [p \in {"opening", "entering", "holding", "exited"} |->
        CASE p = "opening"  -> "entering"
          [] p = "entering" -> "holding"
          [] p = "holding"  -> "exited"
          [] p = "exited"   -> "settled"]

Init == phase = "opening" /\ isClosed = FALSE

Proceed ==
    /\ phase \in DOMAIN Following
    /\ phase' = Following[phase]
    /\ UNCHANGED isClosed

Close ==
    /\ phase \in {"entering", "exited", "settled"}
    /\ phase' = "settled"
    /\ isClosed' = TRUE

Halt ==
    /\ phase' = "halted"
    /\ UNCHANGED isClosed

Next == Proceed \/ Close \/ Halt

Spec == Init /\ [][Next]_lifecycleVars
=============================================================================
