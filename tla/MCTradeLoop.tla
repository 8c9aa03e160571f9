---------------------------- MODULE MCTradeLoop -----------------------------
(* The configurations of the TradeLoop instances.                          *)
EXTENDS TradeLoop

Setup(m, k, active, over) ==
    [mode |-> m, kill_switch_mode |-> k, manual_kill_switch_active |-> active,
     over_notional |-> over]

MCConfigs ==
    {Setup(m, "manual_or_policy", FALSE, FALSE) : m \in Modes}
      \cup {Setup(m, "manual_only", FALSE, FALSE) : m \in {"paper", "live"}}
      \cup {Setup(m, "manual_only", TRUE, FALSE) : m \in Modes}
      \cup {Setup("live_dual", "disabled", TRUE, TRUE)}
MCKilled == {Setup(m, "manual_only", TRUE, FALSE) : m \in Modes}
=============================================================================
