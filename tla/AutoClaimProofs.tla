--------------------------- MODULE AutoClaimProofs ---------------------------
(***************************************************************************)
(* Proofs about AutoClaim for any set of services, rows they own, relayer  *)
(* modes, batch sizes, attempt limit and set of transaction hashes.        *)
(***************************************************************************)
EXTENDS AutoClaim, FiniteSetTheorems, TLAPS

(* The inductive part that does not count: types, attempts, what the loops *)
(* of the tick hold, and whose transaction a hash is.                       *)
RowInv == TypeOK /\ AttemptsLeft /\ HeldRows /\ HashIsOwn /\ ChainFacts

(* The initial state satisfies it: no row, no transaction.                 *)
LEMMA RowInvInit == Init => RowInv
  <1> SUFFICES ASSUME Init PROVE RowInv
    OBVIOUS
  <1> USE AutoClaimAssumption DEF Init
  <1>1. TypeOK
    <2>2. attempts \in [Jobs -> 0..MaxAttempts] /\ status \in [Jobs -> Statuses]
      BY DEF Statuses
    <2> QED
      BY <2>2 DEF TypeOK, Pcs, Outcomes
  <1>2. AttemptsLeft /\ HeldRows
    BY DEF AttemptsLeft, HeldRows, Submitted
  <1>3. HashIsOwn /\ ChainFacts
    BY DEF HashIsOwn, ChainFacts
  <1> QED
    BY <1>1, <1>2, <1>3 DEF RowInv

(* Every call of the tick, every sweep, fault, block and clock preserves   *)
(* RowInv.                                                                 *)
LEMMA RowInvNext == RowInv /\ [Next]_vars => RowInv'
  <1> SUFFICES ASSUME RowInv, [Next]_vars PROVE RowInv'
    OBVIOUS
  <1> USE AutoClaimAssumption DEF RowInv
  <1>1. ASSUME NEW s \in Services, StartTick(s) PROVE RowInv'
    <2>1. TypeOK'
      BY <1>1 DEF StartTick, RecoverStale, TypeOK, AttemptsLeft, HeldRows, Statuses, Pcs, Outcomes, Submitted, jobVars, svcVars, chainVars
    <2>2. AttemptsLeft'
      BY <1>1 DEF StartTick, RecoverStale, TypeOK, AttemptsLeft, HeldRows, Submitted, Statuses, jobVars, svcVars, chainVars
    <2>3. HeldRows'
      BY <1>1 DEF StartTick, RecoverStale, TypeOK, HeldRows, Submitted, Statuses, jobVars, svcVars, chainVars
    <2>4. HashIsOwn' /\ ChainFacts'
      BY <1>1 DEF StartTick, RecoverStale, TypeOK, HeldRows, HashIsOwn, ChainFacts, Submitted, Statuses, Outcomes, jobVars, svcVars, chainVars
    <2> QED
      BY <2>1, <2>2, <2>3, <2>4
  <1>2. CASE EndDiscovery
    BY <1>2 DEF EndDiscovery, TypeOK, AttemptsLeft, HeldRows, HashIsOwn, ChainFacts, TickEnds, Statuses, Pcs, Outcomes, Submitted, jobVars, svcVars, chainVars
  <1>3. CASE EndReceipts
    BY <1>3 DEF EndReceipts, TypeOK, AttemptsLeft, HeldRows, HashIsOwn, ChainFacts, TickEnds, Statuses, Pcs, Outcomes, Submitted, jobVars, svcVars, chainVars
  <1>4. CASE ListJobs
    BY <1>4 DEF ListJobs, Listable, TypeOK, AttemptsLeft, HeldRows, HashIsOwn, ChainFacts, TickEnds, Statuses, Pcs, Outcomes, Submitted, jobVars, svcVars, chainVars
  <1>5. CASE NoSlot
    BY <1>5 DEF NoSlot, TypeOK, AttemptsLeft, HeldRows, HashIsOwn, ChainFacts, TickEnds, Statuses, Pcs, Outcomes, Submitted, jobVars, svcVars, chainVars
  <1>6. CASE StartBatch
    BY <1>6 DEF StartBatch, SafeQueue, TypeOK, AttemptsLeft, HeldRows, HashIsOwn, ChainFacts, TickEnds, Statuses, Pcs, Outcomes, Submitted, jobVars, svcVars, chainVars
  <1>7. CASE EndQueue
    BY <1>7 DEF EndQueue, TypeOK, AttemptsLeft, HeldRows, HashIsOwn, ChainFacts, TickEnds, Statuses, Pcs, Outcomes, Submitted, jobVars, svcVars, chainVars
  <1>8. CASE SendRefused
    BY <1>8 DEF SendRefused, Sendable, TypeOK, AttemptsLeft, HeldRows, HashIsOwn, ChainFacts, TickEnds, Statuses, Pcs, Outcomes, Submitted, jobVars, svcVars, chainVars
  <1>9. ASSUME NEW j \in Jobs, CheckReceipt(j) PROVE RowInv'
    <2>1. TypeOK'
      BY <1>9 DEF CheckReceipt, MarkRetryOrFail, MarkReceiptConfirmed, TypeOK, AttemptsLeft, HeldRows, Statuses, Pcs, Outcomes, Submitted, jobVars, svcVars, chainVars
    <2>2. AttemptsLeft'
      BY <1>9 DEF CheckReceipt, MarkRetryOrFail, MarkReceiptConfirmed, TypeOK, AttemptsLeft, HeldRows, Submitted, Statuses, jobVars, svcVars, chainVars
    <2>3. HeldRows'
      BY <1>9 DEF CheckReceipt, MarkRetryOrFail, MarkReceiptConfirmed, TypeOK, HeldRows, Submitted, Statuses, jobVars, svcVars, chainVars
    <2>4. HashIsOwn' /\ ChainFacts'
      BY <1>9 DEF CheckReceipt, MarkRetryOrFail, MarkReceiptConfirmed, TypeOK, HeldRows, HashIsOwn, ChainFacts, Submitted, Statuses, Outcomes, jobVars, svcVars, chainVars
    <2> QED
      BY <2>1, <2>2, <2>3, <2>4
  <1>10. ASSUME NEW j \in Jobs, StartSingle(j) PROVE RowInv'
    BY <1>10 DEF StartSingle, SafeQueue, TypeOK, AttemptsLeft, HeldRows, HashIsOwn, ChainFacts, TickEnds, Statuses, Pcs, Outcomes, Submitted, jobVars, svcVars, chainVars
  <1>11. ASSUME NEW j \in Jobs, Mark(j) PROVE RowInv'
    BY <1>11 DEF Mark, MarkProcessing, TypeOK, AttemptsLeft, HeldRows, HashIsOwn, ChainFacts, TickEnds, Statuses, Pcs, Outcomes, Submitted, jobVars, svcVars, chainVars
  <1>12. ASSUME NEW j \in Jobs, Record(j) PROVE RowInv'
    <2>1. TypeOK'
      <3>1. attempts[j] + 1 \in 0..MaxAttempts
        BY <1>12 DEF Record, TypeOK, AttemptsLeft, HeldRows
      <3>2. /\ status' \in [Jobs -> Statuses] /\ attempts' \in [Jobs -> 0..MaxAttempts]
            /\ txHash' \in [Jobs -> TxIds \cup {NoTx}]
            /\ due' \subseteq Jobs /\ stale' \subseteq Jobs /\ timedOut' \subseteq Jobs
        <4>1. CASE outcome \in TxIds /\ MarkSubmitted(j, outcome)
          BY <4>1 DEF MarkSubmitted, TypeOK, Statuses
        <4>2. CASE MarkFailed(j)
          BY <3>1, <4>2 DEF MarkFailed, TypeOK, Statuses
        <4>3. CASE MarkRetryOrFail(j)
          BY <3>1, <4>3 DEF MarkRetryOrFail, TypeOK, Statuses
        <4> QED
          BY <1>12, <4>1, <4>2, <4>3 DEF Record
      <3>3. /\ pc' \in Pcs /\ outcome' \in Outcomes \cup TxIds
            /\ svc' \in Services \cup {NoUser} /\ (svc' = NoUser <=> pc' = "idle")
            /\ todo' \subseteq Jobs /\ queue' \subseteq Jobs /\ cur' \subseteq Jobs
        BY <1>12 DEF Record, TickEnds, TypeOK, Pcs, Outcomes
      <3>4. cooldown' \subseteq Services /\ needsRecovery' \subseteq Services
        BY <1>12 DEF Record, TypeOK
      <3> QED
        BY <1>12, <3>2, <3>3, <3>4 DEF Record, TypeOK, chainVars
    <2>2. AttemptsLeft'
      BY <1>12 DEF Record, TickEnds, MarkSubmitted, MarkFailed, MarkRetryOrFail, TypeOK, AttemptsLeft, HeldRows, Submitted, Statuses, jobVars, svcVars, chainVars
    <2>3. HeldRows'
      BY <1>12 DEF Record, TickEnds, MarkSubmitted, MarkFailed, MarkRetryOrFail, TypeOK, HeldRows, Submitted, Statuses, jobVars, svcVars, chainVars
    <2>4. HashIsOwn' /\ ChainFacts'
      BY <1>12 DEF Record, TickEnds, MarkSubmitted, MarkFailed, MarkRetryOrFail, TypeOK, HeldRows, HashIsOwn, ChainFacts, Submitted, Statuses, Outcomes, jobVars, svcVars, chainVars
    <2> QED
      BY <2>1, <2>2, <2>3, <2>4
  <1>13. ASSUME NEW t \in TxIds, SendAccepted(t) PROVE RowInv'
    BY <1>13 DEF SendAccepted, Sendable, TypeOK, AttemptsLeft, HeldRows, HashIsOwn, ChainFacts, TickEnds, Statuses, Pcs, Outcomes, Submitted, jobVars, svcVars, chainVars
  <1>14. ASSUME NEW t \in TxIds, SendResponseLost(t) PROVE RowInv'
    BY <1>14 DEF SendResponseLost, Sendable, TypeOK, AttemptsLeft, HeldRows, HashIsOwn, ChainFacts, TickEnds, Statuses, Pcs, Outcomes, Submitted, jobVars, svcVars, chainVars
  <1>15. CASE AbortTick
    BY <1>15 DEF AbortTick, TypeOK, AttemptsLeft, HeldRows, HashIsOwn, ChainFacts, TickEnds, Statuses, Pcs, Outcomes, Submitted, jobVars, svcVars, chainVars
  <1>16. CASE BatchGasPriceFails
    BY <1>16 DEF BatchGasPriceFails, TypeOK, AttemptsLeft, HeldRows, HashIsOwn, ChainFacts, TickEnds, Statuses, Pcs, Outcomes, Submitted, jobVars, svcVars, chainVars
  <1>17. CASE Crash
    BY <1>17 DEF Crash, TypeOK, AttemptsLeft, HeldRows, HashIsOwn, ChainFacts, TickEnds, Statuses, Pcs, Outcomes, Submitted, jobVars, svcVars, chainVars
  <1>18. ASSUME NEW s \in Services, CooldownEnds(s) PROVE RowInv'
    BY <1>18 DEF CooldownEnds, TypeOK, AttemptsLeft, HeldRows, HashIsOwn, ChainFacts, TickEnds, Statuses, Pcs, Outcomes, Submitted, jobVars, svcVars, chainVars
  <1>19. ASSUME NEW j \in Jobs, Discover(j) PROVE RowInv'
    BY <1>19 DEF Discover, Upsert, TypeOK, AttemptsLeft, HeldRows, HashIsOwn, ChainFacts, TickEnds, Statuses, Pcs, Outcomes, Submitted, jobVars, svcVars, chainVars
  <1>20. ASSUME NEW j \in Jobs, FrontendSweep(j) PROVE RowInv'
    BY <1>20 DEF FrontendSweep, Upsert, TypeOK, AttemptsLeft, HeldRows, HashIsOwn, ChainFacts, TickEnds, Statuses, Pcs, Outcomes, Submitted, jobVars, svcVars, chainVars
  <1>21. ASSUME NEW j \in Jobs, BackoffEnds(j) PROVE RowInv'
    BY <1>21 DEF BackoffEnds, TypeOK, AttemptsLeft, HeldRows, HashIsOwn, ChainFacts, TickEnds, Statuses, Pcs, Outcomes, Submitted, jobVars, svcVars, chainVars
  <1>22. ASSUME NEW j \in Jobs, GoesStale(j) PROVE RowInv'
    BY <1>22 DEF GoesStale, TypeOK, AttemptsLeft, HeldRows, HashIsOwn, ChainFacts, TickEnds, Statuses, Pcs, Outcomes, Submitted, jobVars, svcVars, chainVars
  <1>23. ASSUME NEW j \in Jobs, ReceiptTimesOut(j) PROVE RowInv'
    BY <1>23 DEF ReceiptTimesOut, TypeOK, AttemptsLeft, HeldRows, HashIsOwn, ChainFacts, TickEnds, Statuses, Pcs, Outcomes, Submitted, jobVars, svcVars, chainVars
  <1>24. ASSUME NEW t \in TxIds, Mine(t) PROVE RowInv'
    BY <1>24 DEF Mine, Own, TypeOK, AttemptsLeft, HeldRows, HashIsOwn, ChainFacts, TickEnds, Statuses, Pcs, Outcomes, Submitted, jobVars, svcVars, chainVars
  <1>25. ASSUME NEW t \in TxIds, Revert(t) PROVE RowInv'
    BY <1>25 DEF Revert, TypeOK, AttemptsLeft, HeldRows, HashIsOwn, ChainFacts, TickEnds, Statuses, Pcs, Outcomes, Submitted, jobVars, svcVars, chainVars
  <1>27. ASSUME NEW s \in Services, Rebuild(s) PROVE RowInv'
    BY <1>27 DEF Rebuild, TypeOK, AttemptsLeft, HeldRows, HashIsOwn, ChainFacts, Statuses, Pcs, Outcomes, Submitted, jobVars, svcVars, chainVars
  <1>26. CASE UNCHANGED vars
    BY <1>26 DEF vars, TypeOK, AttemptsLeft, HeldRows, HashIsOwn, ChainFacts, TickEnds, Statuses, Pcs, Outcomes, Submitted, jobVars, svcVars, chainVars
  <1> QED
    BY <1>1, <1>2, <1>3, <1>4, <1>5, <1>6, <1>7, <1>8, <1>9, <1>10, <1>11, <1>12, <1>13, <1>14, <1>15, <1>16, <1>17, <1>18, <1>19, <1>20, <1>21, <1>22, <1>23, <1>24, <1>25, <1>26, <1>27 DEF Next, Tick
(* The rows that hold a slot: submitted, queued, in the current send.       *)
Holders == Submitted \cup queue \cup cur

(* A step that takes no slot, and starts no work for another service.       *)
NoNewSlot ==
  /\ Holders' \subseteq Holders
  /\ (queue \cup cur)' # {} => queue \cup cur # {} /\ svc' = svc

(* Only the listing takes new slots.                                       *)
LEMMA OnlyListingReserves == RowInv /\ [Next]_vars => ListJobs \/ NoNewSlot
  <1> SUFFICES ASSUME RowInv, [Next]_vars, ~ListJobs PROVE NoNewSlot
    OBVIOUS
  <1> USE DEF RowInv, TypeOK, HeldRows, Submitted, jobVars, svcVars, chainVars, Holders
  <1>1. ASSUME NEW s \in Services, StartTick(s) PROVE NoNewSlot
    BY <1>1 DEF NoNewSlot, StartTick, RecoverStale
  <1>2. ASSUME EndDiscovery PROVE NoNewSlot
    BY <1>2 DEF NoNewSlot, EndDiscovery
  <1>3. ASSUME EndReceipts PROVE NoNewSlot
    BY <1>3 DEF NoNewSlot, EndReceipts
  <1>4. ASSUME NoSlot PROVE NoNewSlot
    BY <1>4 DEF NoNewSlot, NoSlot, TickEnds
  <1>5. ASSUME StartBatch PROVE NoNewSlot
    BY <1>5 DEF NoNewSlot, StartBatch, SafeQueue
  <1>6. ASSUME EndQueue PROVE NoNewSlot
    BY <1>6 DEF NoNewSlot, EndQueue, TickEnds
  <1>7. ASSUME SendRefused PROVE NoNewSlot
    BY <1>7 DEF NoNewSlot, SendRefused
  <1>8. ASSUME AbortTick PROVE NoNewSlot
    BY <1>8 DEF NoNewSlot, AbortTick, TickEnds
  <1>9. ASSUME BatchGasPriceFails PROVE NoNewSlot
    BY <1>9 DEF NoNewSlot, BatchGasPriceFails, TickEnds
  <1>10. ASSUME Crash PROVE NoNewSlot
    BY <1>10 DEF NoNewSlot, Crash, TickEnds
  <1>11. ASSUME NEW s \in Services, CooldownEnds(s) PROVE NoNewSlot
    BY <1>11 DEF NoNewSlot, CooldownEnds
  <1>12. ASSUME NEW s \in Services, Rebuild(s) PROVE NoNewSlot
    BY <1>12 DEF NoNewSlot, Rebuild
  <1>13. ASSUME NEW j \in Jobs, CheckReceipt(j) PROVE NoNewSlot
    BY <1>13 DEF NoNewSlot, CheckReceipt, MarkRetryOrFail, MarkReceiptConfirmed
  <1>14. ASSUME NEW j \in Jobs, StartSingle(j) PROVE NoNewSlot
    BY <1>14 DEF NoNewSlot, StartSingle, SafeQueue
  <1>15. ASSUME NEW j \in Jobs, Mark(j) PROVE NoNewSlot
    BY <1>15 DEF NoNewSlot, Mark, MarkProcessing
  <1>16. ASSUME NEW j \in Jobs, Record(j) PROVE NoNewSlot
    BY <1>16 DEF NoNewSlot, Record, TickEnds, MarkSubmitted, MarkFailed, MarkRetryOrFail
  <1>17. ASSUME NEW j \in Jobs, Discover(j) PROVE NoNewSlot
    BY <1>17 DEF NoNewSlot, Discover, Upsert
  <1>18. ASSUME NEW j \in Jobs, FrontendSweep(j) PROVE NoNewSlot
    BY <1>18 DEF NoNewSlot, FrontendSweep, Upsert
  <1>19. ASSUME NEW j \in Jobs, BackoffEnds(j) PROVE NoNewSlot
    BY <1>19 DEF NoNewSlot, BackoffEnds
  <1>20. ASSUME NEW j \in Jobs, GoesStale(j) PROVE NoNewSlot
    BY <1>20 DEF NoNewSlot, GoesStale
  <1>21. ASSUME NEW j \in Jobs, ReceiptTimesOut(j) PROVE NoNewSlot
    BY <1>21 DEF NoNewSlot, ReceiptTimesOut
  <1>22. ASSUME NEW t \in TxIds, SendAccepted(t) PROVE NoNewSlot
    BY <1>22 DEF NoNewSlot, SendAccepted
  <1>23. ASSUME NEW t \in TxIds, SendResponseLost(t) PROVE NoNewSlot
    BY <1>23 DEF NoNewSlot, SendResponseLost
  <1>24. ASSUME NEW t \in TxIds, Mine(t) PROVE NoNewSlot
    BY <1>24 DEF NoNewSlot, Mine
  <1>25. ASSUME NEW t \in TxIds, Revert(t) PROVE NoNewSlot
    BY <1>25 DEF NoNewSlot, Revert
  <1>26. ASSUME UNCHANGED vars PROVE NoNewSlot
    BY <1>26 DEF NoNewSlot, vars
  <1> QED
    BY <1>1, <1>2, <1>3, <1>4, <1>5, <1>6, <1>7, <1>8, <1>9, <1>10, <1>11, <1>12, <1>13, <1>14, <1>15, <1>16, <1>17, <1>18, <1>19, <1>20, <1>21, <1>22, <1>23, <1>24, <1>25, <1>26 DEF Next, Tick

(* A service keeps the mode it was configured with, and the chain forgets   *)
(* nothing.                                                                *)
LEMMA ChainGrows ==
  RowInv /\ [Next]_vars =>
    /\ relayer' = relayer
    /\ redeemed \subseteq redeemed'
    /\ \A t \in TxIds : txState[t] # "unused" =>
         /\ txJobs'[t] = txJobs[t] /\ txBy'[t] = txBy[t]
         /\ txState[t] = "success" => txState'[t] = "success"
  BY DEF RowInv, TypeOK, Next, Tick, TickEnds, vars, chainVars, StartTick, EndDiscovery, EndReceipts, ListJobs, NoSlot,
     StartBatch, EndQueue, SendRefused, CheckReceipt, StartSingle, Mark, Record,
     SendAccepted, SendResponseLost, AbortTick, BatchGasPriceFails, Crash, CooldownEnds, Rebuild,
     Discover, FrontendSweep, BackoffEnds, GoesStale, ReceiptTimesOut, Mine, Revert

(* A row in flight was in flight under that hash before, or is being        *)
(* recorded by the running tick.                                           *)
LEMMA NewInFlight ==
  ASSUME RowInv, [Next]_vars, NEW j \in Submitted'
  PROVE  \/ j \in Submitted /\ txHash'[j] = txHash[j]
         \/ Record(j) /\ outcome \in TxIds /\ txHash'[j] = outcome
  <1> USE DEF RowInv, TypeOK, Submitted, jobVars
  <1>1. CASE \E i \in Jobs : Record(i)
    <2>1. PICK i \in Jobs : Record(i)
      BY <1>1
    <2>2. i # j => status'[j] = status[j] /\ txHash'[j] = txHash[j]
      BY <2>1 DEF Record, MarkSubmitted, MarkRetryOrFail, MarkFailed
    <2>3. i = j => outcome \in TxIds /\ txHash'[j] = outcome
      BY <2>1 DEF Record, MarkSubmitted, MarkRetryOrFail, MarkFailed
    <2> QED
      BY <2>1, <2>2, <2>3
  <1>2. CASE ~\E i \in Jobs : Record(i)
    BY <1>2 DEF Next, Tick, TickEnds, vars, chainVars, StartTick, EndDiscovery, EndReceipts, ListJobs, NoSlot,
     StartBatch, EndQueue, SendRefused, CheckReceipt, StartSingle, Mark, Record,
     SendAccepted, SendResponseLost, AbortTick, BatchGasPriceFails, Crash, CooldownEnds, Rebuild,
     Discover, FrontendSweep, BackoffEnds, GoesStale, ReceiptTimesOut, Mine, Revert,
     Upsert, MarkProcessing, MarkRetryOrFail, MarkReceiptConfirmed, RecoverStale
  <1> QED
    BY <1>1, <1>2

(* What a step may add to the rows in flight of services with a small cap:  *)
(* rows of the running tick, whose service then has such a cap.            *)
LEMMA SentUnderNext ==
  ASSUME RowInv, [Next]_vars, NEW s \in Services
  PROVE  \/ SentUnder(s)' \subseteq SentUnder(s)
         \/ /\ cur # {} /\ MaxInflight(svc) <= MaxInflight(s) /\ svc \in Services
            /\ SentUnder(s)' \subseteq Submitted \cup cur
  <1>1. relayer' = relayer
    BY ChainGrows
  <1>2. ASSUME NEW j \in SentUnder(s)', j \in Submitted, txHash'[j] = txHash[j]
        PROVE  j \in SentUnder(s)
    <2>1. txHash[j] \in TxIds /\ txState[txHash[j]] # "unused"
      BY <1>2 DEF RowInv, HashIsOwn, ChainFacts, Submitted
    <2>2. txBy'[txHash'[j]] = txBy[txHash[j]]
      BY <1>2, <2>1, ChainGrows
    <2> QED
      BY <1>1, <1>2, <2>2 DEF SentUnder, MaxInflight
  <1>3. ASSUME NEW j \in SentUnder(s)', Record(j), outcome \in TxIds, txHash'[j] = outcome
        PROVE  j \in cur /\ MaxInflight(svc) <= MaxInflight(s) /\ svc \in Services
    <2>1. j \in cur /\ txBy[outcome] = svc /\ pc = "record"
      BY <1>3 DEF Record, RowInv, HeldRows, HashIsOwn
    <2>2. txBy' = txBy /\ svc \in Services
      BY <1>3, <2>1 DEF Record, chainVars, RowInv, TypeOK
    <2> QED
      BY <1>1, <1>3, <2>1, <2>2 DEF SentUnder, MaxInflight
  <1>4. \A j \in SentUnder(s)' : j \in Submitted'
    BY DEF SentUnder
  <1> QED
    BY <1>2, <1>3, <1>4, NewInFlight DEF SentUnder

(* available_slots never hands out more than is free, counted over the rows *)
(* of every owner.                                                         *)
LEMMA SlotsNext == RowInv /\ SlotsReserved /\ [Next]_vars => SlotsReserved'
  <1> SUFFICES ASSUME RowInv, SlotsReserved, [Next]_vars, (queue \cup cur)' # {}
               PROVE  Cardinality(Holders') <= MaxInflight(svc)'
    BY DEF SlotsReserved, Holders
  <1>1. IsFiniteSet(Holders) /\ IsFiniteSet(Submitted)
    <2>1. Holders \subseteq Jobs /\ Submitted \subseteq Jobs
      BY DEF RowInv, TypeOK, Submitted, Holders
    <2> QED
      BY <2>1, FS_Subset, AutoClaimAssumption
  <1>2. CASE NoNewSlot
    <2>1. queue \cup cur # {} /\ svc' = svc /\ Holders' \subseteq Holders
      BY <1>2 DEF NoNewSlot
    <2>2. IsFiniteSet(Holders') /\ Cardinality(Holders') <= Cardinality(Holders)
      BY <1>1, <2>1, FS_Subset
    <2>3. svc \in Services
      BY <2>1 DEF RowInv, TypeOK, HeldRows
    <2>4. /\ Cardinality(Holders') \in Nat /\ Cardinality(Holders) \in Nat
          /\ MaxInflight(svc) \in Nat /\ MaxInflight(svc)' = MaxInflight(svc)
      BY <1>1, <2>1, <2>2, <2>3, FS_CardinalityType, ChainGrows, AutoClaimAssumption DEF MaxInflight
    <2> QED
      BY <2>1, <2>2, <2>4 DEF SlotsReserved, Holders
  <1>3. CASE ListJobs
    <2>1. PICK q \in SUBSET Listable :
            Cardinality(q) <= MaxInflight(svc) - Cardinality(Submitted) /\ queue' = q
      BY <1>3 DEF ListJobs
    <2>2. cur' = {} /\ Submitted' = Submitted /\ svc' = svc /\ svc \in Services
      BY <1>3 DEF ListJobs, RowInv, TypeOK, HeldRows, Submitted, jobVars
    <2>3. q \subseteq Jobs
      BY <2>1 DEF Listable
    <2>4. IsFiniteSet(q)
      BY <2>3, FS_Subset, AutoClaimAssumption
    <2>5. Cardinality(Submitted \cup q) =
            Cardinality(Submitted) + Cardinality(q) - Cardinality(Submitted \cap q)
      BY <1>1, <2>4, FS_Union
    <2>6. IsFiniteSet(Submitted \cap q)
      BY <2>4, FS_Intersection
    <2>7. /\ Cardinality(Submitted) \in Nat /\ Cardinality(q) \in Nat
          /\ Cardinality(Submitted \cap q) \in Nat
      BY <1>1, <2>4, <2>6, FS_CardinalityType
    <2>8. MaxInflight(svc) \in Nat /\ MaxInflight(svc)' = MaxInflight(svc)
      BY <2>2, ChainGrows, AutoClaimAssumption DEF MaxInflight
    <2>9. Cardinality(Submitted \cup q) <= MaxInflight(svc)
      BY <2>1, <2>5, <2>7, <2>8
    <2>10. Holders' = Submitted \cup q
      BY <2>1, <2>2 DEF Holders
    <2> QED
      BY <2>8, <2>9, <2>10
  <1> QED
    BY <1>2, <1>3, OnlyListingReserves

(* A slot that is used was reserved.                                       *)
LEMMA InflightNext == RowInv /\ SlotsReserved /\ InflightBound /\ [Next]_vars => InflightBound'
  <1> SUFFICES ASSUME RowInv, SlotsReserved, InflightBound, [Next]_vars, NEW s \in Services
               PROVE  Cardinality(SentUnder(s)') <= MaxInflight(s)'
    BY DEF InflightBound
  <1>1. MaxInflight(s) \in Nat /\ MaxInflight(s)' = MaxInflight(s)
    BY ChainGrows, AutoClaimAssumption DEF MaxInflight
  <1>2. IsFiniteSet(SentUnder(s)) /\ IsFiniteSet(Holders)
    <2>1. SentUnder(s) \subseteq Jobs /\ Holders \subseteq Jobs
      BY DEF RowInv, TypeOK, SentUnder, Submitted, Holders
    <2> QED
      BY <2>1, FS_Subset, AutoClaimAssumption
  <1>3. CASE SentUnder(s)' \subseteq SentUnder(s)
    <2>1. IsFiniteSet(SentUnder(s)') /\ Cardinality(SentUnder(s)') <= Cardinality(SentUnder(s))
      BY <1>2, <1>3, FS_Subset
    <2>2. Cardinality(SentUnder(s)') \in Nat /\ Cardinality(SentUnder(s)) \in Nat
      BY <1>2, <2>1, FS_CardinalityType
    <2> QED
      BY <1>1, <2>1, <2>2 DEF InflightBound
  <1>4. CASE /\ cur # {} /\ MaxInflight(svc) <= MaxInflight(s) /\ svc \in Services
             /\ SentUnder(s)' \subseteq Submitted \cup cur
    <2>1. SentUnder(s)' \subseteq Holders
      BY <1>4 DEF Holders
    <2>2. IsFiniteSet(SentUnder(s)') /\ Cardinality(SentUnder(s)') <= Cardinality(Holders)
      BY <1>2, <2>1, FS_Subset
    <2>3. Cardinality(SentUnder(s)') \in Nat /\ Cardinality(Holders) \in Nat
      BY <1>2, <2>2, FS_CardinalityType
    <2>4. Cardinality(Holders) <= MaxInflight(svc)
      BY <1>4 DEF SlotsReserved, Holders
    <2>5. MaxInflight(svc) \in Nat
      BY <1>4, AutoClaimAssumption DEF MaxInflight
    <2> QED
      BY <1>1, <1>4, <2>2, <2>3, <2>4, <2>5
  <1> QED
    BY <1>3, <1>4, SentUnderNext

(* The type invariant of the pipeline holds in every reachable state.      *)
THEOREM AutoClaimTypes == Spec => []TypeOK
  BY RowInvInit, RowInvNext, PTL DEF Spec, RowInv

(* No row outlives its attempts: retries, recoveries after a crash and     *)
(* sweeps never leave a live row with its attempts used up.                *)
THEOREM AutoClaimAttempts == Spec => []AttemptsLeft
  BY RowInvInit, RowInvNext, PTL DEF Spec, RowInv

(* The rows a loop of the tick holds stay in the status it left them in,   *)
(* whatever the sweep of the other process upserts meanwhile.              *)
THEOREM AutoClaimHeld == Spec => []HeldRows
  BY RowInvInit, RowInvNext, PTL DEF Spec, RowInv

(* A submitted row names a transaction that was sent for it, also when two *)
(* transactions of one row are in flight after a timeout.                  *)
THEOREM AutoClaimHashes == Spec => []HashIsOwn
  BY RowInvInit, RowInvNext, PTL DEF Spec, RowInv

(* For every set of services, modes and batch sizes: the rows in flight     *)
(* under services with a cap no larger than a given one stay within it,    *)
(* through crashes, aborted ticks and sweeps, although the table is shared *)
(* (max_inflight_claim_jobs, maybe_tick).                                  *)
THEOREM AutoClaimInflight == Spec => []InflightBound
  <1>1. Init => SlotsReserved /\ InflightBound
    <2> SUFFICES ASSUME Init PROVE SlotsReserved /\ InflightBound
      OBVIOUS
    <2>1. queue \cup cur = {} /\ \A s \in Services : SentUnder(s) = {}
      BY DEF Init, Submitted, SentUnder
    <2>2. \A s \in Services : MaxInflight(s) \in Nat
      BY AutoClaimAssumption DEF MaxInflight
    <2> QED
      BY <2>1, <2>2, FS_EmptySet DEF SlotsReserved, InflightBound
  <1> QED
    BY <1>1, RowInvInit, RowInvNext, SlotsNext, InflightNext, PTL DEF Spec

(* A row is marked claimed only when its collateral was redeemed, or when a *)
(* service of another user that is not in relayer mode sent it from its    *)
(* own wallet (check_submitted_receipts, submit_redeem_tx).                *)
THEOREM AutoClaimSound == Spec => []ClaimedIsRedeemed
  <1>1. Init => ClaimedIsRedeemed
    BY DEF Init, ClaimedIsRedeemed
  <1>2. RowInv /\ ClaimedIsRedeemed /\ [Next]_vars => ClaimedIsRedeemed'
    <2> SUFFICES ASSUME RowInv, ClaimedIsRedeemed, [Next]_vars, NEW j \in Jobs,
                        status'[j] = "claimed"
                 PROVE j \in redeemed' \/ SentByStranger(j)'
      BY DEF ClaimedIsRedeemed
    <2>1. j \in redeemed \/ SentByStranger(j) => j \in redeemed' \/ SentByStranger(j)'
      BY ChainGrows DEF SentByStranger
    <2>2. CASE status[j] = "claimed"
      BY <2>1, <2>2 DEF ClaimedIsRedeemed
    <2>3. CASE status[j] # "claimed"
      <3>1. CheckReceipt(j) /\ txHash[j] # NoTx /\ txState[txHash[j]] = "success"
        <4>1. ASSUME NEW i \in Jobs, CheckReceipt(i) PROVE i = j
          BY <2>3, <4>1 DEF CheckReceipt, RowInv, TypeOK, MarkRetryOrFail, MarkReceiptConfirmed, jobVars
        <4>2. \E i \in Jobs : CheckReceipt(i)
          BY <2>3 DEF RowInv, TypeOK, jobVars, Upsert,
             MarkProcessing, MarkSubmitted, MarkRetryOrFail, MarkFailed, RecoverStale,
             Next, Tick, vars, StartTick, EndDiscovery, EndReceipts, ListJobs, NoSlot,
             StartBatch, EndQueue, SendRefused, StartSingle, Mark, Record,
             SendAccepted, SendResponseLost, AbortTick, BatchGasPriceFails, Crash, CooldownEnds,
             Rebuild, Discover, FrontendSweep, BackoffEnds, GoesStale, ReceiptTimesOut, Mine, Revert
        <4>3. CheckReceipt(j)
          BY <4>1, <4>2
        <4> QED
          BY <2>3, <4>3 DEF CheckReceipt, RowInv, TypeOK, MarkRetryOrFail, MarkReceiptConfirmed, jobVars
      <3>2. j \in txJobs[txHash[j]] /\ txHash[j] \in TxIds
        BY <3>1 DEF CheckReceipt, RowInv, HeldRows, HashIsOwn, Submitted
      <3>3. CASE j \in Own(txBy[txHash[j]])
        BY <2>1, <3>1, <3>2, <3>3 DEF RowInv, ChainFacts
      <3>4. CASE j \notin Own(txBy[txHash[j]])
        <4>1. txBy[txHash[j]] \notin relayer
          BY <3>2, <3>4 DEF RowInv, ChainFacts, Own
        <4> QED
          BY <2>1, <3>1, <3>2, <3>4, <4>1 DEF SentByStranger
      <3> QED
        BY <3>3, <3>4
    <2> QED
      BY <2>2, <2>3
  <1> QED
    BY <1>1, <1>2, RowInvInit, RowInvNext, PTL DEF Spec

(* A claimed row stays claimed and nothing more is sent for it.            *)
THEOREM AutoClaimFinal == Spec => ClaimedIsFinal
  <1>1. RowInv /\ [Next]_vars => ClaimedKept \/ UNCHANGED vars
    <2> SUFFICES ASSUME RowInv, Next, NEW j \in Jobs, status[j] = "claimed"
                 PROVE /\ status'[j] = "claimed"
                       /\ \A t \in TxIds : j \in txJobs'[t] => j \in txJobs[t]
      BY DEF ClaimedKept
    <2>1. pc = "send" => j \notin cur
      BY DEF RowInv, HeldRows
    <2>2. status'[j] = "claimed"
      <3> USE DEF RowInv, TypeOK, HeldRows, Submitted, jobVars
      <3>1. ASSUME NEW s \in Services, StartTick(s) PROVE status'[j] = "claimed"
        BY <3>1 DEF StartTick, RecoverStale
      <3>2. ASSUME NEW i \in Jobs, CheckReceipt(i) PROVE status'[j] = "claimed"
        BY <3>2 DEF CheckReceipt, MarkRetryOrFail, MarkReceiptConfirmed
      <3>3. ASSUME NEW i \in Jobs, Mark(i) PROVE status'[j] = "claimed"
        BY <3>3 DEF Mark, MarkProcessing
      <3>4. ASSUME NEW i \in Jobs, Record(i) PROVE status'[j] = "claimed"
        BY <3>4 DEF Record, MarkSubmitted, MarkFailed, MarkRetryOrFail
      <3>5. ASSUME NEW i \in Jobs, Discover(i) \/ FrontendSweep(i) PROVE status'[j] = "claimed"
        BY <3>5 DEF Discover, FrontendSweep, Upsert
      <3>6. status' = status \/ (\E s \in Services : StartTick(s))
              \/ \E i \in Jobs : \/ CheckReceipt(i) \/ Mark(i) \/ Record(i)
                               \/ Discover(i) \/ FrontendSweep(i)
        BY DEF Next, Tick, EndDiscovery, EndReceipts, ListJobs, NoSlot, StartBatch, EndQueue,
           SendRefused, StartSingle, SendAccepted, SendResponseLost, AbortTick, BatchGasPriceFails,
           Crash, CooldownEnds, Rebuild, BackoffEnds, GoesStale, ReceiptTimesOut, Mine, Revert
      <3> QED
        BY <3>1, <3>2, <3>3, <3>4, <3>5, <3>6
    <2>3. ASSUME NEW t \in TxIds, j \in txJobs'[t] PROVE j \in txJobs[t]
      BY <2>1, <2>3 DEF RowInv, TypeOK, Next, Tick, chainVars, StartTick, EndDiscovery, EndReceipts,
         ListJobs, NoSlot, StartBatch, EndQueue, SendRefused, CheckReceipt, StartSingle, Mark,
         Record, SendAccepted, SendResponseLost, AbortTick, BatchGasPriceFails, Crash,
         CooldownEnds, Rebuild, Discover, FrontendSweep, BackoffEnds, GoesStale, ReceiptTimesOut, Mine, Revert
    <2> QED
      BY <2>2, <2>3
  <1> QED
    BY <1>1, RowInvInit, RowInvNext, PTL DEF Spec, ClaimedIsFinal
=============================================================================
