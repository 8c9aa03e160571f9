-------------------------- MODULE FlowEngineProofs --------------------------
(***************************************************************************)
(* Proofs about FlowEngine for any steps, faults and bounds on versions    *)
(* and runs.                                                               *)
(***************************************************************************)
EXTENDS FlowEngine, TLAPS

StepPcs == {"checked", "exec", "pair", "reread", "abort", "complete", "failed", "enqueue"}

\* What the engine has in hand: a step that was claimed, executed only after
\* both checks, or a run that exists.
HandInv ==
  /\ pc \in StepPcs <=> cur # NoStep
  /\ cur \notin batch
  /\ pc \in StepPcs => stepSt[cur] \notin {"none", "queued"}
  /\ pc \in {"checked", "exec"} => cur \notin executed
  /\ pc \in {"cancel", "stale", "seed"} => old \in Runs /\ runSt[old] # "none"

\* What can still be executed has not been, and steps belong to runs.
StepInv ==
  /\ \A s \in Steps : stepSt[s] \in {"none", "queued"} => s \notin executed
  /\ \A s \in batch : stepSt[s] \notin {"none", "queued"} /\ s \notin executed
  /\ \A s \in Steps : stepSt[s] # "none" =>
                        stepRun[s] \in Runs /\ runSt[stepRun[s]] # "none"
  /\ \A s \in feSteps : stepSt[s] # "none"

\* A stop in progress has every run and, from its second statement on, every
\* order; after it, a step that is still at work belongs to no running run.
StopInv ==
  /\ fe = "idle" => feRuns = {} /\ feSteps = {} /\ feOrds = {}
  /\ fe # "idle" => def = "published" /\ Running \subseteq feRuns
  /\ fe = "orders" => \A s \in Steps : 
       ord[s] = "active" \/ ctr[s] = "active" => s \in feOrds
  /\ def = "stopped" /\ pc \in {"exec", "pair", "reread"} => stepRun[cur] \notin Running
  /\ StoppedHasNoOrders

IInv == TypeOK /\ AtMostOnce /\ HandInv /\ StepInv /\ StopInv

---------------------------------------------------------------------------
\* enqueue_trade_flow_step fills a free id and touches no other step.
LEMMA EnqueueKeeps ==
  ASSUME TypeOK, StepInv, NEW r \in Runs, runSt[r] # "none", Enqueue(r),
         UNCHANGED <<runSt, batch, feSteps, executed>>
  PROVE  /\ stepSt' \in [Steps -> StepStatuses] /\ stepRun' \in [Steps -> Runs \cup {0}]
         /\ \A s \in Steps : stepSt[s] # "none" =>
                               stepSt'[s] = stepSt[s] /\ stepRun'[s] = stepRun[s]
         /\ StepInv'
<1>1. CASE UNCHANGED stepVars
  BY <1>1 DEF stepVars, TypeOK, StepInv
<1>2. CASE \E s \in Steps : /\ stepSt[s] = "none"
                            /\ stepSt' = [stepSt EXCEPT ![s] = "queued"]
                            /\ stepRun' = [stepRun EXCEPT ![s] = r]
  <2>1. PICK s \in Steps : /\ stepSt[s] = "none"
                           /\ stepSt' = [stepSt EXCEPT ![s] = "queued"]
                           /\ stepRun' = [stepRun EXCEPT ![s] = r]
    BY <1>2
  <2>2. stepSt' \in [Steps -> StepStatuses] /\ stepRun' \in [Steps -> Runs \cup {0}]
    BY <2>1 DEF TypeOK, StepStatuses
  <2>3. \A t \in Steps : stepSt[t] # "none" =>
                           stepSt'[t] = stepSt[t] /\ stepRun'[t] = stepRun[t]
    BY <2>1 DEF TypeOK
  <2>4. StepInv'
    BY <2>1 DEF TypeOK, StepInv
  <2> QED
    BY <2>2, <2>3, <2>4
<1> QED
  BY <1>1, <1>2, Zenon DEF Enqueue

LEMMA InitHolds == Init => IInv
BY FlowAssumption
   DEF Init, IInv, TypeOK, AtMostOnce, HandInv, StepInv, StopInv, StoppedHasNoOrders,
       Running, StepPcs, Pcs, RunStatuses, StepStatuses, Versions

---------------------------------------------------------------------------
(* The synchronization of the run.                                         *)

\* Reading the list of published definitions preserves the invariant.
LEMMA LoadDefinitionsHolds ==
  ASSUME IInv, LoadDefinitions
  PROVE  IInv'
<1> USE FlowAssumption DEF ordVars, IInv, LoadDefinitions, defVars, runVars, stepVars,
                           feVars, history
<1>1. TypeOK'
  BY DEF TypeOK, Pcs, Versions
<1>2. AtMostOnce' /\ HandInv'
  BY DEF AtMostOnce, HandInv, StepPcs
<1>3. StepInv'
  BY DEF StepInv
<1>4. StopInv'
  BY DEF StopInv, StoppedHasNoOrders, Running
<1> QED
  BY <1>1, <1>2, <1>3, <1>4

\* Looking for the active run preserves the invariant.
LEMMA SyncHolds ==
  ASSUME IInv, Sync
  PROVE  IInv'
<1> USE FlowAssumption DEF ordVars, IInv, Sync, Running, defVars, runVars, stepVars, feVars,
                           history
<1>1. TypeOK'
  BY DEF TypeOK, Pcs
<1>2. AtMostOnce' /\ HandInv'
  BY DEF AtMostOnce, HandInv, StepPcs
<1>3. StepInv'
  BY DEF StepInv
<1>4. StopInv'
  BY DEF StopInv, StoppedHasNoOrders
<1> QED
  BY <1>1, <1>2, <1>3, <1>4

\* Canceling the run of another version preserves the invariant.
LEMMA CancelOldHolds ==
  ASSUME IInv, CancelOld
  PROVE  IInv'
<1> USE FlowAssumption DEF ordVars, IInv, CancelOld, defVars, stepVars, feVars, history
<1>1. TypeOK'
  BY DEF TypeOK, Pcs, RunStatuses
<1>2. AtMostOnce' /\ HandInv'
  BY DEF AtMostOnce, HandInv, StepPcs
<1>3. StepInv'
  BY DEF StepInv
<1>4. StopInv'
  BY DEF StopInv, StoppedHasNoOrders, Running
<1> QED
  BY <1>1, <1>2, <1>3, <1>4

\* The second look for an active run preserves the invariant.
LEMMA CleanUpHolds ==
  ASSUME IInv, CleanUp
  PROVE  IInv'
<1> USE FlowAssumption DEF ordVars, IInv, CleanUp, Running, defVars, runVars, stepVars,
                           feVars, history
<1>1. TypeOK'
  BY DEF TypeOK, Pcs
<1>2. AtMostOnce' /\ HandInv'
  BY DEF AtMostOnce, HandInv, StepPcs
<1>3. StepInv'
  BY DEF StepInv
<1>4. StopInv'
  BY DEF StopInv, StoppedHasNoOrders
<1> QED
  BY <1>1, <1>2, <1>3, <1>4

\* Inserting a run, which no step can belong to yet, preserves the invariant.
LEMMA InsertHolds ==
  ASSUME IInv, NEW r \in Runs, Insert(r)
  PROVE  IInv'
<1> USE FlowAssumption DEF ordVars, IInv, Insert, NewRun, defVars, stepVars, feVars, history
<1>1. TypeOK'
  BY DEF TypeOK, Pcs, RunStatuses
<1>2. AtMostOnce' /\ HandInv'
  BY DEF TypeOK, AtMostOnce, HandInv, StepPcs
<1>3. StepInv'
  BY DEF StepInv
<1>4. StopInv'
  BY DEF StopInv, StoppedHasNoOrders
<1> QED
  BY <1>1, <1>2, <1>3, <1>4

\* An insert that the unique index refuses preserves the invariant.
LEMMA InsertRefusedHolds ==
  ASSUME IInv, InsertRefused
  PROVE  IInv'
<1> USE FlowAssumption DEF ordVars, IInv, InsertRefused, Goto, defVars, runVars, stepVars,
                           feVars, history
<1>1. TypeOK'
  BY DEF TypeOK, Pcs
<1>2. AtMostOnce' /\ HandInv'
  BY DEF AtMostOnce, HandInv, StepPcs
<1>3. StepInv'
  BY DEF StepInv
<1>4. StopInv'
  BY DEF StopInv, StoppedHasNoOrders
<1> QED
  BY <1>1, <1>2, <1>3, <1>4

\* Seeding the new run preserves the invariant.
LEMMA SeedHolds ==
  ASSUME IInv, Seed
  PROVE  IInv'
<1> USE FlowAssumption DEF ordVars, IInv, Seed, defVars, runVars, feVars, history
<1>1. old \in Runs /\ runSt[old] # "none" /\ Enqueue(old)
  BY DEF TypeOK, HandInv, StepInv, StepPcs
<1>2. /\ stepSt' \in [Steps -> StepStatuses] /\ stepRun' \in [Steps -> Runs \cup {0}]
      /\ \A t \in Steps : stepSt[t] # "none" =>
                            stepSt'[t] = stepSt[t] /\ stepRun'[t] = stepRun[t]
      /\ StepInv'
  BY <1>1, EnqueueKeeps
<1>3. TypeOK'
  BY <1>2 DEF TypeOK, Pcs
<1>4. AtMostOnce' /\ HandInv'
  BY <1>2 DEF AtMostOnce, HandInv, StepPcs
<1>5. StopInv'
  BY <1>2 DEF StopInv, StoppedHasNoOrders, Running
<1> QED
  BY <1>2, <1>3, <1>4, <1>5

\* A tick of the market stream preserves the invariant.
LEMMA WsEnqueueHolds ==
  ASSUME IInv, NEW r \in Runs, WsEnqueue(r)
  PROVE  IInv'
<1> USE FlowAssumption DEF ordVars, IInv, WsEnqueue, Goto, defVars, runVars, feVars, history
<1>1. r \in Runs /\ runSt[r] # "none" /\ Enqueue(r)
  OBVIOUS
<1>2. /\ stepSt' \in [Steps -> StepStatuses] /\ stepRun' \in [Steps -> Runs \cup {0}]
      /\ \A t \in Steps : stepSt[t] # "none" =>
                            stepSt'[t] = stepSt[t] /\ stepRun'[t] = stepRun[t]
      /\ StepInv'
  BY <1>1, EnqueueKeeps
<1>3. TypeOK'
  BY <1>2 DEF TypeOK, Pcs
<1>4. AtMostOnce' /\ HandInv'
  BY <1>2 DEF AtMostOnce, HandInv, StepPcs
<1>5. StopInv'
  BY <1>2 DEF StopInv, StoppedHasNoOrders, Running
<1> QED
  BY <1>2, <1>3, <1>4, <1>5

\* A re-entry or a time exit that a fill schedules preserves the invariant.
LEMMA FillEnqueueHolds ==
  ASSUME IInv, NEW r \in Runs, FillEnqueue(r)
  PROVE  IInv'
<1> USE FlowAssumption DEF ordVars, IInv, FillEnqueue, defVars, runVars, engVars, feVars,
                           history
<1>1. r \in Runs /\ runSt[r] # "none" /\ Enqueue(r)
  OBVIOUS
<1>2. /\ stepSt' \in [Steps -> StepStatuses] /\ stepRun' \in [Steps -> Runs \cup {0}]
      /\ \A t \in Steps : stepSt[t] # "none" =>
                            stepSt'[t] = stepSt[t] /\ stepRun'[t] = stepRun[t]
      /\ StepInv'
  BY <1>1, EnqueueKeeps
<1>3. TypeOK'
  BY <1>2 DEF TypeOK, Pcs
<1>4. AtMostOnce' /\ HandInv'
  BY <1>2 DEF TypeOK, AtMostOnce, HandInv, StepPcs
<1>5. StopInv'
  BY <1>2 DEF TypeOK, HandInv, StepPcs, StopInv, StoppedHasNoOrders, Running
<1> QED
  BY <1>2, <1>3, <1>4, <1>5

---------------------------------------------------------------------------
(* The processing of steps.                                                *)

\* Claiming queued steps, none of which has been executed, preserves the
\* invariant.
LEMMA ClaimHolds ==
  ASSUME IInv, Claim
  PROVE  IInv'
<1> USE FlowAssumption DEF ordVars, IInv, Claim, defVars, runVars, feVars, history
<1>1. TypeOK'
  BY DEF TypeOK, Pcs, StepStatuses, Versions
<1>2. AtMostOnce' /\ HandInv'
  BY DEF AtMostOnce, HandInv, StepPcs
<1>3. StepInv'
  BY DEF TypeOK, StepInv
<1>4. StopInv'
  BY DEF StopInv, StoppedHasNoOrders, Running
<1> QED
  BY <1>1, <1>2, <1>3, <1>4

\* The end of a batch preserves the invariant.
LEMMA EndBatchHolds ==
  ASSUME IInv, EndBatch
  PROVE  IInv'
<1> USE FlowAssumption DEF ordVars, IInv, EndBatch, defVars, runVars, stepVars, feVars,
                           history
<1>1. TypeOK'
  BY DEF TypeOK, Pcs
<1>2. AtMostOnce' /\ HandInv'
  BY DEF AtMostOnce, HandInv, StepPcs
<1>3. StepInv'
  BY DEF StepInv
<1>4. StopInv'
  BY DEF StopInv, StoppedHasNoOrders, Running
<1> QED
  BY <1>1, <1>2, <1>3, <1>4

\* Reading the run before a step preserves the invariant.
LEMMA CheckRunHolds ==
  ASSUME IInv, NEW s \in Steps, CheckRun(s)
  PROVE  IInv'
<1> USE FlowAssumption DEF ordVars, IInv, CheckRun, Running, defVars, runVars, feVars,
                           history
<1>1. TypeOK'
  BY DEF TypeOK, Pcs, StepStatuses
<1>2. AtMostOnce' /\ HandInv'
  BY DEF TypeOK, AtMostOnce, HandInv, StepPcs, StepInv
<1>3. StepInv'
  BY DEF TypeOK, StepInv
<1>4. StopInv'
  BY DEF StopInv, StoppedHasNoOrders
<1> QED
  BY <1>1, <1>2, <1>3, <1>4

\* Reading the definition before a step preserves the invariant.
LEMMA CheckDefinitionHolds ==
  ASSUME IInv, CheckDefinition
  PROVE  IInv'
<1> USE FlowAssumption DEF ordVars, IInv, CheckDefinition, Goto, NextStep, defVars, feVars,
                           history
<1>1. TypeOK'
  BY DEF TypeOK, Pcs, RunStatuses, StepStatuses, HandInv, StepPcs, StepInv
<1>2. AtMostOnce' /\ HandInv'
  BY DEF TypeOK, AtMostOnce, HandInv, StepPcs
<1>3. StepInv'
  BY DEF TypeOK, StepInv, HandInv, StepPcs
<1>4. StopInv'
  BY DEF TypeOK, StopInv, StoppedHasNoOrders, Running
<1> QED
  BY <1>1, <1>2, <1>3, <1>4

\* Executing a node, which inserts an order only while no stop is in progress,
\* preserves the invariant.
LEMMA ExecuteNodeHolds ==
  ASSUME IInv, ExecuteNode
  PROVE  IInv'
<1> USE FlowAssumption DEF ordVars, IInv, ExecuteNode, Goto, defVars, runVars, stepVars,
                           feVars
<1>1. TypeOK'
  BY DEF TypeOK, Pcs, HandInv, StepPcs
<1>2. AtMostOnce' /\ HandInv'
  BY DEF AtMostOnce, HandInv, StepPcs
<1>3. StepInv'
  BY DEF TypeOK, StepInv, HandInv, StepPcs
<1>4. StopInv'
  BY DEF TypeOK, StopInv, StoppedHasNoOrders, Running
<1> QED
  BY <1>1, <1>2, <1>3, <1>4

\* Inserting the counter order of a pair, which waits for a stop in progress
\* as well, preserves the invariant.
LEMMA InsertCounterHolds ==
  ASSUME IInv, InsertCounter
  PROVE  IInv'
<1> USE FlowAssumption DEF ordVars, IInv, InsertCounter, Goto, defVars, runVars, stepVars,
                           feVars
<1>1. TypeOK'
  BY DEF TypeOK, Pcs, HandInv, StepPcs
<1>2. AtMostOnce' /\ HandInv'
  BY DEF AtMostOnce, HandInv, StepPcs
<1>3. StepInv'
  BY DEF StepInv
<1>4. StopInv'
  BY DEF TypeOK, HandInv, StepPcs, StopInv, StoppedHasNoOrders, Running
<1> QED
  BY <1>1, <1>2, <1>3, <1>4

\* A pair without its counter order preserves the invariant.
LEMMA PairFailsHolds ==
  ASSUME IInv, PairFails
  PROVE  IInv'
<1> USE FlowAssumption DEF ordVars, IInv, PairFails, Goto, Open, defVars, runVars, stepVars,
                           feVars
<1>1. TypeOK'
  BY DEF TypeOK, Pcs, HandInv, StepPcs
<1>2. AtMostOnce' /\ HandInv'
  BY DEF AtMostOnce, HandInv, StepPcs
<1>3. StepInv'
  BY DEF StepInv
<1>4. StopInv'
  BY DEF TypeOK, StopInv, StoppedHasNoOrders, Running
<1> QED
  BY <1>1, <1>2, <1>3, <1>4

\* A failing node preserves the invariant.
LEMMA NodeFailsHolds ==
  ASSUME IInv, NodeFails
  PROVE  IInv'
<1> USE FlowAssumption DEF ordVars, IInv, NodeFails, Goto, Open, defVars, runVars, stepVars,
                           feVars
<1>1. TypeOK'
  BY DEF TypeOK, Pcs, HandInv, StepPcs
<1>2. AtMostOnce' /\ HandInv'
  BY DEF AtMostOnce, HandInv, StepPcs
<1>3. StepInv'
  BY DEF TypeOK, StepInv, HandInv, StepPcs
<1>4. StopInv'
  BY DEF StopInv, StoppedHasNoOrders, Running
<1> QED
  BY <1>1, <1>2, <1>3, <1>4

\* Reading the run after the node, which a committed stop has canceled,
\* preserves the invariant.
LEMMA RereadHolds ==
  ASSUME IInv, Reread
  PROVE  IInv'
<1> USE FlowAssumption DEF ordVars, IInv, Reread, Goto, defVars, runVars, stepVars, feVars,
                           history
<1>1. TypeOK'
  BY DEF TypeOK, Pcs
<1>2. AtMostOnce' /\ HandInv'
  BY DEF AtMostOnce, HandInv, StepPcs
<1>3. StepInv'
  BY DEF StepInv
<1>4. StopInv'
  BY DEF StopInv, StoppedHasNoOrders, Running
<1> QED
  BY <1>1, <1>2, <1>3, <1>4

\* Canceling what an aborted step did preserves the invariant.
LEMMA AbortHolds ==
  ASSUME IInv, Abort
  PROVE  IInv'
<1> USE FlowAssumption DEF ordVars, IInv, Abort, NextStep, defVars, runVars, stepVars,
                           feVars, history
<1>1. TypeOK'
  BY DEF TypeOK, Pcs
<1>2. AtMostOnce' /\ HandInv'
  BY DEF TypeOK, AtMostOnce, HandInv, StepPcs
<1>3. StepInv'
  BY DEF StepInv
<1>4. StopInv'
  BY DEF TypeOK, StopInv, StoppedHasNoOrders, Running
<1> QED
  BY <1>1, <1>2, <1>3, <1>4

\* Marking a step preserves the invariant.
LEMMA CompleteHolds ==
  ASSUME IInv, Complete
  PROVE  IInv'
<1> USE FlowAssumption DEF ordVars, IInv, Complete, Goto, defVars, runVars, feVars, history
<1>1. TypeOK'
  BY DEF TypeOK, Pcs, StepStatuses
<1>2. AtMostOnce' /\ HandInv'
  BY DEF AtMostOnce, HandInv, StepPcs
<1>3. StepInv'
  BY DEF TypeOK, StepInv, HandInv, StepPcs
<1>4. StopInv'
  BY DEF StopInv, StoppedHasNoOrders, Running
<1> QED
  BY <1>1, <1>2, <1>3, <1>4

\* Enqueueing further steps preserves the invariant.
LEMMA EnqueueEdgeHolds ==
  ASSUME IInv, EnqueueEdge
  PROVE  IInv'
<1> USE FlowAssumption DEF ordVars, IInv, EnqueueEdge, defVars, runVars, engVars, feVars,
                           history
<1>1. stepRun[cur] \in Runs /\ runSt[stepRun[cur]] # "none" /\ Enqueue(stepRun[cur])
  BY DEF TypeOK, HandInv, StepInv, StepPcs
<1>2. /\ stepSt' \in [Steps -> StepStatuses] /\ stepRun' \in [Steps -> Runs \cup {0}]
      /\ \A t \in Steps : stepSt[t] # "none" =>
                            stepSt'[t] = stepSt[t] /\ stepRun'[t] = stepRun[t]
      /\ StepInv'
  BY <1>1, EnqueueKeeps
<1>3. TypeOK'
  BY <1>2 DEF TypeOK, Pcs
<1>4. AtMostOnce' /\ HandInv'
  BY <1>2 DEF TypeOK, AtMostOnce, HandInv, StepPcs
<1>5. StopInv'
  BY <1>2 DEF StopInv, StoppedHasNoOrders, Running
<1> QED
  BY <1>2, <1>3, <1>4, <1>5

\* The end of a step preserves the invariant.
LEMMA StepDoneHolds ==
  ASSUME IInv, StepDone
  PROVE  IInv'
<1> USE FlowAssumption DEF ordVars, IInv, StepDone, NextStep, defVars, runVars, stepVars,
                           feVars, history
<1>1. TypeOK'
  BY DEF TypeOK, Pcs
<1>2. AtMostOnce' /\ HandInv'
  BY DEF TypeOK, AtMostOnce, HandInv, StepPcs
<1>3. StepInv'
  BY DEF StepInv
<1>4. StopInv'
  BY DEF StopInv, StoppedHasNoOrders, Running
<1> QED
  BY <1>1, <1>2, <1>3, <1>4

---------------------------------------------------------------------------
(* Recovery and faults.                                                    *)

\* Recovery of a stale step preserves the invariant.
LEMMA RecoverStaleHolds ==
  ASSUME IInv, NEW s \in Steps, RecoverStale(s)
  PROVE  IInv'
<1> USE FlowAssumption DEF ordVars, IInv, RecoverStale, defVars, runVars, engVars, feVars,
                           history
<1>1. TypeOK'
  BY DEF TypeOK, Pcs, StepStatuses
<1>2. AtMostOnce' /\ HandInv'
  BY DEF AtMostOnce, HandInv, StepPcs
<1>3. StepInv'
  BY DEF StepInv
<1>4. StopInv'
  BY DEF StopInv, StoppedHasNoOrders, Running
<1> QED
  BY <1>1, <1>2, <1>3, <1>4

\* An error in the processing of a step preserves the invariant.
LEMMA StepFailsHolds ==
  ASSUME IInv, StepFails
  PROVE  IInv'
<1> USE FlowAssumption DEF ordVars, IInv, StepFails, NextStep, Open, defVars, runVars, feVars
<1>1. TypeOK'
  BY DEF TypeOK, Pcs, StepStatuses
<1>2. AtMostOnce' /\ HandInv'
  BY DEF TypeOK, AtMostOnce, HandInv, StepPcs
<1>3. StepInv'
  BY DEF TypeOK, StepInv, HandInv, StepPcs
<1>4. StopInv'
  BY DEF StopInv, StoppedHasNoOrders, Running
<1> QED
  BY <1>1, <1>2, <1>3, <1>4

\* An error in the synchronization preserves the invariant.
LEMMA SyncFailsHolds ==
  ASSUME IInv, SyncFails
  PROVE  IInv'
<1> USE FlowAssumption DEF ordVars, IInv, SyncFails, defVars, runVars, stepVars, feVars,
                           history
<1>1. TypeOK'
  BY DEF TypeOK, Pcs
<1>2. AtMostOnce' /\ HandInv'
  BY DEF AtMostOnce, HandInv, StepPcs
<1>3. StepInv'
  BY DEF StepInv
<1>4. StopInv'
  BY DEF StopInv, StoppedHasNoOrders, Running
<1> QED
  BY <1>1, <1>2, <1>3, <1>4

\* A crash preserves the invariant.
LEMMA CrashHolds ==
  ASSUME IInv, Crash
  PROVE  IInv'
<1> USE FlowAssumption DEF ordVars, IInv, Crash, Open, defVars, runVars, stepVars, feVars
<1>1. TypeOK'
  BY DEF TypeOK, Pcs, Versions, HandInv, StepPcs
<1>2. AtMostOnce' /\ HandInv'
  BY DEF AtMostOnce, HandInv, StepPcs
<1>3. StepInv'
  BY DEF StepInv
<1>4. StopInv'
  BY DEF StopInv, StoppedHasNoOrders, Running
<1> QED
  BY <1>1, <1>2, <1>3, <1>4

---------------------------------------------------------------------------
(* The web application.                                                    *)

\* Publishing preserves the invariant.
LEMMA PublishHolds ==
  ASSUME IInv, NEW r \in Runs, Publish(r)
  PROVE  IInv'
<1> USE FlowAssumption DEF ordVars, IInv, Publish, NewRun, engVars, feVars, history
<1>1. TypeOK'
  BY DEF TypeOK, RunStatuses, StepStatuses, Versions
<1>2. AtMostOnce' /\ HandInv'
  BY DEF TypeOK, AtMostOnce, HandInv, StepPcs
<1>3. StepInv'
  BY DEF TypeOK, StepInv
<1>4. StopInv'
  BY DEF StopInv, StoppedHasNoOrders
<1> QED
  BY <1>1, <1>2, <1>3, <1>4

\* The first statements of a stop preserves the invariant.
LEMMA StopRunsHolds ==
  ASSUME IInv, StopRuns
  PROVE  IInv'
<1> USE FlowAssumption DEF ordVars, IInv, StopRuns, defVars, runVars, stepVars, engVars,
                           history
<1>1. TypeOK'
  BY DEF TypeOK, Running
<1>2. AtMostOnce' /\ HandInv'
  BY DEF AtMostOnce, HandInv, StepPcs
<1>3. StepInv'
  BY DEF StepInv
<1>4. StopInv'
  BY DEF StopInv, StoppedHasNoOrders, Running
<1> QED
  BY <1>1, <1>2, <1>3, <1>4

\* The order statement of a stop preserves the invariant.
LEMMA StopOrdersHolds ==
  ASSUME IInv, StopOrders
  PROVE  IInv'
<1> USE FlowAssumption DEF ordVars, IInv, StopOrders, defVars, runVars, stepVars, engVars,
                           history
<1>1. TypeOK'
  BY DEF TypeOK, Pcs
<1>2. AtMostOnce' /\ HandInv'
  BY DEF AtMostOnce, HandInv, StepPcs
<1>3. StepInv'
  BY DEF StepInv
<1>4. StopInv'
  BY DEF StopInv, StoppedHasNoOrders, Running
<1> QED
  BY <1>1, <1>2, <1>3, <1>4

\* The commit of a stop, which has every run and every order of the flow,
\* preserves the invariant.
LEMMA StopCommitHolds ==
  ASSUME IInv, StopCommit
  PROVE  IInv'
<1> USE FlowAssumption DEF ordVars, IInv, StopCommit, engVars, history
<1>1. TypeOK'
  BY DEF TypeOK, RunStatuses, StepStatuses
<1>2. AtMostOnce' /\ HandInv'
  BY DEF TypeOK, AtMostOnce, HandInv, StepPcs
<1>3. StepInv'
  BY DEF TypeOK, StepInv
<1>4. StopInv'
  BY DEF StopInv, StoppedHasNoOrders, Running
<1> QED
  BY <1>1, <1>2, <1>3, <1>4

\* The rollback of a stop preserves the invariant.
LEMMA StopRollbackHolds ==
  ASSUME IInv, StopRollback
  PROVE  IInv'
<1> USE FlowAssumption DEF ordVars, IInv, StopRollback, defVars, runVars, stepVars, engVars,
                           history
<1>1. TypeOK'
  BY DEF TypeOK, Pcs
<1>2. AtMostOnce' /\ HandInv'
  BY DEF AtMostOnce, HandInv, StepPcs
<1>3. StepInv'
  BY DEF StepInv
<1>4. StopInv'
  BY DEF StopInv, StoppedHasNoOrders
<1> QED
  BY <1>1, <1>2, <1>3, <1>4

---------------------------------------------------------------------------
\* The invariant is inductive.
LEMMA NextHolds == IInv /\ [Next]_vars => IInv'
<1> SUFFICES ASSUME IInv, [Next]_vars PROVE IInv'
  OBVIOUS
<1>1. CASE SyncRun
  BY <1>1, LoadDefinitionsHolds, SyncHolds, CancelOldHolds, CleanUpHolds, InsertHolds,
     InsertRefusedHolds, SeedHolds, Zenon DEF SyncRun
<1>2. CASE ProcessSteps
  BY <1>2, ClaimHolds, EndBatchHolds, CheckRunHolds, CheckDefinitionHolds, ExecuteNodeHolds,
     InsertCounterHolds, PairFailsHolds, NodeFailsHolds, RereadHolds, AbortHolds, CompleteHolds, StepDoneHolds, Zenon
     DEF ProcessSteps
<1>3. CASE Web
  BY <1>3, PublishHolds, StopRunsHolds, StopOrdersHolds, StopCommitHolds, Zenon DEF Web
<1>4. CASE Recovery
  BY <1>4, RecoverStaleHolds, Zenon DEF Recovery
<1>5. CASE (\E r \in Runs : WsEnqueue(r) \/ FillEnqueue(r)) \/ EnqueueEdge
  BY <1>5, WsEnqueueHolds, FillEnqueueHolds, EnqueueEdgeHolds, Zenon
<1>6. CASE StepFails \/ SyncFails \/ Crash \/ StopRollback
  BY <1>6, StepFailsHolds, SyncFailsHolds, CrashHolds, StopRollbackHolds, Zenon
<1>7. CASE UNCHANGED vars
  BY <1>7 DEF vars, ordVars, defVars, runVars, stepVars, engVars, feVars, history, IInv, TypeOK,
     AtMostOnce, HandInv, StepInv, StopInv, StoppedHasNoOrders, Running
<1> QED
  BY <1>1, <1>2, <1>3, <1>4, <1>5, <1>6, <1>7, Zenon DEF Next, Engine, Enqueued, Fault

\* The invariant holds in every reachable state.
THEOREM FlowInvariant == Spec => []IInv
BY InitHolds, NextHolds, PTL DEF Spec

\* The variables keep their types.
THEOREM FlowTypes == Spec => []TypeOK
BY FlowInvariant, PTL DEF IInv

\* No step is executed twice: claim_ready_trade_flow_steps takes queued steps
\* only, and neither the recovery, a stop nor an error puts a step back.
THEOREM FlowAtMostOnce == Spec => []AtMostOnce
BY FlowInvariant, PTL DEF IInv

\* When stopTradeFlowDefinition has committed, the orders of the flow are
\* asked to cancel: the lock on the definition's row keeps new ones out until
\* the commit, and a step still at work finds its run canceled.  What stays
\* are orders of steps that failed after the stop and counter orders of pairs
\* inserted after it.
THEOREM FlowStopped == Spec => []StoppedHasNoOrders
BY FlowInvariant, PTL DEF IInv, StopInv

=============================================================================
