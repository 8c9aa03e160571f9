----------------------------- MODULE FlowEngine -----------------------------
(***************************************************************************)
(* The life of one trade flow: its definition and published version, the   *)
(* runs and steps in the database, the engine loop that synchronizes runs  *)
(* and processes steps, and the web application that publishes and stops   *)
(* the flow while the engine is at work.                                   *)
(*                                                                         *)
(* The engine commits every statement at once.  The web application works  *)
(* in transactions: publishing is one step, stopping is three, because the *)
(* engine can still read the old rows, and enqueue steps, between the      *)
(* statements of a stop and its commit.  Rows a stop has written are       *)
(* locked until then, and so is the definition's row, FOR UPDATE: a run or *)
(* an order, whose row refers to the definition, cannot be inserted.  What *)
(* a node does is a choice: a step may create an order, or a pair of them  *)
(* one after the other, fail, and enqueue further steps.  Graphs have a    *)
(* trigger (the web application validates that), so a new run is seeded.   *)
(***************************************************************************)
EXTENDS Naturals

CONSTANTS
  MaxVersions,   \* bound on publications
  MaxRuns,       \* bound on run ids
  Steps,         \* step ids
  Pairs,         \* those at a place-order node with a pair lock
  Faults,        \* subset of {"error", "crash"}
  NoStep

ASSUME FlowAssumption ==
  /\ MaxVersions \in Nat /\ MaxRuns \in Nat
  /\ Pairs \subseteq Steps /\ NoStep \notin Steps

Runs == 1 .. MaxRuns
Versions == 0 .. MaxVersions   \* 0: never published, or not in the list

VARIABLES
  def, pub,          \* trade_flow_definitions: status, published_version_id
  runSt, runVer,     \* trade_flow_runs: status, version_id
  stepSt, stepRun,   \* trade_flow_run_steps: status, run_id
  ord, ctr,          \* the order a step created, the counter order of a pair:
                     \* "none", "active", "cancel" (asked to cancel or canceled)
  pc, snap, old,     \* the engine: place, version in its list, run in hand
  batch, cur,        \* claimed steps not yet processed, the step in hand
  fe, feRuns, feSteps, feOrds,  \* a stop in progress: the rows it has written
  executed, again,   \* history: steps executed, executed a second time
  adrift,            \* history: orders of steps that failed after a stop
  late               \* history: counter orders inserted after a stop

defVars == <<def, pub>>
runVars == <<runSt, runVer>>
stepVars == <<stepSt, stepRun>>
ordVars == <<ord, ctr>>
engVars == <<pc, snap, old, batch, cur>>
feVars == <<fe, feRuns, feSteps, feOrds>>
history == <<executed, again, adrift, late>>
vars == <<defVars, runVars, stepVars, ordVars, engVars, feVars, history>>

RunStatuses == {"none", "running", "canceled"}
StepStatuses == {"none", "queued", "running", "completed", "failed", "skipped", "canceled"}
Pcs == {"idle", "sync", "cancel", "cleanup", "stale", "insert", "seed", "claim", "batch",
        "checked", "exec", "pair", "reread", "abort", "complete", "failed", "enqueue"}

Init ==
  /\ def = "draft" /\ pub = 0
  /\ runSt = [r \in Runs |-> "none"] /\ runVer = [r \in Runs |-> 0]
  /\ stepSt = [s \in Steps |-> "none"] /\ stepRun = [s \in Steps |-> 0]
  /\ ord = [s \in Steps |-> "none"] /\ ctr = [s \in Steps |-> "none"]
  /\ pc = "idle" /\ snap = 0 /\ old = 0 /\ batch = {} /\ cur = NoStep
  /\ fe = "idle" /\ feRuns = {} /\ feSteps = {} /\ feOrds = {}
  /\ executed = {} /\ again = {} /\ adrift = {} /\ late = {}

---------------------------------------------------------------------------
(* Rows.                                                                   *)

Running == {r \in Runs : runSt[r] = "running"}

\* enqueue_trade_flow_step for run r; without a free id nothing is enqueued.
Enqueue(r) ==
  \/ \E s \in Steps : /\ stepSt[s] = "none"
                      /\ stepSt' = [stepSt EXCEPT ![s] = "queued"]
                      /\ stepRun' = [stepRun EXCEPT ![s] = r]
  \/ (\A s \in Steps : stepSt[s] # "none") /\ UNCHANGED stepVars

\* create_trade_flow_run takes the next id.
NewRun(r) == runSt[r] = "none" /\ \A q \in Runs : q < r => runSt[q] # "none"

Goto(p) == pc' = p /\ UNCHANGED <<snap, old, batch, cur>>

---------------------------------------------------------------------------
(* A pass of the engine: recovery, the list of published definitions, and  *)
(* the synchronization of the run with the listed version.                 *)

\* Mutant: recovery looks at the steps of running runs only.
RecoverLiveRuns(s) ==
  /\ pc = "idle" /\ stepSt[s] = "running" /\ s \notin feSteps
  /\ runSt[stepRun[s]] = "running"
  /\ stepSt' = [stepSt EXCEPT ![s] = "canceled"]
  /\ UNCHANGED <<defVars, runVars, stepRun, ordVars, engVars, feVars, history>>

\* Mutant: a stale step is put back into the queue.
RecoverRequeues(s) ==
  /\ pc = "idle" /\ stepSt[s] = "running" /\ s \notin feSteps
  /\ stepSt' = [stepSt EXCEPT ![s] = "queued"]
  /\ UNCHANGED <<defVars, runVars, stepRun, ordVars, engVars, feVars, history>>

\* A step that is 'running' at the start of a pass was left so by an abort,
\* an error or a crash; once it is old enough it is canceled.
RecoverStale(s) ==
  /\ pc = "idle" /\ stepSt[s] = "running" /\ s \notin feSteps
  /\ stepSt' = [stepSt EXCEPT ![s] = "canceled"]
  /\ UNCHANGED <<defVars, runVars, stepRun, ordVars, engVars, feVars, history>>

\* list_published_trade_flow_definitions.  With an empty list the pass ends;
\* other flows may be in it.
LoadDefinitions ==
  /\ pc = "idle"
  /\ IF def = "published" THEN pc' = "sync" /\ snap' = pub
     ELSE pc' \in {"idle", "claim"} /\ snap' = 0
  /\ UNCHANGED <<defVars, runVars, stepVars, ordVars, old, batch, cur, feVars, history>>

\* Mutant: any running run is taken for the one of the listed version.
SyncAnyVersion ==
  /\ pc = "sync"
  /\ pc' = IF Running = {} THEN "cleanup" ELSE "claim"
  /\ UNCHANGED <<defVars, runVars, stepVars, ordVars, snap, old, batch, cur, feVars, history>>

\* get_active_trade_flow_run
Sync ==
  /\ pc = "sync"
  /\ \/ \E r \in Running :
          IF runVer[r] = snap THEN pc' = "claim" /\ UNCHANGED old
          ELSE pc' = "cancel" /\ old' = r
     \/ Running = {} /\ pc' = "cleanup" /\ UNCHANGED old
  /\ UNCHANGED <<defVars, runVars, stepVars, ordVars, snap, batch, cur, feVars, history>>

\* The run of another version, or the one the cleanup found, is canceled.
CancelOld ==
  /\ pc \in {"cancel", "stale"} /\ old \notin feRuns
  /\ runSt' = [runSt EXCEPT ![old] = "canceled"]
  /\ pc' = IF pc = "cancel" THEN "cleanup" ELSE "insert"
  /\ old' = 0
  /\ UNCHANGED <<defVars, runVer, stepVars, ordVars, snap, batch, cur, feVars, history>>

\* The second look for an active run, whatever its version.
CleanUp ==
  /\ pc = "cleanup"
  /\ \/ \E r \in Running : pc' = "stale" /\ old' = r
     \/ Running = {} /\ pc' = "insert" /\ UNCHANGED old
  /\ UNCHANGED <<defVars, runVars, stepVars, ordVars, snap, batch, cur, feVars, history>>

\* The insert waits for a stop in progress; the unique index on running runs
\* refuses a second one.
Insert(r) ==
  /\ pc = "insert" /\ fe = "idle" /\ Running = {} /\ NewRun(r)
  /\ runSt' = [runSt EXCEPT ![r] = "running"]
  /\ runVer' = [runVer EXCEPT ![r] = snap]
  /\ pc' = "seed" /\ old' = r
  /\ UNCHANGED <<defVars, stepVars, ordVars, snap, batch, cur, feVars, history>>

InsertRefused ==
  /\ pc = "insert" /\ fe = "idle"
  /\ Running # {} \/ \A r \in Runs : runSt[r] # "none"
  /\ Goto("claim")
  /\ UNCHANGED <<defVars, runVars, stepVars, ordVars, feVars, history>>

Seed ==
  /\ pc = "seed"
  /\ Enqueue(old)
  /\ pc' = "claim" /\ old' = 0
  /\ UNCHANGED <<defVars, runVars, ordVars, snap, batch, cur, feVars, history>>

\* A tick of the market stream enqueues a step for a run of the engine's
\* cache, which may have ended since, and the ready steps are processed.
WsEnqueue(r) ==
  /\ pc = "idle" /\ runSt[r] # "none"
  /\ Enqueue(r)
  /\ Goto("claim")
  /\ UNCHANGED <<defVars, runVars, ordVars, feVars, history>>

\* A fill, which a task of its own may see, schedules a re-entry or a time
\* exit for the run its order came from.
FillEnqueue(r) ==
  /\ runSt[r] # "none"
  /\ Enqueue(r)
  /\ UNCHANGED <<defVars, runVars, ordVars, engVars, feVars, history>>

---------------------------------------------------------------------------
(* Processing of steps.                                                    *)

\* claim_ready_trade_flow_steps: FOR UPDATE SKIP LOCKED.
Claim ==
  /\ pc = "claim"
  /\ \E S \in SUBSET {s \in Steps : stepSt[s] = "queued" /\ s \notin feSteps} :
       /\ stepSt' = [s \in Steps |-> IF s \in S THEN "running" ELSE stepSt[s]]
       /\ batch' = S
       /\ pc' = IF S = {} THEN "idle" ELSE "batch"
  /\ snap' = 0
  /\ UNCHANGED <<defVars, runVars, stepRun, ordVars, old, cur, feVars, history>>

\* The last step of the claim is done: claim again, or stop at max_passes.
EndBatch ==
  /\ pc = "batch" /\ batch = {}
  /\ pc' \in {"claim", "idle"}
  /\ UNCHANGED <<defVars, runVars, stepVars, ordVars, snap, old, batch, cur, feVars, history>>

\* The step in hand is done.
NextStep == pc' = "batch" /\ cur' = NoStep /\ UNCHANGED <<snap, old, batch>>

CheckRun(s) ==
  /\ pc = "batch" /\ s \in batch
  /\ batch' = batch \ {s}
  /\ IF stepRun[s] \in Running
     THEN pc' = "checked" /\ cur' = s /\ UNCHANGED stepSt
     ELSE /\ s \notin feSteps
          /\ stepSt' = [stepSt EXCEPT ![s] = "skipped"]
          /\ UNCHANGED <<pc, cur>>
  /\ UNCHANGED <<defVars, runVars, stepRun, ordVars, snap, old, feVars, history>>

\* Mutant: the step is skipped but its run is left alone.
SkipOnly ==
  /\ pc = "checked"
  /\ IF def = "published" /\ pub = runVer[stepRun[cur]]
     THEN Goto("exec") /\ UNCHANGED stepSt
     ELSE /\ cur \notin feSteps
          /\ stepSt' = [stepSt EXCEPT ![cur] = "skipped"]
          /\ NextStep
  /\ UNCHANGED <<defVars, runVars, stepRun, ordVars, feVars, history>>

CheckDefinition ==
  /\ pc = "checked"
  /\ IF def = "published" /\ pub = runVer[stepRun[cur]]
     THEN Goto("exec") /\ UNCHANGED <<runSt, stepSt>>
     ELSE /\ stepRun[cur] \notin feRuns /\ cur \notin feSteps
          /\ runSt' = [runSt EXCEPT ![stepRun[cur]] = "canceled"]
          /\ stepSt' = [stepSt EXCEPT ![cur] = "skipped"]
          /\ NextStep
  /\ UNCHANGED <<defVars, runVer, stepRun, ordVars, feVars, history>>

\* execute_trade_flow_node; the action that places an order inserts a row,
\* which waits for a stop in progress. A pair goes on to its counter order.
ExecuteNode ==
  /\ pc = "exec"
  /\ \/ ord' = ord /\ Goto("reread")
     \/ /\ fe = "idle"
        /\ ord' = [ord EXCEPT ![cur] = "active"]
        /\ Goto(IF cur \in Pairs THEN "pair" ELSE "reread")
  /\ executed' = executed \cup {cur}
  /\ again' = IF cur \in executed THEN again \cup {cur} ELSE again
  /\ UNCHANGED <<defVars, runVars, stepVars, ctr, feVars, adrift, late>>

\* The second execute_action_place_order of a pair, a row of its own.
InsertCounter ==
  /\ pc = "pair" /\ fe = "idle"
  /\ ctr' = [ctr EXCEPT ![cur] = "active"]
  /\ late' = IF def = "stopped" THEN late \cup {cur} ELSE late
  /\ Goto("reread")
  /\ UNCHANGED <<defVars, runVars, stepVars, ord, feVars, executed, again, adrift>>

\* The order of the step in hand, if nobody cancels it should the step fail:
\* the flow was stopped before the order was placed.
Open == IF pc \in {"pair", "reread", "abort"} /\ ord[cur] = "active" /\ def = "stopped"
        THEN {cur} ELSE {}

\* The counter order is refused: the node cancels the primary order, unless
\* that statement fails or the counter's node returned no order id.
PairFails ==
  /\ pc = "pair"
  /\ \/ /\ cur \notin feOrds
        /\ ord' = [ord EXCEPT ![cur] = "cancel"]
        /\ UNCHANGED adrift
     \/ ord' = ord /\ adrift' = adrift \cup Open
  /\ Goto("failed")
  /\ UNCHANGED <<defVars, runVars, stepVars, ctr, feVars, executed, again, late>>

\* The node returns Err, with "error" also after it has inserted its orders.
NodeFails ==
  /\ pc = "exec" \/ ("error" \in Faults /\ pc = "reread")
  /\ Goto("failed")
  /\ executed' = executed \cup {cur}
  /\ adrift' = adrift \cup Open
  /\ UNCHANGED <<defVars, runVars, stepVars, ordVars, feVars, again, late>>

\* Mutant: the run is not read again after the node was executed.
RereadSkipped ==
  /\ pc = "reread"
  /\ Goto("complete")
  /\ UNCHANGED <<defVars, runVars, stepVars, ordVars, feVars, history>>

\* The run is read again; it is still 'running' while a stop is in progress.
Reread ==
  /\ pc = "reread"
  /\ Goto(IF stepRun[cur] \in Running THEN "complete" ELSE "abort")
  /\ UNCHANGED <<defVars, runVars, stepVars, ordVars, feVars, history>>

\* cancel_flow_step_side_effects_after_stop: the output's builder_order_id is
\* the primary order; the counter order of a pair is left alone.  The step is
\* left to the stop, or to the recovery.
Abort ==
  /\ pc = "abort" /\ cur \notin feOrds
  /\ ord' = [ord EXCEPT ![cur] = IF ord[cur] = "active" THEN "cancel" ELSE ord[cur]]
  /\ NextStep
  /\ UNCHANGED <<defVars, runVars, stepVars, ctr, feVars, history>>

\* The context is stored (which waits for a stop that has the run's row) and
\* the step is marked, whatever its status has become.
Complete ==
  /\ pc \in {"complete", "failed"} /\ cur \notin feSteps
  /\ pc = "complete" => stepRun[cur] \notin feRuns
  /\ stepSt' = [stepSt EXCEPT ![cur] = IF pc = "complete" THEN "completed" ELSE "failed"]
  /\ Goto("enqueue")
  /\ UNCHANGED <<defVars, runVars, stepRun, ordVars, feVars, history>>

\* enqueue_trade_flow_edges, the repetition of the node, or nothing more.
EnqueueEdge ==
  /\ pc = "enqueue"
  /\ Enqueue(stepRun[cur])
  /\ UNCHANGED <<defVars, runVars, ordVars, engVars, feVars, history>>

StepDone ==
  /\ pc = "enqueue"
  /\ NextStep
  /\ UNCHANGED <<defVars, runVars, stepVars, ordVars, feVars, history>>

---------------------------------------------------------------------------
(* Faults.                                                                 *)

\* An Err inside the processing of a step marks it failed.
StepFails ==
  /\ "error" \in Faults
  /\ cur # NoStep /\ cur \notin feSteps
  /\ stepSt' = [stepSt EXCEPT ![cur] = "failed"]
  /\ adrift' = adrift \cup Open
  /\ NextStep
  /\ UNCHANGED <<defVars, runVars, stepRun, ordVars, feVars, executed, again, late>>

\* An Err inside the synchronization is logged.
SyncFails ==
  /\ "error" \in Faults
  /\ pc \in {"sync", "cancel", "cleanup", "stale", "insert", "seed"}
  /\ pc' = "claim" /\ old' = 0
  /\ UNCHANGED <<defVars, runVars, stepVars, ordVars, snap, batch, cur, feVars, history>>

\* The process dies, or an Err ends the pass.
Crash ==
  /\ "crash" \in Faults /\ pc # "idle"
  /\ pc' = "idle" /\ snap' = 0 /\ old' = 0 /\ batch' = {} /\ cur' = NoStep
  /\ adrift' = adrift \cup Open
  /\ UNCHANGED <<defVars, runVars, stepVars, ordVars, feVars, executed, again, late>>

---------------------------------------------------------------------------
(* The web application.                                                    *)

\* publishTradeFlowDefinition: a new version; the active run is rotated, its
\* queued steps are skipped (but for those enqueued while the transaction is
\* at work), and a new run is created and seeded.
Publish(r) ==
  /\ fe = "idle" /\ pub < MaxVersions /\ NewRun(r)
  /\ def' = "published" /\ pub' = pub + 1
  /\ runSt' = [q \in Runs |-> IF q = r THEN "running"
                              ELSE IF runSt[q] = "running" THEN "canceled" ELSE runSt[q]]
  /\ runVer' = [runVer EXCEPT ![r] = pub + 1]
  /\ LET free == {s \in Steps : stepSt[s] = "none"}
     IN \E S \in SUBSET free,
           skip \in SUBSET {s \in Steps : stepSt[s] = "queued" /\ stepRun[s] \in Running} :
          /\ S = {} <=> free = {}
          /\ \A s, t \in S : s = t
          /\ stepSt' = [s \in Steps |-> IF s \in S THEN "queued"
                                        ELSE IF s \in skip THEN "skipped" ELSE stepSt[s]]
          /\ stepRun' = [s \in Steps |-> IF s \in S THEN r ELSE stepRun[s]]
  /\ UNCHANGED <<ordVars, engVars, feVars, history>>

\* stopTradeFlowDefinition: runs and steps, then orders, then the commit.
StopRuns ==
  /\ fe = "idle" /\ def = "published"
  /\ fe' = "runs"
  /\ feRuns' = Running
  /\ feSteps' = {s \in Steps : stepRun[s] \in Running /\ stepSt[s] \in {"queued", "running"}}
  /\ UNCHANGED <<defVars, runVars, stepVars, ordVars, engVars, feOrds, history>>

StopOrders ==
  /\ fe = "runs"
  /\ fe' = "orders"
  /\ feOrds' = {s \in Steps : "active" \in {ord[s], ctr[s]}}
  /\ UNCHANGED <<defVars, runVars, stepVars, ordVars, engVars, feRuns, feSteps, history>>

StopCommit ==
  /\ fe = "orders"
  /\ def' = "stopped"
  /\ runSt' = [r \in Runs |-> IF r \in feRuns THEN "canceled" ELSE runSt[r]]
  /\ stepSt' = [s \in Steps |-> IF s \in feSteps THEN "canceled" ELSE stepSt[s]]
  /\ ord' = [s \in Steps |-> IF s \in feOrds /\ ord[s] = "active" THEN "cancel" ELSE ord[s]]
  /\ ctr' = [s \in Steps |-> IF s \in feOrds /\ ctr[s] = "active" THEN "cancel" ELSE ctr[s]]
  /\ fe' = "idle" /\ feRuns' = {} /\ feSteps' = {} /\ feOrds' = {}
  /\ UNCHANGED <<pub, runVer, stepRun, engVars, history>>

\* A statement of the stop fails, or waits too long for a lock.
StopRollback ==
  /\ "error" \in Faults /\ fe # "idle"
  /\ fe' = "idle" /\ feRuns' = {} /\ feSteps' = {} /\ feOrds' = {}
  /\ UNCHANGED <<defVars, runVars, stepVars, ordVars, engVars, history>>

---------------------------------------------------------------------------
SyncRun ==
  \/ LoadDefinitions \/ Sync \/ CancelOld \/ CleanUp
  \/ \E r \in Runs : Insert(r)
  \/ InsertRefused \/ Seed

ProcessSteps ==
  \/ Claim \/ EndBatch
  \/ \E s \in Steps : CheckRun(s)
  \/ CheckDefinition \/ ExecuteNode \/ InsertCounter \/ PairFails \/ NodeFails \/ Reread \/ Abort \/ Complete
  \/ StepDone

Engine == SyncRun \/ ProcessSteps

Recovery == \E s \in Steps : RecoverStale(s)

Web == (\E r \in Runs : Publish(r)) \/ StopRuns \/ StopOrders \/ StopCommit

Enqueued == (\E r \in Runs : WsEnqueue(r) \/ FillEnqueue(r)) \/ EnqueueEdge

Fault == StepFails \/ SyncFails \/ Crash \/ StopRollback

Next == Engine \/ Recovery \/ Web \/ Enqueued \/ Fault

Spec == Init /\ [][Next]_vars

\* The loop keeps running and comes back to its list between the ticks of the
\* market stream, running steps get old, and a stop that has begun is committed.
\* Nobody has to publish, stop, or enqueue further steps.
FairSpec ==
  /\ Spec
  /\ WF_vars(SyncRun) /\ SF_vars(LoadDefinitions) /\ WF_vars(ProcessSteps)
  /\ \A s \in Steps : SF_vars(RecoverStale(s))
  /\ WF_vars(StopOrders \/ StopCommit)

\* Queued steps become available and are claimed, oldest first.
FairClaims == FairSpec /\ \A s \in Steps : SF_vars(Claim /\ s \in batch')

---------------------------------------------------------------------------
(* Properties.                                                             *)

TypeOK ==
  /\ def \in {"draft", "published", "stopped"} /\ pub \in Versions
  /\ runSt \in [Runs -> RunStatuses] /\ runVer \in [Runs -> Versions]
  /\ stepSt \in [Steps -> StepStatuses] /\ stepRun \in [Steps -> Runs \cup {0}]
  /\ ord \in [Steps -> {"none", "active", "cancel"}]
  /\ ctr \in [Steps -> {"none", "active", "cancel"}]
  /\ pc \in Pcs /\ snap \in Versions /\ old \in Runs \cup {0}
  /\ batch \subseteq Steps /\ cur \in Steps \cup {NoStep}
  /\ fe \in {"idle", "runs", "orders"} /\ feRuns \subseteq Runs
  /\ feSteps \subseteq Steps /\ feOrds \subseteq Steps
  /\ executed \subseteq Steps /\ again \subseteq Steps /\ adrift \subseteq Steps
  /\ late \subseteq Steps

\* No step is executed twice, over crashes, recoveries and stops: an order is
\* placed at most once for a step.
AtMostOnce == again = {}

\* When a flow is stopped, every order its steps have inserted is asked to
\* cancel, or its step is about to find out that it has to.  The exceptions:
\* orders of steps that failed after the stop, and the counter order of a pair
\* that was inserted after the stop, which the aborted step does not look at
\* (stopTradeFlowDefinition, cancel_flow_step_side_effects_after_stop).
StoppedHasNoOrders ==
  def = "stopped" =>
    \A s \in Steps :
      /\ ord[s] = "active" =>
           s \in adrift \/ (cur = s /\ pc \in {"pair", "reread", "abort"})
      /\ ctr[s] = "active" => s \in late

\* From some point on every step is one that the code takes without a fault.
FaultsEnd == <>[][Engine \/ Recovery \/ Web \/ Enqueued]_vars

\* Once no fault happens any more, no step stays 'running': what an abort, an
\* error or a crash has left behind is recovered.
StepsEnd ==
  FaultsEnd => \A s \in Steps : stepSt[s] = "running" ~> stepSt[s] # "running"

\* A flow that stays published ends up with a run of its published version,
\* also when the engine works from an outdated list, once no synchronization
\* fails any more.
RunFollowsPublish ==
  FaultsEnd /\ <>[](def = "published") =>
    <>[](\E r \in Running : runVer[r] = pub)

\* A flow that stays stopped ends up without a run, also when the engine has
\* started one from an outdated list after the stop: its first step finds out.
\* (The premise: the run has a step that no error and no crash has ended.)
StopEndsRuns ==
  <>[](def = "stopped" /\ \A r \in Running : \E s \in Steps :
         stepRun[s] = r /\ stepSt[s] \notin {"failed", "canceled"}) =>
    <>[](Running = {})
=============================================================================
