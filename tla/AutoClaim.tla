------------------------------ MODULE AutoClaim ------------------------------
(***************************************************************************)
(* The auto-claim pipeline: one AutoClaimService per user, ticked one      *)
(* after the other inside the runner loop over one auto_claim_jobs table   *)
(* without an owner filter, the frontend's claim sweep writing the same    *)
(* table from another process, and the chain that mines (or reverts, or    *)
(* delays) the redeem transactions.                                        *)
(*                                                                         *)
(* A tick is a sequence of separate database and network calls, so each    *)
(* call is an action of its own and the runner may crash between any two.  *)
(* Ticks of two services never overlap: the loop awaits each of them.      *)
(* Wall-clock comparisons (next_attempt_at <= NOW(), the five-minute stale *)
(* age, the 120 s receipt timeout, the rate-limit cooldown) are flags an   *)
(* environment action turns true.                                          *)
(***************************************************************************)
EXTENDS Naturals, FiniteSets

CONSTANTS
  Jobs,         \* rows of auto_claim_jobs, one per (owner, condition)
  Services,     \* the users with claiming enabled, one service each
  NoUser,       \* no service ticks; a hash nobody sent
  SafeJobs,     \* per service, the rows owned by its Gnosis safe
  WalletJobs,   \* per service, the rows owned by its signer address
  Modes,        \* which services may be in builder_relayer / relayer_api_key mode
  BatchSize,    \* per service, claim.process_batch_size (already .max(1))
  BatchMax,     \* BATCH_MAX_CONDITIONS
  MaxAttempts,  \* auto_claim_jobs.max_attempts (the largest of the services')
  TxIds,        \* transaction hashes (the bound on sends in a behaviour)
  NoTx,         \* tx_hash IS NULL
  CanFail       \* whether the runner may die or lose the database mid-tick

ASSUME AutoClaimAssumption ==
  /\ IsFiniteSet(Jobs)
  /\ NoUser \notin Services
  /\ SafeJobs \in [Services -> SUBSET Jobs]
  /\ WalletJobs \in [Services -> SUBSET Jobs]
  /\ Modes \subseteq SUBSET Services
  /\ BatchSize \in [Services -> Nat \ {0}]
  /\ BatchMax \in Nat \ {0}
  /\ MaxAttempts \in Nat \ {0}
  /\ NoTx \notin TxIds
  /\ {"unknown", "retryable", "rate_limited", "fatal"} \cap TxIds = {}
  /\ CanFail \in BOOLEAN

VARIABLES
  relayer,                    \* the services configured with a relayer mode
  status, attempts, txHash,   \* columns of auto_claim_jobs
  due, stale, timedOut,       \* rows whose next_attempt_at / updated_at / submitted_at is past
  svc, pc,                    \* the service that ticks, and where its tick is
  needsRecovery, cooldown,    \* services with that field set
  todo,                       \* rows the current loop has still to visit
  queue,                      \* rows listed for submission, not yet started
  cur, outcome,               \* rows of the current submission, its result
  txState, txJobs, txBy,      \* the chain: state of a hash, what it redeems, its sender
  redeemed                    \* jobs whose collateral was really redeemed

jobVars == <<status, attempts, txHash, due, stale, timedOut>>
svcVars == <<svc, pc, needsRecovery, cooldown, todo, queue, cur, outcome>>
chainVars == <<relayer, txState, txJobs, txBy, redeemed>>   \* outside the services
vars == <<jobVars, svcVars, chainVars>>

Statuses == {"none", "pending", "processing", "submitted", "retry",
             "claimed", "failed"}
Outcomes == {"unknown", "retryable", "rate_limited", "fatal"}
Pcs == {"idle", "discover", "receipts", "slots", "queue", "mark", "send",
        "record"}

(* max_inflight_claim_jobs: the relayer takes one job at a time.           *)
MaxInflight(s) == IF s \in relayer THEN 1 ELSE BatchSize[s]

Own(s) == SafeJobs[s] \cup WalletJobs[s]

Submitted == {j \in Jobs : status[j] = "submitted"}
Listable == {j \in Jobs : status[j] \in {"pending", "retry"} /\ j \in due}

Init ==
  /\ relayer \in Modes
  /\ status = [j \in Jobs |-> "none"]
  /\ attempts = [j \in Jobs |-> 0]
  /\ txHash = [j \in Jobs |-> NoTx]
  /\ due = {} /\ stale = {} /\ timedOut = {}
  /\ svc = NoUser /\ pc = "idle"
  /\ needsRecovery = Services
  /\ cooldown = {}
  /\ todo = {} /\ queue = {} /\ cur = {}
  /\ outcome = "unknown"
  /\ txState = [t \in TxIds |-> "unused"]
  /\ txJobs = [t \in TxIds |-> {}]
  /\ txBy = [t \in TxIds |-> NoUser]
  /\ redeemed = {}

-----------------------------------------------------------------------------
(* Statements of db/auto_claim.rs.                                         *)

(* Mutant: the CASE lists forget 'claimed'.                                *)
UpsertForgetsClaimed(j) ==
  /\ status' = IF status[j] \in {"processing", "submitted"}
               THEN status ELSE [status EXCEPT ![j] = "pending"]
  /\ attempts' = [attempts EXCEPT ![j] = 0]
  /\ due' = due \cup {j}
  /\ UNCHANGED <<stale, txHash, timedOut>>

(* ON CONFLICT keeps a claimed, processing or submitted row; every other   *)
(* row (and a new one) becomes a due 'pending' with no attempts. updated_at *)
(* moves in both cases; tx_hash is left alone.                              *)
Upsert(j) ==
  LET keep == status[j] \in {"claimed", "processing", "submitted"} IN
  /\ status' = IF keep THEN status ELSE [status EXCEPT ![j] = "pending"]
  /\ attempts' = IF keep THEN attempts ELSE [attempts EXCEPT ![j] = 0]
  /\ due' = IF keep THEN due ELSE due \cup {j}
  /\ stale' = stale \ {j}
  /\ UNCHANGED <<txHash, timedOut>>

MarkProcessing(j) ==
  /\ status' = [status EXCEPT ![j] = "processing"]
  /\ stale' = stale \ {j}
  /\ UNCHANGED <<attempts, txHash, due, timedOut>>

(* MarkSubmitted without its tx_hash column.                               *)
MarkSubmittedWithoutHash(j, t) ==
  /\ status' = [status EXCEPT ![j] = "submitted"]
  /\ timedOut' = timedOut \ {j}
  /\ stale' = stale \ {j}
  /\ UNCHANGED <<attempts, due, txHash>>

MarkSubmitted(j, t) ==
  /\ status' = [status EXCEPT ![j] = "submitted"]
  /\ txHash' = [txHash EXCEPT ![j] = t]
  /\ timedOut' = timedOut \ {j}
  /\ stale' = stale \ {j}
  /\ UNCHANGED <<attempts, due>>

MarkReceiptConfirmed(j) ==
  /\ status' = [status EXCEPT ![j] = "claimed"]
  /\ stale' = stale \ {j}
  /\ UNCHANGED <<attempts, txHash, due, timedOut>>

(* MarkRetryOrFail, comparing the count before the increment.              *)
MarkRetryOrFailOffByOne(j) ==
  LET last == attempts[j] >= MaxAttempts IN
  /\ attempts' = [attempts EXCEPT ![j] = @ + 1]
  /\ status' = [status EXCEPT ![j] = IF last THEN "failed" ELSE "retry"]
  /\ due' = IF last THEN due \cup {j} ELSE due \ {j}
  /\ timedOut' = timedOut \ {j}
  /\ stale' = stale \ {j}
  /\ UNCHANGED txHash

(* The last attempt fails the row; an earlier one schedules the backoff.   *)
MarkRetryOrFail(j) ==
  LET last == attempts[j] + 1 >= MaxAttempts IN
  /\ attempts' = [attempts EXCEPT ![j] = @ + 1]
  /\ status' = [status EXCEPT ![j] = IF last THEN "failed" ELSE "retry"]
  /\ due' = IF last THEN due \cup {j} ELSE due \ {j}
  /\ timedOut' = timedOut \ {j}
  /\ stale' = stale \ {j}
  /\ UNCHANGED txHash

MarkFailed(j) ==
  /\ attempts' = [attempts EXCEPT ![j] = @ + 1]
  /\ status' = [status EXCEPT ![j] = "failed"]
  /\ due' = due \cup {j}
  /\ txHash' = [txHash EXCEPT ![j] = NoTx]
  /\ timedOut' = timedOut \ {j}
  /\ stale' = stale \ {j}

(* recover_stale_processing_auto_claim_jobs(5)                             *)
RecoverStale ==
  LET hit == {j \in stale : status[j] = "processing"} IN
  /\ status' = [j \in Jobs |-> IF j \in hit THEN "retry" ELSE status[j]]
  /\ due' = due \cup hit
  /\ stale' = stale \ hit
  /\ UNCHANGED <<attempts, txHash, timedOut>>

-----------------------------------------------------------------------------
(* maybe_tick, call by call.                                               *)

(* The end of a tick: the loop goes on to another service.                 *)
TickEnds == pc' = "idle" /\ svc' = NoUser

(* The recovery runs on the first tick of a service instance only, and     *)
(* takes the stale rows of every owner.                                    *)
StartTick(s) ==
  /\ pc = "idle"
  /\ pc' = "discover" /\ svc' = s
  /\ IF s \in needsRecovery THEN RecoverStale ELSE UNCHANGED jobVars
  /\ needsRecovery' = needsRecovery \ {s}
  /\ UNCHANGED <<cooldown, todo, queue, cur, outcome, chainVars>>

(* One upsert of discover_redeemable_jobs, for a position of the signer or *)
(* of the safe; the Data API may still report one that was redeemed a      *)
(* moment ago.                                                             *)
Discover(j) ==
  /\ pc = "discover"
  /\ j \in Own(svc)
  /\ Upsert(j)
  /\ UNCHANGED <<svcVars, chainVars>>

(* The pages are exhausted, or discovery is not due: receipts come next.   *)
EndDiscovery ==
  /\ pc = "discover"
  /\ pc' = "receipts"
  /\ todo' = Submitted
  /\ UNCHANGED <<jobVars, svc, needsRecovery, cooldown, queue, cur, outcome, chainVars>>

(* A call fails and ? ends the tick. A positions request that fails costs  *)
(* the tick its receipt checks and its submissions; from "mark" on only    *)
(* the database can fail, and the rows stay as they are.                   *)
AbortTick ==
  /\ \/ pc \in {"discover", "receipts", "slots"}
     \/ CanFail /\ pc \in {"queue", "mark", "record"}
  /\ TickEnds
  /\ todo' = {} /\ queue' = {} /\ cur' = {}
  /\ outcome' = "unknown"
  /\ UNCHANGED <<jobVars, needsRecovery, cooldown, chainVars>>

(* CheckReceipt, taking any mined receipt for a success, or without the    *)
(* receipt timeout.                                                        *)
CheckReceiptIgnoresStatus(j) ==
  /\ pc = "receipts"
  /\ j \in todo
  /\ todo' = todo \ {j}
  /\ IF txHash[j] # NoTx /\ txState[txHash[j]] \in {"success", "reverted"}
     THEN MarkReceiptConfirmed(j)
     ELSE UNCHANGED jobVars
  /\ UNCHANGED <<svc, pc, needsRecovery, cooldown, queue, cur, outcome, chainVars>>

CheckReceiptNeverTimesOut(j) ==
  /\ pc = "receipts"
  /\ j \in todo
  /\ todo' = todo \ {j}
  /\ \/ txState[txHash[j]] = "success" /\ MarkReceiptConfirmed(j)
     \/ txState[txHash[j]] = "reverted" /\ MarkRetryOrFail(j)
     \/ txState[txHash[j]] = "pending" /\ UNCHANGED jobVars
  /\ UNCHANGED <<svc, pc, needsRecovery, cooldown, queue, cur, outcome, chainVars>>

(* One row of check_submitted_receipts.                                    *)
CheckReceipt(j) ==
  /\ pc = "receipts"
  /\ j \in todo
  /\ todo' = todo \ {j}
  /\ \/ /\ txHash[j] = NoTx
        /\ MarkRetryOrFail(j)
     \/ /\ txHash[j] # NoTx
        /\ \/ /\ txState[txHash[j]] = "success"
              /\ MarkReceiptConfirmed(j)
           \/ /\ txState[txHash[j]] = "reverted"
              /\ MarkRetryOrFail(j)
           \/ /\ txState[txHash[j]] \notin {"success", "reverted"}
              /\ j \in timedOut
              /\ MarkRetryOrFail(j)
           \/ /\ txState[txHash[j]] \notin {"success", "reverted"}
              /\ j \notin timedOut
              /\ UNCHANGED jobVars
           \/ \* the receipt lookup itself failed
              UNCHANGED jobVars
  /\ UNCHANGED <<svc, pc, needsRecovery, cooldown, queue, cur, outcome, chainVars>>

EndReceipts ==
  /\ pc = "receipts"
  /\ todo = {}
  /\ pc' = "slots"
  /\ UNCHANGED <<jobVars, svc, needsRecovery, cooldown, todo, queue, cur, outcome, chainVars>>

(* ListJobs, with max_inflight as the limit whatever is in flight.         *)
ListJobsIgnoresInflight ==
  /\ pc = "slots"
  /\ svc \notin cooldown
  /\ \E q \in SUBSET Listable :
       /\ Cardinality(q) <= MaxInflight(svc)
       /\ queue' = q
  /\ pc' = "queue"
  /\ UNCHANGED <<jobVars, svc, needsRecovery, cooldown, todo, cur, outcome, chainVars>>

(* available_slots and the LIMIT of the listing: as many due rows as fit.  *)
(* Count and listing take the rows of every owner.                         *)
ListJobs ==
  LET slots == MaxInflight(svc) - Cardinality(Submitted) IN
  /\ pc = "slots"
  /\ slots > 0
  /\ svc \notin cooldown
  /\ \E q \in SUBSET Listable :
       /\ Cardinality(q) <= slots
       /\ q = Listable \/ Cardinality(q) = slots
       /\ queue' = q
  /\ pc' = "queue"
  /\ UNCHANGED <<jobVars, svc, needsRecovery, cooldown, todo, cur, outcome, chainVars>>

NoSlot ==
  /\ pc = "slots"
  /\ Cardinality(Submitted) >= MaxInflight(svc) \/ svc \in cooldown
  /\ TickEnds
  /\ UNCHANGED <<jobVars, needsRecovery, cooldown, todo, queue, cur, outcome, chainVars>>

-----------------------------------------------------------------------------
(* process_pending_jobs                                                    *)

SafeQueue == queue \cap SafeJobs[svc]

(* Outside relayer mode two or more safe rows go out as one MultiSend, at  *)
(* most BatchMax of them; the ones beyond are left for a later tick. Safe  *)
(* rows precede the others; everything else goes out one by one.           *)
StartBatch ==
  /\ pc = "queue"
  /\ svc \notin relayer
  /\ Cardinality(SafeQueue) >= 2
  /\ \E b \in SUBSET SafeQueue :
       /\ Cardinality(b) <= BatchMax
       /\ b = SafeQueue \/ Cardinality(b) = BatchMax
       /\ cur' = b /\ todo' = b
  /\ queue' = queue \ SafeQueue
  /\ pc' = "mark"
  /\ UNCHANGED <<jobVars, svc, needsRecovery, cooldown, outcome, chainVars>>

StartSingle(j) ==
  /\ pc = "queue"
  /\ j \in queue
  /\ \/ svc \in relayer
     \/ SafeQueue = {j}
     \/ SafeQueue = {}
  /\ cur' = {j} /\ todo' = {j}
  /\ queue' = queue \ {j}
  /\ pc' = "mark"
  /\ UNCHANGED <<jobVars, svc, needsRecovery, cooldown, outcome, chainVars>>

EndQueue ==
  /\ pc = "queue"
  /\ queue = {}
  /\ TickEnds
  /\ UNCHANGED <<jobVars, needsRecovery, cooldown, todo, queue, cur, outcome, chainVars>>

(* mark_auto_claim_job_processing for each row before anything is sent.    *)
Mark(j) ==
  /\ pc = "mark"
  /\ j \in todo
  /\ MarkProcessing(j)
  /\ todo' = todo \ {j}
  /\ pc' = IF todo' = {} THEN "send" ELSE "mark"
  /\ UNCHANGED <<svc, needsRecovery, cooldown, queue, cur, outcome, chainVars>>

(* The batch reads the gas price before it builds the call and ? leaves    *)
(* process_pending_jobs with its rows still 'processing'.                  *)
BatchGasPriceFails ==
  /\ pc = "send"
  /\ svc \notin relayer
  /\ Cardinality(cur) >= 2
  /\ TickEnds
  /\ cur' = {} /\ queue' = {}
  /\ UNCHANGED <<jobVars, needsRecovery, cooldown, todo, outcome, chainVars>>

(* The relayer path refuses any owner but the configured safe.             *)
Sendable == svc \in relayer => cur \subseteq SafeJobs[svc]

(* The transaction reaches the mempool under a fresh hash, and the hash    *)
(* comes back ...                                                          *)
SendAccepted(t) ==
  /\ pc = "send"
  /\ Sendable
  /\ txState[t] = "unused"
  /\ txState' = [txState EXCEPT ![t] = "pending"]
  /\ txJobs' = [txJobs EXCEPT ![t] = cur]
  /\ txBy' = [txBy EXCEPT ![t] = svc]
  /\ outcome' = t
  /\ todo' = cur
  /\ pc' = "record"
  /\ UNCHANGED <<jobVars, svc, needsRecovery, cooldown, queue, cur, relayer, redeemed>>

(* ... or the response is lost or unreadable: a retryable failure, with    *)
(* the transaction on its way all the same.                                *)
SendResponseLost(t) ==
  /\ pc = "send"
  /\ Sendable
  /\ txState[t] = "unused"
  /\ txState' = [txState EXCEPT ![t] = "pending"]
  /\ txJobs' = [txJobs EXCEPT ![t] = cur]
  /\ txBy' = [txBy EXCEPT ![t] = svc]
  /\ outcome' = "retryable"
  /\ todo' = cur
  /\ pc' = "record"
  /\ UNCHANGED <<jobVars, svc, needsRecovery, cooldown, queue, cur, relayer, redeemed>>

SendRefused ==
  /\ pc = "send"
  /\ outcome' \in IF Sendable THEN {"retryable", "rate_limited", "fatal"}
                              ELSE {"fatal"}
  /\ todo' = cur
  /\ pc' = "record"
  /\ UNCHANGED <<jobVars, svc, needsRecovery, cooldown, queue, cur, chainVars>>

(* Record, returning without writing a fatal error.                        *)
RecordDropsFatal(j) ==
  /\ pc = "record"
  /\ j \in todo
  /\ \/ outcome \in TxIds /\ MarkSubmitted(j, outcome)
     \/ outcome = "fatal" /\ UNCHANGED jobVars
     \/ outcome \in {"retryable", "rate_limited"} /\ MarkRetryOrFail(j)
  /\ pc' = "queue" /\ todo' = {} /\ cur' = {} /\ outcome' = "unknown"
  /\ UNCHANGED <<svc, needsRecovery, queue, cooldown, chainVars>>

(* One row of the result: submitted, failed, or another attempt. A rate    *)
(* limit hit by a single row drops the rest of the queue and starts the    *)
(* cooldown; the batch path never looks for one.                           *)
Record(j) ==
  /\ pc = "record"
  /\ j \in todo
  /\ \/ outcome \in TxIds /\ MarkSubmitted(j, outcome)
     \/ outcome = "fatal" /\ MarkFailed(j)
     \/ outcome \in {"retryable", "rate_limited"} /\ MarkRetryOrFail(j)
  /\ todo' = todo \ {j}
  /\ LET limited == outcome = "rate_limited" /\ Cardinality(cur) = 1
         done == todo \ {j} = {}
     IN /\ IF done /\ limited THEN TickEnds
           ELSE pc' = (IF done THEN "queue" ELSE "record") /\ UNCHANGED svc
        /\ queue' = IF done /\ limited THEN {} ELSE queue
        /\ cur' = IF done THEN {} ELSE cur
        /\ outcome' = IF done THEN "unknown" ELSE outcome
        /\ cooldown' = IF done /\ limited THEN cooldown \cup {svc} ELSE cooldown
  /\ UNCHANGED <<needsRecovery, chainVars>>

-----------------------------------------------------------------------------
(* Everybody else.                                                         *)

(* queueClaimSweepJobs of the frontend: the same upsert at any moment.     *)
FrontendSweep(j) ==
  /\ Upsert(j)
  /\ UNCHANGED <<svcVars, chainVars>>

(* The process dies: the next ticks belong to new AutoClaimServices.       *)
Crash ==
  /\ CanFail
  /\ TickEnds
  /\ needsRecovery' = Services
  /\ cooldown' = {}
  /\ todo' = {} /\ queue' = {} /\ cur' = {}
  /\ outcome' = "unknown"
  /\ UNCHANGED <<jobVars, chainVars>>

(* Claiming is switched off and on for a user between two ticks: its       *)
(* service is dropped and built anew.                                      *)
Rebuild(s) ==
  /\ pc = "idle"
  /\ needsRecovery' = needsRecovery \cup {s}
  /\ cooldown' = cooldown \ {s}
  /\ UNCHANGED <<jobVars, svc, pc, todo, queue, cur, outcome, chainVars>>

(* redeemPositions pays the sender's own balance: a transaction for a row  *)
(* of another owner succeeds and redeems nothing of it.                    *)
Mine(t) ==
  /\ txState[t] = "pending"
  /\ txState' = [txState EXCEPT ![t] = "success"]
  /\ redeemed' = redeemed \cup (txJobs[t] \cap Own(txBy[t]))
  /\ UNCHANGED <<jobVars, svcVars, relayer, txJobs, txBy>>

Revert(t) ==
  /\ txState[t] = "pending"
  /\ txState' = [txState EXCEPT ![t] = "reverted"]
  /\ UNCHANGED <<jobVars, svcVars, relayer, txJobs, txBy, redeemed>>

(* Time passes for one row: its backoff, its stale age, its receipt.       *)
BackoffEnds(j) ==
  /\ status[j] = "retry" /\ j \notin due
  /\ due' = due \cup {j}
  /\ UNCHANGED <<status, attempts, txHash, stale, timedOut, svcVars, chainVars>>

GoesStale(j) ==
  /\ status[j] = "processing" /\ j \notin stale
  /\ stale' = stale \cup {j}
  /\ UNCHANGED <<status, attempts, txHash, due, timedOut, svcVars, chainVars>>

ReceiptTimesOut(j) ==
  /\ status[j] = "submitted" /\ j \notin timedOut
  /\ timedOut' = timedOut \cup {j}
  /\ UNCHANGED <<status, attempts, txHash, due, stale, svcVars, chainVars>>

CooldownEnds(s) ==
  /\ s \in cooldown
  /\ cooldown' = cooldown \ {s}
  /\ UNCHANGED <<jobVars, svc, pc, needsRecovery, todo, queue, cur, outcome, chainVars>>

-----------------------------------------------------------------------------
Tick ==
  \/ EndDiscovery \/ EndReceipts \/ ListJobs \/ NoSlot
  \/ StartBatch \/ EndQueue \/ SendRefused
  \/ \E s \in Services : StartTick(s)
  \/ \E j \in Jobs : CheckReceipt(j) \/ StartSingle(j) \/ Mark(j) \/ Record(j)
  \/ \E t \in TxIds : SendAccepted(t) \/ SendResponseLost(t)

Next ==
  \/ Tick \/ AbortTick \/ BatchGasPriceFails \/ Crash
  \/ \E s \in Services : Rebuild(s) \/ CooldownEnds(s)
  \/ \E j \in Jobs : \/ Discover(j) \/ FrontendSweep(j) \/ BackoffEnds(j)
                     \/ GoesStale(j) \/ ReceiptTimesOut(j)
  \/ \E t \in TxIds : Mine(t) \/ Revert(t)

Spec == Init /\ [][Next]_vars

(* The runner loop keeps ticking and time passes; the Data API and the     *)
(* receipt lookup fail at times but not for ever.                          *)
FairSpec ==
  /\ Spec
  /\ WF_vars(Tick)
  /\ SF_vars(EndDiscovery)
  /\ \A j \in Jobs : /\ WF_vars(ReceiptTimesOut(j))
                     /\ SF_vars(CheckReceipt(j) /\ status' # status)

-----------------------------------------------------------------------------
TypeOK ==
  /\ relayer \subseteq Services
  /\ status \in [Jobs -> Statuses]
  /\ attempts \in [Jobs -> 0..MaxAttempts]
  /\ txHash \in [Jobs -> TxIds \cup {NoTx}]
  /\ due \subseteq Jobs /\ stale \subseteq Jobs /\ timedOut \subseteq Jobs
  /\ pc \in Pcs /\ svc \in Services \cup {NoUser} /\ (svc = NoUser <=> pc = "idle")
  /\ needsRecovery \subseteq Services /\ cooldown \subseteq Services
  /\ todo \subseteq Jobs /\ queue \subseteq Jobs /\ cur \subseteq Jobs
  /\ outcome \in Outcomes \cup TxIds
  /\ txState \in [TxIds -> {"unused", "pending", "success", "reverted"}]
  /\ txJobs \in [TxIds -> SUBSET Jobs]
  /\ txBy \in [TxIds -> Services \cup {NoUser}]
  /\ redeemed \subseteq Jobs

(* A row that is still to be worked on has attempts left, so its attempt   *)
(* counter never passes max_attempts, whatever sweeps, crashes and          *)
(* recoveries happen between two failures (mark_auto_claim_job_retry_or_   *)
(* fail, mark_auto_claim_job_failed).                                      *)
AttemptsLeft ==
  \A j \in Jobs : status[j] # "failed" => attempts[j] < MaxAttempts

(* The rows a loop of the tick still holds are in the status the loop left *)
(* them in: no sweep or other writer moves them between the listing, the    *)
(* send and the recording of its result.                                    *)
HeldRows ==
  /\ pc = "receipts" => todo \subseteq Submitted
  /\ \A j \in queue : status[j] \in {"pending", "retry"} /\ j \notin cur
  /\ pc = "mark" => /\ todo \subseteq cur
                    /\ \A j \in todo : status[j] \in {"pending", "retry"}
                    /\ \A j \in cur \ todo : status[j] = "processing"
  /\ pc = "send" => \A j \in cur : status[j] = "processing"
  /\ pc = "record" => /\ todo \subseteq cur
                      /\ \A j \in todo : status[j] = "processing"
  /\ pc \in {"idle", "discover", "receipts", "slots"} => cur = {} /\ queue = {}
  /\ pc = "queue" => cur = {}

(* The hash a submitted row carries, and the one a recording is about to   *)
(* store, belong to a transaction that was sent for that very row, whoever *)
(* sent it (mark_auto_claim_job_submitted, check_submitted_receipts).      *)
HashIsOwn ==
  /\ \A j \in Jobs : status[j] = "submitted" =>
       /\ txHash[j] \in TxIds
       /\ j \in txJobs[txHash[j]]
  /\ pc = "record" /\ outcome \in TxIds =>
       cur \subseteq txJobs[outcome] /\ txBy[outcome] = svc

(* What the chain holds: a hash in use has a sender, a relayer sends its   *)
(* safe's rows only, and a mined transaction redeemed its sender's rows.   *)
ChainFacts ==
  \A t \in TxIds :
    /\ IF txState[t] = "unused" THEN txJobs[t] = {} ELSE txBy[t] \in Services
    /\ txBy[t] \in relayer => txJobs[t] \subseteq SafeJobs[txBy[t]]
    /\ txState[t] = "success" => txJobs[t] \cap Own(txBy[t]) \subseteq redeemed

(* A transaction of another user's service, not in relayer mode, went      *)
(* through for row j: its wallet holds nothing of j, so it redeems nothing. *)
SentByStranger(j) ==
  \E t \in TxIds : /\ txState[t] = "success" /\ j \in txJobs[t]
                   /\ txBy[t] \notin relayer /\ j \notin Own(txBy[t])

(* A row says 'claimed' only when its collateral was redeemed on chain     *)
(* (check_submitted_receipts), through lost responses, timeouts, crashes   *)
(* and resubmissions, with one exception: a service that is not in relayer *)
(* mode takes the rows of every owner from the listing and sends them from *)
(* its own wallet.  Where all services are relayers a claimed row is       *)
(* redeemed without exception.                                             *)
ClaimedIsRedeemed ==
  \A j \in Jobs : status[j] = "claimed" => j \in redeemed \/ SentByStranger(j)

(* The rows in flight that were sent by services whose cap is no larger    *)
(* than that of s.                                                         *)
SentUnder(s) == {j \in Submitted : MaxInflight(txBy[txHash[j]]) <= MaxInflight(s)}

(* max_inflight_claim_jobs with several services over one table: the rows  *)
(* in flight that services with a cap no larger than one's own have sent   *)
(* are together within that cap.  So all relayer services together have at *)
(* most one redemption in flight, and all services together no more than   *)
(* the largest cap; a safe-mode service does push the table past a         *)
(* relayer's cap.                                                          *)
InflightBound == \A s \in Services : Cardinality(SentUnder(s)) <= MaxInflight(s)

(* The rows of the running tick were promised their slots out of all rows. *)
SlotsReserved ==
  queue \cup cur # {} => Cardinality(Submitted \cup queue \cup cur) <= MaxInflight(svc)

(* A step that keeps every claimed row claimed and sends nothing for it.   *)
ClaimedKept ==
  \A j \in Jobs : status[j] = "claimed" =>
    /\ status'[j] = "claimed"
    /\ \A t \in TxIds : j \in txJobs'[t] => j \in txJobs[t]

(* Once claimed a row stays claimed and is never submitted again, whatever *)
(* the sweep, a stale Data API answer or a recovery does.                  *)
ClaimedIsFinal == [][ClaimedKept]_vars

(* Where every service is a relayer and the runner keeps running no row    *)
(* stays 'processing': submission always ends in submitted, retry or       *)
(* failed.  (In safe mode a batch whose gas price cannot be fetched leaves *)
(* its rows behind.)                                                       *)
ProcessingResolves ==
  \A j \in Jobs :
    relayer = Services /\ status[j] = "processing" ~> status[j] # "processing"

(* A submitted row is eventually confirmed, retried or failed: the receipt *)
(* timeout bounds the wait for a transaction that is never mined.          *)
SubmittedResolves ==
  \A j \in Jobs : status[j] = "submitted" ~> status[j] # "submitted"
=============================================================================
