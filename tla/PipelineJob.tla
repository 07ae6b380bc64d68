----------------------------- MODULE PipelineJob -----------------------------
(***************************************************************************)
(* The domain-pack generation of one dataset: the pipeline jobs, the Airflow *)
(* runs that work for them and the requests by which both meet in the        *)
(* backend.                                                                *)
(*                                                                         *)
(*   - an operator triggers a job (TriggerDomainPackGenerationUseCase), and  *)
(*     decides at its two review checkpoints (PipelineReviewCheckpointUseCase *)
(*     with PipelineReviewReplayOrchestrator);                              *)
(*   - Airflow posts what a run has produced: the two checkpoints, the three *)
(*     drafts, the run's failure.  Every post carries an event id that is    *)
(*     kept as a webhook receipt.                                           *)
(*                                                                         *)
(* A job has up to three runs, "initial", "confirmed" (the replay after the  *)
(* domain is confirmed) and "feedback" (the replay after the feedback).      *)
(***************************************************************************)
EXTENDS Naturals, Sequences

CONSTANTS
  Jobs,        \* the jobs the dataset may get, one at a time
  Threads,     \* request threads of the backend
  NoThread, NoJob,
  Refused,     \* the drafts whose payload or target version may be refused
  MaxTries,    \* attempts of an Airflow task
  MaxCrashes   \* bound: restarts of the backend

ASSUME NoThreadAssumption == NoThread \notin Threads
ASSUME NoJobAssumption == NoJob \notin Jobs
ASSUME MaxTriesAssumption == MaxTries \in Nat \ {0}
ASSUME PipelineCrashesAssumption == MaxCrashes \in Nat

Checkpoints == {"domain", "human"}
Drafts == {"draft", "intents", "workflow"}
Events == Checkpoints \cup Drafts \cup {"failure"}

ASSUME RefusedAssumption == Refused \subseteq Drafts

VARIABLES
  job,         \* pipeline_job: status and @Version
  receipt,     \* webhook_receipt, by job and event
  applied,     \* how often an event's rows (artifact, session, drafts) were stored
  session,     \* review_session of each checkpoint
  run,         \* Airflow's runs
  thread,
  crashes

vars == <<job, receipt, applied, session, run, thread, crashes>>

Runs == {"initial", "confirmed", "feedback"}

\* What a run posts, in this order.
Posts(r) ==
  CASE r = "initial" -> <<"domain">>
    [] r = "confirmed" -> <<"human">>
    [] r = "feedback" -> <<"draft", "intents", "workflow">>

ReplayOf(k) == IF k = "domain" THEN "confirmed" ELSE "feedback"

WaitingFor(k) ==
  IF k = "domain" THEN "WAITING_DOMAIN_CONFIRMATION" ELSE "WAITING_HUMAN_FEEDBACK"

Active == {"QUEUED", "RUNNING", "WAITING_DOMAIN_CONFIRMATION", "WAITING_HUMAN_FEEDBACK",
           "WAITING_INTENT_CALLBACK", "WAITING_WORKFLOW_CALLBACK"}
Final == {"SUCCEEDED", "FAILED"}

JobRecord == [status : Active \cup Final \cup {"none"}, version : Nat]

RunRecord ==
  [status : {"absent", "running", "success", "failed"},
   at : 1..4, try : 1..MaxTries, call : Threads \cup {NoThread}, reported : BOOLEAN]

ThreadRecord ==
  [pc : {"idle", "locked", "calling", "called", "uncalled",
         "reviewing", "replayed", "unreplayed",
         "arrived", "received", "working", "refused", "failing"},
   job : Jobs \cup {NoJob},
   event : Events,
   run : Runs,
   seen : Nat]

TypeOK ==
  /\ job \in [Jobs -> JobRecord]
  /\ receipt \in [Jobs -> [Events -> {"none", "RECEIVED", "PROCESSED", "FAILED"}]]
  /\ applied \in [Jobs -> [Events -> Nat]]
  /\ session \in [Jobs -> [Checkpoints -> {"none", "OPEN", "CLOSED"}]]
  /\ run \in [Jobs -> [Runs -> RunRecord]]
  /\ thread \in [Threads -> ThreadRecord]
  /\ crashes \in 0..MaxCrashes

Idle == [pc |-> "idle", job |-> NoJob, event |-> "domain", run |-> "initial", seen |-> 0]

Init ==
  /\ job = [j \in Jobs |-> [status |-> "none", version |-> 0]]
  /\ receipt = [j \in Jobs |-> [e \in Events |-> "none"]]
  /\ applied = [j \in Jobs |-> [e \in Events |-> 0]]
  /\ session = [j \in Jobs |-> [k \in Checkpoints |-> "none"]]
  /\ run = [j \in Jobs |-> [r \in Runs |->
       [status |-> "absent", at |-> 1, try |-> 1, call |-> NoThread, reported |-> FALSE]]]
  /\ thread = [t \in Threads |-> Idle]
  /\ crashes = 0

-----------------------------------------------------------------------------
(* The row.  save is saveAndFlush: it fails when the row has a version other *)
(* than the one the transaction has read.                                   *)

Row(j, status) == [status |-> status, version |-> job[j].version + 1]

Save(j, status) == job' = [job EXCEPT ![j] = Row(j, status)]

IsFinalized(j) == job[j].status \in Final

\* Mutant: a row without @Version.
MutUnchanged(t) == TRUE

Unchanged(t) == job[thread[t].job].version = thread[t].seen

At(t, pc) == thread[t].pc = pc

Goto(t, pc) == thread' = [thread EXCEPT ![t].pc = pc]

Return(t) == thread' = [thread EXCEPT ![t] = Idle]

-----------------------------------------------------------------------------
(* Airflow: a run's only calling task is retried MaxTries - 1 times and      *)
(* keeps what it has posted.  A duplicate reply to the first draft carries   *)
(* no version id, without which the task cannot go on.                      *)

\* Attempts of a task that has ended are not looked at any more.
Ended(x, status) == [x EXCEPT !.status = status, !.try = 1, !.call = NoThread]

\* Mutant: one attempt too many.
MutTaskFails(x) ==
  IF x.try <= MaxTries THEN [x EXCEPT !.try = @ + 1, !.call = NoThread] ELSE Ended(x, "failed")

TaskFails(x) ==
  IF x.try < MaxTries THEN [x EXCEPT !.try = @ + 1, !.call = NoThread] ELSE Ended(x, "failed")

TaskGoesOn(x, r) ==
  LET y == [x EXCEPT !.at = @ + 1, !.call = NoThread]
  IN  IF x.at = Len(Posts(r)) THEN Ended(y, "success") ELSE y

Accepts(e, reply) == reply = "created" \/ (reply = "duplicate" /\ e # "draft")

\* The reply reaches the run unless it has given up the call.
ReplyTo(t, reply) ==
  LET j == thread[t].job
      r == thread[t].run
  IN  run' = IF thread[t].event # "failure" /\ run[j][r].call = t
             THEN [run EXCEPT ![j][r] =
                     IF Accepts(thread[t].event, reply) THEN TaskGoesOn(@, r) ELSE TaskFails(@)]
             ELSE run

PostCallback(t) ==
  /\ At(t, "idle")
  /\ \E j \in Jobs, r \in Runs :
       /\ run[j][r].status = "running"
       /\ run[j][r].call = NoThread
       /\ run' = [run EXCEPT ![j][r].call = t]
       /\ thread' = [thread EXCEPT ![t] =
            [Idle EXCEPT !.pc = "arrived", !.job = j, !.event = Posts(r)[run[j][r].at], !.run = r]]
  /\ UNCHANGED <<job, receipt, applied, session, crashes>>

\* The client gives up after callback_timeout_seconds; the request goes on.
CallbackTimesOut ==
  /\ \E j \in Jobs, r \in Runs :
       /\ run[j][r].call # NoThread
       /\ run' = [run EXCEPT ![j][r] = TaskFails(@)]
  /\ UNCHANGED <<job, receipt, applied, session, thread, crashes>>

\* A task that posts nothing fails, retry included: a stage before the posts,
\* or the stopping of the model service, for which the posts do not wait.
TaskThatPostsNothingFails ==
  /\ \E j \in Jobs, r \in Runs :
       /\ run[j][r].status \in {"running", "success"}
       /\ run[j][r].call = NoThread
       /\ run' = [run EXCEPT ![j][r] = Ended(@, "failed")]
  /\ UNCHANGED <<job, receipt, applied, session, thread, crashes>>

\* notify_failure_callback: sent once, whatever comes of it.
NotifyFailure(t) ==
  /\ At(t, "idle")
  /\ \E j \in Jobs, r \in Runs :
       /\ run[j][r].status = "failed"
       /\ ~run[j][r].reported
       /\ run' = [run EXCEPT ![j][r].reported = TRUE]
       /\ thread' = [thread EXCEPT ![t] =
            [Idle EXCEPT !.pc = "arrived", !.job = j, !.event = "failure", !.run = r]]
  /\ UNCHANGED <<job, receipt, applied, session, crashes>>

-----------------------------------------------------------------------------
(* DomainPackGenerationTriggerPort.trigger: the run's id is the job's and the *)
(* mode's, so a run that is there already counts as created.  A failed call   *)
(* may have created it.                                                      *)

Created(j, r) ==
  run' = IF run[j][r].status = "absent" THEN [run EXCEPT ![j][r].status = "running"] ELSE run

TriggerPort(j, r, ok) == Created(j, r) \/ (~ok /\ run' = run)

-----------------------------------------------------------------------------
(* TriggerDomainPackGenerationUseCase: a first transaction creates the job    *)
(* under an advisory lock, the call to Airflow follows, a second one reports.  *)

\* Mutant: findActiveDomainPackGenerationJob without the advisory lock.
MutLockIsFree == TRUE

LockIsFree == \A t \in Threads : ~At(t, "locked")

\* With an active job the request returns it and nothing changes.
LockAndFindActive(t) ==
  /\ At(t, "idle")
  /\ LockIsFree
  /\ \A j \in Jobs : job[j].status \notin Active
  /\ \E j \in Jobs : job[j].status = "none"
  /\ Goto(t, "locked")
  /\ UNCHANGED <<job, receipt, applied, session, run, crashes>>

PrepareTrigger(t) ==
  /\ At(t, "locked")
  /\ \E j \in Jobs :
       /\ job[j].status = "none"
       /\ Save(j, "QUEUED")
       /\ thread' = [thread EXCEPT ![t].pc = "calling", ![t].job = j]
  /\ UNCHANGED <<receipt, applied, session, run, crashes>>

TriggerInitial(t) ==
  /\ At(t, "calling")
  /\ \E ok \in BOOLEAN :
       /\ TriggerPort(thread[t].job, "initial", ok)
       /\ Goto(t, IF ok THEN "called" ELSE "uncalled")
  /\ UNCHANGED <<job, receipt, applied, session, crashes>>

\* markAirflowTriggered, unless a callback was faster.
MarkTriggered(t) ==
  LET j == thread[t].job
  IN  /\ At(t, "called")
      /\ IF job[j].status = "QUEUED" THEN Save(j, "RUNNING") ELSE UNCHANGED job
      /\ Return(t)
      /\ UNCHANGED <<receipt, applied, session, run, crashes>>

\* markFailed after an AirflowTriggerFailedException.
MarkTriggerFailed(t) ==
  LET j == thread[t].job
  IN  /\ At(t, "uncalled")
      /\ IF IsFinalized(j) THEN UNCHANGED job ELSE Save(j, "FAILED")
      /\ Return(t)
      /\ UNCHANGED <<receipt, applied, session, run, crashes>>

-----------------------------------------------------------------------------
(* confirmDomain and submitFeedback: one transaction around the call.         *)

BeginReview(t) ==
  /\ At(t, "idle")
  /\ \E j \in Jobs, k \in Checkpoints :
       /\ job[j].status = WaitingFor(k)
       /\ session[j][k] = "OPEN"
       /\ thread' = [thread EXCEPT ![t] =
            [Idle EXCEPT !.pc = "reviewing", !.job = j, !.event = k, !.seen = job[j].version]]
  /\ UNCHANGED <<job, receipt, applied, session, run, crashes>>

\* Mutant: a trigger that failed is taken for one that worked.
MutTriggerReplay(t) ==
  /\ At(t, "reviewing")
  /\ \E ok \in BOOLEAN :
       /\ TriggerPort(thread[t].job, ReplayOf(thread[t].event), ok)
       /\ Goto(t, "replayed")
  /\ UNCHANGED <<job, receipt, applied, session, crashes>>

TriggerReplay(t) ==
  /\ At(t, "reviewing")
  /\ \E ok \in BOOLEAN :
       /\ TriggerPort(thread[t].job, ReplayOf(thread[t].event), ok)
       /\ Goto(t, IF ok THEN "replayed" ELSE "unreplayed")
  /\ UNCHANGED <<job, receipt, applied, session, crashes>>

\* markRunning with the decision and the closed session, or all rolled back.
CommitReview(t) ==
  LET j == thread[t].job
  IN  /\ At(t, "replayed")
      /\ IF Unchanged(t)
         THEN /\ Save(j, "RUNNING")
              /\ session' = [session EXCEPT ![j][thread[t].event] = "CLOSED"]
         ELSE UNCHANGED <<job, session>>
      /\ Return(t)
      /\ UNCHANGED <<receipt, applied, run, crashes>>

\* PipelineJobFailurePersistenceService, in a transaction of its own, merges
\* the row the review has read; the review is rolled back.
FailReview(t) ==
  /\ At(t, "unreplayed")
  /\ IF Unchanged(t) THEN Save(thread[t].job, "FAILED") ELSE UNCHANGED job
  /\ Return(t)
  /\ UNCHANGED <<receipt, applied, session, run, crashes>>

-----------------------------------------------------------------------------
(* The callbacks.  Each first looks at the receipt and the job.  The domain   *)
(* pack id of a job is null until its draft is applied.                       *)

\* canAcceptDomainPackDraftCallback and its like, after isFinalized.
CanAccept(j, e) ==
  CASE e = "draft" -> job[j].status \in {"QUEUED", "RUNNING"} /\ applied[j]["draft"] = 0
    [] e = "intents" -> job[j].status = "WAITING_INTENT_CALLBACK"
    [] e = "workflow" -> job[j].status \in {"WAITING_WORKFLOW_CALLBACK", "RUNNING"}
    [] e \in Checkpoints -> ~IsFinalized(j)
    [] e = "failure" -> TRUE

\* validateTarget: a job knows the run id of its initial run only.
IsTarget(e, r) == e = "failure" => r = "initial"

\* Mutant: a receipt that is there counts as processed.
MutIsProcessed(j, e) == receipt[j][e] # "none"

IsProcessed(j, e) == receipt[j][e] = "PROCESSED"

\* execute, down to ensureReceivedReceipt.  A checkpoint's callback is one
\* transaction: it keeps the row it reads here, and its receipt is not visible
\* before it commits.
Receive(t) ==
  LET j == thread[t].job
      e == thread[t].event
      r == thread[t].run
  IN  /\ At(t, "arrived")
      /\ \/ /\ IsProcessed(j, e)
            /\ ReplyTo(t, "duplicate")
            /\ Return(t)
            /\ UNCHANGED receipt
         \/ /\ ~IsProcessed(j, e)
            /\ ~(CanAccept(j, e) /\ IsTarget(e, r))
            /\ ReplyTo(t, "error")
            /\ Return(t)
            /\ UNCHANGED receipt
         \/ /\ ~IsProcessed(j, e)
            /\ CanAccept(j, e)
            /\ IsTarget(e, r)
            /\ IF e \in Checkpoints
               THEN /\ thread' = [thread EXCEPT ![t].pc = "working", ![t].seen = job[j].version]
                    /\ UNCHANGED receipt
               ELSE /\ Goto(t, "received")
                    /\ receipt' = [receipt EXCEPT ![j][e] = IF @ = "none" THEN "RECEIVED" ELSE @]
            /\ UNCHANGED run
      /\ UNCHANGED <<job, applied, session, crashes>>

\* The transaction of processCallback reads the job again, not the receipt.
BeginCallback(t) ==
  LET j == thread[t].job
      e == thread[t].event
  IN  /\ At(t, "received")
      /\ \/ /\ CanAccept(j, e)
            /\ e = "failure" => ~IsFinalized(j)
            /\ thread' = [thread EXCEPT ![t].pc = "working", ![t].seen = job[j].version]
            /\ UNCHANGED <<receipt, run>>
         \/ /\ ~CanAccept(j, e) \/ (e = "failure" /\ job[j].status = "SUCCEEDED")
            /\ Goto(t, "refused")
            /\ UNCHANGED <<receipt, run>>
         \/ /\ e = "failure"
            /\ job[j].status = "FAILED"
            /\ receipt' = [receipt EXCEPT ![j][e] = "PROCESSED"]
            /\ ReplyTo(t, "created")
            /\ Return(t)
      /\ UNCHANGED <<job, applied, session, crashes>>

StatusAfter(e) ==
  CASE e = "draft" -> "WAITING_INTENT_CALLBACK"
    [] e = "intents" -> "WAITING_WORKFLOW_CALLBACK"
    [] e = "workflow" -> "SUCCEEDED"
    [] e = "failure" -> "FAILED"
    [] e \in Checkpoints -> WaitingFor(e)

\* Mutant: markReceiptProcessed is forgotten for the checkpoints.
MutProcessed(e) == IF e \in Checkpoints THEN "FAILED" ELSE "PROCESSED"

Processed(e) == "PROCESSED"

\* processCallback and processCheckpoint: the rows, the job and the receipt
\* are stored together.  Workflows belong to the pack of the job
\* (validateTargetVersion) and are posted once, as the final callback.
CommitCallback(t) ==
  LET j == thread[t].job
      e == thread[t].event
  IN  /\ At(t, "working")
      /\ Unchanged(t)
      /\ e \in Checkpoints => receipt[j][e] # "PROCESSED"
      /\ e \in Drafts => applied[j][e] = 0
      /\ e = "workflow" => applied[j]["draft"] = 1
      /\ Save(j, StatusAfter(e))
      /\ applied' = IF e = "failure" THEN applied ELSE [applied EXCEPT ![j][e] = @ + 1]
      /\ session' = IF e \in Checkpoints THEN [session EXCEPT ![j][e] = "OPEN"] ELSE session
      /\ receipt' = [receipt EXCEPT ![j][e] = Processed(e)]
      /\ ReplyTo(t, "created")
      /\ Return(t)
      /\ UNCHANGED crashes

\* A checkpoint that loses the race for its receipt or its job, or whose
\* payload is refused, leaves nothing behind.
RollBackCheckpoint(t) ==
  /\ At(t, "working")
  /\ thread[t].event \in Checkpoints
  /\ ReplyTo(t, "error")
  /\ Return(t)
  /\ UNCHANGED <<job, receipt, applied, session, crashes>>

\* PipelineJobConflictException.  A second delivery of the drafts meets their
\* rows before it comes to save the job, except that intents which its query
\* sees are skipped.
LoseRace(t) ==
  LET j == thread[t].job
      e == thread[t].event
  IN  /\ At(t, "working")
      /\ e \notin Checkpoints
      /\ ~Unchanged(t)
      /\ e \in {"draft", "workflow"} => applied[j][e] = 0
      /\ Goto(t, "refused")
      /\ UNCHANGED <<job, receipt, applied, session, run, crashes>>

\* Any other exception: the payload is refused, the version is no draft any
\* more; or the rows are there, and with them the pack's only draft or a code
\* that is unique in its version.
FailCallback(t) ==
  /\ At(t, "working")
  /\ \/ thread[t].event \in Refused
     \/ thread[t].event \in Drafts /\ applied[thread[t].job][thread[t].event] > 0
  /\ Goto(t, "failing")
  /\ UNCHANGED <<job, receipt, applied, session, run, crashes>>

\* Mutant: markFailure without the test of isFinalized.
MutMayBeFailed(t) == At(t, "failing")

MayBeFailed(t) == At(t, "failing") /\ ~IsFinalized(thread[t].job)

\* markFailure, in a transaction of its own.
MarkFailure(t) ==
  LET j == thread[t].job
      e == thread[t].event
  IN  /\ At(t, "refused") \/ At(t, "failing")
      /\ receipt' = [receipt EXCEPT ![j][e] = IF @ = "PROCESSED" THEN @ ELSE "FAILED"]
      /\ IF MayBeFailed(t) THEN Save(j, "FAILED") ELSE UNCHANGED job
      /\ ReplyTo(t, "error")
      /\ Return(t)
      /\ UNCHANGED <<applied, session, crashes>>

-----------------------------------------------------------------------------
(* The backend stops and starts again: open transactions are rolled back, a   *)
(* caller sees its call fail.                                                *)

Crash ==
  /\ crashes < MaxCrashes
  /\ crashes' = crashes + 1
  /\ thread' = [t \in Threads |-> Idle]
  /\ run' = [j \in Jobs |-> [r \in Runs |->
       IF run[j][r].call = NoThread THEN run[j][r] ELSE TaskFails(run[j][r])]]
  /\ UNCHANGED <<job, receipt, applied, session>>

Trigger(t) ==
  \/ LockAndFindActive(t) \/ PrepareTrigger(t) \/ TriggerInitial(t)
  \/ MarkTriggered(t) \/ MarkTriggerFailed(t)

Review(t) == BeginReview(t) \/ TriggerReplay(t) \/ CommitReview(t) \/ FailReview(t)

Callback(t) ==
  \/ Receive(t) \/ BeginCallback(t) \/ CommitCallback(t) \/ RollBackCheckpoint(t)
  \/ LoseRace(t) \/ FailCallback(t) \/ MarkFailure(t)

Next ==
  \/ \E t \in Threads : Trigger(t) \/ Review(t) \/ Callback(t)
  \/ \E t \in Threads : PostCallback(t) \/ NotifyFailure(t)
  \/ CallbackTimesOut
  \/ TaskThatPostsNothingFails
  \/ Crash

Spec == Init /\ [][Next]_vars

\* The threads finish what they have begun, and Airflow its runs and reports.
\* Nothing makes an operator act, and nothing fails of necessity.
Finishes(t) ==
  \/ PrepareTrigger(t) \/ TriggerInitial(t) \/ MarkTriggered(t) \/ MarkTriggerFailed(t)
  \/ TriggerReplay(t) \/ CommitReview(t) \/ FailReview(t)
  \/ Callback(t)

Fairness ==
  /\ \A t \in Threads : WF_vars(Finishes(t))
  /\ WF_vars(\E t \in Threads : PostCallback(t))
  /\ WF_vars(\E t \in Threads : NotifyFailure(t))

FairSpec == Spec /\ Fairness

-----------------------------------------------------------------------------

\* Of one dataset's jobs at most one is not finished: prepareTrigger looks for an
\* active job and creates the new one under one lock.
OneActiveJob ==
  \A i, j \in Jobs : job[i].status \in Active /\ job[j].status \in Active => i = j

\* A post takes effect exactly once if its receipt says so and not at all
\* otherwise, through retries, late first attempts and restarts.
AppliedOnce ==
  \A j \in Jobs, e \in Events \ {"failure"} :
    applied[j][e] = IF receipt[j][e] = "PROCESSED" THEN 1 ELSE 0

\* What Airflow believes to have delivered has been stored: a 2xx answer, the
\* duplicate's included, is never given to a post that has left no rows.
AcknowledgedIsApplied ==
  \A j \in Jobs, r \in Runs : \A i \in 1..(run[j][r].at - 1) :
    applied[j][Posts(r)[i]] = 1

\* A run that has published all its drafts has made its job succeed.
PublishedMeansSucceeded ==
  \A j \in Jobs : run[j]["feedback"].status = "success" => job[j].status = "SUCCEEDED"

\* A decision is on record only when the replay it asks for has been created,
\* though the decision is committed after the call to Airflow and may be
\* rolled back, or its call may fail.
DecisionHasReplay ==
  \A j \in Jobs, k \in Checkpoints :
    session[j][k] = "CLOSED" => run[j][ReplayOf(k)].status # "absent"

\* A finished job stays as it finished: neither a callback or a decision that
\* had read the job before, nor a failure reported late, changes its status.
FinalIsFinal ==
  [][\A j \in Jobs : IsFinalized(j) => job'[j].status = job[j].status]_vars

Lifecycle == INSTANCE PipelineLifecycle WITH
  status <- [j \in Jobs |-> job[j].status], stored <- applied, review <- session

\* The jobs of a dataset implement PipelineLifecycle: although every request looks
\* at a job in one transaction and changes it in a later one, and posts and decisions
\* come twice, late and at once, each change is one the job allows when it is made.
ImplementsLifecycle == Lifecycle!LifecycleSpec

\* .agent/specs/213.md:46 and 217.md:56 say that concurrent callbacks are
\* turned away with 409 by the job's version: the delivery that loses does not
\* change the job the other one has moved on.
LoserLeavesJobAlone ==
  [][\A t \in Threads :
       MarkFailure(t) /\ IsProcessed(thread[t].job, thread[t].event) => UNCHANGED job]_vars

\* .agent/specs/215.md:752 says that the failure callback tells the backend to
\* wait no longer for the drafts of a run that has failed for good: its job
\* ends.
FailedRunEndsJob ==
  \A j \in Jobs, r \in Runs :
    (run[j][r].status = "failed") ~> IsFinalized(j)

=============================================================================
