--------------------------- MODULE SimulationReview ---------------------------
(***************************************************************************)
(* A simulation feedback, the improvement candidate made from it, and the     *)
(* reviewers who submit the candidate and decide it (workflowruntime, review).*)
(*                                                                         *)
(* A candidate is made, applied and rejected under the lock of its feedback's *)
(* row.  The candidate's own row is read without a lock before that, and every *)
(* column of it is written back; nothing makes a review task unique.           *)
(***************************************************************************)
EXTENDS Naturals, Sequences

CONSTANTS
  Reviewers,  \* bound: threads that submit or decide the candidate
  MaxTasks    \* bound: review tasks made for the candidate

ASSUME MaxTasksAssumption == MaxTasks \in Nat

VARIABLES
  feedback,   \* simulation_feedback: its status
  candidate,  \* simulation_improvement_candidate: its status and review task
  tasks,      \* review_task: the status of each, INSERTED before its commit
  decisions,  \* review_decision: the decisions recorded for the candidate
  reviewer,   \* how far each thread is, the row it has read, the task it has ensured
  reverted    \* history: a row was written back over one that had changed

reviewVars == <<feedback, candidate, tasks, decisions, reviewer, reverted>>

NoTask == 0
Tasks == 1..MaxTasks
TaskStatuses == {"UNUSED", "INSERTED", "OPEN", "RESOLVED", "ROLLED_BACK"}
FeedbackStatuses == {"OPEN", "CANDIDATE_CREATED", "RESOLVED", "DISMISSED"}
Decisions == {"APPROVED", "REJECTED"}
Candidates == [status : {"NONE", "DRAFT", "READY_FOR_REVIEW", "APPLIED", "REJECTED"},
               task : Tasks \cup {NoTask}]

\* Status of the candidate and of the feedback that a decision sets.
CandidateAfter(d) == IF d = "APPROVED" THEN "APPLIED" ELSE "REJECTED"
FeedbackAfter(d) == IF d = "APPROVED" THEN "RESOLVED" ELSE "DISMISSED"

\* markResolved and markDismissed throw on any other feedback, and the whole
\* decision is rolled back.
\* Mutant: the feedback's status is not looked at.
MutMayBeDecided == TRUE

MayBeDecided == feedback \in {"OPEN", "CANDIDATE_CREATED"}

NoCandidate == [status |-> "NONE", task |-> NoTask]
Idle == [at |-> "idle", row |-> NoCandidate, task |-> NoTask]

Rest(r) == reviewer' = [reviewer EXCEPT ![r] = Idle]

\* save: the row as it was read, with the changes made to it.
WriteBack(r, new) ==
  /\ candidate' = new
  /\ reverted' = (reverted \/ candidate # reviewer[r].row)

-----------------------------------------------------------------------------
\* createFromFeedback: a feedback has one candidate, later calls return it.
CreateFromFeedback ==
  /\ candidate.status = "NONE"
  /\ feedback = "OPEN"
  /\ candidate' = [status |-> "DRAFT", task |-> NoTask]
  /\ feedback' = "CANDIDATE_CREATED"
  /\ UNCHANGED <<tasks, decisions, reviewer, reverted>>

\* findCandidate, without a lock.  Of updateStatus only a DRAFT matters: a row
\* that is READY_FOR_REVIEW is left as it is, the others are refused.
Read(r, status, at) ==
  /\ reviewer[r].at = "idle"
  /\ candidate.status = status
  /\ reviewer' = [reviewer EXCEPT ![r].at = at, ![r].row = candidate]
  /\ UNCHANGED <<feedback, candidate, tasks, decisions, reverted>>

BeginSubmit(r) == Read(r, "DRAFT", "submitting")

\* ensureReviewTask: a task another transaction has committed, in whichever
\* session of reviews is the latest, or a new one.
EnsureReviewTask(r) ==
  /\ reviewer[r].at = "submitting"
  /\ LET committed == {t \in Tasks : tasks[t] \in {"OPEN", "RESOLVED"}} IN
     \/ /\ \E t \in committed :
             reviewer' = [reviewer EXCEPT ![r].at = "tasked", ![r].task = t]
        /\ UNCHANGED tasks
     \/ /\ committed = {}
        /\ \E t \in Tasks :
             /\ tasks[t] = "UNUSED"
             /\ \A u \in 1..(t - 1) : tasks[u] # "UNUSED"
             /\ tasks' = [tasks EXCEPT ![t] = "INSERTED"]
             /\ reviewer' = [reviewer EXCEPT ![r].at = "tasked", ![r].task = t]
  /\ UNCHANGED <<feedback, candidate, decisions, reverted>>

\* submitForReview, and the commit: the row is still the draft it was read as.
SubmitForReview(r) ==
  LET t == reviewer[r].task IN
  /\ reviewer[r].at = "tasked"
  /\ WriteBack(r, [status |-> "READY_FOR_REVIEW", task |-> t])
  /\ tasks' = [tasks EXCEPT ![t] = IF @ = "INSERTED" THEN "OPEN" ELSE @]
  /\ Rest(r)
  /\ UNCHANGED <<feedback, decisions>>

\* The server stops, or the transaction fails: a new task goes with it.
RollBack(r) ==
  /\ reviewer[r].at # "idle"
  /\ tasks' = [t \in Tasks |-> IF tasks[t] = "INSERTED" /\ reviewer[r].task = t
                                 THEN "ROLLED_BACK" ELSE tasks[t]]
  /\ Rest(r)
  /\ UNCHANGED <<feedback, candidate, decisions, reverted>>

\* approve and reject, up to the lock of the feedback.
BeginDecision(r) == Read(r, "READY_FOR_REVIEW", "deciding")

\* The rest of approve and reject, under the lock: requireOpenReviewTask, the
\* decision, the candidate and the feedback.  A refusal is a RollBack.
Decide(r, d) ==
  LET t == reviewer[r].row.task IN
  /\ reviewer[r].at = "deciding"
  /\ tasks[t] = "OPEN"
  /\ MayBeDecided
  /\ tasks' = [tasks EXCEPT ![t] = "RESOLVED"]
  /\ decisions' = Append(decisions, d)
  /\ WriteBack(r, [reviewer[r].row EXCEPT !.status = CandidateAfter(d)])
  /\ feedback' = FeedbackAfter(d)
  /\ Rest(r)

-----------------------------------------------------------------------------
\* A customer has left the feedback.
ReviewInit ==
  /\ feedback = "OPEN"
  /\ candidate = NoCandidate
  /\ tasks = [t \in Tasks |-> "UNUSED"]
  /\ decisions = <<>>
  /\ reviewer = [r \in Reviewers |-> Idle]
  /\ reverted = FALSE

ReviewNext ==
  \/ CreateFromFeedback
  \/ \E r \in Reviewers :
       \/ BeginSubmit(r) \/ EnsureReviewTask(r) \/ SubmitForReview(r)
       \/ BeginDecision(r) \/ RollBack(r)
       \/ \E d \in Decisions : Decide(r, d)

ReviewSpec == ReviewInit /\ [][ReviewNext]_reviewVars

\* Every variable has the form its comment gives it.
ReviewTypeOK ==
  /\ feedback \in FeedbackStatuses
  /\ candidate \in Candidates
  /\ tasks \in [Tasks -> TaskStatuses]
  /\ decisions \in Seq(Decisions)
  /\ reviewer \in [Reviewers -> [at : {"idle", "submitting", "tasked", "deciding"},
                                 row : Candidates, task : Tasks \cup {NoTask}]]
  /\ reverted \in BOOLEAN

\* A candidate is decided once, whichever of several tasks and threads decides
\* it: feedback, decision and resolved task agree, the candidate's row agrees
\* with them unless a stale copy was written over it, and a candidate that says
\* it was applied or rejected was.
DecidedOnce ==
  /\ decisions \in {<<>>, <<"APPROVED">>, <<"REJECTED">>}
  /\ \A d \in Decisions : feedback = FeedbackAfter(d) <=> decisions = <<d>>
  /\ decisions # <<>> <=> \E t \in Tasks : tasks[t] = "RESOLVED"
  /\ \A t, u \in Tasks : tasks[t] = "RESOLVED" /\ tasks[u] = "RESOLVED" => t = u
  /\ \A d \in Decisions : candidate.status = CandidateAfter(d) => decisions = <<d>>
  /\ \A d \in Decisions :
       decisions = <<d>> /\ ~reverted => candidate.status = CandidateAfter(d)

=============================================================================
