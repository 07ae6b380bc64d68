--------------------------- MODULE PipelineLifecycle ---------------------------
(***************************************************************************)
(* What the pipeline promises of the jobs of a dataset: one at a time, each   *)
(* goes through its stages in their order, stores what each stage posts once, *)
(* takes each decision once, after what it is about, and ends once.  Every    *)
(* request is one step here, made when it looks at the job.                 *)
(***************************************************************************)
EXTENDS Naturals

CONSTANT Jobs

VARIABLES
  status,    \* of each job
  stored,    \* how often the rows of each post were stored
  review     \* what an operator has to decide at each checkpoint

lifecycleVars == <<status, stored, review>>

Checkpoints == {"domain", "human"}
Posts == Checkpoints \cup {"draft", "intents", "workflow"}

Active == {"QUEUED", "RUNNING", "WAITING_DOMAIN_CONFIRMATION", "WAITING_HUMAN_FEEDBACK",
           "WAITING_INTENT_CALLBACK", "WAITING_WORKFLOW_CALLBACK"}

\* The posts that come before post e.
Before(e) ==
  CASE e = "domain" -> {}
    [] e = "human" -> {"domain"}
    [] e = "draft" -> Checkpoints
    [] e = "intents" -> Checkpoints \cup {"draft"}
    [] e = "workflow" -> Checkpoints \cup {"draft", "intents"}

\* A run may post before its job is RUNNING: before the trigger is recorded, or the
\* decision that it was started for.
TakenIn(e) ==
  CASE e = "domain" -> {"QUEUED", "RUNNING"}
    [] e = "human" -> {"WAITING_DOMAIN_CONFIRMATION", "RUNNING"}
    [] e = "draft" -> {"RUNNING"}
    [] e = "intents" -> {"WAITING_INTENT_CALLBACK"}
    [] e = "workflow" -> {"WAITING_WORKFLOW_CALLBACK"}

After(e) ==
  CASE e = "domain" -> "WAITING_DOMAIN_CONFIRMATION"
    [] e = "human" -> "WAITING_HUMAN_FEEDBACK"
    [] e = "draft" -> "WAITING_INTENT_CALLBACK"
    [] e = "intents" -> "WAITING_WORKFLOW_CALLBACK"
    [] e = "workflow" -> "SUCCEEDED"

\* A report of failure stores nothing.
LifecycleInit ==
  /\ status = [j \in Jobs |-> "none"]
  /\ stored = [j \in Jobs |-> [e \in Posts \cup {"failure"} |-> 0]]
  /\ review = [j \in Jobs |-> [k \in Checkpoints |-> "none"]]

Moves(j, from, to) ==
  /\ status[j] \in from
  /\ status' = [status EXCEPT ![j] = to]

Create(j) ==
  /\ Moves(j, {"none"}, "QUEUED")
  /\ \A i \in Jobs : status[i] \notin Active
  /\ UNCHANGED <<stored, review>>

Begin(j) ==
  /\ Moves(j, {"QUEUED"}, "RUNNING")
  /\ UNCHANGED <<stored, review>>

Store(j, e) ==
  /\ Moves(j, TakenIn(e), After(e))
  /\ \A d \in Posts : stored[j][d] = IF d \in Before(e) THEN 1 ELSE 0
  /\ e = "draft" => review[j]["human"] = "CLOSED"
  /\ stored' = [stored EXCEPT ![j][e] = 1]
  /\ review' = IF e \in Checkpoints THEN [review EXCEPT ![j][e] = "OPEN"] ELSE review

Decide(j, k) ==
  /\ Moves(j, {After(k)}, "RUNNING")
  /\ review[j][k] = "OPEN"
  /\ review' = [review EXCEPT ![j][k] = "CLOSED"]
  /\ UNCHANGED stored

Fail(j) ==
  /\ Moves(j, Active, "FAILED")
  /\ UNCHANGED <<stored, review>>

Changes(j) == status'[j] # status[j]

\* Nothing is stored or decided unless a job goes on with it.
LifecycleNext ==
  \E j \in Jobs :
    /\ Changes(j)
    /\ \/ Create(j) \/ Begin(j) \/ Fail(j)
       \/ \E e \in Posts : Store(j, e)
       \/ \E k \in Checkpoints : Decide(j, k)

LifecycleSpec == LifecycleInit /\ [][LifecycleNext]_lifecycleVars

=============================================================================
