-------------------------- MODULE PipelineJob_proof --------------------------
(***************************************************************************)
(* The safety properties of PipelineJob, for any number of jobs, request     *)
(* threads, attempts and crashes, whichever drafts may be refused.           *)
(***************************************************************************)
EXTENDS PipelineJob, TLAPS

-----------------------------------------------------------------------------
(* Runs *)

\* A run posts one to three events, none of them its failure.
LEMMA PostsFacts ==
  ASSUME NEW r \in Runs
  PROVE  /\ Len(Posts(r)) \in 1..3
         /\ \A i \in 1..Len(Posts(r)) : Posts(r)[i] \in Checkpoints \cup Drafts
         /\ r = "feedback" => Len(Posts(r)) = 3 /\ Posts(r)[3] = "workflow"
<1>1. CASE r = "initial"
  BY <1>1 DEF Posts, Checkpoints, Drafts
<1>2. CASE r = "confirmed"
  BY <1>2 DEF Posts, Checkpoints, Drafts
<1>3. CASE r = "feedback"
  BY <1>3 DEF Posts, Checkpoints, Drafts
<1> QED
  BY <1>1, <1>2, <1>3 DEF Runs

\* What the status of a run says of its post and its call.
RunShape(x, r) ==
  /\ x.status = "absent" => x.at = 1 /\ x.call = NoThread
  /\ x.status = "running" => x.at <= Len(Posts(r))
  /\ x.status = "success" => x.at = Len(Posts(r)) + 1
  /\ x.call # NoThread => x.status = "running"

\* A run that ends keeps its place.
LEMMA EndedType ==
  ASSUME NEW x \in RunRecord, NEW status \in {"success", "failed"}
  PROVE  /\ Ended(x, status) \in RunRecord
         /\ Ended(x, status).status = status
         /\ Ended(x, status).at = x.at
         /\ Ended(x, status).call = NoThread
<1>1. 1 \in 1..MaxTries
  BY MaxTriesAssumption
<1>2. Ended(x, status) \in RunRecord
  BY <1>1 DEF Ended, RunRecord
<1>3. /\ Ended(x, status).status = status
      /\ Ended(x, status).at = x.at
      /\ Ended(x, status).call = NoThread
  BY DEF Ended, RunRecord
<1> QED
  BY <1>2, <1>3

\* So does one that tries again.
LEMMA TaskFailsType ==
  ASSUME NEW x \in RunRecord, NEW r \in Runs
  PROVE  /\ Ended(x, "failed") \in RunRecord /\ RunShape(Ended(x, "failed"), r)
         /\ RunShape(x, r) /\ x.status = "running" =>
              /\ TaskFails(x) \in RunRecord
              /\ RunShape(TaskFails(x), r)
              /\ TaskFails(x).at = x.at
              /\ TaskFails(x).call = NoThread
              /\ TaskFails(x).status \in {"running", "failed"}
<1>1. 1 \in 1..MaxTries /\ x.try \in 1..MaxTries
  BY MaxTriesAssumption DEF RunRecord
<1>4. RunShape(Ended(x, "failed"), r)
  BY EndedType DEF RunShape
<1>5. ASSUME RunShape(x, r), x.status = "running", x.try < MaxTries
      PROVE  /\ TaskFails(x) \in RunRecord
             /\ RunShape(TaskFails(x), r)
             /\ TaskFails(x).at = x.at
             /\ TaskFails(x).call = NoThread
             /\ TaskFails(x).status = "running"
  <2>1. TaskFails(x) = [x EXCEPT !.try = @ + 1, !.call = NoThread]
    BY <1>5 DEF TaskFails
  <2>2. x.try + 1 \in 1..MaxTries
    BY <1>1, <1>5, MaxTriesAssumption
  <2>3. TaskFails(x) \in RunRecord
    BY <2>1, <2>2 DEF RunRecord
  <2>4. /\ TaskFails(x).status = x.status
        /\ TaskFails(x).at = x.at
        /\ TaskFails(x).call = NoThread
    BY <2>1 DEF RunRecord
  <2> QED
    BY <1>5, <2>3, <2>4 DEF RunShape
<1> QED
  BY <1>4, <1>5, EndedType DEF TaskFails

\* A run goes on to its next post, or has made its last one.
LEMMA TaskGoesOnType ==
  ASSUME NEW x \in RunRecord, NEW r \in Runs, RunShape(x, r), x.status = "running"
  PROVE  /\ TaskGoesOn(x, r) \in RunRecord
         /\ RunShape(TaskGoesOn(x, r), r)
         /\ TaskGoesOn(x, r).at = x.at + 1
         /\ TaskGoesOn(x, r).call = NoThread
         /\ TaskGoesOn(x, r).status \in {"running", "success"}
<1> DEFINE y == [x EXCEPT !.at = @ + 1, !.call = NoThread]
<1>1. x.at \in 1..3 /\ x.at <= Len(Posts(r)) /\ Len(Posts(r)) \in 1..3
  BY PostsFacts DEF RunShape, RunRecord
<1>2. x.at + 1 \in 1..4 /\ NoThread \in Threads \cup {NoThread}
  BY <1>1
<1>3. y \in RunRecord
  BY <1>2 DEF RunRecord
<1>4. y.at = x.at + 1 /\ y.call = NoThread /\ y.status = "running"
  BY DEF RunRecord
<1>5. CASE x.at = Len(Posts(r))
  <2>1. TaskGoesOn(x, r) = Ended(y, "success")
    BY <1>5 DEF TaskGoesOn
  <2> QED
    BY <1>1, <1>3, <1>4, <1>5, <2>1, EndedType DEF RunShape
<1>6. CASE x.at # Len(Posts(r))
  <2>1. TaskGoesOn(x, r) = y
    BY <1>6 DEF TaskGoesOn
  <2> QED
    BY <1>1, <1>3, <1>4, <1>6, <2>1 DEF RunShape
<1> QED
  BY <1>5, <1>6

-----------------------------------------------------------------------------
(* Threads *)

ReviewPc == {"reviewing", "replayed", "unreplayed"}

\* What the program counter of a thread says of its local variables.
LocalsOK ==
  \A t \in Threads :
    /\ thread[t].pc \notin {"idle", "locked"} => thread[t].job \in Jobs
    /\ thread[t].pc \in ReviewPc => thread[t].event \in Checkpoints

RunsOK == \A j \in Jobs, r \in Runs : RunShape(run[j][r], r)

Typed == TypeOK /\ LocalsOK /\ RunsOK

\* The local variables of a thread between two steps.
LEMMA LocalTypes ==
  ASSUME Typed, NEW t \in Threads
  PROVE  /\ thread[t] \in ThreadRecord
         /\ thread[t].event \in Events
         /\ thread[t].run \in Runs
         /\ thread[t].seen \in Nat
         /\ thread[t].pc \notin {"idle", "locked"} =>
              /\ thread[t].job \in Jobs
              /\ job[thread[t].job] \in JobRecord
         /\ thread[t].pc \in ReviewPc => thread[t].event \in Checkpoints
<1>1. thread[t] \in ThreadRecord
  BY DEF Typed, TypeOK
<1> QED
  BY <1>1 DEF Typed, TypeOK, LocalsOK, ThreadRecord

\* A thread takes typed local variables.
LEMMA ThreadType ==
  ASSUME Typed, NEW t \in Threads, NEW x \in ThreadRecord,
         x.pc \notin {"idle", "locked"} => x.job \in Jobs,
         x.pc \in ReviewPc => x.event \in Checkpoints,
         thread' = [thread EXCEPT ![t] = x]
  PROVE  thread' \in [Threads -> ThreadRecord] /\ LocalsOK'
<1>1. thread \in [Threads -> ThreadRecord]
  BY DEF Typed, TypeOK
<1>2. thread' \in [Threads -> ThreadRecord]
  BY <1>1
<1>3. \A u \in Threads : thread'[u] = IF u = t THEN x ELSE thread[u]
  BY <1>1
<1> QED
  BY <1>2, <1>3 DEF Typed, LocalsOK

\* It keeps them when it goes on,
LEMMA GotoType ==
  ASSUME Typed, NEW t \in Threads,
         NEW pc \in {"idle", "locked", "calling", "called", "uncalled",
                     "reviewing", "replayed", "unreplayed",
                     "arrived", "received", "working", "refused", "failing"},
         pc \notin {"idle", "locked"} => thread[t].job \in Jobs,
         pc \in ReviewPc => thread[t].event \in Checkpoints,
         Goto(t, pc)
  PROVE  thread' \in [Threads -> ThreadRecord] /\ LocalsOK'
<1> DEFINE x == [thread[t] EXCEPT !.pc = pc]
<1>1. thread[t] \in ThreadRecord
  BY LocalTypes
<1>2. x \in ThreadRecord /\ x.pc = pc /\ x.job = thread[t].job /\ x.event = thread[t].event
  BY <1>1 DEF ThreadRecord
<1>3. thread' = [thread EXCEPT ![t] = x]
  BY DEF Goto
<1> HIDE DEF x
<1> QED
  BY <1>2, <1>3, ThreadType

\* remembers the version it reads,
LEMMA WorkType ==
  ASSUME Typed, NEW t \in Threads, thread[t].job \in Jobs,
         thread' = [thread EXCEPT ![t].pc = "working",
                                  ![t].seen = job[thread[t].job].version]
  PROVE  thread' \in [Threads -> ThreadRecord] /\ LocalsOK'
<1> DEFINE x == [thread[t] EXCEPT !.pc = "working", !.seen = job[thread[t].job].version]
<1>1. thread[t] \in ThreadRecord /\ job[thread[t].job].version \in Nat
  BY LocalTypes DEF Typed, TypeOK, JobRecord
<1>2. x \in ThreadRecord /\ x.pc = "working" /\ x.job = thread[t].job
  BY <1>1 DEF ThreadRecord
<1>3. thread' = [thread EXCEPT ![t] = x]
  BY <1>1 DEF ThreadRecord, Typed, TypeOK
<1> HIDE DEF x
<1> QED
  BY <1>2, <1>3, ThreadType DEF ReviewPc

\* An idle thread has no job,
LEMMA IdleType ==
  Idle \in ThreadRecord /\ Idle.pc = "idle" /\ Idle.job = NoJob
BY DEF Idle, ThreadRecord, Events, Checkpoints, Runs

\* and gives them up when it ends.
LEMMA ReturnType ==
  ASSUME Typed, NEW t \in Threads, Return(t)
  PROVE  thread' \in [Threads -> ThreadRecord] /\ LocalsOK'
<1>1. thread' = [thread EXCEPT ![t] = Idle]
  BY DEF Return
<1>2. Idle.pc \notin ReviewPc
  BY IdleType DEF ReviewPc
<1> QED
  BY <1>1, <1>2, IdleType, ThreadType

\* Saving a job keeps the table a table of jobs.
LEMMA SaveType ==
  ASSUME Typed, NEW j \in Jobs, NEW status \in Active \cup Final, Save(j, status)
  PROVE  job' \in [Jobs -> JobRecord]
<1>1. job[j].version + 1 \in Nat
  BY DEF Typed, TypeOK, JobRecord
<1>2. Row(j, status) \in JobRecord
  BY <1>1 DEF Row, JobRecord
<1> QED
  BY <1>2 DEF Save, Typed, TypeOK

\* A run takes a typed state.
LEMMA RunType ==
  ASSUME Typed, NEW j \in Jobs, NEW r \in Runs, NEW x \in RunRecord, RunShape(x, r),
         run' = [run EXCEPT ![j][r] = x]
  PROVE  run' \in [Jobs -> [Runs -> RunRecord]] /\ RunsOK'
<1>1. run \in [Jobs -> [Runs -> RunRecord]]
  BY DEF Typed, TypeOK
<1>2. run' \in [Jobs -> [Runs -> RunRecord]]
  BY <1>1
<1>3. \A i \in Jobs, q \in Runs : run'[i][q] = IF i = j /\ q = r THEN x ELSE run[i][q]
  BY <1>1
<1> QED
  BY <1>2, <1>3 DEF Typed, RunsOK

\* A reply leaves the runs typed.
LEMMA ReplyType ==
  ASSUME Typed, NEW t \in Threads, NEW reply, thread[t].job \in Jobs, ReplyTo(t, reply)
  PROVE  run' \in [Jobs -> [Runs -> RunRecord]] /\ RunsOK'
<1> DEFINE j == thread[t].job
           r == thread[t].run
           x == run[j][r]
<1>1. r \in Runs /\ x \in RunRecord /\ RunShape(x, r)
  BY LocalTypes DEF Typed, TypeOK, RunsOK
<1>2. CASE thread[t].event # "failure" /\ x.call = t
  <2>1. x.status = "running"
    BY <1>1, <1>2, NoThreadAssumption DEF RunShape
  <2>2. CASE Accepts(thread[t].event, reply)
    <3>1. run' = [run EXCEPT ![j][r] = TaskGoesOn(x, r)]
      BY <1>2, <2>2 DEF ReplyTo
    <3>2. TaskGoesOn(x, r) \in RunRecord /\ RunShape(TaskGoesOn(x, r), r)
      BY <1>1, <2>1, TaskGoesOnType
    <3> QED
      BY <1>1, <3>1, <3>2, RunType
  <2>3. CASE ~Accepts(thread[t].event, reply)
    <3>1. run' = [run EXCEPT ![j][r] = TaskFails(x)]
      BY <1>2, <2>3 DEF ReplyTo
    <3> QED
      BY <1>1, <2>1, <3>1, TaskFailsType, RunType
  <2> QED
    BY <2>2, <2>3
<1>3. CASE ~(thread[t].event # "failure" /\ x.call = t)
  BY <1>3 DEF ReplyTo, Typed, TypeOK, RunsOK
<1> QED
  BY <1>2, <1>3

\* So does the creation of a run.
LEMMA TriggerPortType ==
  ASSUME Typed, NEW j \in Jobs, NEW r \in Runs, NEW ok \in BOOLEAN, TriggerPort(j, r, ok)
  PROVE  run' \in [Jobs -> [Runs -> RunRecord]] /\ RunsOK'
<1> DEFINE x == [run[j][r] EXCEPT !.status = "running"]
<1>1. CASE run' = run
  BY <1>1 DEF Typed, TypeOK, RunsOK
<1>2. CASE run[j][r].status = "absent" /\ run' = [run EXCEPT ![j][r].status = "running"]
  <2>1. run[j][r] \in RunRecord /\ RunShape(run[j][r], r)
    BY DEF Typed, TypeOK, RunsOK
  <2>2. x \in RunRecord
    BY <2>1 DEF RunRecord
  <2>3. x.status = "running" /\ x.at = run[j][r].at /\ x.call = run[j][r].call
    BY <2>1 DEF RunRecord
  <2>4. run' = [run EXCEPT ![j][r] = x]
    BY <1>2
  <2> HIDE DEF x
  <2>5. Len(Posts(r)) \in 1..3
    BY PostsFacts
  <2>6. run[j][r].at = 1 /\ run[j][r].call = NoThread
    BY <1>2, <2>1 DEF RunShape
  <2>7. RunShape(x, r)
    BY <2>3, <2>5, <2>6 DEF RunShape
  <2> QED
    BY <2>2, <2>4, <2>7, RunType
<1> QED
  BY <1>1, <1>2 DEF TriggerPort, Created

-----------------------------------------------------------------------------
(* Types *)

\* The initial state is well typed.
LEMMA InitType == Init => Typed
<1> SUFFICES ASSUME Init PROVE Typed
  OBVIOUS
<1>1. job \in [Jobs -> JobRecord]
  BY DEF Init, JobRecord
<1>2. /\ receipt \in [Jobs -> [Events -> {"none", "RECEIVED", "PROCESSED", "FAILED"}]]
      /\ applied \in [Jobs -> [Events -> Nat]]
      /\ session \in [Jobs -> [Checkpoints -> {"none", "OPEN", "CLOSED"}]]
  BY DEF Init
<1>3. 1 \in 1..MaxTries
  BY MaxTriesAssumption
<1>4. run \in [Jobs -> [Runs -> RunRecord]]
  BY <1>3 DEF Init, RunRecord
<1>5. thread \in [Threads -> ThreadRecord]
  BY IdleType DEF Init
<1>6. crashes \in 0..MaxCrashes
  BY PipelineCrashesAssumption DEF Init
<1>7. LocalsOK
  BY IdleType DEF Init, LocalsOK, ReviewPc
<1>8. RunsOK
  BY DEF Init, RunsOK, RunShape
<1> QED
  BY <1>1, <1>2, <1>4, <1>5, <1>6, <1>7, <1>8 DEF Typed, TypeOK

\* The trigger keeps the types.
LEMMA TriggerType ==
  ASSUME Typed, NEW t \in Threads, Trigger(t)
  PROVE  Typed'
<1> DEFINE j == thread[t].job
<1>0. thread[t].pc \notin {"idle", "locked"} => j \in Jobs
  BY LocalTypes
<1>1. CASE LockAndFindActive(t)
  <2>1. thread' \in [Threads -> ThreadRecord] /\ LocalsOK'
    BY <1>1, GotoType DEF LockAndFindActive, ReviewPc
  <2> QED
    BY <1>1, <2>1 DEF LockAndFindActive, Typed, TypeOK, RunsOK
<1>2. CASE PrepareTrigger(t)
  <2>1. PICK i \in Jobs :
          /\ Save(i, "QUEUED")
          /\ thread' = [thread EXCEPT ![t].pc = "calling", ![t].job = i]
    BY <1>2 DEF PrepareTrigger
  <2> DEFINE x == [thread[t] EXCEPT !.pc = "calling", !.job = i]
  <2>2. x \in ThreadRecord /\ x.pc = "calling" /\ x.job = i
    BY LocalTypes DEF ThreadRecord
  <2>3. thread' = [thread EXCEPT ![t] = x]
    BY <2>1, LocalTypes DEF Typed, TypeOK, ThreadRecord
  <2> HIDE DEF x
  <2>4. thread' \in [Threads -> ThreadRecord] /\ LocalsOK'
    BY <2>2, <2>3, ThreadType DEF ReviewPc
  <2>5. job' \in [Jobs -> JobRecord]
    BY <2>1, SaveType DEF Active
  <2> QED
    BY <1>2, <2>4, <2>5 DEF PrepareTrigger, Typed, TypeOK, RunsOK
<1>3. CASE TriggerInitial(t)
  <2>1. j \in Jobs
    BY <1>0, <1>3 DEF TriggerInitial, At
  <2>2. PICK ok \in BOOLEAN :
          /\ TriggerPort(j, "initial", ok)
          /\ Goto(t, IF ok THEN "called" ELSE "uncalled")
    BY <1>3 DEF TriggerInitial
  <2>3. thread' \in [Threads -> ThreadRecord] /\ LocalsOK'
    BY <2>1, <2>2, GotoType DEF ReviewPc
  <2>4. run' \in [Jobs -> [Runs -> RunRecord]] /\ RunsOK'
    BY <2>1, <2>2, TriggerPortType DEF Runs
  <2> QED
    BY <1>3, <2>3, <2>4 DEF TriggerInitial, Typed, TypeOK
<1>4. CASE MarkTriggered(t)
  <2>1. j \in Jobs
    BY <1>0, <1>4 DEF MarkTriggered, At
  <2>2. job' \in [Jobs -> JobRecord]
    BY <1>4, <2>1, SaveType DEF MarkTriggered, Active, Typed, TypeOK
  <2> QED
    BY <1>4, <2>2, ReturnType DEF MarkTriggered, Typed, TypeOK, RunsOK
<1>5. CASE MarkTriggerFailed(t)
  <2>1. j \in Jobs
    BY <1>0, <1>5 DEF MarkTriggerFailed, At
  <2>2. job' \in [Jobs -> JobRecord]
    BY <1>5, <2>1, SaveType DEF MarkTriggerFailed, Final, Typed, TypeOK
  <2> QED
    BY <1>5, <2>2, ReturnType DEF MarkTriggerFailed, Typed, TypeOK, RunsOK
<1> QED
  BY <1>1, <1>2, <1>3, <1>4, <1>5 DEF Trigger

\* So do the reviews.
LEMMA ReviewType ==
  ASSUME Typed, NEW t \in Threads, Review(t)
  PROVE  Typed'
<1> DEFINE j == thread[t].job
           e == thread[t].event
<1>0. thread[t].pc \in ReviewPc => j \in Jobs /\ e \in Checkpoints
  BY LocalTypes DEF ReviewPc
<1>1. CASE BeginReview(t)
  <2>1. PICK i \in Jobs, k \in Checkpoints :
          thread' = [thread EXCEPT ![t] =
            [Idle EXCEPT !.pc = "reviewing", !.job = i, !.event = k, !.seen = job[i].version]]
    BY <1>1 DEF BeginReview
  <2> DEFINE x == [Idle EXCEPT !.pc = "reviewing", !.job = i, !.event = k,
                               !.seen = job[i].version]
  <2>2. job[i].version \in Nat
    BY DEF Typed, TypeOK, JobRecord
  <2>3. x \in ThreadRecord /\ x.job = i /\ x.event = k
    BY <2>2, IdleType DEF ThreadRecord, Events
  <2> HIDE DEF x
  <2>4. thread' \in [Threads -> ThreadRecord] /\ LocalsOK'
    BY <2>1, <2>3, ThreadType DEF x
  <2> QED
    BY <1>1, <2>4 DEF BeginReview, Typed, TypeOK, RunsOK
<1>2. CASE TriggerReplay(t)
  <2>1. j \in Jobs /\ e \in Checkpoints
    BY <1>0, <1>2 DEF TriggerReplay, At, ReviewPc
  <2>2. PICK ok \in BOOLEAN :
          /\ TriggerPort(j, ReplayOf(e), ok)
          /\ Goto(t, IF ok THEN "replayed" ELSE "unreplayed")
    BY <1>2 DEF TriggerReplay
  <2>3. thread' \in [Threads -> ThreadRecord] /\ LocalsOK'
    BY <2>1, <2>2, GotoType
  <2>4. ReplayOf(e) \in Runs
    BY DEF ReplayOf, Runs
  <2>5. run' \in [Jobs -> [Runs -> RunRecord]] /\ RunsOK'
    BY <2>1, <2>2, <2>4, TriggerPortType
  <2> QED
    BY <1>2, <2>3, <2>5 DEF TriggerReplay, Typed, TypeOK
<1>3. CASE CommitReview(t)
  <2>1. j \in Jobs /\ e \in Checkpoints
    BY <1>0, <1>3 DEF CommitReview, At, ReviewPc
  <2>2. job' \in [Jobs -> JobRecord]
    BY <1>3, <2>1, SaveType DEF CommitReview, Active, Typed, TypeOK
  <2>3. session' \in [Jobs -> [Checkpoints -> {"none", "OPEN", "CLOSED"}]]
    <3>1. \/ session' = [session EXCEPT ![j][e] = "CLOSED"]
          \/ session' = session
      BY <1>3 DEF CommitReview
    <3>2. session \in [Jobs -> [Checkpoints -> {"none", "OPEN", "CLOSED"}]]
      BY DEF Typed, TypeOK
    <3> QED
      BY <2>1, <3>1, <3>2
  <2> QED
    BY <1>3, <2>2, <2>3, ReturnType DEF CommitReview, Typed, TypeOK, RunsOK
<1>4. CASE FailReview(t)
  <2>1. j \in Jobs
    BY <1>0, <1>4 DEF FailReview, At, ReviewPc
  <2>2. job' \in [Jobs -> JobRecord]
    BY <1>4, <2>1, SaveType DEF FailReview, Final, Typed, TypeOK
  <2> QED
    BY <1>4, <2>2, ReturnType DEF FailReview, Typed, TypeOK, RunsOK
<1> QED
  BY <1>1, <1>2, <1>3, <1>4 DEF Review

\* So do the callbacks.
LEMMA CallbackType ==
  ASSUME Typed, NEW t \in Threads, Callback(t)
  PROVE  Typed'
<1> DEFINE j == thread[t].job
           e == thread[t].event
<1>0. e \in Events /\ (thread[t].pc \notin {"idle", "locked"} => j \in Jobs)
  BY LocalTypes
<1>1. CASE Receive(t)
  <2>1. j \in Jobs
    BY <1>0, <1>1 DEF Receive, At
  <2>2. CASE Return(t) /\ UNCHANGED receipt /\ \E reply : ReplyTo(t, reply)
    BY <1>1, <2>1, <2>2, ReturnType, ReplyType DEF Receive, Typed, TypeOK
  <2>3. CASE /\ thread' = [thread EXCEPT ![t].pc = "working", ![t].seen = job[j].version]
             /\ UNCHANGED <<receipt, run>>
    BY <1>1, <2>1, <2>3, WorkType DEF Receive, Typed, TypeOK, RunsOK
  <2>4. CASE /\ Goto(t, "received")
             /\ receipt' = [receipt EXCEPT ![j][e] = IF @ = "none" THEN "RECEIVED" ELSE @]
             /\ UNCHANGED run
    <3>1. receipt' \in [Jobs -> [Events -> {"none", "RECEIVED", "PROCESSED", "FAILED"}]]
      BY <1>0, <2>1, <2>4 DEF Typed, TypeOK
    <3>2. thread' \in [Threads -> ThreadRecord] /\ LocalsOK'
      BY <2>1, <2>4, GotoType DEF ReviewPc
    <3> QED
      BY <1>1, <2>4, <3>1, <3>2 DEF Receive, Typed, TypeOK, RunsOK
  <2> QED
    BY <1>1, <2>2, <2>3, <2>4 DEF Receive
<1>2. CASE BeginCallback(t)
  <2>1. j \in Jobs
    BY <1>0, <1>2 DEF BeginCallback, At
  <2>2. CASE /\ thread' = [thread EXCEPT ![t].pc = "working", ![t].seen = job[j].version]
             /\ UNCHANGED <<receipt, run>>
    BY <1>2, <2>1, <2>2, WorkType DEF BeginCallback, Typed, TypeOK, RunsOK
  <2>3. CASE Goto(t, "refused") /\ UNCHANGED <<receipt, run>>
    BY <1>2, <2>1, <2>3, GotoType DEF BeginCallback, Typed, TypeOK, RunsOK, ReviewPc
  <2>4. CASE /\ receipt' = [receipt EXCEPT ![j][e] = "PROCESSED"]
             /\ ReplyTo(t, "created")
             /\ Return(t)
    <3>1. receipt' \in [Jobs -> [Events -> {"none", "RECEIVED", "PROCESSED", "FAILED"}]]
      BY <1>0, <2>1, <2>4 DEF Typed, TypeOK
    <3> QED
      BY <1>2, <2>1, <2>4, <3>1, ReturnType, ReplyType DEF BeginCallback, Typed, TypeOK
  <2> QED
    BY <1>2, <2>2, <2>3, <2>4 DEF BeginCallback
<1>3. CASE CommitCallback(t)
  <2>1. j \in Jobs
    BY <1>0, <1>3 DEF CommitCallback, At
  <2>2. StatusAfter(e) \in Active \cup Final
    BY <1>0 DEF StatusAfter, WaitingFor, Events, Checkpoints, Drafts, Active, Final
  <2>3. job' \in [Jobs -> JobRecord]
    BY <1>3, <2>1, <2>2, SaveType DEF CommitCallback
  <2>4. applied' \in [Jobs -> [Events -> Nat]]
    BY <1>0, <1>3, <2>1 DEF CommitCallback, Typed, TypeOK
  <2>5. receipt' \in [Jobs -> [Events -> {"none", "RECEIVED", "PROCESSED", "FAILED"}]]
    BY <1>0, <1>3, <2>1 DEF CommitCallback, Processed, Typed, TypeOK
  <2>6. session' \in [Jobs -> [Checkpoints -> {"none", "OPEN", "CLOSED"}]]
    BY <1>3, <2>1 DEF CommitCallback, Typed, TypeOK
  <2> QED
    BY <1>3, <2>1, <2>3, <2>4, <2>5, <2>6, ReturnType, ReplyType
       DEF CommitCallback, Typed, TypeOK
<1>4. CASE RollBackCheckpoint(t)
  <2>1. j \in Jobs
    BY <1>0, <1>4 DEF RollBackCheckpoint, At
  <2> QED
    BY <1>4, <2>1, ReturnType, ReplyType DEF RollBackCheckpoint, Typed, TypeOK
<1>5. CASE LoseRace(t)
  <2>1. j \in Jobs
    BY <1>0, <1>5 DEF LoseRace, At
  <2> QED
    BY <1>5, <2>1, GotoType DEF LoseRace, Typed, TypeOK, RunsOK, ReviewPc
<1>6. CASE FailCallback(t)
  <2>1. j \in Jobs
    BY <1>0, <1>6 DEF FailCallback, At
  <2> QED
    BY <1>6, <2>1, GotoType DEF FailCallback, Typed, TypeOK, RunsOK, ReviewPc
<1>7. CASE MarkFailure(t)
  <2>1. j \in Jobs
    BY <1>0, <1>7 DEF MarkFailure, At
  <2>2. receipt' \in [Jobs -> [Events -> {"none", "RECEIVED", "PROCESSED", "FAILED"}]]
    BY <1>0, <1>7, <2>1 DEF MarkFailure, Typed, TypeOK
  <2>3. job' \in [Jobs -> JobRecord]
    BY <1>7, <2>1, SaveType DEF MarkFailure, Final, Typed, TypeOK
  <2> QED
    BY <1>7, <2>1, <2>2, <2>3, ReturnType, ReplyType DEF MarkFailure, Typed, TypeOK
<1> QED
  BY <1>1, <1>2, <1>3, <1>4, <1>5, <1>6, <1>7 DEF Callback

\* So does Airflow.
LEMMA AirflowType ==
  ASSUME Typed,
         \/ \E t \in Threads : PostCallback(t) \/ NotifyFailure(t)
         \/ CallbackTimesOut
         \/ TaskThatPostsNothingFails
  PROVE  Typed'
<1>1. ASSUME NEW t \in Threads, PostCallback(t)
      PROVE  Typed'
  <2>1. PICK j \in Jobs, r \in Runs :
          /\ run[j][r].status = "running"
          /\ run' = [run EXCEPT ![j][r].call = t]
          /\ thread' = [thread EXCEPT ![t] =
               [Idle EXCEPT !.pc = "arrived", !.job = j,
                            !.event = Posts(r)[run[j][r].at], !.run = r]]
    BY <1>1 DEF PostCallback
  <2>2. run[j][r] \in RunRecord /\ RunShape(run[j][r], r)
    BY DEF Typed, TypeOK, RunsOK
  <2> DEFINE x == [run[j][r] EXCEPT !.call = t]
             y == [Idle EXCEPT !.pc = "arrived", !.job = j,
                               !.event = Posts(r)[run[j][r].at], !.run = r]
  <2>3. x \in RunRecord /\ x.status = "running" /\ x.at = run[j][r].at
    BY <2>1, <2>2 DEF RunRecord
  <2>4. RunShape(x, r)
    BY <2>1, <2>2, <2>3 DEF RunShape
  <2>5. run[j][r].at \in 1..Len(Posts(r))
    <3>1. run[j][r].at \in 1..4 /\ run[j][r].at <= Len(Posts(r))
      BY <2>1, <2>2 DEF RunShape, RunRecord
    <3>2. Len(Posts(r)) \in 1..3
      BY PostsFacts
    <3> QED
      BY <3>1, <3>2
  <2>6. Posts(r)[run[j][r].at] \in Events
    BY <2>5, PostsFacts DEF Events
  <2>7. y \in ThreadRecord /\ y.pc = "arrived" /\ y.job = j
    BY <2>6, IdleType DEF ThreadRecord
  <2>8. run' = [run EXCEPT ![j][r] = x] /\ thread' = [thread EXCEPT ![t] = y]
    BY <2>1
  <2> HIDE DEF x, y
  <2>9. run' \in [Jobs -> [Runs -> RunRecord]] /\ RunsOK'
    BY <2>3, <2>4, <2>8, RunType
  <2>10. thread' \in [Threads -> ThreadRecord] /\ LocalsOK'
    BY <2>7, <2>8, ThreadType DEF ReviewPc
  <2> QED
    BY <1>1, <2>9, <2>10 DEF PostCallback, Typed, TypeOK
<1>2. ASSUME NEW t \in Threads, NotifyFailure(t)
      PROVE  Typed'
  <2>1. PICK j \in Jobs, r \in Runs :
          /\ run' = [run EXCEPT ![j][r].reported = TRUE]
          /\ thread' = [thread EXCEPT ![t] =
               [Idle EXCEPT !.pc = "arrived", !.job = j, !.event = "failure", !.run = r]]
    BY <1>2 DEF NotifyFailure
  <2>2. run[j][r] \in RunRecord /\ RunShape(run[j][r], r)
    BY DEF Typed, TypeOK, RunsOK
  <2> DEFINE x == [run[j][r] EXCEPT !.reported = TRUE]
             y == [Idle EXCEPT !.pc = "arrived", !.job = j, !.event = "failure", !.run = r]
  <2>3. x \in RunRecord
    BY <2>2 DEF RunRecord
  <2>4. x.status = run[j][r].status /\ x.at = run[j][r].at /\ x.call = run[j][r].call
    BY <2>2 DEF RunRecord
  <2>5. RunShape(x, r)
    BY <2>2, <2>4 DEF RunShape
  <2>6. y \in ThreadRecord /\ y.pc = "arrived" /\ y.job = j
    BY IdleType DEF ThreadRecord, Events
  <2>7. run' = [run EXCEPT ![j][r] = x] /\ thread' = [thread EXCEPT ![t] = y]
    BY <2>1
  <2> HIDE DEF x, y
  <2>8. run' \in [Jobs -> [Runs -> RunRecord]] /\ RunsOK'
    BY <2>3, <2>5, <2>7, RunType
  <2>9. thread' \in [Threads -> ThreadRecord] /\ LocalsOK'
    BY <2>6, <2>7, ThreadType DEF ReviewPc
  <2> QED
    BY <1>2, <2>8, <2>9 DEF NotifyFailure, Typed, TypeOK
<1>3. CASE CallbackTimesOut
  <2>1. PICK j \in Jobs, r \in Runs :
          /\ run[j][r].call # NoThread
          /\ run' = [run EXCEPT ![j][r] = TaskFails(run[j][r])]
    BY <1>3 DEF CallbackTimesOut
  <2>2. /\ run[j][r] \in RunRecord
        /\ RunShape(run[j][r], r)
        /\ run[j][r].status = "running"
    BY <2>1 DEF Typed, TypeOK, RunsOK, RunShape
  <2>3. TaskFails(run[j][r]) \in RunRecord /\ RunShape(TaskFails(run[j][r]), r)
    BY <2>2, TaskFailsType
  <2>4. run' \in [Jobs -> [Runs -> RunRecord]] /\ RunsOK'
    BY <2>1, <2>3, RunType
  <2> QED
    BY <1>3, <2>4 DEF CallbackTimesOut, Typed, TypeOK, LocalsOK
<1>4. CASE TaskThatPostsNothingFails
  <2>1. PICK j \in Jobs, r \in Runs : run' = [run EXCEPT ![j][r] = Ended(run[j][r], "failed")]
    BY <1>4 DEF TaskThatPostsNothingFails
  <2>2. run[j][r] \in RunRecord
    BY DEF Typed, TypeOK
  <2>3. /\ Ended(run[j][r], "failed") \in RunRecord
        /\ RunShape(Ended(run[j][r], "failed"), r)
    BY <2>2, TaskFailsType
  <2>4. run' \in [Jobs -> [Runs -> RunRecord]] /\ RunsOK'
    BY <2>1, <2>3, RunType
  <2> QED
    BY <1>4, <2>4 DEF TaskThatPostsNothingFails, Typed, TypeOK, LocalsOK
<1> QED
  BY <1>1, <1>2, <1>3, <1>4

\* What a crash does to a run.
LEMMA CrashRun ==
  ASSUME Typed, Crash, NEW j \in Jobs, NEW r \in Runs
  PROVE  /\ run'[j][r] \in RunRecord
         /\ RunShape(run'[j][r], r)
         /\ run'[j][r].at = run[j][r].at
         /\ run'[j][r].call = NoThread
         /\ run[j][r].status # "running" => run'[j][r] = run[j][r]
         /\ run[j][r].status = "running" => run'[j][r].status \in {"running", "failed"}
<1>1. run[j][r] \in RunRecord /\ RunShape(run[j][r], r)
  BY DEF Typed, TypeOK, RunsOK
<1>2. run'[j][r] = IF run[j][r].call = NoThread THEN run[j][r] ELSE TaskFails(run[j][r])
  BY DEF Crash
<1>3. CASE run[j][r].call = NoThread
  BY <1>1, <1>2, <1>3
<1>4. CASE run[j][r].call # NoThread
  <2>1. run[j][r].status = "running"
    BY <1>1, <1>4 DEF RunShape
  <2>2. /\ TaskFails(run[j][r]) \in RunRecord
        /\ RunShape(TaskFails(run[j][r]), r)
        /\ TaskFails(run[j][r]).at = run[j][r].at
        /\ TaskFails(run[j][r]).call = NoThread
        /\ TaskFails(run[j][r]).status \in {"running", "failed"}
    BY <1>1, <2>1, TaskFailsType
  <2> QED
    BY <1>2, <1>4, <2>1, <2>2
<1> QED
  BY <1>3, <1>4

\* A crash leaves everything typed.
LEMMA CrashType ==
  ASSUME Typed, Crash
  PROVE  Typed'
<1>1. \A j \in Jobs, r \in Runs : run'[j][r] \in RunRecord /\ RunShape(run'[j][r], r)
  BY CrashRun
<1>2. run' \in [Jobs -> [Runs -> RunRecord]]
  BY <1>1 DEF Crash
<1>3. RunsOK'
  BY <1>1 DEF RunsOK
<1>4. thread' \in [Threads -> ThreadRecord]
  BY IdleType DEF Crash
<1>5. LocalsOK'
  BY IdleType DEF Crash, LocalsOK, ReviewPc
<1>6. crashes' \in 0..MaxCrashes
  BY PipelineCrashesAssumption DEF Crash, Typed, TypeOK
<1> QED
  BY <1>2, <1>3, <1>4, <1>5, <1>6 DEF Crash, Typed, TypeOK

\* No step leaves the types.
LEMMA StepType == Typed /\ [Next]_vars => Typed'
<1> SUFFICES ASSUME Typed, [Next]_vars PROVE Typed'
  OBVIOUS
<1>1. CASE UNCHANGED vars
  BY <1>1 DEF vars, Typed, TypeOK, LocalsOK, RunsOK
<1> QED
  BY <1>1, TriggerType, ReviewType, CallbackType, AirflowType, CrashType DEF Next

\* Every reachable state is well typed.
THEOREM PipelineTypes == Spec => []TypeOK
<1>1. Typed => TypeOK
  BY DEF Typed
<1> QED
  BY <1>1, InitType, StepType, PTL DEF Spec

-----------------------------------------------------------------------------
(* Runs, once created, stay, and are created for jobs that are there. *)

\* A reply moves the run that waits for it, and no other.
LEMMA ReplyRuns ==
  ASSUME Typed, NEW t \in Threads, NEW reply, thread[t].job \in Jobs, ReplyTo(t, reply),
         NEW j \in Jobs, NEW r \in Runs
  PROVE  LET e == thread[t].event
             waits == e # "failure" /\ j = thread[t].job /\ r = thread[t].run /\ run[j][r].call = t
         IN  /\ ~waits => run'[j][r] = run[j][r]
             /\ waits =>
                  /\ run[j][r].status = "running"
                  /\ run'[j][r].call = NoThread
                  /\ Accepts(e, reply) =>
                       /\ run'[j][r].at = run[j][r].at + 1
                       /\ run'[j][r].status \in {"running", "success"}
                  /\ ~Accepts(e, reply) =>
                       /\ run'[j][r].at = run[j][r].at
                       /\ run'[j][r].status \in {"running", "failed"}
<1> DEFINE e == thread[t].event
           waits == e # "failure" /\ j = thread[t].job /\ r = thread[t].run /\ run[j][r].call = t
<1>1. run \in [Jobs -> [Runs -> RunRecord]] /\ thread[t].run \in Runs
  BY LocalTypes DEF Typed, TypeOK
<1>2. run[j][r] \in RunRecord /\ RunShape(run[j][r], r)
  BY <1>1 DEF Typed, RunsOK
<1>3. ASSUME ~waits PROVE run'[j][r] = run[j][r]
  BY <1>1, <1>3 DEF ReplyTo
<1>4. ASSUME waits PROVE run[j][r].status = "running"
  BY <1>2, <1>4, NoThreadAssumption DEF RunShape
<1>5. ASSUME waits, Accepts(e, reply)
      PROVE  /\ run'[j][r].call = NoThread
             /\ run'[j][r].at = run[j][r].at + 1
             /\ run'[j][r].status \in {"running", "success"}
  <2>1. run'[j][r] = TaskGoesOn(run[j][r], r)
    BY <1>1, <1>5 DEF ReplyTo
  <2> QED
    BY <1>2, <1>4, <1>5, <2>1, TaskGoesOnType
<1>6. ASSUME waits, ~Accepts(e, reply)
      PROVE  /\ run'[j][r].call = NoThread
             /\ run'[j][r].at = run[j][r].at
             /\ run'[j][r].status \in {"running", "failed"}
  <2>1. run'[j][r] = TaskFails(run[j][r])
    BY <1>1, <1>6 DEF ReplyTo
  <2> QED
    BY <1>2, <1>4, <1>6, <2>1, TaskFailsType
<1> QED
  BY <1>3, <1>4, <1>5, <1>6

\* The creation of a run changes no other, and a run that is there not at all.
LEMMA TriggerPortRuns ==
  ASSUME Typed, NEW i \in Jobs, NEW q \in Runs, NEW ok \in BOOLEAN, TriggerPort(i, q, ok),
         NEW j \in Jobs, NEW r \in Runs
  PROVE  /\ \/ run'[j][r] = run[j][r]
            \/ /\ j = i /\ r = q
               /\ run[j][r].status = "absent"
               /\ run'[j][r].status = "running"
               /\ run'[j][r].call = run[j][r].call
               /\ run'[j][r].at = run[j][r].at
         /\ ok => run'[i][q].status # "absent"
<1>1. run \in [Jobs -> [Runs -> RunRecord]]
  BY DEF Typed, TypeOK
<1>2. CASE run' = run /\ (~ok \/ run[i][q].status # "absent")
  BY <1>2
<1>3. CASE run[i][q].status = "absent" /\ run' = [run EXCEPT ![i][q].status = "running"]
  <2> DEFINE x == [run[i][q] EXCEPT !.status = "running"]
  <2>1. run'[j][r] = IF j = i /\ r = q THEN x ELSE run[j][r]
    BY <1>1, <1>3
  <2>2. run'[i][q] = x
    BY <1>1, <1>3
  <2>3. run[i][q] \in RunRecord
    BY <1>1
  <2>4. x.status = "running" /\ x.call = run[i][q].call /\ x.at = run[i][q].at
    BY <2>3 DEF RunRecord
  <2> HIDE DEF x
  <2> QED
    BY <1>3, <2>1, <2>2, <2>4
<1> QED
  BY <1>2, <1>3 DEF TriggerPort, Created

\* Where a step can take a run.
RunMoves ==
  \A j \in Jobs, r \in Runs :
    /\ run[j][r].status # "absent" => run'[j][r].status # "absent"
    /\ run'[j][r].status # "absent" => run[j][r].status # "absent" \/ job[j].status # "none"

\* What holds a thread, or the row it has read.
ReadPc == ReviewPc \cup {"working"}

Holds(t) ==
  LET j == thread[t].job
  IN  /\ thread[t].pc \notin {"idle", "locked"} => job[j].status # "none"
      /\ thread[t].pc \in ReadPc =>
           /\ thread[t].seen <= job[j].version
           /\ thread[t].seen = job[j].version => job[j].status \in Active
      /\ thread[t].pc = "locked" => \A i \in Jobs : job[i].status \notin Active

OneLock == \A t, u \in Threads : At(t, "locked") /\ At(u, "locked") => t = u

RunsHaveJobs == \A j \in Jobs, r \in Runs : run[j][r].status # "absent" => job[j].status # "none"

\* The inductive invariant about jobs: the version a thread has seen is not
\* ahead of the row, and stands for an active job as long as it is the row's.
JobInv == OneActiveJob /\ OneLock /\ RunsHaveJobs /\ \A t \in Threads : Holds(t)

\* Where a step of a thread can take a job.
JobMoves(t) ==
  \/ UNCHANGED job
  \/ \E j \in Jobs, status \in Active \cup Final :
       /\ Save(j, status)
       /\ ~IsFinalized(j)
       /\ status \in Active => job[j].status \in Active \/ At(t, "locked")

\* A thread that has read an unchanged row has read an active job.
LEMMA UnchangedIsActive ==
  ASSUME Typed, JobInv, NEW t \in Threads, thread[t].pc \in ReadPc, Unchanged(t)
  PROVE  thread[t].job \in Jobs /\ job[thread[t].job].status \in Active
         /\ ~IsFinalized(thread[t].job)
<1>1. thread[t].job \in Jobs
  BY LocalTypes DEF ReadPc, ReviewPc
<1>2. job[thread[t].job].status \in Active
  BY DEF JobInv, Holds, Unchanged
<1> QED
  BY <1>1, <1>2 DEF IsFinalized, Active, Final

\* A change of a job leaves what the other threads hold.
LEMMA OthersHold ==
  ASSUME Typed, JobInv, NEW t \in Threads, JobMoves(t),
         NEW u \in Threads, u # t, thread'[u] = thread[u]
  PROVE  Holds(u)'
<1>1. CASE UNCHANGED job
  BY <1>1 DEF JobInv, Holds
<1>2. ASSUME NEW j \in Jobs, NEW status \in Active \cup Final,
             Save(j, status),
             status \in Active => job[j].status \in Active \/ At(t, "locked")
      PROVE  Holds(u)'
  <2>1. job \in [Jobs -> JobRecord] /\ job[j].version \in Nat
    BY DEF Typed, TypeOK, JobRecord
  <2>2. \A i \in Jobs : job'[i] = IF i = j THEN Row(j, status) ELSE job[i]
    BY <1>2, <2>1 DEF Save
  <2>3. /\ Row(j, status).status = status
        /\ Row(j, status).version = job[j].version + 1
        /\ status # "none"
    BY DEF Row, Active, Final
  <2>4. thread[u].pc \notin {"idle", "locked"} => thread[u].job \in Jobs
    BY LocalTypes
  <2>5. thread[u].seen \in Nat /\ \A i \in Jobs : job[i].version \in Nat
    BY <2>1, LocalTypes DEF JobRecord
  <2>6. Holds(u)
    BY DEF JobInv
  <2>7. ASSUME thread[u].pc \in ReadPc
        PROVE  LET i == thread[u].job
               IN  /\ thread[u].seen <= job'[i].version
                   /\ thread[u].seen = job'[i].version => job'[i].status \in Active
    <3>1. thread[u].job \in Jobs /\ thread[u].seen <= job[thread[u].job].version
      BY <2>4, <2>6, <2>7 DEF Holds, ReadPc, ReviewPc
    <3> QED
      BY <2>2, <2>3, <2>5, <2>6, <2>7, <3>1 DEF Holds
  <2>8. ASSUME thread[u].pc = "locked"
        PROVE  \A i \in Jobs : job'[i].status \notin Active
    <3>1. \A i \in Jobs : job[i].status \notin Active
      BY <2>6, <2>8 DEF Holds
    <3>2. ~At(t, "locked")
      BY <2>8 DEF JobInv, OneLock, At
    <3> QED
      BY <1>2, <2>2, <2>3, <3>1, <3>2
  <2> QED
    BY <2>2, <2>3, <2>4, <2>6, <2>7, <2>8 DEF Holds
<1> QED
  BY <1>1, <1>2 DEF JobMoves

\* A step of a thread keeps the invariant if it moves jobs and runs as it may
\* and the thread itself holds what it should.
LEMMA ThreadKeepsJobs ==
  ASSUME Typed, JobInv, NEW t \in Threads, JobMoves(t), RunMoves,
         \A u \in Threads : u # t => thread'[u] = thread[u],
         thread'[t].pc = "locked" => LockIsFree,
         Holds(t)'
  PROVE  JobInv'
<1>1. \A u \in Threads : Holds(u)'
  BY OthersHold
<1>2. OneLock'
  BY DEF JobInv, OneLock, At, LockIsFree
<1>3. CASE UNCHANGED job
  BY <1>1, <1>2, <1>3 DEF JobInv, OneActiveJob, RunsHaveJobs, RunMoves
<1>4. ASSUME NEW j \in Jobs, NEW status \in Active \cup Final,
             Save(j, status),
             status \in Active => job[j].status \in Active \/ At(t, "locked")
      PROVE  JobInv'
  <2>1. job \in [Jobs -> JobRecord]
    BY DEF Typed, TypeOK
  <2>2. \A i \in Jobs : job'[i].status = IF i = j THEN status ELSE job[i].status
    BY <1>4, <2>1 DEF Save, Row
  <2>3. status # "none"
    BY DEF Active, Final
  <2>4. RunsHaveJobs'
    BY <2>2, <2>3 DEF JobInv, RunsHaveJobs, RunMoves
  <2>5. At(t, "locked") => \A i \in Jobs : job[i].status \notin Active
    BY DEF JobInv, Holds, At
  <2>6. OneActiveJob'
    BY <1>4, <2>2, <2>5 DEF JobInv, OneActiveJob
  <2> QED
    BY <1>1, <1>2, <2>4, <2>6 DEF JobInv
<1> QED
  BY <1>3, <1>4 DEF JobMoves

\* The trigger moves jobs and runs as it may.
LEMMA TriggerKeepsJobs ==
  ASSUME Typed, JobInv, NEW t \in Threads, Trigger(t)
  PROVE  JobMoves(t) /\ JobInv'
<1> DEFINE j == thread[t].job
<1>0. /\ thread \in [Threads -> ThreadRecord]
      /\ job \in [Jobs -> JobRecord]
      /\ thread[t] \in ThreadRecord
      /\ thread[t].pc \notin {"idle", "locked"} => j \in Jobs
  BY LocalTypes DEF Typed, TypeOK
<1>1. ASSUME Return(t)
      PROVE  Holds(t)' /\ thread'[t].pc = "idle" /\ \A u \in Threads : u # t => thread'[u] = thread[u]
  BY <1>0, <1>1, IdleType DEF Return, Holds, ReadPc, ReviewPc
<1>2. UNCHANGED run => RunMoves
  BY DEF RunMoves
<1>3. CASE LockAndFindActive(t)
  <2>1. thread'[t].pc = "locked" /\ \A u \in Threads : u # t => thread'[u] = thread[u]
    BY <1>0, <1>3 DEF LockAndFindActive, Goto, ThreadRecord
  <2>2. JobMoves(t) /\ UNCHANGED job /\ RunMoves /\ LockIsFree
    BY <1>2, <1>3 DEF LockAndFindActive, JobMoves
  <2>3. \A i \in Jobs : job[i].status \notin Active
    BY <1>3 DEF LockAndFindActive
  <2>4. Holds(t)'
    BY <2>1, <2>2, <2>3 DEF Holds, ReadPc, ReviewPc
  <2> QED
    BY <2>1, <2>2, <2>4, ThreadKeepsJobs
<1>4. CASE PrepareTrigger(t)
  <2>1. PICK i \in Jobs :
          /\ job[i].status = "none"
          /\ Save(i, "QUEUED")
          /\ thread' = [thread EXCEPT ![t].pc = "calling", ![t].job = i]
    BY <1>4 DEF PrepareTrigger
  <2>2. JobMoves(t)
    BY <1>4, <2>1 DEF PrepareTrigger, JobMoves, IsFinalized, Active, Final
  <2>3. thread'[t].pc = "calling" /\ thread'[t].job = i
    BY <1>0, <2>1 DEF ThreadRecord
  <2>4. \A u \in Threads : u # t => thread'[u] = thread[u]
    BY <1>0, <2>1
  <2>5. job'[i].status = "QUEUED"
    BY <1>0, <2>1 DEF Save, Row
  <2>6. Holds(t)'
    BY <2>3, <2>5 DEF Holds, ReadPc, ReviewPc
  <2>7. RunMoves
    BY <1>2, <1>4 DEF PrepareTrigger
  <2> QED
    BY <2>2, <2>3, <2>4, <2>6, <2>7, ThreadKeepsJobs
<1>5. CASE TriggerInitial(t)
  <2>1. j \in Jobs /\ job[j].status # "none"
    BY <1>0, <1>5 DEF TriggerInitial, At, JobInv, Holds
  <2>2. PICK ok \in BOOLEAN :
          /\ TriggerPort(j, "initial", ok)
          /\ Goto(t, IF ok THEN "called" ELSE "uncalled")
    BY <1>5 DEF TriggerInitial
  <2>3. RunMoves
    BY <2>1, <2>2, TriggerPortRuns DEF RunMoves, Runs
  <2>4. thread'[t].pc \in {"called", "uncalled"} /\ thread'[t].job = j
    BY <1>0, <2>2 DEF Goto, ThreadRecord
  <2>5. \A u \in Threads : u # t => thread'[u] = thread[u]
    BY <1>0, <2>2 DEF Goto
  <2>6. UNCHANGED job /\ JobMoves(t)
    BY <1>5 DEF TriggerInitial, JobMoves
  <2>7. Holds(t)'
    BY <2>1, <2>4, <2>6 DEF Holds, ReadPc, ReviewPc
  <2> QED
    BY <2>3, <2>4, <2>5, <2>6, <2>7, ThreadKeepsJobs
<1>6. CASE MarkTriggered(t)
  <2>1. j \in Jobs
    BY <1>0, <1>6 DEF MarkTriggered, At
  <2>2. JobMoves(t)
    BY <1>6, <2>1 DEF MarkTriggered, JobMoves, IsFinalized, Active, Final
  <2> QED
    BY <1>1, <1>2, <1>6, <2>2, ThreadKeepsJobs DEF MarkTriggered
<1>7. CASE MarkTriggerFailed(t)
  <2>1. j \in Jobs
    BY <1>0, <1>7 DEF MarkTriggerFailed, At
  <2>2. JobMoves(t)
    BY <1>7, <2>1 DEF MarkTriggerFailed, JobMoves, Active, Final
  <2> QED
    BY <1>1, <1>2, <1>7, <2>2, ThreadKeepsJobs DEF MarkTriggerFailed
<1> QED
  BY <1>3, <1>4, <1>5, <1>6, <1>7 DEF Trigger

\* So do the reviews.
LEMMA ReviewKeepsJobs ==
  ASSUME Typed, JobInv, NEW t \in Threads, Review(t)
  PROVE  JobMoves(t) /\ JobInv'
<1> DEFINE j == thread[t].job
           e == thread[t].event
<1>0. /\ thread \in [Threads -> ThreadRecord]
      /\ job \in [Jobs -> JobRecord]
      /\ thread[t] \in ThreadRecord
      /\ thread[t].pc \in ReviewPc => j \in Jobs /\ e \in Checkpoints
  BY LocalTypes DEF Typed, TypeOK, ReviewPc
<1>1. ASSUME Return(t)
      PROVE  Holds(t)' /\ thread'[t].pc = "idle" /\ \A u \in Threads : u # t => thread'[u] = thread[u]
  BY <1>0, <1>1, IdleType DEF Return, Holds, ReadPc, ReviewPc
<1>2. UNCHANGED run => RunMoves
  BY DEF RunMoves
<1>3. CASE BeginReview(t)
  <2>1. PICK i \in Jobs, k \in Checkpoints :
          /\ job[i].status = WaitingFor(k)
          /\ thread' = [thread EXCEPT ![t] =
               [Idle EXCEPT !.pc = "reviewing", !.job = i, !.event = k, !.seen = job[i].version]]
    BY <1>3 DEF BeginReview
  <2>2. /\ thread'[t].pc = "reviewing"
        /\ thread'[t].job = i
        /\ thread'[t].seen = job[i].version
    BY <1>0, <2>1 DEF Idle
  <2>3. job[i].status \in Active /\ job[i].status # "none" /\ job[i].version \in Nat
    BY <1>0, <2>1 DEF WaitingFor, Active, JobRecord
  <2>4. UNCHANGED job /\ JobMoves(t) /\ RunMoves
    BY <1>2, <1>3 DEF BeginReview, JobMoves
  <2>5. Holds(t)'
    BY <2>2, <2>3, <2>4 DEF Holds
  <2>6. \A u \in Threads : u # t => thread'[u] = thread[u]
    BY <1>0, <2>1
  <2> QED
    BY <2>2, <2>4, <2>5, <2>6, ThreadKeepsJobs
<1>4. CASE TriggerReplay(t)
  <2>1. j \in Jobs /\ e \in Checkpoints /\ job[j].status # "none" /\ Holds(t)
    BY <1>0, <1>4 DEF TriggerReplay, At, JobInv, Holds, ReviewPc
  <2>2. PICK ok \in BOOLEAN :
          /\ TriggerPort(j, ReplayOf(e), ok)
          /\ Goto(t, IF ok THEN "replayed" ELSE "unreplayed")
    BY <1>4 DEF TriggerReplay
  <2>3. RunMoves
    BY <2>1, <2>2, TriggerPortRuns DEF RunMoves, Runs, ReplayOf
  <2>4. /\ thread'[t].pc \in {"replayed", "unreplayed"}
        /\ thread'[t].job = j
        /\ thread'[t].seen = thread[t].seen
    BY <1>0, <2>2 DEF Goto, ThreadRecord
  <2>5. \A u \in Threads : u # t => thread'[u] = thread[u]
    BY <1>0, <2>2 DEF Goto
  <2>6. UNCHANGED job /\ JobMoves(t)
    BY <1>4 DEF TriggerReplay, JobMoves
  <2>7. thread[t].pc \in ReadPc
    BY <1>4 DEF TriggerReplay, At, ReadPc, ReviewPc
  <2>8. Holds(t)'
    BY <2>1, <2>4, <2>6, <2>7 DEF Holds
  <2> QED
    BY <2>3, <2>4, <2>5, <2>6, <2>8, ThreadKeepsJobs
<1>5. CASE CommitReview(t)
  <2>1. j \in Jobs /\ thread[t].pc \in ReadPc
    BY <1>0, <1>5 DEF CommitReview, At, ReviewPc, ReadPc
  <2>2. JobMoves(t)
    BY <1>5, <2>1, UnchangedIsActive DEF CommitReview, JobMoves, Active
  <2> QED
    BY <1>1, <1>2, <1>5, <2>2, ThreadKeepsJobs DEF CommitReview
<1>6. CASE FailReview(t)
  <2>1. j \in Jobs /\ thread[t].pc \in ReadPc
    BY <1>0, <1>6 DEF FailReview, At, ReviewPc, ReadPc
  <2>2. JobMoves(t)
    BY <1>6, <2>1, UnchangedIsActive DEF FailReview, JobMoves, Active, Final
  <2> QED
    BY <1>1, <1>2, <1>6, <2>2, ThreadKeepsJobs DEF FailReview
<1> QED
  BY <1>3, <1>4, <1>5, <1>6 DEF Review

\* A callback that may be accepted is for an active job, its failure perhaps not.
LEMMA AcceptedIsActive ==
  ASSUME Typed, NEW j \in Jobs, NEW e \in Events, job[j].status # "none", CanAccept(j, e),
         e = "failure" => ~IsFinalized(j)
  PROVE  job[j].status \in Active
<1>1. job[j].status \in Active \cup Final \cup {"none"}
  BY DEF Typed, TypeOK, JobRecord
<1> QED
  BY <1>1 DEF CanAccept, IsFinalized, Events, Checkpoints, Drafts, Active

\* So do the callbacks.
LEMMA CallbackKeepsJobs ==
  ASSUME Typed, JobInv, NEW t \in Threads, Callback(t)
  PROVE  JobMoves(t) /\ JobInv'
<1> DEFINE j == thread[t].job
           e == thread[t].event
<1>0. /\ thread \in [Threads -> ThreadRecord]
      /\ job \in [Jobs -> JobRecord]
      /\ thread[t] \in ThreadRecord
      /\ e \in Events
      /\ thread[t].pc \notin {"idle", "locked"} => j \in Jobs /\ job[j].status # "none"
  BY LocalTypes DEF Typed, TypeOK, JobInv, Holds
<1>1. ASSUME Return(t)
      PROVE  Holds(t)' /\ thread'[t].pc = "idle" /\ \A u \in Threads : u # t => thread'[u] = thread[u]
  BY <1>0, <1>1, IdleType DEF Return, Holds, ReadPc, ReviewPc
<1>2. UNCHANGED run => RunMoves
  BY DEF RunMoves
<1>3. ASSUME NEW reply, j \in Jobs, ReplyTo(t, reply)
      PROVE  RunMoves
  BY <1>3, ReplyRuns DEF RunMoves
<1>4. ASSUME NEW pc \in {"received", "refused", "failing"}, Goto(t, pc), UNCHANGED job,
             j \in Jobs, job[j].status # "none"
      PROVE  Holds(t)' /\ thread'[t].pc # "locked" /\ \A u \in Threads : u # t => thread'[u] = thread[u]
  <2>1. thread'[t].pc = pc /\ thread'[t].job = j
    BY <1>0, <1>4 DEF Goto, ThreadRecord
  <2> QED
    BY <1>0, <1>4, <2>1 DEF Goto, Holds, ReadPc, ReviewPc
<1>5. ASSUME thread' = [thread EXCEPT ![t].pc = "working", ![t].seen = job[j].version],
             UNCHANGED job, j \in Jobs, job[j].status \in Active
      PROVE  Holds(t)' /\ thread'[t].pc # "locked" /\ \A u \in Threads : u # t => thread'[u] = thread[u]
  <2>1. thread'[t].pc = "working" /\ thread'[t].job = j /\ thread'[t].seen = job[j].version
    BY <1>0, <1>5 DEF ThreadRecord
  <2>2. job[j].version \in Nat /\ job[j].status # "none"
    BY <1>0, <1>5 DEF JobRecord, Active
  <2>3. \A u \in Threads : u # t => thread'[u] = thread[u]
    BY <1>0, <1>5
  <2>4. job'[j] = job[j]
    BY <1>5
  <2>5. /\ thread'[t].seen <= job'[j].version
        /\ job'[j].status \in Active
        /\ job'[j].status # "none"
    BY <1>5, <2>1, <2>2, <2>4
  <2>6. Holds(t)'
    BY <2>1, <2>5 DEF Holds
  <2> QED
    BY <2>1, <2>3, <2>6
<1>6. CASE Receive(t)
  <2>1. j \in Jobs /\ job[j].status # "none"
    BY <1>0, <1>6 DEF Receive, At
  <2>2. UNCHANGED job /\ JobMoves(t)
    BY <1>6 DEF Receive, JobMoves
  <2>3. CASE Return(t) /\ \E reply : ReplyTo(t, reply)
    BY <1>1, <1>3, <2>1, <2>2, <2>3, ThreadKeepsJobs
  <2>4. CASE /\ CanAccept(j, e)
             /\ e \in Checkpoints
             /\ thread' = [thread EXCEPT ![t].pc = "working", ![t].seen = job[j].version]
             /\ UNCHANGED run
    <3>1. job[j].status \in Active
      BY <1>0, <2>1, <2>4, AcceptedIsActive DEF Checkpoints
    <3> QED
      BY <1>2, <1>5, <2>1, <2>2, <2>4, <3>1, ThreadKeepsJobs
  <2>5. CASE Goto(t, "received") /\ UNCHANGED run
    BY <1>2, <1>4, <2>1, <2>2, <2>5, ThreadKeepsJobs
  <2> QED
    BY <1>6, <2>3, <2>4, <2>5 DEF Receive
<1>7. CASE BeginCallback(t)
  <2>1. j \in Jobs /\ job[j].status # "none"
    BY <1>0, <1>7 DEF BeginCallback, At
  <2>2. UNCHANGED job /\ JobMoves(t)
    BY <1>7 DEF BeginCallback, JobMoves
  <2>3. CASE /\ CanAccept(j, e)
             /\ e = "failure" => ~IsFinalized(j)
             /\ thread' = [thread EXCEPT ![t].pc = "working", ![t].seen = job[j].version]
             /\ UNCHANGED run
    <3>1. job[j].status \in Active
      BY <1>0, <2>1, <2>3, AcceptedIsActive
    <3> QED
      BY <1>2, <1>5, <2>1, <2>2, <2>3, <3>1, ThreadKeepsJobs
  <2>4. CASE Goto(t, "refused") /\ UNCHANGED run
    BY <1>2, <1>4, <2>1, <2>2, <2>4, ThreadKeepsJobs
  <2>5. CASE ReplyTo(t, "created") /\ Return(t)
    BY <1>1, <1>3, <2>1, <2>2, <2>5, ThreadKeepsJobs
  <2> QED
    BY <1>7, <2>3, <2>4, <2>5 DEF BeginCallback
<1>8. CASE CommitCallback(t)
  <2>1. j \in Jobs /\ thread[t].pc \in ReadPc
    BY <1>0, <1>8 DEF CommitCallback, At, ReadPc
  <2>2. StatusAfter(e) \in Active \cup Final
    BY <1>0 DEF StatusAfter, WaitingFor, Events, Checkpoints, Drafts, Active, Final
  <2>3. JobMoves(t)
    BY <1>8, <2>1, <2>2, UnchangedIsActive DEF CommitCallback, JobMoves
  <2> QED
    BY <1>1, <1>3, <1>8, <2>1, <2>3, ThreadKeepsJobs DEF CommitCallback
<1>9. CASE RollBackCheckpoint(t)
  <2>1. j \in Jobs /\ JobMoves(t)
    BY <1>0, <1>9 DEF RollBackCheckpoint, At, JobMoves
  <2> QED
    BY <1>1, <1>3, <1>9, <2>1, ThreadKeepsJobs DEF RollBackCheckpoint
<1>10. CASE LoseRace(t)
  <2>1. j \in Jobs /\ job[j].status # "none" /\ UNCHANGED job /\ JobMoves(t)
    BY <1>0, <1>10 DEF LoseRace, At, JobMoves
  <2> QED
    BY <1>2, <1>4, <1>10, <2>1, ThreadKeepsJobs DEF LoseRace
<1>11. CASE FailCallback(t)
  <2>1. j \in Jobs /\ job[j].status # "none" /\ UNCHANGED job /\ JobMoves(t)
    BY <1>0, <1>11 DEF FailCallback, At, JobMoves
  <2> QED
    BY <1>2, <1>4, <1>11, <2>1, ThreadKeepsJobs DEF FailCallback
<1>12. CASE MarkFailure(t)
  <2>1. j \in Jobs
    BY <1>0, <1>12 DEF MarkFailure, At
  <2>2. JobMoves(t)
    BY <1>12, <2>1 DEF MarkFailure, MayBeFailed, JobMoves, Active, Final
  <2> QED
    BY <1>1, <1>3, <1>12, <2>1, <2>2, ThreadKeepsJobs DEF MarkFailure
<1> QED
  BY <1>6, <1>7, <1>8, <1>9, <1>10, <1>11, <1>12 DEF Callback

\* What Airflow does, and a crash, leaves the jobs alone.
LEMMA AirflowKeepsJobs ==
  ASSUME Typed, JobInv,
         \/ \E t \in Threads : PostCallback(t) \/ NotifyFailure(t)
         \/ CallbackTimesOut
         \/ TaskThatPostsNothingFails
         \/ Crash
  PROVE  UNCHANGED job /\ JobInv'
<1>0. /\ thread \in [Threads -> ThreadRecord]
      /\ run \in [Jobs -> [Runs -> RunRecord]]
  BY DEF Typed, TypeOK
<1>1. ASSUME NEW t \in Threads, NEW i \in Jobs, NEW q \in Runs,
             run[i][q].status # "absent",
             RunMoves,
             thread'[t].pc = "arrived", thread'[t].job = i,
             \A u \in Threads : u # t => thread'[u] = thread[u],
             UNCHANGED job
      PROVE  JobInv'
  <2>1. job[i].status # "none"
    BY <1>1 DEF JobInv, RunsHaveJobs
  <2>2. Holds(t)'
    BY <1>1, <2>1 DEF Holds, ReadPc, ReviewPc
  <2>3. JobMoves(t)
    BY <1>1 DEF JobMoves
  <2> QED
    BY <1>1, <2>2, <2>3, ThreadKeepsJobs
<1>2. ASSUME NEW t \in Threads, PostCallback(t)
      PROVE  UNCHANGED job /\ JobInv'
  <2>1. PICK i \in Jobs, q \in Runs :
          /\ run[i][q].status = "running"
          /\ run' = [run EXCEPT ![i][q].call = t]
          /\ thread' = [thread EXCEPT ![t] =
               [Idle EXCEPT !.pc = "arrived", !.job = i,
                            !.event = Posts(q)[run[i][q].at], !.run = q]]
    BY <1>2 DEF PostCallback
  <2>2. thread'[t].pc = "arrived" /\ thread'[t].job = i
    BY <1>0, <2>1 DEF Idle
  <2>3. \A u \in Threads : u # t => thread'[u] = thread[u]
    BY <1>0, <2>1
  <2>4. \A j \in Jobs, r \in Runs : run'[j][r].status = run[j][r].status
    BY <1>0, <2>1 DEF RunRecord
  <2>5. UNCHANGED job /\ RunMoves
    BY <1>2, <2>4 DEF PostCallback, RunMoves
  <2> QED
    BY <1>1, <2>1, <2>2, <2>3, <2>5
<1>3. ASSUME NEW t \in Threads, NotifyFailure(t)
      PROVE  UNCHANGED job /\ JobInv'
  <2>1. PICK i \in Jobs, q \in Runs :
          /\ run[i][q].status = "failed"
          /\ run' = [run EXCEPT ![i][q].reported = TRUE]
          /\ thread' = [thread EXCEPT ![t] =
               [Idle EXCEPT !.pc = "arrived", !.job = i, !.event = "failure", !.run = q]]
    BY <1>3 DEF NotifyFailure
  <2>2. thread'[t].pc = "arrived" /\ thread'[t].job = i
    BY <1>0, <2>1 DEF Idle
  <2>3. \A u \in Threads : u # t => thread'[u] = thread[u]
    BY <1>0, <2>1
  <2>4. \A j \in Jobs, r \in Runs : run'[j][r].status = run[j][r].status
    BY <1>0, <2>1 DEF RunRecord
  <2>5. UNCHANGED job /\ RunMoves
    BY <1>3, <2>4 DEF NotifyFailure, RunMoves
  <2> QED
    BY <1>1, <2>1, <2>2, <2>3, <2>5
<1>4. ASSUME UNCHANGED job,
             UNCHANGED thread \/ \A t \in Threads : thread'[t] = Idle,
             RunMoves
      PROVE  JobInv'
  <2>1. RunsHaveJobs' /\ OneActiveJob'
    BY <1>4 DEF JobInv, RunsHaveJobs, OneActiveJob, RunMoves
  <2>2. OneLock'
    BY <1>4, IdleType DEF JobInv, OneLock, At
  <2>3. \A t \in Threads : Holds(t)'
    BY <1>4, IdleType DEF JobInv, Holds, ReadPc, ReviewPc
  <2> QED
    BY <2>1, <2>2, <2>3 DEF JobInv
<1>5. CASE CallbackTimesOut
  <2>1. PICK i \in Jobs, q \in Runs :
          /\ run[i][q].call # NoThread
          /\ run' = [run EXCEPT ![i][q] = TaskFails(run[i][q])]
    BY <1>5 DEF CallbackTimesOut
  <2>2. run[i][q] \in RunRecord /\ RunShape(run[i][q], q) /\ run[i][q].status = "running"
    BY <2>1 DEF Typed, TypeOK, RunsOK, RunShape
  <2>3. TaskFails(run[i][q]).status \in {"running", "failed"}
    BY <2>2, TaskFailsType
  <2>4. RunMoves
    BY <1>0, <2>1, <2>2, <2>3 DEF RunMoves
  <2> QED
    BY <1>4, <1>5, <2>4 DEF CallbackTimesOut
<1>6. CASE TaskThatPostsNothingFails
  <2>1. PICK i \in Jobs, q \in Runs :
          /\ run[i][q].status \in {"running", "success"}
          /\ run' = [run EXCEPT ![i][q] = Ended(run[i][q], "failed")]
    BY <1>6 DEF TaskThatPostsNothingFails
  <2>2. Ended(run[i][q], "failed").status = "failed"
    BY <1>0, EndedType
  <2>3. RunMoves
    BY <1>0, <2>1, <2>2 DEF RunMoves
  <2> QED
    BY <1>4, <1>6, <2>3 DEF TaskThatPostsNothingFails
<1>7. CASE Crash
  <2>1. RunMoves
    BY <1>7, CrashRun DEF RunMoves
  <2>2. \A t \in Threads : thread'[t] = Idle
    BY <1>7 DEF Crash
  <2> QED
    BY <1>4, <1>7, <2>1, <2>2 DEF Crash
<1> QED
  BY <1>2, <1>3, <1>5, <1>6, <1>7

\* Without a job there is nothing to hold.
LEMMA JobInvInit == Init => JobInv
<1> SUFFICES ASSUME Init PROVE JobInv
  OBVIOUS
<1>1. OneActiveJob /\ RunsHaveJobs
  BY DEF Init, OneActiveJob, RunsHaveJobs, Active
<1>2. \A t \in Threads : thread[t] = Idle
  BY DEF Init
<1> QED
  BY <1>1, <1>2, IdleType DEF JobInv, OneLock, At, Holds, ReadPc, ReviewPc

\* Every step keeps the invariant, and moves jobs as a thread may.
LEMMA JobInvStep ==
  ASSUME Typed, JobInv, [Next]_vars
  PROVE  JobInv' /\ (UNCHANGED job \/ \E t \in Threads : JobMoves(t))
<1>1. CASE UNCHANGED vars
  BY <1>1 DEF vars, JobInv, OneActiveJob, OneLock, At, RunsHaveJobs, Holds
<1> QED
  BY <1>1, TriggerKeepsJobs, ReviewKeepsJobs, CallbackKeepsJobs, AirflowKeepsJobs DEF Next

\* A dataset never has two jobs that are not finished.
THEOREM OneActive == Spec => []OneActiveJob
<1>1. Init => Typed /\ JobInv
  BY InitType, JobInvInit
<1>2. Typed /\ JobInv /\ [Next]_vars => Typed' /\ JobInv'
  BY StepType, JobInvStep
<1>3. JobInv => OneActiveJob
  BY DEF JobInv
<1> QED
  BY <1>1, <1>2, <1>3, PTL DEF Spec

\* A finished job stays as it finished, whatever was read before and is
\* committed, or fails, after it.
THEOREM FinalStaysFinal == Spec => FinalIsFinal
<1>1. Init => Typed /\ JobInv
  BY InitType, JobInvInit
<1>2. Typed /\ JobInv /\ [Next]_vars => Typed' /\ JobInv'
  BY StepType, JobInvStep
<1>3. Typed /\ JobInv /\ [Next]_vars =>
        [\A j \in Jobs : IsFinalized(j) => job'[j].status = job[j].status]_vars
  <2> SUFFICES ASSUME Typed, JobInv, [Next]_vars, NEW j \in Jobs, IsFinalized(j)
               PROVE  job'[j].status = job[j].status
    OBVIOUS
  <2>1. ASSUME NEW t \in Threads, JobMoves(t)
        PROVE  job'[j].status = job[j].status
    BY <2>1 DEF JobMoves, Save, Typed, TypeOK
  <2> QED
    BY <2>1, JobInvStep
<1> QED
  BY <1>1, <1>2, <1>3, PTL DEF Spec, FinalIsFinal

-----------------------------------------------------------------------------
(* Posts and their receipts *)

\* A step that touches neither receipts nor rows keeps them together.
LEMMA ReceiptsAlone ==
  ASSUME AppliedOnce, UNCHANGED applied,
         \A i \in Jobs, f \in Events \ {"failure"} :
           receipt'[i][f] = "PROCESSED" <=> receipt[i][f] = "PROCESSED"
  PROVE  AppliedOnce'
BY DEF AppliedOnce

\* A callback stores the rows and the receipt together, and only once.
LEMMA CallbackAppliesOnce ==
  ASSUME Typed, AppliedOnce, NEW t \in Threads, Callback(t)
  PROVE  AppliedOnce'
<1> DEFINE j == thread[t].job
           e == thread[t].event
<1>0. /\ receipt \in [Jobs -> [Events -> {"none", "RECEIVED", "PROCESSED", "FAILED"}]]
      /\ applied \in [Jobs -> [Events -> Nat]]
      /\ e \in Events
      /\ thread[t].pc \notin {"idle", "locked"} => j \in Jobs
  BY LocalTypes DEF Typed, TypeOK
<1>1. UNCHANGED <<receipt, applied>> => AppliedOnce'
  BY DEF AppliedOnce
<1>2. CASE Receive(t)
  <2>1. j \in Jobs
    BY <1>0, <1>2 DEF Receive, At
  <2>2. CASE receipt' = [receipt EXCEPT ![j][e] = IF @ = "none" THEN "RECEIVED" ELSE @]
    <3>1. \A i \in Jobs, f \in Events :
            receipt'[i][f] = "PROCESSED" <=> receipt[i][f] = "PROCESSED"
      BY <1>0, <2>1, <2>2
    <3> QED
      BY <1>2, <3>1, ReceiptsAlone DEF Receive
  <2> QED
    BY <1>1, <1>2, <2>2 DEF Receive
<1>3. CASE BeginCallback(t)
  <2>1. j \in Jobs
    BY <1>0, <1>3 DEF BeginCallback, At
  <2>2. CASE e = "failure" /\ receipt' = [receipt EXCEPT ![j][e] = "PROCESSED"]
    <3>1. \A i \in Jobs, f \in Events \ {"failure"} : receipt'[i][f] = receipt[i][f]
      BY <1>0, <2>1, <2>2
    <3> QED
      BY <1>3, <3>1, ReceiptsAlone DEF BeginCallback
  <2> QED
    BY <1>1, <1>3, <2>2 DEF BeginCallback
<1>4. CASE CommitCallback(t)
  <2>1. j \in Jobs
    BY <1>0, <1>4 DEF CommitCallback, At
  <2>2. \A i \in Jobs, f \in Events :
          receipt'[i][f] = IF i = j /\ f = e THEN "PROCESSED" ELSE receipt[i][f]
    BY <1>0, <1>4, <2>1 DEF CommitCallback, Processed
  <2>3. CASE e = "failure"
    <3>1. UNCHANGED applied
      BY <1>4, <2>3 DEF CommitCallback
    <3> QED
      BY <2>2, <2>3, <3>1, ReceiptsAlone
  <2>4. CASE e # "failure"
    <3>1. applied[j][e] = 0
      BY <1>0, <1>4, <2>1, <2>4 DEF CommitCallback, AppliedOnce, Events
    <3>2. \A i \in Jobs, f \in Events :
            applied'[i][f] = IF i = j /\ f = e THEN 1 ELSE applied[i][f]
      BY <1>0, <1>4, <2>1, <2>4, <3>1 DEF CommitCallback
    <3> QED
      BY <2>1, <2>2, <3>2 DEF AppliedOnce
  <2> QED
    BY <2>3, <2>4
<1>5. CASE RollBackCheckpoint(t) \/ LoseRace(t) \/ FailCallback(t)
  BY <1>1, <1>5 DEF RollBackCheckpoint, LoseRace, FailCallback
<1>6. CASE MarkFailure(t)
  <2>1. j \in Jobs
    BY <1>0, <1>6 DEF MarkFailure, At
  <2>2. receipt' = [receipt EXCEPT ![j][e] = IF @ = "PROCESSED" THEN @ ELSE "FAILED"]
    BY <1>6 DEF MarkFailure
  <2>3. \A i \in Jobs, f \in Events :
          receipt'[i][f] = "PROCESSED" <=> receipt[i][f] = "PROCESSED"
    BY <1>0, <2>1, <2>2
  <2> QED
    BY <1>6, <2>3, ReceiptsAlone DEF MarkFailure
<1> QED
  BY <1>2, <1>3, <1>4, <1>5, <1>6 DEF Callback

\* Nothing else stores the rows of a post or its receipt.
LEMMA AppliedOnceStep ==
  ASSUME Typed, AppliedOnce, [Next]_vars
  PROVE  AppliedOnce'
<1>1. UNCHANGED <<receipt, applied>> => AppliedOnce'
  BY DEF AppliedOnce
<1>2. CASE UNCHANGED vars
  BY <1>1, <1>2 DEF vars
<1>3. ASSUME NEW t \in Threads, Trigger(t) \/ Review(t)
      PROVE  UNCHANGED <<receipt, applied>>
  BY <1>3 DEF Trigger, LockAndFindActive, PrepareTrigger, TriggerInitial, MarkTriggered,
              MarkTriggerFailed, Review, BeginReview, TriggerReplay, CommitReview, FailReview
<1>4. ASSUME NEW t \in Threads, PostCallback(t) \/ NotifyFailure(t)
      PROVE  UNCHANGED <<receipt, applied>>
  BY <1>4 DEF PostCallback, NotifyFailure
<1>5. CASE CallbackTimesOut \/ TaskThatPostsNothingFails \/ Crash
  BY <1>1, <1>5 DEF CallbackTimesOut, TaskThatPostsNothingFails, Crash
<1> QED
  BY <1>1, <1>2, <1>3, <1>4, <1>5, CallbackAppliesOnce DEF Next

\* A post takes effect exactly once if its receipt says so and not at all
\* otherwise, however often it is retried and wherever the backend stops.
THEOREM PostsApplyOnce == Spec => []AppliedOnce
<1>1. Init => AppliedOnce
  BY DEF Init, AppliedOnce
<1>2. Typed /\ AppliedOnce /\ [Next]_vars => AppliedOnce'
  BY AppliedOnceStep
<1> QED
  BY <1>1, <1>2, InitType, StepType, PTL DEF Spec

-----------------------------------------------------------------------------
(* Decisions and their replays *)

\* A review that comes to its commit has had its replay created.
Replayed ==
  \A t \in Threads :
    thread[t].pc = "replayed" => run[thread[t].job][ReplayOf(thread[t].event)].status # "absent"

ReplayInv == Replayed /\ DecisionHasReplay

\* Runs are never taken away.
RunsStay ==
  \A j \in Jobs, r \in Runs : run[j][r].status # "absent" => run'[j][r].status # "absent"

\* A step keeps the invariant that closes no session and brings no thread to
\* the commit of a review.
LEMMA ReplaysStay ==
  ASSUME Typed, ReplayInv, RunsStay,
         \A t \in Threads : thread'[t].pc = "replayed" => thread'[t] = thread[t],
         \A j \in Jobs, k \in Checkpoints : session'[j][k] = "CLOSED" => session[j][k] = "CLOSED"
  PROVE  ReplayInv'
<1>1. \A k \in Checkpoints : ReplayOf(k) \in Runs
  BY DEF ReplayOf, Runs
<1>2. \A t \in Threads : thread[t].pc = "replayed" =>
        thread[t].job \in Jobs /\ thread[t].event \in Checkpoints
  BY LocalTypes DEF ReviewPc
<1>3. Replayed'
  <2> SUFFICES ASSUME NEW t \in Threads, thread'[t].pc = "replayed"
               PROVE  run'[thread'[t].job][ReplayOf(thread'[t].event)].status # "absent"
    BY DEF Replayed
  <2>1. thread'[t] = thread[t]
    OBVIOUS
  <2> QED
    BY <1>1, <1>2, <2>1 DEF ReplayInv, Replayed, RunsStay
<1>4. DecisionHasReplay'
  BY <1>1 DEF ReplayInv, DecisionHasReplay, RunsStay
<1> QED
  BY <1>3, <1>4 DEF ReplayInv

\* A call to Airflow that works leaves the run there.
LEMMA TriggeredRun ==
  ASSUME Typed, NEW i \in Jobs, NEW q \in Runs, NEW ok \in BOOLEAN, TriggerPort(i, q, ok), ok
  PROVE  run'[i][q].status # "absent"
<1>1. run \in [Jobs -> [Runs -> RunRecord]] /\ run[i][q] \in RunRecord
  BY DEF Typed, TypeOK
<1>2. Created(i, q)
  BY DEF TriggerPort
<1>3. CASE run[i][q].status = "absent"
  <2>1. run'[i][q] = [run[i][q] EXCEPT !.status = "running"]
    BY <1>1, <1>2, <1>3 DEF Created
  <2> QED
    BY <1>1, <2>1 DEF RunRecord
<1> QED
  BY <1>2, <1>3 DEF Created

\* A review commits its decision only after its replay.
LEMMA ReviewHasReplay ==
  ASSUME Typed, ReplayInv, RunsStay, NEW t \in Threads, Review(t)
  PROVE  ReplayInv'
<1> DEFINE j == thread[t].job
           e == thread[t].event
<1>0. /\ thread \in [Threads -> ThreadRecord]
      /\ thread[t] \in ThreadRecord
      /\ session \in [Jobs -> [Checkpoints -> {"none", "OPEN", "CLOSED"}]]
      /\ thread[t].pc \in ReviewPc => j \in Jobs /\ e \in Checkpoints
  BY LocalTypes DEF Typed, TypeOK, ReviewPc
<1>1. ReplayOf(e) \in Runs
  BY DEF ReplayOf, Runs
<1>2. Return(t) => \A u \in Threads : thread'[u].pc = "replayed" => thread'[u] = thread[u]
  BY <1>0, IdleType DEF Return
<1>3. CASE BeginReview(t)
  <2>1. PICK i \in Jobs, k \in Checkpoints :
          thread' = [thread EXCEPT ![t] =
            [Idle EXCEPT !.pc = "reviewing", !.job = i, !.event = k, !.seen = job[i].version]]
    BY <1>3 DEF BeginReview
  <2>2. thread'[t].pc = "reviewing" /\ \A u \in Threads : u # t => thread'[u] = thread[u]
    BY <1>0, <2>1 DEF Idle
  <2> QED
    BY <1>3, <2>2, ReplaysStay DEF BeginReview
<1>4. CASE TriggerReplay(t)
  <2>1. j \in Jobs /\ e \in Checkpoints
    BY <1>0, <1>4 DEF TriggerReplay, At, ReviewPc
  <2>2. PICK ok \in BOOLEAN :
          /\ TriggerPort(j, ReplayOf(e), ok)
          /\ Goto(t, IF ok THEN "replayed" ELSE "unreplayed")
    BY <1>4 DEF TriggerReplay
  <2>3. \A u \in Threads : u # t => thread'[u] = thread[u]
    BY <1>0, <2>2 DEF Goto
  <2>4. thread'[t].job = j /\ thread'[t].event = e /\ thread'[t].pc = IF ok THEN "replayed" ELSE "unreplayed"
    BY <1>0, <2>2 DEF Goto, ThreadRecord
  <2>5. ok => run'[j][ReplayOf(e)].status # "absent"
    BY <1>1, <2>1, <2>2, TriggeredRun
  <2>6. \A u \in Threads : thread[u].pc = "replayed" =>
          thread[u].job \in Jobs /\ thread[u].event \in Checkpoints
    BY LocalTypes DEF ReviewPc
  <2>7. \A k \in Checkpoints : ReplayOf(k) \in Runs
    BY DEF ReplayOf, Runs
  <2>8. Replayed'
    BY <2>3, <2>4, <2>5, <2>6, <2>7 DEF ReplayInv, Replayed, RunsStay
  <2>9. DecisionHasReplay'
    BY <1>4, <2>7 DEF TriggerReplay, ReplayInv, DecisionHasReplay, RunsStay
  <2> QED
    BY <2>8, <2>9 DEF ReplayInv
<1>5. CASE CommitReview(t)
  <2>1. j \in Jobs /\ e \in Checkpoints /\ run[j][ReplayOf(e)].status # "absent"
    BY <1>0, <1>5 DEF CommitReview, At, ReviewPc, ReplayInv, Replayed
  <2>2. UNCHANGED run
    BY <1>5 DEF CommitReview
  <2>3. CASE session' = [session EXCEPT ![j][e] = "CLOSED"]
    <3>1. \A i \in Jobs, k \in Checkpoints :
            session'[i][k] = IF i = j /\ k = e THEN "CLOSED" ELSE session[i][k]
      BY <1>0, <2>1, <2>3
    <3>2. DecisionHasReplay'
      BY <2>1, <2>2, <3>1 DEF ReplayInv, DecisionHasReplay
    <3>3. Replayed'
      BY <1>2, <1>5, <2>2 DEF CommitReview, ReplayInv, Replayed
    <3> QED
      BY <3>2, <3>3 DEF ReplayInv
  <2>4. CASE session' = session
    BY <1>2, <1>5, <2>4, ReplaysStay DEF CommitReview
  <2> QED
    BY <1>5, <2>3, <2>4 DEF CommitReview
<1>6. CASE FailReview(t)
  BY <1>2, <1>6, ReplaysStay DEF FailReview
<1> QED
  BY <1>3, <1>4, <1>5, <1>6 DEF Review

\* The request threads never take a run away.
LEMMA RequestRunsStay ==
  ASSUME Typed, NEW t \in Threads, Trigger(t) \/ Review(t) \/ Callback(t)
  PROVE  RunsStay
<1> DEFINE j == thread[t].job
<1>0. thread[t].pc \notin {"idle", "locked"} => j \in Jobs
  BY LocalTypes
<1>1. UNCHANGED run => RunsStay
  BY DEF RunsStay
<1>2. ASSUME NEW q \in Runs, NEW ok \in BOOLEAN, j \in Jobs, TriggerPort(j, q, ok)
      PROVE  RunsStay
  BY <1>2, TriggerPortRuns DEF RunsStay
<1>3. ASSUME NEW reply, j \in Jobs, ReplyTo(t, reply)
      PROVE  RunsStay
  BY <1>3, ReplyRuns DEF RunsStay
<1>4. CASE LockAndFindActive(t) \/ PrepareTrigger(t) \/ MarkTriggered(t) \/ MarkTriggerFailed(t)
  BY <1>1, <1>4 DEF LockAndFindActive, PrepareTrigger, MarkTriggered, MarkTriggerFailed
<1>5. CASE TriggerInitial(t)
  BY <1>0, <1>2, <1>5 DEF TriggerInitial, At, Runs
<1>6. CASE BeginReview(t) \/ CommitReview(t) \/ FailReview(t)
  BY <1>1, <1>6 DEF BeginReview, CommitReview, FailReview
<1>7. CASE TriggerReplay(t)
  BY <1>0, <1>2, <1>7 DEF TriggerReplay, At, Runs, ReplayOf
<1>8. CASE LoseRace(t) \/ FailCallback(t)
  BY <1>1, <1>8 DEF LoseRace, FailCallback
<1>9. CASE Receive(t) \/ BeginCallback(t)
  BY <1>0, <1>1, <1>3, <1>9 DEF Receive, BeginCallback, At
<1>10. CASE CommitCallback(t) \/ RollBackCheckpoint(t) \/ MarkFailure(t)
  BY <1>0, <1>3, <1>10 DEF CommitCallback, RollBackCheckpoint, MarkFailure, At
<1> QED
  BY <1>4, <1>5, <1>6, <1>7, <1>8, <1>9, <1>10 DEF Trigger, Review, Callback

\* Nor does Airflow, or a crash.
LEMMA AirflowRunsStay ==
  ASSUME Typed,
         \/ \E t \in Threads : PostCallback(t) \/ NotifyFailure(t)
         \/ CallbackTimesOut
         \/ TaskThatPostsNothingFails
         \/ Crash
  PROVE  RunsStay
<1>0. run \in [Jobs -> [Runs -> RunRecord]]
  BY DEF Typed, TypeOK
<1>1. ASSUME NEW t \in Threads, PostCallback(t)
      PROVE  RunsStay
  <2>1. PICK i \in Jobs, q \in Runs : run' = [run EXCEPT ![i][q].call = t]
    BY <1>1 DEF PostCallback
  <2>2. \A j \in Jobs, r \in Runs : run'[j][r].status = run[j][r].status
    BY <1>0, <2>1 DEF RunRecord
  <2> QED
    BY <2>2 DEF RunsStay
<1>2. ASSUME NEW t \in Threads, NotifyFailure(t)
      PROVE  RunsStay
  <2>1. PICK i \in Jobs, q \in Runs : run' = [run EXCEPT ![i][q].reported = TRUE]
    BY <1>2 DEF NotifyFailure
  <2>2. \A j \in Jobs, r \in Runs : run'[j][r].status = run[j][r].status
    BY <1>0, <2>1 DEF RunRecord
  <2> QED
    BY <2>2 DEF RunsStay
<1>3. CASE CallbackTimesOut
  <2>1. PICK i \in Jobs, q \in Runs :
          /\ run[i][q].call # NoThread
          /\ run' = [run EXCEPT ![i][q] = TaskFails(run[i][q])]
    BY <1>3 DEF CallbackTimesOut
  <2>2. run[i][q] \in RunRecord /\ RunShape(run[i][q], q) /\ run[i][q].status = "running"
    BY <2>1 DEF Typed, TypeOK, RunsOK, RunShape
  <2>3. TaskFails(run[i][q]).status \in {"running", "failed"}
    BY <2>2, TaskFailsType
  <2> QED
    BY <1>0, <2>1, <2>3 DEF RunsStay
<1>4. CASE TaskThatPostsNothingFails
  <2>1. PICK i \in Jobs, q \in Runs : run' = [run EXCEPT ![i][q] = Ended(run[i][q], "failed")]
    BY <1>4 DEF TaskThatPostsNothingFails
  <2>2. Ended(run[i][q], "failed").status = "failed"
    BY <1>0, EndedType
  <2> QED
    BY <1>0, <2>1, <2>2 DEF RunsStay
<1>5. CASE Crash
  BY <1>5, CrashRun DEF RunsStay
<1> QED
  BY <1>1, <1>2, <1>3, <1>4, <1>5

\* The other requests come to no commit of a review and close no session.
LEMMA OthersKeepReplays ==
  ASSUME Typed, ReplayInv, NEW t \in Threads, Trigger(t) \/ Callback(t)
  PROVE  ReplayInv'
<1> DEFINE j == thread[t].job
           e == thread[t].event
<1>0. /\ thread \in [Threads -> ThreadRecord]
      /\ thread[t] \in ThreadRecord
      /\ session \in [Jobs -> [Checkpoints -> {"none", "OPEN", "CLOSED"}]]
  BY LocalTypes DEF Typed, TypeOK
<1>1. RunsStay
  BY RequestRunsStay
<1>2. Return(t) => \A u \in Threads : thread'[u].pc = "replayed" => thread'[u] = thread[u]
  BY <1>0, IdleType DEF Return
<1>3. ASSUME NEW pc, pc # "replayed", Goto(t, pc)
      PROVE  \A u \in Threads : thread'[u].pc = "replayed" => thread'[u] = thread[u]
  BY <1>0, <1>3 DEF Goto, ThreadRecord
<1>4. ASSUME NEW x, thread' = [thread EXCEPT ![t].pc = "working", ![t].seen = x]
      PROVE  \A u \in Threads : thread'[u].pc = "replayed" => thread'[u] = thread[u]
  BY <1>0, <1>4 DEF ThreadRecord
<1>5. UNCHANGED session =>
        \A i \in Jobs, k \in Checkpoints : session'[i][k] = "CLOSED" => session[i][k] = "CLOSED"
  OBVIOUS
<1>6. CASE LockAndFindActive(t) \/ TriggerInitial(t) \/ MarkTriggered(t) \/ MarkTriggerFailed(t)
  <2>1. \A u \in Threads : thread'[u].pc = "replayed" => thread'[u] = thread[u]
    BY <1>2, <1>3, <1>6 DEF LockAndFindActive, TriggerInitial, MarkTriggered, MarkTriggerFailed
  <2> QED
    BY <1>1, <1>5, <1>6, <2>1, ReplaysStay
       DEF LockAndFindActive, TriggerInitial, MarkTriggered, MarkTriggerFailed
<1>7. CASE PrepareTrigger(t)
  <2>1. \A u \in Threads : thread'[u].pc = "replayed" => thread'[u] = thread[u]
    BY <1>0, <1>7 DEF PrepareTrigger, ThreadRecord
  <2> QED
    BY <1>1, <1>5, <1>7, <2>1, ReplaysStay DEF PrepareTrigger
<1>8. CASE Receive(t) \/ BeginCallback(t)
  <2>1. \A u \in Threads : thread'[u].pc = "replayed" => thread'[u] = thread[u]
    BY <1>2, <1>3, <1>4, <1>8 DEF Receive, BeginCallback
  <2> QED
    BY <1>1, <1>5, <1>8, <2>1, ReplaysStay DEF Receive, BeginCallback
<1>9. CASE CommitCallback(t)
  <2>1. \A i \in Jobs, k \in Checkpoints : session'[i][k] = "CLOSED" => session[i][k] = "CLOSED"
    BY <1>0, <1>9 DEF CommitCallback
  <2>2. Return(t)
    BY <1>9 DEF CommitCallback
  <2> QED
    BY <1>1, <1>2, <2>1, <2>2, ReplaysStay
<1>10. CASE RollBackCheckpoint(t) \/ LoseRace(t) \/ FailCallback(t) \/ MarkFailure(t)
  <2>1. \A u \in Threads : thread'[u].pc = "replayed" => thread'[u] = thread[u]
    BY <1>2, <1>3, <1>10 DEF RollBackCheckpoint, LoseRace, FailCallback, MarkFailure
  <2> QED
    BY <1>1, <1>5, <1>10, <2>1, ReplaysStay
       DEF RollBackCheckpoint, LoseRace, FailCallback, MarkFailure
<1> QED
  BY <1>6, <1>7, <1>8, <1>9, <1>10 DEF Trigger, Callback

\* Every step keeps a decision with its replay.
LEMMA ReplayInvStep ==
  ASSUME Typed, ReplayInv, [Next]_vars
  PROVE  ReplayInv'
<1>0. thread \in [Threads -> ThreadRecord]
  BY DEF Typed, TypeOK
<1>1. CASE UNCHANGED vars
  BY <1>1 DEF vars, ReplayInv, Replayed, DecisionHasReplay
<1>2. ASSUME NEW t \in Threads, Review(t)
      PROVE  ReplayInv'
  BY <1>2, RequestRunsStay, ReviewHasReplay
<1>3. ASSUME NEW t \in Threads, PostCallback(t) \/ NotifyFailure(t)
      PROVE  ReplayInv'
  <2>1. /\ thread'[t].pc = "arrived"
        /\ \A u \in Threads : u # t => thread'[u] = thread[u]
    BY <1>0, <1>3 DEF PostCallback, NotifyFailure, Idle
  <2>2. \A u \in Threads : thread'[u].pc = "replayed" => thread'[u] = thread[u]
    BY <2>1
  <2> QED
    BY <1>3, <2>2, AirflowRunsStay, ReplaysStay DEF PostCallback, NotifyFailure
<1>4. CASE CallbackTimesOut \/ TaskThatPostsNothingFails
  BY <1>4, AirflowRunsStay, ReplaysStay DEF CallbackTimesOut, TaskThatPostsNothingFails
<1>5. CASE Crash
  BY <1>5, IdleType, AirflowRunsStay, ReplaysStay DEF Crash
<1> QED
  BY <1>1, <1>2, <1>3, <1>4, <1>5, OthersKeepReplays DEF Next

\* A decision is on record only when the replay it asks for has been created,
\* though it is committed after the call to Airflow and may be rolled back.
THEOREM DecisionsHaveReplays == Spec => []DecisionHasReplay
<1>1. Init => Typed /\ ReplayInv
  <2>1. Init => ReplayInv
    BY IdleType DEF Init, ReplayInv, Replayed, DecisionHasReplay
  <2> QED
    BY <2>1, InitType
<1>2. Typed /\ ReplayInv /\ [Next]_vars => Typed' /\ ReplayInv'
  BY StepType, ReplayInvStep
<1>3. ReplayInv => DecisionHasReplay
  BY DEF ReplayInv
<1> QED
  BY <1>1, <1>2, <1>3, PTL DEF Spec

-----------------------------------------------------------------------------
(***************************************************************************)
(* What Airflow believes to have delivered has been stored, and a run that    *)
(* has delivered everything has made its job succeed: for any number of jobs,  *)
(* threads, attempts and crashes.                                           *)
(*                                                                         *)
(* A run goes on only at the reply of the thread it waits for.  That thread   *)
(* is still busy with the very post the run is at, since a thread that ends    *)
(* replies, and a run that gives up a call does not listen any more.          *)
(***************************************************************************)

CallPc == {"arrived", "received", "working", "refused", "failing"}

\* A run that waits for a thread waits for what the thread is about to do.
CallsAreHandled ==
  \A t \in Threads, j \in Jobs, r \in Runs : run[j][r].call = t =>
    /\ thread[t].pc \in CallPc
    /\ thread[t].job = j
    /\ thread[t].run = r
    /\ thread[t].event = Posts(r)[run[j][r].at]

\* The workflows are stored together with the end of the job.
LastPostEndsJob ==
  \A j \in Jobs : receipt[j]["workflow"] = "PROCESSED" => job[j].status = "SUCCEEDED"

\* The places a run has left behind are places of its posts.
PlacesOK ==
  \A j \in Jobs, r \in Runs : \A i \in 1..(run[j][r].at - 1) :
    Posts(r)[i] \in Checkpoints \cup Drafts

DeliveryInv ==
  /\ Typed /\ JobInv /\ AppliedOnce
  /\ CallsAreHandled /\ PlacesOK /\ LastPostEndsJob
  /\ AcknowledgedIsApplied /\ PublishedMeansSucceeded

\* Where a step can take a run: on by one post, which has been processed then.
GoesOn(j, r) ==
  /\ run[j][r].at \in 1..Len(Posts(r))
  /\ run'[j][r].at = run[j][r].at + 1
  /\ receipt'[j][Posts(r)[run[j][r].at]] = "PROCESSED"

Stays(j, r) ==
  /\ run'[j][r].at = run[j][r].at
  /\ run'[j][r].status = "success" => run[j][r].status = "success"

RunsGoOn == \A j \in Jobs, r \in Runs : Stays(j, r) \/ GoesOn(j, r)

-----------------------------------------------------------------------------
(* Who handles which call.                                                   *)

\* A thread moves and no run's call is changed but to be given up.
LEMMA CallsStay ==
  ASSUME CallsAreHandled, NEW t \in Threads,
         \A u \in Threads : u # t => thread'[u] = thread[u],
         \A j \in Jobs, r \in Runs :
           \/ run'[j][r].call = NoThread
           \/ run'[j][r].call = run[j][r].call /\ run'[j][r].at = run[j][r].at,
         \/ \A j \in Jobs, r \in Runs : run'[j][r].call # t
         \/ /\ thread'[t].pc \in CallPc
            /\ thread'[t].job = thread[t].job
            /\ thread'[t].event = thread[t].event
            /\ thread'[t].run = thread[t].run
  PROVE  CallsAreHandled'
BY NoThreadAssumption DEF CallsAreHandled

\* A thread that replies has no run waiting for it then, and the run that did
\* goes on if the post is processed.
LEMMA ReplyEndsCall ==
  ASSUME DeliveryInv, NEW t \in Threads, thread[t].job \in Jobs,
         NEW reply \in {"created", "duplicate", "error"}, ReplyTo(t, reply),
         reply = "error" \/ thread[t].event = "failure"
           \/ receipt'[thread[t].job][thread[t].event] = "PROCESSED"
  PROVE  /\ RunsGoOn
         /\ \A j \in Jobs, r \in Runs : run'[j][r].call # t
         /\ \A j \in Jobs, r \in Runs :
              \/ run'[j][r].call = NoThread
              \/ run'[j][r].call = run[j][r].call /\ run'[j][r].at = run[j][r].at
<1> SUFFICES ASSUME NEW j \in Jobs, NEW r \in Runs
             PROVE  /\ Stays(j, r) \/ GoesOn(j, r)
                    /\ run'[j][r].call # t
                    /\ \/ run'[j][r].call = NoThread
                       \/ run'[j][r].call = run[j][r].call /\ run'[j][r].at = run[j][r].at
  BY DEF RunsGoOn
<1>0. run[j][r] \in RunRecord /\ RunShape(run[j][r], r)
  BY DEF DeliveryInv, Typed, TypeOK, RunsOK
<1>1. CASE run[j][r].call = t
  <2>1. /\ thread[t].job = j /\ thread[t].run = r
        /\ thread[t].event = Posts(r)[run[j][r].at]
    BY <1>1 DEF DeliveryInv, CallsAreHandled
  <2>2. run[j][r].at \in 1..Len(Posts(r))
    BY <1>0, <1>1, NoThreadAssumption, PostsFacts DEF RunShape, RunRecord
  <2>3. thread[t].event # "failure"
    BY <2>1, <2>2, PostsFacts DEF Checkpoints, Drafts
  <2>4. /\ run[j][r].status = "running"
        /\ run'[j][r].call = NoThread
        /\ Accepts(thread[t].event, reply) => run'[j][r].at = run[j][r].at + 1
        /\ ~Accepts(thread[t].event, reply) =>
             run'[j][r].at = run[j][r].at /\ run'[j][r].status \in {"running", "failed"}
    BY <1>1, <2>1, <2>3, ReplyRuns DEF DeliveryInv
  <2>5. CASE Accepts(thread[t].event, reply)
    <3>1. receipt'[j][Posts(r)[run[j][r].at]] = "PROCESSED"
      BY <2>1, <2>3, <2>5 DEF Accepts
    <3> QED
      BY <2>2, <2>4, <2>5, <3>1, NoThreadAssumption DEF GoesOn
  <2>6. CASE ~Accepts(thread[t].event, reply)
    BY <2>4, <2>6, NoThreadAssumption DEF Stays
  <2> QED
    BY <2>5, <2>6
<1>2. CASE run[j][r].call # t
  <2>1. run'[j][r] = run[j][r]
    BY <1>2, ReplyRuns DEF DeliveryInv
  <2> QED
    BY <1>2, <2>1 DEF Stays
<1> QED
  BY <1>1, <1>2

\* The same of a thread that returns with its reply.
LEMMA ReplyAndReturn ==
  ASSUME DeliveryInv, NEW t \in Threads, thread[t].job \in Jobs,
         NEW reply \in {"created", "duplicate", "error"}, ReplyTo(t, reply), Return(t),
         reply = "error" \/ thread[t].event = "failure"
           \/ receipt'[thread[t].job][thread[t].event] = "PROCESSED"
  PROVE  CallsAreHandled' /\ RunsGoOn
<1>1. \A u \in Threads : u # t => thread'[u] = thread[u]
  BY DEF Return, DeliveryInv, Typed, TypeOK
<1> QED
  BY <1>1, ReplyEndsCall, CallsStay DEF DeliveryInv

\* A thread that goes on with its callback.
LEMMA CallbackGoesOn ==
  ASSUME DeliveryInv, NEW t \in Threads, UNCHANGED run,
         \A u \in Threads : u # t => thread'[u] = thread[u],
         thread'[t].pc \in CallPc, thread'[t].job = thread[t].job,
         thread'[t].event = thread[t].event, thread'[t].run = thread[t].run
  PROVE  CallsAreHandled' /\ RunsGoOn
<1>1. RunsGoOn
  BY DEF RunsGoOn, Stays
<1> QED
  BY <1>1, CallsStay DEF DeliveryInv

\* A thread no run waits for.
LEMMA NobodyWaits ==
  ASSUME DeliveryInv, NEW t \in Threads, thread[t].pc \notin CallPc,
         \A u \in Threads : u # t => thread'[u] = thread[u],
         \A j \in Jobs, r \in Runs : /\ run'[j][r].call = run[j][r].call
                                     /\ run'[j][r].at = run[j][r].at
                                     /\ run'[j][r].status = "success" =>
                                          run[j][r].status = "success"
  PROVE  CallsAreHandled' /\ RunsGoOn
<1>1. \A j \in Jobs, r \in Runs : run[j][r].call # t
  BY DEF DeliveryInv, CallsAreHandled
<1> QED
  BY <1>1, CallsStay DEF DeliveryInv, RunsGoOn, Stays

-----------------------------------------------------------------------------
(* The steps.                                                                *)

LEMMA RequestCalls ==
  ASSUME DeliveryInv, NEW t \in Threads, Trigger(t) \/ Review(t)
  PROVE  CallsAreHandled' /\ RunsGoOn
<1>0. thread \in [Threads -> ThreadRecord]
  BY DEF DeliveryInv, Typed, TypeOK
<1>1. thread[t].pc \notin CallPc
  BY DEF Trigger, LockAndFindActive, PrepareTrigger, TriggerInitial, MarkTriggered,
         MarkTriggerFailed, Review, BeginReview, TriggerReplay, CommitReview, FailReview,
         At, CallPc
<1>2. \A u \in Threads : u # t => thread'[u] = thread[u]
  BY <1>0 DEF Trigger, LockAndFindActive, PrepareTrigger, TriggerInitial, MarkTriggered,
         MarkTriggerFailed, Review, BeginReview, TriggerReplay, CommitReview, FailReview,
         Goto, Return
<1>3. CASE UNCHANGED run
  BY <1>1, <1>2, <1>3, NobodyWaits
<1>4. ASSUME NEW i \in Jobs, NEW q \in Runs, NEW ok \in BOOLEAN, TriggerPort(i, q, ok)
      PROVE  CallsAreHandled' /\ RunsGoOn
  <2>1. \A j \in Jobs, r \in Runs :
          /\ run'[j][r].call = run[j][r].call
          /\ run'[j][r].at = run[j][r].at
          /\ run'[j][r].status = "success" => run[j][r].status = "success"
    BY <1>4, TriggerPortRuns DEF DeliveryInv
  <2> QED
    BY <1>1, <1>2, <2>1, NobodyWaits
<1>5. CASE TriggerInitial(t)
  <2>1. thread[t].job \in Jobs /\ "initial" \in Runs
    BY <1>5, LocalTypes DEF TriggerInitial, At, DeliveryInv, Runs
  <2> QED
    BY <1>4, <1>5, <2>1 DEF TriggerInitial
<1>6. CASE TriggerReplay(t)
  <2>1. thread[t].job \in Jobs /\ ReplayOf(thread[t].event) \in Runs
    BY <1>6, LocalTypes DEF TriggerReplay, At, DeliveryInv, Runs, ReplayOf
  <2> QED
    BY <1>4, <1>6, <2>1 DEF TriggerReplay
<1> QED
  BY <1>3, <1>5, <1>6
     DEF Trigger, LockAndFindActive, PrepareTrigger, MarkTriggered, MarkTriggerFailed,
         Review, BeginReview, CommitReview, FailReview

LEMMA CallbackCalls ==
  ASSUME DeliveryInv, NEW t \in Threads, Callback(t)
  PROVE  CallsAreHandled' /\ RunsGoOn
<1> DEFINE j == thread[t].job
           e == thread[t].event
<1>0. /\ thread \in [Threads -> ThreadRecord]
      /\ receipt \in [Jobs -> [Events -> {"none", "RECEIVED", "PROCESSED", "FAILED"}]]
      /\ e \in Events
  BY LocalTypes DEF DeliveryInv, Typed, TypeOK
<1>1. thread[t].pc \in CallPc /\ j \in Jobs
  <2>1. thread[t].pc \in CallPc
    BY DEF Callback, Receive, BeginCallback, CommitCallback, RollBackCheckpoint, LoseRace,
           FailCallback, MarkFailure, At, CallPc
  <2> QED
    BY <2>1, LocalTypes DEF CallPc, DeliveryInv
<1>2. ASSUME NEW pc \in CallPc, UNCHANGED run,
             \/ Goto(t, pc)
             \/ \E seen \in Nat : thread' = [thread EXCEPT ![t].pc = pc, ![t].seen = seen]
      PROVE  CallsAreHandled' /\ RunsGoOn
  <2>1. /\ \A u \in Threads : u # t => thread'[u] = thread[u]
        /\ thread'[t].pc = pc
        /\ thread'[t].job = thread[t].job
        /\ thread'[t].event = thread[t].event
        /\ thread'[t].run = thread[t].run
    BY <1>0, <1>2 DEF Goto, ThreadRecord
  <2> QED
    BY <1>2, <2>1, CallbackGoesOn
<1>3. ASSUME ReplyTo(t, "error"), Return(t)
      PROVE  CallsAreHandled' /\ RunsGoOn
  BY <1>1, <1>3, ReplyAndReturn
<1>4. CASE Receive(t)
  <2>1. CASE IsProcessed(j, e) /\ ReplyTo(t, "duplicate") /\ Return(t) /\ UNCHANGED receipt
    BY <1>1, <2>1, ReplyAndReturn DEF IsProcessed
  <2>2. CASE /\ thread' = [thread EXCEPT ![t].pc = "working", ![t].seen = job[j].version]
             /\ UNCHANGED run
    <3>1. job[j].version \in Nat
      BY <1>1 DEF DeliveryInv, Typed, TypeOK, JobRecord
    <3> QED
      BY <1>2, <2>2, <3>1 DEF CallPc
  <2>3. CASE Goto(t, "received") /\ UNCHANGED run
    BY <1>2, <2>3 DEF CallPc
  <2> QED
    BY <1>3, <1>4, <2>1, <2>2, <2>3 DEF Receive
<1>5. CASE BeginCallback(t)
  <2>1. CASE /\ thread' = [thread EXCEPT ![t].pc = "working", ![t].seen = job[j].version]
             /\ UNCHANGED run
    <3>1. job[j].version \in Nat
      BY <1>1 DEF DeliveryInv, Typed, TypeOK, JobRecord
    <3> QED
      BY <1>2, <2>1, <3>1 DEF CallPc
  <2>2. CASE Goto(t, "refused") /\ UNCHANGED run
    BY <1>2, <2>2 DEF CallPc
  <2>3. CASE e = "failure" /\ ReplyTo(t, "created") /\ Return(t)
    BY <1>1, <2>3, ReplyAndReturn
  <2> QED
    BY <1>5, <2>1, <2>2, <2>3 DEF BeginCallback
<1>6. CASE CommitCallback(t)
  <2>1. receipt'[j][e] = "PROCESSED"
    BY <1>0, <1>1, <1>6 DEF CommitCallback, Processed
  <2>2. ReplyTo(t, "created") /\ Return(t)
    BY <1>6 DEF CommitCallback
  <2> QED
    BY <1>1, <2>1, <2>2, ReplyAndReturn
<1>7. CASE RollBackCheckpoint(t)
  BY <1>3, <1>7 DEF RollBackCheckpoint
<1>8. CASE LoseRace(t) \/ FailCallback(t)
  BY <1>2, <1>8 DEF LoseRace, FailCallback, CallPc
<1>9. CASE MarkFailure(t)
  BY <1>3, <1>9 DEF MarkFailure
<1> QED
  BY <1>4, <1>5, <1>6, <1>7, <1>8, <1>9 DEF Callback

LEMMA AirflowCalls ==
  ASSUME DeliveryInv,
         \/ \E t \in Threads : PostCallback(t) \/ NotifyFailure(t)
         \/ CallbackTimesOut
         \/ TaskThatPostsNothingFails
         \/ Crash
  PROVE  CallsAreHandled' /\ RunsGoOn
<1>0. /\ thread \in [Threads -> ThreadRecord]
      /\ run \in [Jobs -> [Runs -> RunRecord]]
      /\ CallsAreHandled
  BY DEF DeliveryInv, Typed, TypeOK
<1>1. ASSUME NEW t \in Threads, PostCallback(t)
      PROVE  CallsAreHandled' /\ RunsGoOn
  <2>1. PICK i \in Jobs, q \in Runs :
          /\ run[i][q].call = NoThread
          /\ run' = [run EXCEPT ![i][q].call = t]
          /\ thread' = [thread EXCEPT ![t] =
               [Idle EXCEPT !.pc = "arrived", !.job = i,
                            !.event = Posts(q)[run[i][q].at], !.run = q]]
    BY <1>1 DEF PostCallback
  <2>2. /\ thread'[t].pc \in CallPc /\ thread'[t].job = i /\ thread'[t].run = q
        /\ thread'[t].event = Posts(q)[run[i][q].at]
        /\ \A u \in Threads : u # t => thread'[u] = thread[u]
    BY <1>0, <2>1 DEF Idle, CallPc
  <2>3. \A j \in Jobs, r \in Runs :
          /\ run'[j][r].at = run[j][r].at
          /\ run'[j][r].status = run[j][r].status
          /\ run'[j][r].call = IF j = i /\ r = q THEN t ELSE run[j][r].call
    BY <1>0, <2>1 DEF RunRecord
  <2>4. \A j \in Jobs, r \in Runs : run[j][r].call # t
    <3>1. thread[t].pc \notin CallPc
      BY <1>1 DEF PostCallback, At, CallPc
    <3> QED
      BY <1>0, <3>1 DEF CallsAreHandled
  <2>5. CallsAreHandled'
    BY <1>0, <2>2, <2>3, <2>4 DEF CallsAreHandled
  <2> QED
    BY <2>3, <2>5 DEF RunsGoOn, Stays
<1>2. ASSUME NEW t \in Threads, NotifyFailure(t)
      PROVE  CallsAreHandled' /\ RunsGoOn
  <2>1. PICK i \in Jobs, q \in Runs :
          /\ run' = [run EXCEPT ![i][q].reported = TRUE]
          /\ thread' = [thread EXCEPT ![t] =
               [Idle EXCEPT !.pc = "arrived", !.job = i, !.event = "failure", !.run = q]]
    BY <1>2 DEF NotifyFailure
  <2>2. \A u \in Threads : u # t => thread'[u] = thread[u]
    BY <1>0, <2>1
  <2>3. \A j \in Jobs, r \in Runs :
          /\ run'[j][r].at = run[j][r].at
          /\ run'[j][r].status = run[j][r].status
          /\ run'[j][r].call = run[j][r].call
    BY <1>0, <2>1 DEF RunRecord
  <2>4. thread[t].pc \notin CallPc
    BY <1>2 DEF NotifyFailure, At, CallPc
  <2> QED
    BY <2>2, <2>3, <2>4, NobodyWaits
<1>3. ASSUME \A j \in Jobs, r \in Runs :
               \/ run'[j][r] = run[j][r]
               \/ /\ run'[j][r].at = run[j][r].at
                  /\ run'[j][r].status # "success"
                  /\ run'[j][r].call = NoThread,
             UNCHANGED thread
      PROVE  CallsAreHandled' /\ RunsGoOn
  BY <1>0, <1>3, NoThreadAssumption DEF CallsAreHandled, RunsGoOn, Stays
<1>4. CASE CallbackTimesOut
  <2>1. PICK i \in Jobs, q \in Runs :
          /\ run[i][q].call # NoThread
          /\ run' = [run EXCEPT ![i][q] = TaskFails(run[i][q])]
    BY <1>4 DEF CallbackTimesOut
  <2>2. run[i][q] \in RunRecord /\ RunShape(run[i][q], q) /\ run[i][q].status = "running"
    BY <2>1 DEF DeliveryInv, Typed, TypeOK, RunsOK, RunShape
  <2>3. /\ TaskFails(run[i][q]).at = run[i][q].at
        /\ TaskFails(run[i][q]).call = NoThread
        /\ TaskFails(run[i][q]).status # "success"
    BY <2>2, TaskFailsType
  <2>4. \A j \in Jobs, r \in Runs :
          run'[j][r] = IF j = i /\ r = q THEN TaskFails(run[i][q]) ELSE run[j][r]
    BY <1>0, <2>1
  <2> QED
    BY <1>3, <1>4, <2>3, <2>4 DEF CallbackTimesOut
<1>5. CASE TaskThatPostsNothingFails
  <2>1. PICK i \in Jobs, q \in Runs : run' = [run EXCEPT ![i][q] = Ended(run[i][q], "failed")]
    BY <1>5 DEF TaskThatPostsNothingFails
  <2>2. /\ Ended(run[i][q], "failed").at = run[i][q].at
        /\ Ended(run[i][q], "failed").call = NoThread
        /\ Ended(run[i][q], "failed").status # "success"
    BY <1>0, EndedType
  <2>3. \A j \in Jobs, r \in Runs :
          run'[j][r] = IF j = i /\ r = q THEN Ended(run[i][q], "failed") ELSE run[j][r]
    BY <1>0, <2>1
  <2> QED
    BY <1>3, <1>5, <2>2, <2>3 DEF TaskThatPostsNothingFails
<1>6. CASE Crash
  <2>1. \A j \in Jobs, r \in Runs :
          /\ run'[j][r].at = run[j][r].at
          /\ run'[j][r].call = NoThread
          /\ run'[j][r].status = "success" => run[j][r].status = "success"
    BY <1>6, CrashRun DEF DeliveryInv
  <2> QED
    BY <2>1, NoThreadAssumption DEF CallsAreHandled, RunsGoOn, Stays
<1> QED
  BY <1>1, <1>2, <1>4, <1>5, <1>6

\* Every step answers its calls.
LEMMA StepCalls ==
  ASSUME DeliveryInv, [Next]_vars
  PROVE  CallsAreHandled' /\ RunsGoOn
<1>1. CASE UNCHANGED vars
  BY <1>1 DEF vars, DeliveryInv, CallsAreHandled, RunsGoOn, Stays
<1> QED
  BY <1>1, RequestCalls, CallbackCalls, AirflowCalls DEF Next

-----------------------------------------------------------------------------
(* What has been delivered.                                                  *)

\* The rows of a post stay.
LEMMA AppliedStays ==
  ASSUME DeliveryInv, [Next]_vars, NEW j \in Jobs, NEW e \in Checkpoints \cup Drafts,
         applied[j][e] = 1
  PROVE  applied'[j][e] = 1
<1>1. CASE UNCHANGED applied
  BY <1>1
<1>2. ASSUME NEW t \in Threads, CommitCallback(t) PROVE applied'[j][e] = 1
  <2> DEFINE i == thread[t].job
             f == thread[t].event
  <2>1. i \in Jobs /\ f \in Events
    BY <1>2, LocalTypes DEF CommitCallback, At, DeliveryInv
  <2>2. f # "failure" => applied[i][f] = 0
    BY <1>2, <2>1 DEF CommitCallback, DeliveryInv, AppliedOnce, Events
  <2>3. \/ UNCHANGED applied
        \/ applied' = [applied EXCEPT ![i][f] = @ + 1] /\ f # "failure"
    BY <1>2 DEF CommitCallback
  <2>4. applied \in [Jobs -> [Events -> Nat]]
    BY DEF DeliveryInv, Typed, TypeOK
  <2> HIDE DEF i, f
  <2>5. CASE applied' = [applied EXCEPT ![i][f] = @ + 1] /\ f # "failure"
    <3>1. ~(i = j /\ f = e)
      BY <2>2, <2>5
    <3> QED
      BY <2>1, <2>4, <2>5, <3>1 DEF Events
  <2> QED
    BY <2>3, <2>5
<1> QED
  BY <1>1, <1>2
     DEF Next, vars, Trigger, LockAndFindActive, PrepareTrigger, TriggerInitial,
         MarkTriggered, MarkTriggerFailed, Review, BeginReview, TriggerReplay, CommitReview,
         FailReview, Callback, Receive, BeginCallback, RollBackCheckpoint, LoseRace,
         FailCallback, MarkFailure, PostCallback, NotifyFailure, CallbackTimesOut,
         TaskThatPostsNothingFails, Crash

LEMMA StepAcknowledged ==
  ASSUME DeliveryInv, [Next]_vars
  PROVE  AcknowledgedIsApplied'
<1> SUFFICES ASSUME NEW j \in Jobs, NEW r \in Runs, NEW i \in 1..(run'[j][r].at - 1)
             PROVE  applied'[j][Posts(r)[i]] = 1
  BY DEF AcknowledgedIsApplied
<1>0. run[j][r] \in RunRecord /\ run[j][r].at \in 1..4
  BY DEF DeliveryInv, Typed, TypeOK, RunRecord
<1>1. Stays(j, r) \/ GoesOn(j, r)
  BY StepCalls DEF RunsGoOn
<1>2. CASE i < run[j][r].at
  <2>1. i \in 1..(run[j][r].at - 1)
    BY <1>0, <1>2
  <2>2. applied[j][Posts(r)[i]] = 1
    BY <2>1 DEF DeliveryInv, AcknowledgedIsApplied
  <2>3. Posts(r)[i] \in Checkpoints \cup Drafts
    BY <2>1 DEF DeliveryInv, PlacesOK
  <2> QED
    BY <2>2, <2>3, AppliedStays
<1>3. CASE i = run[j][r].at /\ GoesOn(j, r)
  <2>1. Posts(r)[i] \in Checkpoints \cup Drafts /\ receipt'[j][Posts(r)[i]] = "PROCESSED"
    BY <1>3, PostsFacts DEF GoesOn
  <2>2. AppliedOnce'
    BY AppliedOnceStep DEF DeliveryInv
  <2>3. Posts(r)[i] \in Events \ {"failure"}
    BY <2>1 DEF Events, Checkpoints, Drafts
  <2> QED
    BY <2>1, <2>2, <2>3 DEF AppliedOnce
<1>4. CASE Stays(j, r)
  BY <1>0, <1>2, <1>4 DEF Stays
<1>5. CASE GoesOn(j, r)
  <2>1. i \in 1..run[j][r].at
    BY <1>0, <1>5 DEF GoesOn
  <2> QED
    BY <1>0, <1>2, <1>3, <1>5, <2>1
<1> QED
  BY <1>1, <1>4, <1>5

\* A run never is beyond its last post.
LEMMA StepPlaces ==
  ASSUME DeliveryInv, [Next]_vars
  PROVE  PlacesOK'
<1> SUFFICES ASSUME NEW j \in Jobs, NEW r \in Runs, NEW i \in 1..(run'[j][r].at - 1)
             PROVE  Posts(r)[i] \in Checkpoints \cup Drafts
  BY DEF PlacesOK
<1>0. run[j][r].at \in 1..4
  BY DEF DeliveryInv, Typed, TypeOK, RunRecord
<1>1. Stays(j, r) \/ GoesOn(j, r)
  BY StepCalls DEF RunsGoOn
<1>2. CASE i \in 1..(run[j][r].at - 1)
  BY <1>2 DEF DeliveryInv, PlacesOK
<1>3. CASE GoesOn(j, r)
  BY <1>0, <1>3, PostsFacts DEF GoesOn
<1> QED
  BY <1>1, <1>2, <1>3 DEF Stays

\* A job that has succeeded has succeeded for good.
LEMMA SuccessStays ==
  ASSUME DeliveryInv, [Next]_vars, NEW j \in Jobs, job[j].status = "SUCCEEDED"
  PROVE  job'[j].status = "SUCCEEDED"
<1>1. ASSUME NEW t \in Threads, JobMoves(t) PROVE job'[j].status = "SUCCEEDED"
  BY <1>1 DEF JobMoves, Save, IsFinalized, Final, DeliveryInv, Typed, TypeOK
<1> QED
  BY <1>1, JobInvStep DEF DeliveryInv

LEMMA StepLastPost ==
  ASSUME DeliveryInv, [Next]_vars
  PROVE  LastPostEndsJob'
<1> SUFFICES ASSUME NEW j \in Jobs, receipt'[j]["workflow"] = "PROCESSED"
             PROVE  job'[j].status = "SUCCEEDED"
  BY DEF LastPostEndsJob
<1>0. /\ receipt \in [Jobs -> [Events -> {"none", "RECEIVED", "PROCESSED", "FAILED"}]]
      /\ "workflow" \in Events
  BY DEF DeliveryInv, Typed, TypeOK, Events, Drafts
<1>1. CASE receipt[j]["workflow"] = "PROCESSED"
  BY <1>1, SuccessStays DEF DeliveryInv, LastPostEndsJob
<1>2. ASSUME NEW t \in Threads, Callback(t), receipt[j]["workflow"] # "PROCESSED"
      PROVE  job'[j].status = "SUCCEEDED"
  <2> DEFINE i == thread[t].job
             e == thread[t].event
  <2>1. i \in Jobs /\ e \in Events
    BY <1>2, LocalTypes DEF DeliveryInv, Callback, Receive, BeginCallback, CommitCallback,
           RollBackCheckpoint, LoseRace, FailCallback, MarkFailure, At
  <2>2. CASE CommitCallback(t)
    <3>1. i = j /\ e = "workflow"
      BY <1>0, <1>2, <2>1, <2>2 DEF CommitCallback
    <3>2. Save(j, "SUCCEEDED")
      <4>1. StatusAfter("workflow") = "SUCCEEDED"
        BY DEF StatusAfter, Checkpoints
      <4> QED
        BY <2>2, <3>1, <4>1 DEF CommitCallback
    <3> QED
      BY <3>2 DEF Save, Row, DeliveryInv, Typed, TypeOK
  <2>3. CASE ~CommitCallback(t)
    <3>1. /\ Receive(t) => \/ UNCHANGED receipt
                           \/ receipt' = [receipt EXCEPT ![i][e] = IF @ = "none" THEN "RECEIVED" ELSE @]
          /\ BeginCallback(t) => \/ UNCHANGED receipt
                                 \/ e = "failure" /\ receipt' = [receipt EXCEPT ![i][e] = "PROCESSED"]
          /\ MarkFailure(t) => receipt' = [receipt EXCEPT ![i][e] = IF @ = "PROCESSED" THEN @ ELSE "FAILED"]
          /\ RollBackCheckpoint(t) \/ LoseRace(t) \/ FailCallback(t) => UNCHANGED receipt
      BY DEF Receive, BeginCallback, MarkFailure, RollBackCheckpoint, LoseRace, FailCallback
    <3>2. receipt'[j]["workflow"] # "PROCESSED"
      <4> HIDE DEF i, e
      <4> QED
        BY <1>0, <1>2, <2>1, <2>3, <3>1 DEF Callback
    <3> QED
      BY <3>2
  <2> QED
    BY <2>2, <2>3
<1>3. (\A t \in Threads : ~Callback(t)) => UNCHANGED receipt
  BY DEF Next, vars, Trigger, LockAndFindActive, PrepareTrigger, TriggerInitial,
         MarkTriggered, MarkTriggerFailed, Review, BeginReview, TriggerReplay, CommitReview,
         FailReview, PostCallback, NotifyFailure, CallbackTimesOut,
         TaskThatPostsNothingFails, Crash
<1> QED
  BY <1>1, <1>2, <1>3

LEMMA StepPublished ==
  ASSUME DeliveryInv, [Next]_vars
  PROVE  PublishedMeansSucceeded'
<1> SUFFICES ASSUME NEW j \in Jobs, run'[j]["feedback"].status = "success"
             PROVE  job'[j].status = "SUCCEEDED"
  BY DEF PublishedMeansSucceeded
<1>0. "feedback" \in Runs
  BY DEF Runs
<1>1. CASE Stays(j, "feedback")
  BY <1>1, SuccessStays DEF Stays, DeliveryInv, PublishedMeansSucceeded
<1>2. CASE GoesOn(j, "feedback")
  <2>1. run'[j]["feedback"].at = 4
    <3>1. Typed'
      BY StepType DEF DeliveryInv
    <3> QED
      BY <1>0, <3>1, PostsFacts DEF Typed, RunsOK, RunShape
  <2>2. run[j]["feedback"].at = 3
    BY <1>0, <1>2, <2>1, PostsFacts DEF GoesOn
  <2>3. receipt'[j]["workflow"] = "PROCESSED"
    BY <1>0, <1>2, <2>2, PostsFacts DEF GoesOn
  <2> QED
    BY <2>3, StepLastPost DEF LastPostEndsJob
<1> QED
  BY <1>0, <1>1, <1>2, StepCalls DEF RunsGoOn

-----------------------------------------------------------------------------

LEMMA InitDelivery == Init => DeliveryInv
<1> SUFFICES ASSUME Init PROVE DeliveryInv
  OBVIOUS
<1>1. Typed /\ JobInv
  BY InitType, JobInvInit
<1>2. AppliedOnce /\ LastPostEndsJob
  BY DEF Init, AppliedOnce, LastPostEndsJob, Events, Drafts
<1>3. CallsAreHandled
  BY NoThreadAssumption DEF Init, CallsAreHandled
<1>4. \A j \in Jobs, r \in Runs : run[j][r].at = 1 /\ run[j][r].status = "absent"
  BY DEF Init
<1>5. AcknowledgedIsApplied /\ PlacesOK /\ PublishedMeansSucceeded
  BY <1>4 DEF AcknowledgedIsApplied, PlacesOK, PublishedMeansSucceeded, Runs
<1> QED
  BY <1>1, <1>2, <1>3, <1>5 DEF DeliveryInv

LEMMA DeliveryInvariant == Spec => []DeliveryInv
<1>1. ASSUME DeliveryInv, [Next]_vars PROVE DeliveryInv'
  <2>1. Typed' /\ JobInv' /\ AppliedOnce'
    BY <1>1, StepType, JobInvStep, AppliedOnceStep DEF DeliveryInv
  <2>2. CallsAreHandled' /\ PlacesOK' /\ LastPostEndsJob'
    BY <1>1, StepCalls, StepPlaces, StepLastPost
  <2>3. AcknowledgedIsApplied' /\ PublishedMeansSucceeded'
    BY <1>1, StepAcknowledged, StepPublished
  <2> QED
    BY <2>1, <2>2, <2>3 DEF DeliveryInv
<1> QED
  BY <1>1, InitDelivery, PTL DEF Spec

\* What Airflow believes to have delivered has been stored: through retries,
\* late first attempts, duplicates and restarts a post is acknowledged only
\* when its rows are there (the callback use cases and their receipts).
THEOREM AcknowledgedPostsAreApplied == Spec => []AcknowledgedIsApplied
<1>1. DeliveryInv => AcknowledgedIsApplied
  BY DEF DeliveryInv
<1> QED
  BY <1>1, DeliveryInvariant, PTL

\* A run that has published all its drafts has made its job succeed.
THEOREM PublishedRunsSucceed == Spec => []PublishedMeansSucceeded
<1>1. DeliveryInv => PublishedMeansSucceeded
  BY DEF DeliveryInv
<1> QED
  BY <1>1, DeliveryInvariant, PTL


-----------------------------------------------------------------------------
(***************************************************************************)
(* The jobs of a dataset implement PipelineLifecycle.                        *)
(*                                                                         *)
(* Each transaction writes what it has decided from a row it had read, in     *)
(* steps of PipelineLifecycle that are taken when it reads and writes at once.  *)
(* The invariant says what is stored at each status (StageOf), and of each     *)
(* thread that what it has read is still so as long as the row has the version  *)
(* it has seen (Behind).  A run exists only after what its posts go on from.   *)
(***************************************************************************)

Posted == Checkpoints \cup Drafts

\* The rows of the posts in S are stored, once each, and of no others.
HasStored(j, S) == \A d \in Posted : applied[j][d] = IF d \in S THEN 1 ELSE 0

\* What an active job has stored.
StageOf(j) ==
  LET status == job[j].status
  IN  /\ status \in {"none", "QUEUED"} => HasStored(j, {})
      /\ status = "RUNNING" =>
           \/ HasStored(j, {})
           \/ HasStored(j, {"domain"})
           \/ HasStored(j, Checkpoints) /\ session[j]["human"] = "CLOSED"
      /\ status = "WAITING_DOMAIN_CONFIRMATION" => HasStored(j, {"domain"})
      /\ status = "WAITING_HUMAN_FEEDBACK" => HasStored(j, Checkpoints)
      /\ status = "WAITING_INTENT_CALLBACK" => HasStored(j, Checkpoints \cup {"draft"})
      /\ status = "WAITING_WORKFLOW_CALLBACK" => HasStored(j, Checkpoints \cup {"draft", "intents"})

\* What a post of thread t goes on from is stored.
PostHasBasis(t) ==
  LET j == thread[t].job
      e == thread[t].event
  IN  thread[t].pc \in CallPc =>
        /\ e = "human" => applied[j]["domain"] # 0
        /\ e \in Drafts => applied[j]["human"] # 0

\* What a thread has read holds as long as its version is the row's.
ReadIsCurrent(t) ==
  LET j == thread[t].job
      e == thread[t].event
  IN  /\ thread[t].pc = "working" /\ Unchanged(t) => CanAccept(j, e)
      /\ thread[t].pc \in ReviewPc /\ Unchanged(t) =>
           job[j].status = WaitingFor(e) /\ session[j][e] = "OPEN"

\* A review is of a checkpoint that is stored.
ReviewHasBasis(t) == thread[t].pc \in ReviewPc => applied[thread[t].job][thread[t].event] # 0

Behind(t) == PostHasBasis(t) /\ ReadIsCurrent(t) /\ ReviewHasBasis(t)

\* A replay is of a checkpoint that is stored.
RunsBehind ==
  \A j \in Jobs, k \in Checkpoints : run[j][ReplayOf(k)].status # "absent" => applied[j][k] # 0

StagesInv == (\A j \in Jobs : StageOf(j)) /\ RunsBehind /\ \A t \in Threads : Behind(t)

LifecycleInv == Typed /\ JobInv /\ AppliedOnce /\ StagesInv

\* The changes of a job, as PipelineLifecycle has them.
Starts(j) ==
  /\ \/ job[j].status = "none" /\ Save(j, "QUEUED") /\ \A i \in Jobs : job[i].status \notin Active
     \/ job[j].status = "QUEUED" /\ Save(j, "RUNNING")
  /\ UNCHANGED <<applied, session>>

Fails(j) ==
  /\ job[j].status \in Active
  /\ Save(j, "FAILED")
  /\ UNCHANGED <<applied, session>>

TakesPost(j, e) ==
  /\ job[j].status \in Lifecycle!TakenIn(e)
  /\ HasStored(j, Lifecycle!Before(e))
  /\ e = "draft" => session[j]["human"] = "CLOSED"
  /\ Save(j, StatusAfter(e))
  /\ applied' = [applied EXCEPT ![j][e] = @ + 1]
  /\ session' = IF e \in Checkpoints THEN [session EXCEPT ![j][e] = "OPEN"] ELSE session

TakesDecision(j, k) ==
  /\ job[j].status = WaitingFor(k)
  /\ session[j][k] = "OPEN"
  /\ Save(j, "RUNNING")
  /\ session' = [session EXCEPT ![j][k] = "CLOSED"]
  /\ UNCHANGED applied

Goes(j) ==
  \/ Starts(j) \/ Fails(j)
  \/ \E e \in Posted : TakesPost(j, e)
  \/ \E k \in Checkpoints : TakesDecision(j, k)

Rests == UNCHANGED <<job, applied, session>>

JobsGo == Rests \/ \E j \in Jobs : Goes(j)

-----------------------------------------------------------------------------
(* What the changes of a job leave.                                          *)

\* The types of what a job has, and of what is stored about it.
LEMMA StageTypes ==
  ASSUME Typed
  PROVE  /\ job \in [Jobs -> JobRecord]
         /\ applied \in [Jobs -> [Events -> Nat]]
         /\ session \in [Jobs -> [Checkpoints -> {"none", "OPEN", "CLOSED"}]]
         /\ Posted \subseteq Events /\ Checkpoints \subseteq Posted /\ Drafts \subseteq Posted
         /\ "domain" \in Checkpoints /\ "human" \in Checkpoints /\ "draft" \in Drafts
BY DEF Typed, TypeOK, Posted, Events, Checkpoints, Drafts

\* Whatever a job does, it is the only one, its version goes up, and rows stay.
LEMMA GoesFacts ==
  ASSUME Typed, NEW j \in Jobs, Goes(j)
  PROVE  /\ \E status \in Active \cup Final : Save(j, status)
         /\ \A i \in Jobs : i # j => /\ job'[i] = job[i] /\ applied'[i] = applied[i]
                                     /\ session'[i] = session[i]
         /\ job'[j].version = job[j].version + 1
         /\ \A i \in Jobs, d \in Posted : applied[i][d] # 0 => applied'[i][d] # 0
<1>0. /\ job \in [Jobs -> JobRecord] /\ applied \in [Jobs -> [Events -> Nat]]
      /\ session \in [Jobs -> [Checkpoints -> {"none", "OPEN", "CLOSED"}]]
      /\ Posted \subseteq Events /\ Checkpoints \subseteq Posted
  BY StageTypes
<1>1. PICK status \in Active \cup Final : Save(j, status)
  <2>1. CASE Starts(j) \/ Fails(j) \/ \E k \in Checkpoints : TakesDecision(j, k)
    BY <2>1 DEF Starts, Fails, TakesDecision, Active, Final
  <2>2. ASSUME NEW e \in Posted, TakesPost(j, e) PROVE \E s \in Active \cup Final : Save(j, s)
    <3>1. StatusAfter(e) \in Active \cup Final
      BY DEF StatusAfter, WaitingFor, Posted, Checkpoints, Drafts, Active, Final
    <3> QED
      BY <2>2, <3>1 DEF TakesPost
  <2> QED
    BY <2>1, <2>2 DEF Goes
<1>2. /\ \A i \in Jobs : i # j => job'[i] = job[i]
      /\ job'[j].version = job[j].version + 1
  BY <1>0, <1>1 DEF Save, Row
<1>3. CASE UNCHANGED <<applied, session>>
  BY <1>1, <1>2, <1>3
<1>4. ASSUME NEW e \in Posted, TakesPost(j, e)
      PROVE  /\ \A i \in Jobs : i # j => applied'[i] = applied[i] /\ session'[i] = session[i]
             /\ \A i \in Jobs, d \in Posted : applied[i][d] # 0 => applied'[i][d] # 0
  <2>1. applied' = [applied EXCEPT ![j][e] = @ + 1]
    BY <1>4 DEF TakesPost
  <2>2. \A i \in Jobs : i # j => applied'[i] = applied[i] /\ session'[i] = session[i]
    BY <1>0, <1>4 DEF TakesPost
  <2>3. \A i \in Jobs, d \in Events :
          applied'[i][d] = IF i = j /\ d = e THEN applied[i][d] + 1 ELSE applied[i][d]
    BY <1>0, <2>1
  <2>4. \A i \in Jobs, d \in Events : applied[i][d] \in Nat
    BY <1>0
  <2> QED
    BY <1>0, <2>2, <2>3, <2>4
<1>5. ASSUME NEW k \in Checkpoints, TakesDecision(j, k)
      PROVE  UNCHANGED applied /\ \A i \in Jobs : i # j => session'[i] = session[i]
  BY <1>0, <1>5 DEF TakesDecision
<1> QED
  BY <1>1, <1>2, <1>3, <1>4, <1>5 DEF Goes, Starts, Fails

\* One more post is stored.
LEMMA OneMoreStored ==
  ASSUME Typed, NEW j \in Jobs, NEW e \in Posted, NEW S, HasStored(j, S), e \notin S,
         applied' = [applied EXCEPT ![j][e] = @ + 1]
  PROVE  HasStored(j, S \cup {e})'
<1>1. \A d \in Posted : applied'[j][d] = IF d = e THEN applied[j][d] + 1 ELSE applied[j][d]
  BY StageTypes
<1> QED
  BY <1>1 DEF HasStored

\* A job that changes has what its new status says.
LEMMA StagesGo ==
  ASSUME Typed, \A i \in Jobs : StageOf(i), NEW j \in Jobs, Goes(j)
  PROVE  \A i \in Jobs : StageOf(i)'
<1>0. /\ job \in [Jobs -> JobRecord] /\ applied \in [Jobs -> [Events -> Nat]]
      /\ session \in [Jobs -> [Checkpoints -> {"none", "OPEN", "CLOSED"}]]
  BY StageTypes
<1>1. ASSUME NEW i \in Jobs, i # j PROVE StageOf(i)'
  <2>1. job'[i] = job[i] /\ applied'[i] = applied[i] /\ session'[i] = session[i]
    BY <1>1, GoesFacts
  <2> QED
    BY <2>1 DEF StageOf, HasStored
<1>s. ASSUME NEW status, Save(j, status) PROVE job'[j].status = status
  BY <1>0, <1>s DEF Save, Row
<1>2. CASE Starts(j)
  <2>1. applied'[j] = applied[j] /\ HasStored(j, {}) /\ job'[j].status \in {"QUEUED", "RUNNING"}
    BY <1>2, <1>s DEF Starts, StageOf
  <2>2. HasStored(j, {})'
    BY <2>1 DEF HasStored
  <2> QED
    BY <1>1, <2>1, <2>2 DEF StageOf
<1>3. CASE Fails(j)
  BY <1>1, <1>3, <1>s DEF Fails, StageOf
<1>4. ASSUME NEW k \in Checkpoints, TakesDecision(j, k) PROVE StageOf(j)'
  <2>1. /\ job'[j].status = "RUNNING" /\ session'[j][k] = "CLOSED" /\ applied'[j] = applied[j]
        /\ job[j].status = WaitingFor(k)
    BY <1>0, <1>4, <1>s DEF TakesDecision
  <2>2. CASE k = "domain"
    BY <2>1, <2>2 DEF StageOf, WaitingFor, HasStored
  <2>3. CASE k = "human"
    BY <2>1, <2>3 DEF StageOf, WaitingFor, HasStored
  <2> QED
    BY <2>2, <2>3 DEF Checkpoints
<1>5. ASSUME NEW e \in Posted, TakesPost(j, e) PROVE StageOf(j)'
  <2>1. job'[j].status = StatusAfter(e) /\ HasStored(j, Lifecycle!Before(e))
    BY <1>5, <1>s DEF TakesPost
  <2>2. e \notin Lifecycle!Before(e)
    BY DEF Lifecycle!Before, Lifecycle!Checkpoints, Posted, Checkpoints, Drafts
  <2>3. HasStored(j, Lifecycle!Before(e) \cup {e})'
    BY <1>5, <2>1, <2>2, OneMoreStored DEF TakesPost
  <2>4. CASE e = "domain"
    <3>1. Lifecycle!Before(e) \cup {e} = {"domain"}
      BY <2>4 DEF Lifecycle!Before
    <3> QED
      BY <2>1, <2>3, <2>4, <3>1 DEF StageOf, StatusAfter, WaitingFor, Checkpoints
  <2>5. CASE e = "human"
    <3>1. Lifecycle!Before(e) \cup {e} = Checkpoints
      BY <2>5 DEF Lifecycle!Before, Checkpoints
    <3> QED
      BY <2>1, <2>3, <2>5, <3>1 DEF StageOf, StatusAfter, WaitingFor, Checkpoints
  <2>6. CASE e = "draft"
    <3>1. Lifecycle!Before(e) \cup {e} = Checkpoints \cup {"draft"}
      BY <2>6 DEF Lifecycle!Before, Lifecycle!Checkpoints, Checkpoints
    <3> QED
      BY <2>1, <2>3, <2>6, <3>1 DEF StageOf, StatusAfter, WaitingFor, Checkpoints
  <2>7. CASE e = "intents"
    <3>1. Lifecycle!Before(e) \cup {e} = Checkpoints \cup {"draft", "intents"}
      BY <2>7 DEF Lifecycle!Before, Lifecycle!Checkpoints, Checkpoints
    <3> QED
      BY <2>1, <2>3, <2>7, <3>1 DEF StageOf, StatusAfter, WaitingFor, Checkpoints
  <2>8. CASE e = "workflow"
    BY <2>1, <2>8 DEF StageOf, StatusAfter, WaitingFor, Checkpoints
  <2> QED
    BY <2>4, <2>5, <2>6, <2>7, <2>8 DEF Posted, Checkpoints, Drafts
<1> QED
  BY <1>1, <1>2, <1>3, <1>4, <1>5 DEF Goes

\* What a post finds when it is taken: the stage that it belongs to.
LEMMA PostFits ==
  ASSUME Typed, NEW j \in Jobs, StageOf(j), job[j].status \in Active, NEW e \in Posted,
         CanAccept(j, e),
         applied[j][e] = 0,
         e = "human" => applied[j]["domain"] # 0,
         e \in Drafts => applied[j]["human"] # 0,
         e = "workflow" => applied[j]["draft"] # 0
  PROVE  /\ job[j].status \in Lifecycle!TakenIn(e)
         /\ HasStored(j, Lifecycle!Before(e))
         /\ e = "draft" => session[j]["human"] = "CLOSED"
<1> DEFINE status == job[j].status
<1>0. /\ "domain" \in Posted /\ "human" \in Posted /\ "draft" \in Posted
      /\ "intents" \in Posted /\ "workflow" \in Posted
  BY DEF Posted, Checkpoints, Drafts
<1>1. ASSUME NEW S, HasStored(j, S), NEW d \in Posted
      PROVE  applied[j][d] # 0 <=> d \in S
  BY <1>1 DEF HasStored
<1>2. status \in {"QUEUED", "RUNNING", "WAITING_DOMAIN_CONFIRMATION", "WAITING_HUMAN_FEEDBACK",
                  "WAITING_INTENT_CALLBACK", "WAITING_WORKFLOW_CALLBACK"}
  BY DEF Active
<1>3. CASE e = "domain"
  <2>1. status \in {"QUEUED", "RUNNING"} /\ HasStored(j, {})
    BY <1>0, <1>1, <1>2, <1>3 DEF StageOf, Checkpoints
  <2> QED
    BY <1>3, <2>1 DEF Lifecycle!TakenIn, Lifecycle!Before
<1>4. CASE e = "human"
  <2>1. status \in {"WAITING_DOMAIN_CONFIRMATION", "RUNNING"} /\ HasStored(j, {"domain"})
    BY <1>0, <1>1, <1>2, <1>4 DEF StageOf, Checkpoints
  <2> QED
    BY <1>4, <2>1 DEF Lifecycle!TakenIn, Lifecycle!Before
<1>5. CASE e = "draft"
  <2>1. status \in {"QUEUED", "RUNNING"}
    BY <1>5 DEF CanAccept, Checkpoints
  <2>2. applied[j]["human"] # 0
    BY <1>5 DEF Drafts
  <2>3. status = "RUNNING" /\ HasStored(j, Checkpoints) /\ session[j]["human"] = "CLOSED"
    BY <1>0, <1>1, <2>1, <2>2 DEF StageOf
  <2> QED
    BY <1>5, <2>3 DEF Lifecycle!TakenIn, Lifecycle!Before, Lifecycle!Checkpoints, Checkpoints
<1>6. CASE e = "intents"
  <2>1. status = "WAITING_INTENT_CALLBACK"
    BY <1>6 DEF CanAccept, Checkpoints
  <2>2. HasStored(j, Checkpoints \cup {"draft"})
    BY <2>1 DEF StageOf
  <2> QED
    BY <1>6, <2>1, <2>2 DEF Lifecycle!TakenIn, Lifecycle!Before, Lifecycle!Checkpoints, Checkpoints
<1>7. CASE e = "workflow"
  <2>1. status \in {"WAITING_WORKFLOW_CALLBACK", "RUNNING"}
    BY <1>7 DEF CanAccept, Checkpoints
  <2>2. applied[j]["draft"] # 0
    BY <1>7
  <2>3. status = "WAITING_WORKFLOW_CALLBACK" /\ HasStored(j, Checkpoints \cup {"draft", "intents"})
    BY <1>0, <1>1, <2>1, <2>2 DEF StageOf, Checkpoints
  <2> QED
    BY <1>7, <2>3 DEF Lifecycle!TakenIn, Lifecycle!Before, Lifecycle!Checkpoints, Checkpoints
<1> QED
  BY <1>3, <1>4, <1>5, <1>6, <1>7 DEF Posted, Checkpoints, Drafts

\* What other threads have read is as it was, or has another version.
LEMMA OthersBehind ==
  ASSUME Typed, JobInv, StagesInv, JobsGo, NEW u \in Threads, thread'[u] = thread[u]
  PROVE  Behind(u)'
<1> DEFINE i == thread[u].job
           e == thread[u].event
<1>0. /\ Behind(u) /\ Holds(u)
      /\ thread[u].pc \notin {"idle", "locked"} => i \in Jobs
      /\ thread[u].pc \in ReviewPc => e \in Checkpoints
      /\ thread[u].seen \in Nat
  BY LocalTypes DEF StagesInv, JobInv, ReviewPc
<1>1. CASE Rests
  BY <1>0, <1>1 DEF Rests, Behind, PostHasBasis, ReadIsCurrent, ReviewHasBasis, Unchanged, CanAccept,
     IsFinalized
<1>2. ASSUME NEW j \in Jobs, Goes(j) PROVE Behind(u)'
  <2>1. /\ \A x \in Jobs : x # j => /\ job'[x] = job[x] /\ applied'[x] = applied[x]
                                    /\ session'[x] = session[x]
        /\ job'[j].version = job[j].version + 1
        /\ \A x \in Jobs, d \in Posted : applied[x][d] # 0 => applied'[x][d] # 0
    BY <1>2, GoesFacts
  <2>2. "domain" \in Posted /\ "human" \in Posted /\ Checkpoints \subseteq Posted
    BY DEF Posted, Checkpoints
  <2>3. PostHasBasis(u)' /\ ReviewHasBasis(u)'
    BY <1>0, <2>1, <2>2 DEF Behind, PostHasBasis, ReviewHasBasis, CallPc, ReviewPc
  <2>4. ASSUME thread[u].pc \in ReadPc, i = j PROVE ~Unchanged(u)'
    <3>1. job[j].version \in Nat /\ thread[u].seen <= job[j].version
      BY <1>0, <2>4, StageTypes DEF Holds, JobRecord
    <3> QED
      BY <1>0, <2>1, <2>4, <3>1 DEF Unchanged
  <2>5. ASSUME i = j PROVE ReadIsCurrent(u)'
    BY <2>4, <2>5 DEF ReadIsCurrent, ReadPc
  <2>6. ASSUME i # j PROVE ReadIsCurrent(u)'
    <3>1. thread[u].pc \notin {"idle", "locked"} =>
            job'[i] = job[i] /\ applied'[i] = applied[i] /\ session'[i] = session[i]
      BY <1>0, <2>1, <2>6
    <3> QED
      BY <1>0, <3>1 DEF Behind, ReadIsCurrent, Unchanged, CanAccept, IsFinalized, ReviewPc
  <2>7. ReadIsCurrent(u)'
    BY <2>5, <2>6
  <2> QED
    BY <2>3, <2>7 DEF Behind
<1> QED
  BY <1>1, <1>2 DEF JobsGo

-----------------------------------------------------------------------------
(* The steps.                                                                *)

\* A replay that is there was there, or is of a checkpoint that is stored.
NoReplayAhead ==
  \A j \in Jobs, k \in Checkpoints :
    run'[j][ReplayOf(k)].status # "absent" => run[j][ReplayOf(k)].status # "absent" \/ applied[j][k] # 0

\* A step of a thread keeps the invariant if the thread's own reading is as it should.
LEMMA ThreadKeepsStages ==
  ASSUME Typed, JobInv, StagesInv, JobsGo, NoReplayAhead,
         \A t \in Threads : thread'[t] = thread[t] \/ Behind(t)'
  PROVE  StagesInv'
<1>1. \A t \in Threads : Behind(t)'
  BY OthersBehind
<1>2. CASE Rests
  <2>1. \A j \in Jobs : StageOf(j)'
    BY <1>2 DEF StagesInv, StageOf, HasStored, Rests
  <2>2. RunsBehind'
    BY <1>2 DEF StagesInv, RunsBehind, NoReplayAhead, Rests
  <2> QED
    BY <1>1, <2>1, <2>2 DEF StagesInv
<1>3. ASSUME NEW i \in Jobs, Goes(i) PROVE StagesInv'
  <2>1. \A j \in Jobs : StageOf(j)'
    BY <1>3, StagesGo DEF StagesInv
  <2>2. \A j \in Jobs, k \in Checkpoints : applied[j][k] # 0 => applied'[j][k] # 0
    BY <1>3, GoesFacts DEF Posted
  <2>3. RunsBehind'
    BY <2>2 DEF StagesInv, RunsBehind, NoReplayAhead
  <2> QED
    BY <1>1, <2>1, <2>3 DEF StagesInv
<1> QED
  BY <1>2, <1>3 DEF JobsGo

\* A thread without a request in hand has read nothing.
LEMMA FreeIsBehind ==
  ASSUME NEW t \in Threads, thread'[t].pc \notin CallPc, thread'[t].pc \notin ReviewPc
  PROVE  Behind(t)'
BY DEF Behind, PostHasBasis, ReadIsCurrent, ReviewHasBasis, CallPc

\* A thread that returns, and the others then.
LEMMA ReturnIsBehind ==
  ASSUME Typed, NEW t \in Threads, Return(t)
  PROVE  \A u \in Threads : thread'[u] = thread[u] \/ Behind(u)'
<1>1. \A u \in Threads : thread'[u] = IF u = t THEN Idle ELSE thread[u]
  BY DEF Return, Typed, TypeOK
<1>2. thread'[t].pc = "idle"
  BY <1>1 DEF Idle
<1>3. Behind(t)'
  BY <1>2, FreeIsBehind DEF CallPc, ReviewPc
<1> QED
  BY <1>1, <1>3

\* A reply creates no run.
LEMMA ReplyMakesNoRun ==
  ASSUME Typed, NEW t \in Threads, NEW reply, thread[t].job \in Jobs, ReplyTo(t, reply)
  PROVE  NoReplayAhead
<1> SUFFICES ASSUME NEW j \in Jobs, NEW k \in Checkpoints,
                    run'[j][ReplayOf(k)].status # "absent"
             PROVE  run[j][ReplayOf(k)].status # "absent"
  BY DEF NoReplayAhead
<1>1. ReplayOf(k) \in Runs
  BY DEF ReplayOf, Runs
<1>2. \/ run'[j][ReplayOf(k)] = run[j][ReplayOf(k)]
      \/ run[j][ReplayOf(k)].status = "running"
  BY <1>1, ReplyRuns
<1> QED
  BY <1>2

\* The trigger creates a job, begins it or fails it.
LEMMA TriggerGoes ==
  ASSUME LifecycleInv, NEW t \in Threads, Trigger(t)
  PROVE  JobsGo /\ StagesInv'
<1> DEFINE j == thread[t].job
<1>0. /\ Typed /\ JobInv /\ StagesInv
      /\ thread \in [Threads -> ThreadRecord] /\ thread[t] \in ThreadRecord
      /\ job \in [Jobs -> JobRecord]
      /\ thread[t].pc \notin {"idle", "locked"} => j \in Jobs /\ job[j].status # "none"
  BY LocalTypes DEF LifecycleInv, Typed, TypeOK, JobInv, Holds
<1>1. UNCHANGED run => NoReplayAhead
  BY DEF NoReplayAhead
<1>2. ASSUME NEW pc \in {"locked", "called", "uncalled"}, Goto(t, pc)
      PROVE  \A u \in Threads : thread'[u] = thread[u] \/ Behind(u)'
  <2>1. thread'[t].pc = pc /\ \A u \in Threads : u # t => thread'[u] = thread[u]
    BY <1>0, <1>2 DEF Goto, ThreadRecord
  <2>2. Behind(t)'
    BY <2>1, FreeIsBehind DEF CallPc, ReviewPc
  <2> QED
    BY <2>1, <2>2
<1>3. CASE LockAndFindActive(t)
  <2>1. Rests /\ UNCHANGED run /\ Goto(t, "locked")
    BY <1>3 DEF LockAndFindActive, Rests
  <2> QED
    BY <1>0, <1>1, <1>2, <2>1, ThreadKeepsStages DEF JobsGo
<1>4. CASE PrepareTrigger(t)
  <2>1. PICK i \in Jobs :
          /\ job[i].status = "none"
          /\ Save(i, "QUEUED")
          /\ thread' = [thread EXCEPT ![t].pc = "calling", ![t].job = i]
    BY <1>4 DEF PrepareTrigger
  <2>2. \A x \in Jobs : job[x].status \notin Active
    BY <1>0, <1>4 DEF PrepareTrigger, At, JobInv, Holds
  <2>3. Goes(i) /\ UNCHANGED run
    BY <1>4, <2>1, <2>2 DEF PrepareTrigger, Goes, Starts
  <2>4. thread'[t].pc = "calling" /\ \A u \in Threads : u # t => thread'[u] = thread[u]
    BY <1>0, <2>1 DEF ThreadRecord
  <2>5. Behind(t)'
    BY <2>4, FreeIsBehind DEF CallPc, ReviewPc
  <2> QED
    BY <1>0, <1>1, <2>3, <2>4, <2>5, ThreadKeepsStages DEF JobsGo
<1>5. CASE TriggerInitial(t)
  <2>1. PICK ok \in BOOLEAN :
          /\ TriggerPort(j, "initial", ok)
          /\ Goto(t, IF ok THEN "called" ELSE "uncalled")
    BY <1>5 DEF TriggerInitial
  <2>2. Rests /\ j \in Jobs
    BY <1>0, <1>5 DEF TriggerInitial, Rests, At
  <2>3. NoReplayAhead
    <3> SUFFICES ASSUME NEW i \in Jobs, NEW k \in Checkpoints
                 PROVE  run'[i][ReplayOf(k)] = run[i][ReplayOf(k)]
      BY DEF NoReplayAhead
    <3>1. ReplayOf(k) \in Runs /\ ReplayOf(k) # "initial" /\ "initial" \in Runs
      BY DEF ReplayOf, Runs
    <3> QED
      BY <1>0, <2>1, <2>2, <3>1, TriggerPortRuns
  <2>4. \A u \in Threads : thread'[u] = thread[u] \/ Behind(u)'
    BY <1>2, <2>1
  <2> QED
    BY <1>0, <2>2, <2>3, <2>4, ThreadKeepsStages DEF JobsGo
<1>6. CASE MarkTriggered(t)
  <2>1. j \in Jobs
    BY <1>0, <1>6 DEF MarkTriggered, At
  <2>2. JobsGo /\ UNCHANGED run /\ Return(t)
    BY <1>6, <2>1 DEF MarkTriggered, JobsGo, Goes, Starts, Rests
  <2> QED
    BY <1>0, <1>1, <2>2, ReturnIsBehind, ThreadKeepsStages
<1>7. CASE MarkTriggerFailed(t)
  <2>1. j \in Jobs /\ job[j].status # "none"
    BY <1>0, <1>7 DEF MarkTriggerFailed, At
  <2>2. ~IsFinalized(j) => job[j].status \in Active
    BY <1>0, <2>1 DEF IsFinalized, JobRecord
  <2>3. JobsGo /\ UNCHANGED run /\ Return(t)
    BY <1>7, <2>1, <2>2 DEF MarkTriggerFailed, JobsGo, Goes, Fails, Rests
  <2> QED
    BY <1>0, <1>1, <2>3, ReturnIsBehind, ThreadKeepsStages
<1> QED
  BY <1>3, <1>4, <1>5, <1>6, <1>7 DEF Trigger

\* A review takes the decision it has read for, or fails the job.
LEMMA ReviewGoes ==
  ASSUME LifecycleInv, NEW t \in Threads, Review(t)
  PROVE  JobsGo /\ StagesInv'
<1> DEFINE j == thread[t].job
           e == thread[t].event
<1>0. /\ Typed /\ JobInv /\ StagesInv /\ Behind(t)
      /\ thread \in [Threads -> ThreadRecord] /\ thread[t] \in ThreadRecord
      /\ job \in [Jobs -> JobRecord]
      /\ thread[t].pc \in ReviewPc => j \in Jobs /\ e \in Checkpoints
  BY LocalTypes DEF LifecycleInv, StagesInv, Typed, TypeOK, ReviewPc
<1>1. UNCHANGED run => NoReplayAhead
  BY DEF NoReplayAhead
<1>3. CASE BeginReview(t)
  <2>1. PICK i \in Jobs, k \in Checkpoints :
          /\ job[i].status = WaitingFor(k)
          /\ session[i][k] = "OPEN"
          /\ thread' = [thread EXCEPT ![t] =
               [Idle EXCEPT !.pc = "reviewing", !.job = i, !.event = k, !.seen = job[i].version]]
    BY <1>3 DEF BeginReview
  <2>2. /\ thread'[t].pc = "reviewing" /\ thread'[t].job = i /\ thread'[t].event = k
        /\ \A u \in Threads : u # t => thread'[u] = thread[u]
    BY <1>0, <2>1 DEF Idle
  <2>3. Rests /\ UNCHANGED run
    BY <1>3 DEF BeginReview, Rests
  <2>4. applied[i][k] # 0
    BY <1>0, <2>1 DEF StagesInv, StageOf, HasStored, WaitingFor, Checkpoints, Posted
  <2>5. Behind(t)'
    BY <2>1, <2>2, <2>3, <2>4
    DEF Behind, PostHasBasis, ReadIsCurrent, ReviewHasBasis, Rests, CallPc
  <2> QED
    BY <1>0, <1>1, <2>2, <2>3, <2>5, ThreadKeepsStages DEF JobsGo
<1>4. CASE TriggerReplay(t)
  <2>1. PICK ok \in BOOLEAN :
          /\ TriggerPort(j, ReplayOf(e), ok)
          /\ Goto(t, IF ok THEN "replayed" ELSE "unreplayed")
    BY <1>4 DEF TriggerReplay
  <2>2. thread[t].pc \in ReviewPc /\ Rests /\ j \in Jobs /\ e \in Checkpoints
    BY <1>0, <1>4 DEF TriggerReplay, Rests, At, ReviewPc
  <2>3. applied[j][e] # 0
    BY <1>0, <2>2 DEF Behind, ReviewHasBasis
  <2>4. NoReplayAhead
    <3> SUFFICES ASSUME NEW i \in Jobs, NEW k \in Checkpoints
                 PROVE  run'[i][ReplayOf(k)] = run[i][ReplayOf(k)] \/ applied[i][k] # 0
      BY DEF NoReplayAhead
    <3>1. ReplayOf(k) \in Runs /\ ReplayOf(e) \in Runs /\ (ReplayOf(k) = ReplayOf(e) => k = e)
      BY <2>2 DEF ReplayOf, Runs, Checkpoints
    <3> QED
      BY <1>0, <2>1, <2>2, <2>3, <3>1, TriggerPortRuns
  <2>5. /\ thread'[t].pc \in {"replayed", "unreplayed"} /\ thread'[t].job = j
        /\ thread'[t].event = e /\ thread'[t].seen = thread[t].seen
        /\ \A u \in Threads : u # t => thread'[u] = thread[u]
    BY <1>0, <2>1 DEF Goto, ThreadRecord
  <2>6. Behind(t)'
    BY <1>0, <2>2, <2>3, <2>5
    DEF Behind, PostHasBasis, ReadIsCurrent, ReviewHasBasis, Rests, CallPc, Unchanged
  <2> QED
    BY <1>0, <2>2, <2>4, <2>5, <2>6, ThreadKeepsStages DEF JobsGo
<1>5. CASE CommitReview(t)
  <2>1. thread[t].pc \in ReviewPc /\ j \in Jobs /\ e \in Checkpoints
    BY <1>0, <1>5 DEF CommitReview, At, ReviewPc
  <2>2. CASE Unchanged(t)
    <3>1. job[j].status = WaitingFor(e) /\ session[j][e] = "OPEN"
      BY <1>0, <2>1, <2>2 DEF Behind, ReadIsCurrent
    <3>2. TakesDecision(j, e)
      BY <1>5, <2>2, <3>1 DEF CommitReview, TakesDecision
    <3>3. JobsGo
      BY <2>1, <3>2 DEF JobsGo, Goes
    <3> QED
      BY <1>0, <1>1, <1>5, <3>3, ReturnIsBehind, ThreadKeepsStages DEF CommitReview
  <2>3. CASE ~Unchanged(t)
    <3>1. JobsGo
      BY <1>5, <2>3 DEF CommitReview, JobsGo, Rests
    <3> QED
      BY <1>0, <1>1, <1>5, <3>1, ReturnIsBehind, ThreadKeepsStages DEF CommitReview
  <2> QED
    BY <2>2, <2>3
<1>6. CASE FailReview(t)
  <2>1. thread[t].pc \in ReviewPc /\ j \in Jobs
    BY <1>0, <1>6 DEF FailReview, At, ReviewPc
  <2>2. Unchanged(t) => job[j].status \in Active
    BY <1>0, <2>1 DEF Behind, ReadIsCurrent, WaitingFor, Active
  <2>3. JobsGo
    BY <1>6, <2>1, <2>2 DEF FailReview, JobsGo, Goes, Fails, Rests
  <2> QED
    BY <1>0, <1>1, <1>6, <2>3, ReturnIsBehind, ThreadKeepsStages DEF FailReview
<1> QED
  BY <1>3, <1>4, <1>5, <1>6 DEF Review

\* A callback takes its post when the job is where the post belongs, or fails the job.
LEMMA CommitGoes ==
  ASSUME LifecycleInv, NEW t \in Threads, CommitCallback(t)
  PROVE  JobsGo
<1> DEFINE j == thread[t].job
           e == thread[t].event
<1>0. /\ Typed /\ JobInv /\ StagesInv /\ Behind(t) /\ AppliedOnce
      /\ At(t, "working") /\ Unchanged(t)
      /\ j \in Jobs /\ e \in Events
  BY LocalTypes DEF LifecycleInv, StagesInv, CommitCallback, At
<1>1. job[j].status \in Active
  BY <1>0, UnchangedIsActive DEF At, ReadPc
<1>2. CASE e = "failure"
  <2>1. StatusAfter(e) = "FAILED" /\ e \notin Checkpoints
    BY <1>2 DEF StatusAfter, Checkpoints
  <2>2. Fails(j)
    BY <1>1, <1>2, <2>1 DEF CommitCallback, Fails
  <2> QED
    BY <1>0, <2>2 DEF JobsGo, Goes
<1>3. CASE e # "failure"
  <2>1. e \in Posted
    BY <1>0, <1>3 DEF Events, Posted
  <2>2. applied[j][e] = 0
    <3>1. CASE e \in Drafts
      BY <3>1 DEF CommitCallback
    <3>2. CASE e \in Checkpoints
      BY <1>0, <1>3, <3>2 DEF CommitCallback, AppliedOnce
    <3> QED
      BY <2>1, <3>1, <3>2 DEF Posted
  <2>3. CanAccept(j, e) /\ StageOf(j)
    BY <1>0 DEF Behind, ReadIsCurrent, At, StagesInv
  <2>4. /\ e = "human" => applied[j]["domain"] # 0
        /\ e \in Drafts => applied[j]["human"] # 0
    BY <1>0 DEF Behind, PostHasBasis, At, CallPc
  <2>5. e = "workflow" => applied[j]["draft"] # 0
    BY DEF CommitCallback
  <2>6. TakesPost(j, e)
    BY <1>0, <1>1, <1>3, <2>1, <2>2, <2>3, <2>4, <2>5, PostFits DEF CommitCallback, TakesPost
  <2> QED
    BY <1>0, <2>1, <2>6 DEF JobsGo, Goes
<1> QED
  BY <1>2, <1>3

\* So do the other steps of a callback.
LEMMA CallbackGoes ==
  ASSUME LifecycleInv, NEW t \in Threads, Callback(t)
  PROVE  JobsGo /\ StagesInv'
<1> DEFINE j == thread[t].job
           e == thread[t].event
<1>0. /\ Typed /\ JobInv /\ StagesInv /\ Behind(t)
      /\ thread \in [Threads -> ThreadRecord] /\ thread[t] \in ThreadRecord
      /\ job \in [Jobs -> JobRecord]
      /\ thread[t].pc \notin {"idle", "locked"} => j \in Jobs /\ job[j].status # "none"
  BY LocalTypes DEF LifecycleInv, StagesInv, Typed, TypeOK, JobInv, Holds
<1>1. UNCHANGED run => NoReplayAhead
  BY DEF NoReplayAhead
<1>2. ASSUME thread[t].pc \in CallPc, Rests,
             thread'[t].pc \in CallPc, thread'[t].job = j, thread'[t].event = e,
             thread'[t].pc = "working" => CanAccept(j, e)
      PROVE  Behind(t)'
  BY <1>0, <1>2
  DEF Behind, PostHasBasis, ReadIsCurrent, ReviewHasBasis, Rests, CallPc, ReviewPc, CanAccept, IsFinalized
<1>3. ASSUME NEW pc \in {"received", "refused", "failing"}, Goto(t, pc), thread[t].pc \in CallPc, Rests
      PROVE  \A u \in Threads : thread'[u] = thread[u] \/ Behind(u)'
  <2>1. /\ thread'[t].pc = pc /\ thread'[t].job = j /\ thread'[t].event = e
        /\ \A u \in Threads : u # t => thread'[u] = thread[u]
    BY <1>0, <1>3 DEF Goto, ThreadRecord
  <2>2. Behind(t)'
    BY <1>2, <1>3, <2>1 DEF CallPc
  <2> QED
    BY <2>1, <2>2
<1>4. ASSUME thread' = [thread EXCEPT ![t].pc = "working", ![t].seen = job[j].version],
             thread[t].pc \in CallPc, Rests, CanAccept(j, e)
      PROVE  \A u \in Threads : thread'[u] = thread[u] \/ Behind(u)'
  <2>1. /\ thread'[t].pc = "working" /\ thread'[t].job = j /\ thread'[t].event = e
        /\ \A u \in Threads : u # t => thread'[u] = thread[u]
    BY <1>0, <1>4 DEF ThreadRecord
  <2>2. Behind(t)'
    BY <1>2, <1>4, <2>1 DEF CallPc
  <2> QED
    BY <2>1, <2>2
<1>5. CASE Receive(t)
  <2>1. Rests /\ thread[t].pc \in CallPc /\ j \in Jobs
    BY <1>0, <1>5 DEF Receive, Rests, At, CallPc
  <2>2. NoReplayAhead
    BY <1>0, <1>1, <1>5, <2>1, ReplyMakesNoRun DEF Receive
  <2>3. \A u \in Threads : thread'[u] = thread[u] \/ Behind(u)'
    BY <1>0, <1>3, <1>4, <1>5, <2>1, ReturnIsBehind DEF Receive
  <2> QED
    BY <1>0, <2>1, <2>2, <2>3, ThreadKeepsStages DEF JobsGo
<1>6. CASE BeginCallback(t)
  <2>1. Rests /\ thread[t].pc \in CallPc /\ j \in Jobs
    BY <1>0, <1>6 DEF BeginCallback, Rests, At, CallPc
  <2>2. NoReplayAhead
    BY <1>0, <1>1, <1>6, <2>1, ReplyMakesNoRun DEF BeginCallback
  <2>3. \A u \in Threads : thread'[u] = thread[u] \/ Behind(u)'
    BY <1>0, <1>3, <1>4, <1>6, <2>1, ReturnIsBehind DEF BeginCallback
  <2> QED
    BY <1>0, <2>1, <2>2, <2>3, ThreadKeepsStages DEF JobsGo
<1>7. CASE CommitCallback(t)
  <2>1. j \in Jobs /\ ReplyTo(t, "created") /\ Return(t)
    BY <1>0, <1>7 DEF CommitCallback, At
  <2> QED
    BY <1>0, <1>7, <2>1, CommitGoes, ReplyMakesNoRun, ReturnIsBehind, ThreadKeepsStages
<1>8. CASE RollBackCheckpoint(t)
  <2>1. Rests /\ j \in Jobs /\ ReplyTo(t, "error") /\ Return(t)
    BY <1>0, <1>8 DEF RollBackCheckpoint, Rests, At
  <2> QED
    BY <1>0, <2>1, ReplyMakesNoRun, ReturnIsBehind, ThreadKeepsStages DEF JobsGo
<1>9. CASE LoseRace(t)
  <2>1. Rests /\ thread[t].pc \in CallPc /\ UNCHANGED run /\ Goto(t, "refused")
    BY <1>9 DEF LoseRace, Rests, At, CallPc
  <2> QED
    BY <1>0, <1>1, <1>3, <2>1, ThreadKeepsStages DEF JobsGo
<1>10. CASE FailCallback(t)
  <2>1. Rests /\ thread[t].pc \in CallPc /\ UNCHANGED run /\ Goto(t, "failing")
    BY <1>10 DEF FailCallback, Rests, At, CallPc
  <2> QED
    BY <1>0, <1>1, <1>3, <2>1, ThreadKeepsStages DEF JobsGo
<1>11. CASE MarkFailure(t)
  <2>1. j \in Jobs /\ job[j].status # "none" /\ ReplyTo(t, "error") /\ Return(t)
    BY <1>0, <1>11 DEF MarkFailure, At
  <2>2. MayBeFailed(t) => job[j].status \in Active
    BY <1>0, <2>1 DEF MayBeFailed, IsFinalized, JobRecord
  <2>3. JobsGo
    BY <1>11, <2>1, <2>2 DEF MarkFailure, JobsGo, Goes, Fails, Rests
  <2> QED
    BY <1>0, <2>1, <2>3, ReplyMakesNoRun, ReturnIsBehind, ThreadKeepsStages
<1> QED
  BY <1>5, <1>6, <1>7, <1>8, <1>9, <1>10, <1>11 DEF Callback

\* A run posts what goes on from the checkpoint it replays.
LEMMA PostsGoOn ==
  ASSUME NEW r \in Runs, NEW i \in 1..Len(Posts(r))
  PROVE  /\ Posts(r)[i] = "human" => r = ReplayOf("domain")
         /\ Posts(r)[i] \in Drafts => r = ReplayOf("human")
<1>1. CASE r = "initial"
  BY <1>1 DEF Posts, Drafts
<1>2. CASE r = "confirmed"
  BY <1>2 DEF Posts, Drafts, ReplayOf
<1>3. CASE r = "feedback"
  BY <1>3 DEF Posts, Drafts, ReplayOf
<1> QED
  BY <1>1, <1>2, <1>3 DEF Runs

\* What Airflow does, and a crash, changes no job.
LEMMA AirflowRests ==
  ASSUME LifecycleInv,
         \/ \E t \in Threads : PostCallback(t) \/ NotifyFailure(t)
         \/ CallbackTimesOut
         \/ TaskThatPostsNothingFails
         \/ Crash
  PROVE  Rests /\ StagesInv'
<1>0. /\ Typed /\ JobInv /\ StagesInv
      /\ thread \in [Threads -> ThreadRecord]
      /\ run \in [Jobs -> [Runs -> RunRecord]]
      /\ \A k \in Checkpoints : ReplayOf(k) \in Runs
  BY DEF LifecycleInv, Typed, TypeOK, ReplayOf, Runs
<1>1. Rests
  BY DEF Rests, PostCallback, NotifyFailure, CallbackTimesOut, TaskThatPostsNothingFails, Crash
<1>2. ASSUME \A j \in Jobs, r \in Runs : run[j][r].status = "absent" => run'[j][r].status = "absent"
      PROVE  NoReplayAhead
  BY <1>0, <1>2 DEF NoReplayAhead
<1>3. ASSUME NEW t \in Threads, PostCallback(t)
      PROVE  StagesInv'
  <2>1. PICK i \in Jobs, q \in Runs :
          /\ run[i][q].status = "running"
          /\ run' = [run EXCEPT ![i][q].call = t]
          /\ thread' = [thread EXCEPT ![t] =
               [Idle EXCEPT !.pc = "arrived", !.job = i,
                            !.event = Posts(q)[run[i][q].at], !.run = q]]
    BY <1>3 DEF PostCallback
  <2>2. /\ thread'[t].pc = "arrived" /\ thread'[t].job = i
        /\ thread'[t].event = Posts(q)[run[i][q].at]
        /\ \A u \in Threads : u # t => thread'[u] = thread[u]
    BY <1>0, <2>1 DEF Idle
  <2>3. \A j \in Jobs, r \in Runs : run'[j][r].status = run[j][r].status
    BY <1>0, <2>1 DEF RunRecord
  <2>4. run[i][q].at \in 1..Len(Posts(q))
    BY <1>0, <2>1, PostsFacts DEF Typed, RunsOK, RunShape, RunRecord
  <2>5. "domain" \in Checkpoints /\ "human" \in Checkpoints
    BY DEF Checkpoints
  <2>6. PostHasBasis(t)'
    BY <1>0, <1>1, <2>1, <2>2, <2>4, <2>5, PostsGoOn DEF PostHasBasis, Rests, StagesInv, RunsBehind
  <2>7. Behind(t)'
    BY <2>2, <2>6 DEF Behind, ReadIsCurrent, ReviewHasBasis, ReviewPc
  <2>8. NoReplayAhead
    BY <1>2, <2>3
  <2> QED
    BY <1>0, <1>1, <2>2, <2>7, <2>8, ThreadKeepsStages DEF JobsGo
<1>4. ASSUME NEW t \in Threads, NotifyFailure(t)
      PROVE  StagesInv'
  <2>1. PICK i \in Jobs, q \in Runs :
          /\ run' = [run EXCEPT ![i][q].reported = TRUE]
          /\ thread' = [thread EXCEPT ![t] =
               [Idle EXCEPT !.pc = "arrived", !.job = i, !.event = "failure", !.run = q]]
    BY <1>4 DEF NotifyFailure
  <2>2. /\ thread'[t].pc = "arrived" /\ thread'[t].event = "failure"
        /\ \A u \in Threads : u # t => thread'[u] = thread[u]
    BY <1>0, <2>1 DEF Idle
  <2>3. \A j \in Jobs, r \in Runs : run'[j][r].status = run[j][r].status
    BY <1>0, <2>1 DEF RunRecord
  <2>4. Behind(t)'
    BY <2>2 DEF Behind, PostHasBasis, ReadIsCurrent, ReviewHasBasis, ReviewPc, Drafts
  <2>5. NoReplayAhead
    BY <1>2, <2>3
  <2> QED
    BY <1>0, <1>1, <2>2, <2>4, <2>5, ThreadKeepsStages DEF JobsGo
<1>5. CASE CallbackTimesOut
  <2>1. PICK i \in Jobs, q \in Runs :
          /\ run[i][q].call # NoThread
          /\ run' = [run EXCEPT ![i][q] = TaskFails(run[i][q])]
    BY <1>5 DEF CallbackTimesOut
  <2>2. run[i][q].status = "running"
    BY <1>0, <2>1 DEF Typed, RunsOK, RunShape
  <2>3. NoReplayAhead
    BY <1>0, <1>2, <2>1, <2>2
  <2> QED
    BY <1>0, <1>1, <1>5, <2>3, ThreadKeepsStages DEF JobsGo, CallbackTimesOut
<1>6. CASE TaskThatPostsNothingFails
  <2>1. PICK i \in Jobs, q \in Runs :
          /\ run[i][q].status \in {"running", "success"}
          /\ run' = [run EXCEPT ![i][q] = Ended(run[i][q], "failed")]
    BY <1>6 DEF TaskThatPostsNothingFails
  <2>2. NoReplayAhead
    BY <1>0, <1>2, <2>1
  <2> QED
    BY <1>0, <1>1, <1>6, <2>2, ThreadKeepsStages DEF JobsGo, TaskThatPostsNothingFails
<1>7. CASE Crash
  <2>1. NoReplayAhead
    BY <1>0, <1>2, <1>7, CrashRun
  <2>2. \A t \in Threads : thread'[t].pc = "idle"
    BY <1>7 DEF Crash, Idle
  <2>3. \A t \in Threads : Behind(t)'
    BY <2>2, FreeIsBehind DEF CallPc, ReviewPc
  <2> QED
    BY <1>0, <1>1, <2>1, <2>3, ThreadKeepsStages DEF JobsGo
<1> QED
  BY <1>1, <1>3, <1>4, <1>5, <1>6, <1>7

-----------------------------------------------------------------------------
(* The refinement.                                                           *)

\* The statuses and posts of PipelineLifecycle are those of the pipeline.
LEMMA SameStages ==
  /\ Lifecycle!Checkpoints = Checkpoints /\ Lifecycle!Posts = Posted /\ Lifecycle!Active = Active
  /\ Lifecycle!Posts \cup {"failure"} = Events
  /\ \A e \in Posted : Lifecycle!After(e) = StatusAfter(e)
  /\ \A k \in Checkpoints : Lifecycle!After(k) = WaitingFor(k)
<1>1. /\ Lifecycle!Checkpoints = Checkpoints /\ Lifecycle!Posts = Posted /\ Lifecycle!Active = Active
      /\ Lifecycle!Posts \cup {"failure"} = Events
  BY DEF Lifecycle!Checkpoints, Lifecycle!Posts, Lifecycle!Active, Checkpoints, Posted, Drafts, Events,
     Active
<1>2. \A e \in Posted : Lifecycle!After(e) = StatusAfter(e)
  BY DEF Lifecycle!After, StatusAfter, WaitingFor, Posted, Checkpoints, Drafts
<1>3. \A k \in Checkpoints : Lifecycle!After(k) = WaitingFor(k)
  BY DEF Lifecycle!After, WaitingFor, Checkpoints
<1> QED
  BY <1>1, <1>2, <1>3

\* A row that is saved is a move of its job.
LEMMA SaveMoves ==
  ASSUME Typed, NEW j \in Jobs, NEW from, NEW to, job[j].status \in from, Save(j, to)
  PROVE  Lifecycle!Moves(j, from, to) /\ (to \notin from => Lifecycle!Changes(j))
<1>1. \A i \in Jobs : job'[i].status = IF i = j THEN to ELSE job[i].status
  BY StageTypes DEF Save, Row
<1> QED
  BY <1>1 DEF Lifecycle!Moves, Lifecycle!Changes

\* A change of a job is the step of PipelineLifecycle it is named for.
LEMMA GoesIsStep ==
  ASSUME Typed, NEW j \in Jobs, Goes(j)
  PROVE  Lifecycle!LifecycleNext
<1>0. /\ applied \in [Jobs -> [Events -> Nat]]
      /\ session \in [Jobs -> [Checkpoints -> {"none", "OPEN", "CLOSED"}]]
      /\ Posted \subseteq Events
  BY StageTypes
<1>1. CASE Starts(j)
  <2>1. CASE job[j].status = "none" /\ Save(j, "QUEUED") /\ \A i \in Jobs : job[i].status \notin Active
    <3>1. Lifecycle!Moves(j, {"none"}, "QUEUED") /\ Lifecycle!Changes(j)
      <4>1. job[j].status \in {"none"} /\ "QUEUED" \notin {"none"} /\ Save(j, "QUEUED")
        BY <2>1
      <4> QED
        BY <4>1, SaveMoves
    <3>2. Lifecycle!Create(j)
      BY <1>1, <2>1, <3>1, SameStages DEF Starts, Lifecycle!Create
    <3> QED
      BY <3>1, <3>2 DEF Lifecycle!LifecycleNext
  <2>2. CASE job[j].status = "QUEUED" /\ Save(j, "RUNNING")
    <3>1. Lifecycle!Moves(j, {"QUEUED"}, "RUNNING") /\ Lifecycle!Changes(j)
      <4>1. job[j].status \in {"QUEUED"} /\ "RUNNING" \notin {"QUEUED"} /\ Save(j, "RUNNING")
        BY <2>2
      <4> QED
        BY <4>1, SaveMoves
    <3>2. Lifecycle!Begin(j)
      BY <1>1, <3>1 DEF Starts, Lifecycle!Begin
    <3> QED
      BY <3>1, <3>2 DEF Lifecycle!LifecycleNext
  <2> QED
    BY <1>1, <2>1, <2>2 DEF Starts
<1>2. CASE Fails(j)
  <2>0. "FAILED" \notin Active
    BY DEF Active
  <2>1. Lifecycle!Moves(j, Lifecycle!Active, "FAILED") /\ Lifecycle!Changes(j)
    BY <1>2, <2>0, SaveMoves, SameStages DEF Fails
  <2>2. Lifecycle!Fail(j)
    BY <1>2, <2>1 DEF Fails, Lifecycle!Fail
  <2> QED
    BY <2>1, <2>2 DEF Lifecycle!LifecycleNext
<1>3. ASSUME NEW e \in Posted, TakesPost(j, e) PROVE Lifecycle!LifecycleNext
  <2>0. Lifecycle!After(e) \notin Lifecycle!TakenIn(e)
    BY DEF Lifecycle!After, Lifecycle!TakenIn, Posted, Checkpoints, Drafts
  <2>1. Lifecycle!Moves(j, Lifecycle!TakenIn(e), Lifecycle!After(e)) /\ Lifecycle!Changes(j)
    BY <1>3, <2>0, SaveMoves, SameStages DEF TakesPost
  <2>2. \A d \in Lifecycle!Posts : applied[j][d] = IF d \in Lifecycle!Before(e) THEN 1 ELSE 0
    BY <1>3, SameStages DEF TakesPost, HasStored
  <2>3. e \notin Lifecycle!Before(e)
    BY DEF Lifecycle!Before, Lifecycle!Checkpoints, Posted, Checkpoints, Drafts
  <2>4. applied[j][e] = 0
    BY <1>3, <2>3 DEF TakesPost, HasStored
  <2>5. applied' = [applied EXCEPT ![j][e] = 1]
    BY <1>0, <1>3, <2>4 DEF TakesPost
  <2>6. Lifecycle!Store(j, e)
    BY <1>3, <2>1, <2>2, <2>5, SameStages DEF TakesPost, Lifecycle!Store
  <2> QED
    BY <2>1, <2>6, SameStages DEF Lifecycle!LifecycleNext
<1>4. ASSUME NEW k \in Checkpoints, TakesDecision(j, k) PROVE Lifecycle!LifecycleNext
  <2>0. "RUNNING" \notin {Lifecycle!After(k)}
    BY DEF Lifecycle!After, Checkpoints
  <2>1. Lifecycle!Moves(j, {Lifecycle!After(k)}, "RUNNING") /\ Lifecycle!Changes(j)
    BY <1>4, <2>0, SaveMoves, SameStages DEF TakesDecision
  <2>2. Lifecycle!Decide(j, k)
    BY <1>4, <2>1 DEF TakesDecision, Lifecycle!Decide
  <2> QED
    BY <2>1, <2>2, SameStages DEF Lifecycle!LifecycleNext
<1> QED
  BY <1>1, <1>2, <1>3, <1>4 DEF Goes

\* Every step is one of PipelineLifecycle or changes nothing it speaks of.
LEMMA StepGoes ==
  ASSUME LifecycleInv, [Next]_vars
  PROVE  JobsGo /\ StagesInv'
<1>1. CASE UNCHANGED vars
  <2>1. Rests /\ NoReplayAhead /\ \A t \in Threads : thread'[t] = thread[t]
    BY <1>1 DEF vars, Rests, NoReplayAhead
  <2> QED
    BY <2>1, ThreadKeepsStages DEF JobsGo, LifecycleInv
<1>2. CASE \E t \in Threads : Trigger(t) \/ Review(t) \/ Callback(t)
  BY <1>2, TriggerGoes, ReviewGoes, CallbackGoes
<1>3. CASE \/ \E t \in Threads : PostCallback(t) \/ NotifyFailure(t)
           \/ CallbackTimesOut
           \/ TaskThatPostsNothingFails
           \/ Crash
  BY <1>3, AirflowRests DEF JobsGo
<1> QED
  BY <1>1, <1>2, <1>3 DEF Next

\* The invariant holds at first.
LEMMA StagesInit == Init => LifecycleInv
<1> SUFFICES ASSUME Init PROVE LifecycleInv
  OBVIOUS
<1>1. Typed /\ JobInv
  BY InitType, JobInvInit
<1>2. AppliedOnce
  BY DEF Init, AppliedOnce
<1>3. \A j \in Jobs : StageOf(j)
  BY DEF Init, StageOf, HasStored, Posted, Events
<1>4. RunsBehind
  BY DEF Init, RunsBehind, ReplayOf, Runs
<1>5. \A t \in Threads : thread[t].pc = "idle"
  BY DEF Init, Idle
<1>6. \A t \in Threads : Behind(t)
  BY <1>5 DEF Behind, PostHasBasis, ReadIsCurrent, ReviewHasBasis, CallPc, ReviewPc
<1> QED
  BY <1>1, <1>2, <1>3, <1>4, <1>6 DEF LifecycleInv, StagesInv

\* The jobs of a dataset go through their stages as PipelineLifecycle says: one at a
\* time, each post stored once and after those before it, each decision taken once and
\* after what it is about, each job ended once; although every request reads the job in
\* one transaction and writes it in a later one, or after a call, or twice.
THEOREM LifecycleRefinement == Spec => ImplementsLifecycle
<1>1. Init => Lifecycle!LifecycleInit
  BY SameStages DEF Init, Lifecycle!LifecycleInit
<1>2. ASSUME LifecycleInv, [Next]_vars
      PROVE  LifecycleInv' /\ [Lifecycle!LifecycleNext]_(Lifecycle!lifecycleVars)
  <2>1. Typed' /\ JobInv' /\ AppliedOnce'
    BY <1>2, StepType, JobInvStep, AppliedOnceStep DEF LifecycleInv
  <2>2. JobsGo /\ StagesInv'
    BY <1>2, StepGoes
  <2>3. ASSUME Rests PROVE UNCHANGED Lifecycle!lifecycleVars
    BY <2>3 DEF Rests, Lifecycle!lifecycleVars
  <2>4. ASSUME NEW j \in Jobs, Goes(j) PROVE Lifecycle!LifecycleNext
    BY <1>2, <2>4, GoesIsStep DEF LifecycleInv
  <2>5. [Lifecycle!LifecycleNext]_(Lifecycle!lifecycleVars)
    BY <2>2, <2>3, <2>4 DEF JobsGo
  <2> QED
    BY <2>1, <2>2, <2>5 DEF LifecycleInv
<1> QED
  BY <1>1, <1>2, StagesInit, PTL DEF Spec, ImplementsLifecycle, Lifecycle!LifecycleSpec
=============================================================================
