------------------------- MODULE PaymentRefund_proof -------------------------
(***************************************************************************)
(* Proofs about PaymentRefund, for any amount, any keys and any number of    *)
(* threads.                                                                 *)
(*                                                                         *)
(* Why the books are never ahead of Toss: while something is left to refund, *)
(* each unit Toss has paid back was paid for one key, and the units paid for *)
(* a key are as many as the key asks for.  The recorded ones are some of     *)
(* them.  Once nothing is left, the amount itself bounds the records.        *)
(***************************************************************************)
EXTENDS PaymentRefund, FiniteSets, FiniteSetTheorems, TLAPS

ThreadRows ==
  [pc : {"idle", "cancelAtToss", "cancelCommit", "adminAtToss", "adminFinalize",
         "getPayment", "reflectRead", "reflectCommit", "markProcessed"},
   key : Keys \cup {NoKey}, canceled : 0..Amount,
   answer : RefundStatus \cup {"none"}, event : Events]

AllKeys == Keys \cup {AdminKey}

\* A status Toss may have given once, for refunds do not come back.
IsTrue(answer) == /\ answer = "CANCELED" => refunded = Amount
                  /\ answer = "PARTIAL_CANCELED" => refunded > 0

\* A cancel request knows the sum on record for as long as it has the lock.
CancelHasLock ==
  \A u \in Users : thread[u].pc \in {"cancelAtToss", "cancelCommit"} =>
    /\ lock = u
    /\ thread[u].key \in Keys \ cancelKeys
    /\ thread[u].canceled = recorded
    /\ recorded + AmountOf[thread[u].key] <= Amount

AnswersAreTrue ==
  /\ IsTrue(status)
  /\ \A k \in AllKeys : reply[k] # "DONE" /\ IsTrue(reply[k])
  /\ \A t \in Threads : IsTrue(thread[t].answer)

\* Who has an answer to go on with.
Answered ==
  /\ \A k \in cancelKeys : reply[k] # "none"
  /\ \A u \in Users : thread[u].pc = "cancelCommit" =>
       thread[u].answer = reply[thread[u].key] /\ thread[u].answer # "none"
  /\ \A a \in Admins : thread[a].pc = "adminFinalize" => reply[AdminKey] # "none"
  /\ \A h \in Hooks : thread[h].pc \in {"reflectRead", "reflectCommit"} =>
       thread[h].answer # "none"

\* A request for all that remains leaves nothing.
RestIsAll ==
  /\ reply[AdminKey] # "none" => refunded = Amount
  /\ \A k \in Keys : AmountOf[k] = 0 /\ reply[k] # "none" => refunded = Amount

UnitsOf(owner, total, keys) == {i \in 1..total : owner[i] \in keys}

Owns(owner) ==
  /\ \A k \in Keys : Cardinality(UnitsOf(owner, refunded, {k})) =
                       IF reply[k] = "none" THEN 0 ELSE AmountOf[k]
  /\ recorded = Cardinality(UnitsOf(owner, refunded, cancelKeys))

UnitsHaveOwners == refunded < Amount => \E owner \in [1..refunded -> Keys] : Owns(owner)

RefundInv ==
  TypeOK /\ CancelHasLock /\ AnswersAreTrue /\ Answered /\ RestIsAll /\ UnitsHaveOwners

-----------------------------------------------------------------------------
(* Type correctness.                                                         *)

LEMMA IdleRow == Idle \in ThreadRows
BY AmountAssumption DEF Idle, ThreadRows, Events

LEMMA TotalStatus ==
  ASSUME NEW total \in 0..Amount
  PROVE  /\ StatusAt(total) \in RefundStatus
         /\ total > 0 => StatusAt(total) # "DONE"
         /\ StatusAt(total) = "CANCELED" => total = Amount
         /\ StatusAt(total) = "PARTIAL_CANCELED" => total > 0
BY AmountAssumption DEF StatusAt, RefundStatus

LEMMA InitRefund == Init => RefundInv
<1> SUFFICES ASSUME Init PROVE RefundInv
  OBVIOUS
<1> USE AmountAssumption DEF Init
<1>1. TypeOK
  <2>1. thread \in [Threads -> ThreadRows]
    BY IdleRow
  <2>2. event \in [Events -> {"none", "pending", "processed"}]
    OBVIOUS
  <2>3. crashes \in 0..MaxCrashes
    BY MaxCrashesAssumption
  <2> QED
    BY <2>1, <2>2, <2>3 DEF TypeOK, ThreadRows, RefundStatus
<1>2. CancelHasLock /\ AnswersAreTrue /\ Answered
  BY RefundThreadsAssumption
     DEF CancelHasLock, AnswersAreTrue, Answered, IsTrue, Idle, Threads, AllKeys
<1>3. RestIsAll
  BY DEF RestIsAll
<1>4. UnitsHaveOwners
  <2>1. PICK owner : owner \in [1..0 -> Keys]
    <3>1. [i \in 1..0 |-> NoKey] \in [1..0 -> Keys]
      OBVIOUS
    <3> QED
      BY <3>1
  <2>2. \A keys : UnitsOf(owner, 0, keys) = {}
    BY DEF UnitsOf
  <2>3. Owns(owner)
    BY <2>2, FS_EmptySet DEF Owns
  <2> QED
    BY <2>1, <2>3 DEF UnitsHaveOwners
<1> QED
  BY <1>1, <1>2, <1>3, <1>4 DEF RefundInv

\* An answer is kept with the step that comes after it.
LEMMA KeepAnswer ==
  ASSUME thread \in [Threads -> ThreadRows], NEW t \in Threads,
         NEW pc \in {"cancelCommit", "reflectRead"}, NEW answer \in RefundStatus,
         thread' = [thread EXCEPT ![t].pc = pc, ![t].answer = answer]
  PROVE  thread' \in [Threads -> ThreadRows]
<1>1. [thread[t] EXCEPT !.pc = pc, !.answer = answer] \in ThreadRows
  BY DEF ThreadRows
<1>2. thread' = [thread EXCEPT ![t] = [thread[t] EXCEPT !.pc = pc, !.answer = answer]]
  BY DEF ThreadRows
<1> QED
  BY <1>1, <1>2

\* What Toss does to its own state.
LEMMA TossStep ==
  ASSUME RefundInv, NEW k \in AllKeys, NEW asked \in 0..Amount, NEW answer,
         TossRefund(k, asked, answer)
  PROVE  /\ refunded' \in refunded..Amount
         /\ event' \in [Events -> {"none", "pending", "processed"}]
         /\ reply' \in [AllKeys -> RefundStatus \cup {"none"}]
         /\ \A j \in AllKeys : j # k => reply'[j] = reply[j]
         /\ reply'[k] # "DONE" /\ IsTrue(reply[k])'
         /\ reply[k] # "none" => reply'[k] = reply[k]
         /\ reply'[k] # reply[k] /\ asked = 0 => refunded' = Amount
         /\ answer # "failed" => reply'[k] # "none" /\ answer = reply'[k]
<1> USE AmountAssumption DEF RefundInv, TypeOK, AnswersAreTrue, AllKeys
<1>1. CASE UNCHANGED <<refunded, reply, event>>
  BY <1>1 DEF TossRefund, IsTrue
<1>2. CASE /\ reply[k] = "none"
           /\ refunded < Amount
           /\ refunded + asked <= Amount
           /\ refunded' = IF asked = 0 THEN Amount ELSE refunded + asked
           /\ reply' = [reply EXCEPT ![k] = StatusAt(refunded')]
           /\ \E e \in Events : event' = [event EXCEPT ![e] = "pending"]
           /\ answer \in {reply'[k], "failed"}
  <2>1. refunded' \in refunded..Amount /\ refunded' > 0
    BY <1>2
  <2>2. /\ StatusAt(refunded') \in RefundStatus \ {"DONE"}
        /\ StatusAt(refunded') = "CANCELED" => refunded' = Amount
    BY <2>1, TotalStatus
  <2>3. reply'[k] = StatusAt(refunded')
    BY <1>2
  <2>4. StatusAt(refunded') # "none"
    BY <2>2 DEF RefundStatus
  <2>5. reply' \in [AllKeys -> RefundStatus \cup {"none"}]
    BY <1>2, <2>2
  <2>6. event' \in [Events -> {"none", "pending", "processed"}]
    BY <1>2
  <2> QED
    BY <1>2, <2>1, <2>2, <2>3, <2>4, <2>5, <2>6 DEF IsTrue
<1> QED
  BY <1>1, <1>2 DEF TossRefund

LEMMA StepType == RefundInv /\ [Next]_vars => TypeOK'
<1> SUFFICES ASSUME RefundInv, [Next]_vars PROVE TypeOK'
  OBVIOUS
<1>a. /\ status \in RefundStatus /\ recorded \in 0..Amount /\ cancelKeys \subseteq Keys
      /\ lock \in Users \cup {NoThread} /\ refunded \in 0..Amount
      /\ reply \in [AllKeys -> RefundStatus \cup {"none"}]
      /\ event \in [Events -> {"none", "pending", "processed"}]
      /\ thread \in [Threads -> ThreadRows] /\ crashes \in 0..MaxCrashes
  BY DEF RefundInv, TypeOK, ThreadRows, AllKeys
<1> SUFFICES
      /\ status' \in RefundStatus /\ recorded' \in 0..Amount /\ cancelKeys' \subseteq Keys
      /\ lock' \in Users \cup {NoThread} /\ refunded' \in 0..Amount
      /\ reply' \in [AllKeys -> RefundStatus \cup {"none"}]
      /\ event' \in [Events -> {"none", "pending", "processed"}]
      /\ thread' \in [Threads -> ThreadRows] /\ crashes' \in 0..MaxCrashes
  BY DEF TypeOK, ThreadRows, AllKeys
<1> USE AmountAssumption DEF Threads, Return, Goto, At
<1>1. CASE UNCHANGED vars
  BY <1>a, <1>1 DEF vars
<1>2. ASSUME NEW u \in Users, CancelPayment(u) PROVE
        lock' \in Users \cup {NoThread} /\ thread' \in [Threads -> ThreadRows]
  <2>1. PICK k \in Keys : thread' = [thread EXCEPT ![u] =
          [Idle EXCEPT !.pc = "cancelAtToss", !.key = k, !.canceled = recorded]]
    BY <1>2 DEF CancelPayment
  <2>2. [Idle EXCEPT !.pc = "cancelAtToss", !.key = k, !.canceled = recorded] \in ThreadRows
    BY <1>a, IdleRow DEF ThreadRows
  <2>3. lock' = u
    BY <1>2 DEF CancelPayment
  <2> QED
    BY <1>a, <2>1, <2>2, <2>3
<1>3. ASSUME NEW u \in Users, CancelAtToss(u) PROVE
        /\ refunded' \in 0..Amount /\ lock' \in Users \cup {NoThread}
        /\ reply' \in [AllKeys -> RefundStatus \cup {"none"}]
        /\ event' \in [Events -> {"none", "pending", "processed"}]
        /\ thread' \in [Threads -> ThreadRows]
  <2>1. PICK answer \in RefundStatus \cup {"failed"} :
          /\ TossRefund(thread[u].key, AmountOf[thread[u].key], answer)
          /\ \/ Return(u) /\ lock' = NoThread
             \/ /\ answer \in RefundStatus
                /\ thread' = [thread EXCEPT ![u].pc = "cancelCommit", ![u].answer = answer]
                /\ UNCHANGED lock
    BY <1>3 DEF CancelAtToss
  <2>2. thread[u].key \in AllKeys /\ AmountOf[thread[u].key] \in 0..Amount
    BY <1>3, AmountOfAssumption DEF CancelAtToss, RefundInv, CancelHasLock, AllKeys
  <2>3. thread' \in [Threads -> ThreadRows]
    <3>1. CASE Return(u)
      BY <1>a, <3>1, IdleRow
    <3>2. CASE /\ answer \in RefundStatus
               /\ thread' = [thread EXCEPT ![u].pc = "cancelCommit", ![u].answer = answer]
      BY <1>a, <3>2, KeepAnswer
    <3> QED
      BY <2>1, <3>1, <3>2
  <2>4. refunded' \in refunded..Amount
        /\ event' \in [Events -> {"none", "pending", "processed"}]
        /\ reply' \in [AllKeys -> RefundStatus \cup {"none"}]
    BY <2>1, <2>2, TossStep
  <2> QED
    BY <1>a, <2>1, <2>3, <2>4
<1>4. ASSUME NEW u \in Users, CancelCommit(u) PROVE
        /\ status' \in RefundStatus /\ recorded' \in 0..Amount /\ cancelKeys' \subseteq Keys
        /\ lock' \in Users \cup {NoThread} /\ thread' \in [Threads -> ThreadRows]
  <2>1. recorded' \in 0..Amount
    BY <1>a, <1>4, AmountOfAssumption
       DEF CancelCommit, ResolvedAmount, RefundInv, CancelHasLock
  <2>2. status' \in RefundStatus
    BY <1>4 DEF CancelCommit, RefundStatus
  <2>3. cancelKeys' \subseteq Keys
    BY <1>a, <1>4 DEF CancelCommit, RefundInv, CancelHasLock
  <2>4. thread' \in [Threads -> ThreadRows] /\ lock' = NoThread
    BY <1>a, <1>4, IdleRow DEF CancelCommit
  <2> QED
    BY <2>1, <2>2, <2>3, <2>4
<1>5. ASSUME NEW a \in Admins, PrepareRefund(a) PROVE thread' \in [Threads -> ThreadRows]
  BY <1>a, <1>5 DEF PrepareRefund, ThreadRows
<1>6. ASSUME NEW a \in Admins, RefundAtToss(a) PROVE
        /\ refunded' \in 0..Amount
        /\ reply' \in [AllKeys -> RefundStatus \cup {"none"}]
        /\ event' \in [Events -> {"none", "pending", "processed"}]
        /\ thread' \in [Threads -> ThreadRows]
  <2>1. PICK answer : TossRefund(AdminKey, 0, answer) /\ (Return(a) \/ Goto(a, "adminFinalize"))
    BY <1>6 DEF RefundAtToss
  <2>2. thread' \in [Threads -> ThreadRows]
    <3>1. CASE Return(a)
      BY <1>a, <3>1, IdleRow
    <3>2. CASE Goto(a, "adminFinalize")
      BY <1>a, <3>2 DEF ThreadRows
    <3> QED
      BY <2>1, <3>1, <3>2
  <2>3. refunded' \in refunded..Amount
        /\ event' \in [Events -> {"none", "pending", "processed"}]
        /\ reply' \in [AllKeys -> RefundStatus \cup {"none"}]
    BY <2>1, TossStep DEF AllKeys
  <2> QED
    BY <1>a, <2>2, <2>3
<1>7. ASSUME NEW a \in Admins, FinalizeRefund(a) PROVE
        /\ status' \in RefundStatus /\ recorded' \in 0..Amount
        /\ thread' \in [Threads -> ThreadRows]
  BY <1>a, <1>7, IdleRow DEF FinalizeRefund, RefundStatus
<1>8. ASSUME NEW h \in Hooks, ReceiveWebhook(h) PROVE thread' \in [Threads -> ThreadRows]
  <2>1. PICK e \in Events : thread' = [thread EXCEPT ![h] =
          [Idle EXCEPT !.pc = "getPayment", !.event = e]]
    BY <1>8 DEF ReceiveWebhook
  <2>2. [Idle EXCEPT !.pc = "getPayment", !.event = e] \in ThreadRows
    BY IdleRow DEF ThreadRows
  <2> QED
    BY <1>a, <2>1, <2>2
<1>9. ASSUME NEW h \in Hooks, GetPayment(h) PROVE thread' \in [Threads -> ThreadRows]
  <2>1. StatusAt(refunded) \in RefundStatus
    BY <1>a, TotalStatus
  <2> QED
    BY <1>a, <1>9, <2>1, KeepAnswer DEF GetPayment
<1>10. ASSUME NEW h \in Hooks, ReflectRead(h) PROVE thread' \in [Threads -> ThreadRows]
  <2>1. CASE Return(h)
    BY <1>a, <2>1, IdleRow
  <2>2. CASE Goto(h, "markProcessed") \/ Goto(h, "reflectCommit")
    BY <1>a, <2>2 DEF ThreadRows
  <2> QED
    BY <1>10, <2>1, <2>2 DEF ReflectRead
<1>11. ASSUME NEW h \in Hooks, ReflectCommit(h) PROVE
        status' \in RefundStatus /\ thread' \in [Threads -> ThreadRows]
  <2>1. status' \in RefundStatus
    BY <1>a, <1>11 DEF ReflectCommit, RefundInv, Answered, ThreadRows
  <2>2. thread' \in [Threads -> ThreadRows]
    BY <1>a, <1>11 DEF ReflectCommit, ThreadRows
  <2> QED
    BY <2>1, <2>2
<1>12. ASSUME NEW h \in Hooks, MarkProcessed(h) PROVE
        /\ event' \in [Events -> {"none", "pending", "processed"}]
        /\ thread' \in [Threads -> ThreadRows]
  BY <1>a, <1>12, IdleRow DEF MarkProcessed, ThreadRows
<1>13. ASSUME NEW t \in Threads, Crash(t) PROVE
        /\ lock' \in Users \cup {NoThread} /\ crashes' \in 0..MaxCrashes
        /\ thread' \in [Threads -> ThreadRows]
  BY <1>a, <1>13, IdleRow, MaxCrashesAssumption DEF Crash
<1>b. CASE \E u \in Users : CancelPayment(u)
  BY <1>a, <1>b, <1>2 DEF CancelPayment
<1>c. CASE \E u \in Users : CancelAtToss(u)
  BY <1>a, <1>c, <1>3 DEF CancelAtToss
<1>d. CASE \E u \in Users : CancelCommit(u)
  BY <1>a, <1>d, <1>4 DEF CancelCommit
<1>e. CASE \E a \in Admins : PrepareRefund(a)
  BY <1>a, <1>e, <1>5 DEF PrepareRefund
<1>f. CASE \E a \in Admins : RefundAtToss(a)
  BY <1>a, <1>f, <1>6 DEF RefundAtToss
<1>g. CASE \E a \in Admins : FinalizeRefund(a)
  BY <1>a, <1>g, <1>7 DEF FinalizeRefund
<1>h. CASE \E h \in Hooks : ReceiveWebhook(h)
  BY <1>a, <1>h, <1>8 DEF ReceiveWebhook
<1>i. CASE \E h \in Hooks : GetPayment(h)
  BY <1>a, <1>i, <1>9 DEF GetPayment
<1>j. CASE \E h \in Hooks : ReflectRead(h)
  BY <1>a, <1>j, <1>10 DEF ReflectRead
<1>k. CASE \E h \in Hooks : ReflectCommit(h)
  BY <1>a, <1>k, <1>11 DEF ReflectCommit
<1>l. CASE \E h \in Hooks : MarkProcessed(h)
  BY <1>a, <1>l, <1>12 DEF MarkProcessed
<1>m. CASE \E t \in Threads : Crash(t)
  BY <1>a, <1>m, <1>13 DEF Crash
<1> QED
  BY <1>1, <1>b, <1>c, <1>d, <1>e, <1>f, <1>g, <1>h, <1>i, <1>j, <1>k, <1>l, <1>m
     DEF Next, UserStep, AdminStep, HookStep

-----------------------------------------------------------------------------
(* The lock, and what is true of an answer.                                  *)

\* What every step says of Toss's state: refunds do not come back, an answer
\* given is given for good, and a new one takes its request as it was.
LEMMA TossOnlyPays ==
  ASSUME RefundInv, [Next]_vars
  PROVE  /\ refunded' \in refunded..Amount
         /\ \A k \in AllKeys : reply'[k] # "DONE" /\ IsTrue(reply[k])'
         /\ \A k \in AllKeys : reply[k] # "none" => reply'[k] = reply[k]
<1>1. CASE UNCHANGED <<refunded, reply>>
  BY <1>1 DEF RefundInv, TypeOK, AnswersAreTrue, IsTrue
<1>2. ASSUME NEW k \in AllKeys, NEW asked \in 0..Amount, NEW answer,
             TossRefund(k, asked, answer)
      PROVE  /\ refunded' \in refunded..Amount
             /\ \A j \in AllKeys : reply'[j] # "DONE" /\ IsTrue(reply[j])'
             /\ \A j \in AllKeys : reply[j] # "none" => reply'[j] = reply[j]
  BY <1>2, TossStep DEF RefundInv, TypeOK, AnswersAreTrue, IsTrue
<1>3. ASSUME NEW u \in Users, CancelAtToss(u)
      PROVE  \E answer : TossRefund(thread[u].key, AmountOf[thread[u].key], answer)
  BY <1>3 DEF CancelAtToss
<1>4. ASSUME NEW u \in Users, CancelAtToss(u)
      PROVE  thread[u].key \in AllKeys /\ AmountOf[thread[u].key] \in 0..Amount
  BY <1>4, AmountOfAssumption DEF CancelAtToss, RefundInv, CancelHasLock, AllKeys, At
<1>5. ASSUME NEW a \in Admins, RefundAtToss(a) PROVE \E answer : TossRefund(AdminKey, 0, answer)
  BY <1>5 DEF RefundAtToss
<1>6. AdminKey \in AllKeys /\ 0 \in 0..Amount
  BY AmountAssumption DEF AllKeys
<1>7. CASE \E u \in Users : CancelAtToss(u)
  BY <1>2, <1>3, <1>4, <1>7
<1>8. CASE \E a \in Admins : RefundAtToss(a)
  BY <1>2, <1>5, <1>6, <1>8
<1> QED
  BY <1>1, <1>7, <1>8
     DEF Next, vars, UserStep, AdminStep, HookStep, CancelPayment, CancelCommit, PrepareRefund,
         FinalizeRefund, ReceiveWebhook, GetPayment, ReflectRead, ReflectCommit,
         MarkProcessed, Crash

LEMMA StepLock == RefundInv /\ [Next]_vars => CancelHasLock'
<1> SUFFICES ASSUME RefundInv, [Next]_vars,
                    NEW v \in Users, thread'[v].pc \in {"cancelAtToss", "cancelCommit"}
             PROVE  /\ lock' = v
                    /\ thread'[v].key \in Keys \ cancelKeys'
                    /\ thread'[v].canceled = recorded'
                    /\ recorded' + AmountOf[thread'[v].key] <= Amount
  BY DEF CancelHasLock
<1>a. /\ thread \in [Threads -> ThreadRows]
      /\ \A u \in Users : thread[u].pc \in {"cancelAtToss", "cancelCommit"} =>
           /\ lock = u /\ thread[u].key \in Keys \ cancelKeys
           /\ thread[u].canceled = recorded
           /\ recorded + AmountOf[thread[u].key] <= Amount
  BY DEF RefundInv, TypeOK, CancelHasLock, ThreadRows
<1>b. Idle.pc = "idle" /\ NoThread \notin Users
  BY RefundThreadsAssumption DEF Idle
<1> USE RefundThreadsAssumption DEF Threads, Return, Goto, At, RowIsFree
<1>1. CASE UNCHANGED vars
  BY <1>a, <1>1 DEF vars
<1>2. ASSUME NEW u \in Users, CancelPayment(u) PROVE
        /\ lock' = v /\ thread'[v].key \in Keys \ cancelKeys'
        /\ thread'[v].canceled = recorded' /\ recorded' + AmountOf[thread'[v].key] <= Amount
  <2>1. v = u
    BY <1>a, <1>b, <1>2 DEF CancelPayment
  <2> QED
    BY <1>a, <1>2, <2>1 DEF CancelPayment, Idle
<1>3. ASSUME NEW u \in Users, CancelAtToss(u) PROVE
        /\ lock' = v /\ thread'[v].key \in Keys \ cancelKeys'
        /\ thread'[v].canceled = recorded' /\ recorded' + AmountOf[thread'[v].key] <= Amount
  <2>1. v = u
    BY <1>a, <1>b, <1>3 DEF CancelAtToss
  <2>2. ~Return(u)
    BY <1>a, <1>b, <2>1
  <2> QED
    BY <1>a, <1>3, <2>1, <2>2 DEF CancelAtToss, ThreadRows
<1>4. ASSUME NEW u \in Users, CancelCommit(u) PROVE FALSE
  <2>1. v # u
    BY <1>a, <1>b, <1>4 DEF CancelCommit
  <2> QED
    BY <1>a, <1>4, <2>1 DEF CancelCommit
<1>5. ASSUME NEW a \in Admins, PrepareRefund(a) \/ RefundAtToss(a) PROVE
        /\ thread'[v] = thread[v] /\ UNCHANGED <<lock, cancelKeys, recorded>>
  BY <1>a, <1>5 DEF PrepareRefund, RefundAtToss
<1>6. ASSUME NEW a \in Admins, FinalizeRefund(a) PROVE FALSE
  BY <1>a, <1>6 DEF FinalizeRefund
<1>7. ASSUME NEW h \in Hooks, HookStep(h) PROVE
        /\ thread'[v] = thread[v] /\ UNCHANGED <<lock, cancelKeys, recorded>>
  BY <1>a, <1>7 DEF HookStep, ReceiveWebhook, GetPayment, ReflectRead, ReflectCommit, MarkProcessed
<1>8. ASSUME NEW t \in Threads, Crash(t) PROVE
        /\ thread'[v] = thread[v] /\ UNCHANGED <<lock, cancelKeys, recorded>>
  <2>1. v # t
    BY <1>a, <1>b, <1>8 DEF Crash
  <2> QED
    BY <1>a, <1>8, <2>1 DEF Crash
<1> QED
  BY <1>a, <1>1, <1>2, <1>3, <1>4, <1>5, <1>6, <1>7, <1>8 DEF Next, UserStep, AdminStep

LEMMA StepTrue == RefundInv /\ [Next]_vars => AnswersAreTrue'
<1> SUFFICES ASSUME RefundInv, [Next]_vars
             PROVE  /\ IsTrue(status)'
                    /\ \A t \in Threads : IsTrue(thread[t].answer)'
  BY TossOnlyPays DEF AnswersAreTrue
<1>a. refunded' \in refunded..Amount /\ refunded \in 0..Amount
  BY TossOnlyPays DEF RefundInv, TypeOK
<1>b. thread \in [Threads -> ThreadRows]
  BY DEF RefundInv, TypeOK, ThreadRows
<1>c. IsTrue(status) /\ \A t \in Threads : IsTrue(thread[t].answer)
  BY DEF RefundInv, AnswersAreTrue
\* What was true stays true.
<1>d. ASSUME UNCHANGED status PROVE IsTrue(status)'
  BY <1>a, <1>c, <1>d DEF IsTrue
<1>e. \A t \in Threads : thread'[t].answer \in {thread[t].answer, "none"} =>
        IsTrue(thread[t].answer)'
  BY <1>a, <1>c DEF IsTrue
<1>f. Idle.answer = "none"
  BY DEF Idle
<1>g. ASSUME NEW o \in Threads, NEW pc, Goto(o, pc) \/ Return(o)
      PROVE  \A t \in Threads : thread'[t].answer \in {thread[t].answer, "none"}
  <2>1. CASE Goto(o, pc)
    BY <1>b, <2>1 DEF Goto
  <2>2. CASE Return(o)
    BY <1>b, <1>f, <2>2 DEF Return
  <2> QED
    BY <1>g, <2>1, <2>2
<1> USE DEF Threads, At
<1>1. CASE UNCHANGED vars
  BY <1>1, <1>d, <1>e DEF vars
<1>2. CASE \E u \in Users : CancelPayment(u)
  <2>1. PICK u \in Users, k \in Keys : thread' = [thread EXCEPT ![u] =
          [Idle EXCEPT !.pc = "cancelAtToss", !.key = k, !.canceled = recorded]]
    BY <1>2 DEF CancelPayment
  <2>2. \A t \in Threads : thread'[t].answer \in {thread[t].answer, "none"}
    BY <1>b, <2>1 DEF Idle
  <2> QED
    BY <1>2, <1>d, <1>e, <2>2 DEF CancelPayment
<1>3. CASE \E u \in Users : CancelAtToss(u)
  <2>1. PICK u \in Users : CancelAtToss(u)
    BY <1>3
  <2>2. PICK answer \in RefundStatus \cup {"failed"} :
          /\ TossRefund(thread[u].key, AmountOf[thread[u].key], answer)
          /\ IF answer = "failed"
             THEN Return(u)
             ELSE thread' = [thread EXCEPT ![u].pc = "cancelCommit", ![u].answer = answer]
    BY <2>1 DEF CancelAtToss
  <2>3. thread[u].key \in AllKeys /\ AmountOf[thread[u].key] \in 0..Amount
    BY <2>1, AmountOfAssumption DEF CancelAtToss, RefundInv, CancelHasLock, AllKeys
  <2>4. answer # "failed" => IsTrue(answer)'
    BY <2>2, <2>3, TossStep DEF IsTrue
  <2>5. \A t \in Threads : t # u => thread'[t].answer = thread[t].answer
    BY <1>b, <2>2 DEF Return
  <2>6. IsTrue(thread[u].answer)'
    <3>1. CASE answer = "failed"
      BY <1>e, <1>g, <2>2, <3>1
    <3>2. CASE answer # "failed"
      <4>1. thread'[u].answer = answer
        BY <1>b, <2>2, <3>2 DEF ThreadRows
      <4> QED
        BY <2>4, <3>2, <4>1 DEF IsTrue
    <3> QED
      BY <3>1, <3>2
  <2> QED
    BY <2>1, <1>d, <1>e, <2>5, <2>6 DEF CancelAtToss
<1>4. CASE \E u \in Users : CancelCommit(u)
  <2>1. PICK u \in Users : CancelCommit(u)
    BY <1>4
  <2>2. /\ thread[u].answer \in {"PARTIAL_CANCELED", "CANCELED"}
        /\ IsTrue(thread[u].answer)
    BY <2>1, <1>b, <1>c
       DEF CancelCommit, RefundInv, TypeOK, AnswersAreTrue, Answered, CancelHasLock,
           AllKeys, RefundStatus
  <2>3. status' = thread[u].answer
    BY <2>1, <2>2 DEF CancelCommit, IsPartialCancel
  <2>4. \A t \in Threads : thread'[t].answer \in {thread[t].answer, "none"}
    BY <1>g, <2>1 DEF CancelCommit
  <2>5. UNCHANGED refunded
    BY <2>1 DEF CancelCommit
  <2> QED
    BY <1>e, <2>2, <2>3, <2>4, <2>5 DEF IsTrue
<1>5. CASE \E a \in Admins : PrepareRefund(a) \/ RefundAtToss(a)
  <2>1. \A t \in Threads : thread'[t].answer \in {thread[t].answer, "none"}
    BY <1>g, <1>5 DEF PrepareRefund, RefundAtToss
  <2> QED
    BY <1>5, <1>d, <1>e, <2>1 DEF PrepareRefund, RefundAtToss
<1>6. CASE \E a \in Admins : FinalizeRefund(a)
  <2>1. \A t \in Threads : thread'[t].answer \in {thread[t].answer, "none"}
    BY <1>g, <1>6 DEF FinalizeRefund
  <2>2. refunded = Amount
    BY <1>6 DEF FinalizeRefund, RefundInv, Answered, RestIsAll
  <2>3. \/ UNCHANGED status
        \/ status' = "CANCELED" /\ UNCHANGED refunded
    BY <1>6 DEF FinalizeRefund
  <2> QED
    BY <1>d, <1>e, <2>1, <2>2, <2>3 DEF IsTrue
<1>7. CASE \E h \in Hooks : ReceiveWebhook(h)
  <2>1. PICK h \in Hooks, e \in Events :
          thread' = [thread EXCEPT ![h] = [Idle EXCEPT !.pc = "getPayment", !.event = e]]
    BY <1>7 DEF ReceiveWebhook
  <2>2. \A t \in Threads : thread'[t].answer \in {thread[t].answer, "none"}
    BY <1>b, <2>1 DEF Idle
  <2> QED
    BY <1>7, <1>d, <1>e, <2>2 DEF ReceiveWebhook
<1>8. CASE \E h \in Hooks : GetPayment(h)
  <2>1. PICK h \in Hooks : GetPayment(h)
    BY <1>8
  <2>2. thread'[h].answer = StatusAt(refunded) /\ UNCHANGED refunded
    BY <1>b, <2>1 DEF GetPayment, ThreadRows
  <2>3. IsTrue(thread[h].answer)'
    BY <1>a, <2>2, TotalStatus DEF IsTrue
  <2>4. \A t \in Threads : t # h => thread'[t].answer = thread[t].answer
    BY <1>b, <2>1 DEF GetPayment
  <2> QED
    BY <1>d, <1>e, <2>1, <2>3, <2>4 DEF GetPayment
<1>9. CASE \E h \in Hooks : ReflectRead(h) \/ MarkProcessed(h)
  <2>1. \A t \in Threads : thread'[t].answer \in {thread[t].answer, "none"}
    BY <1>g, <1>9 DEF ReflectRead, MarkProcessed
  <2> QED
    BY <1>9, <1>d, <1>e, <2>1 DEF ReflectRead, MarkProcessed
<1>10. CASE \E h \in Hooks : ReflectCommit(h)
  <2>1. \A t \in Threads : thread'[t].answer \in {thread[t].answer, "none"}
    BY <1>g, <1>10 DEF ReflectCommit
  <2>2. IsTrue(status)'
    BY <1>10, <1>c DEF ReflectCommit, IsTrue
  <2> QED
    BY <1>e, <2>1, <2>2
<1>11. CASE \E t \in Threads : Crash(t)
  <2>1. \A t \in Threads : thread'[t].answer \in {thread[t].answer, "none"}
    BY <1>g, <1>11 DEF Crash
  <2> QED
    BY <1>11, <1>d, <1>e, <2>1 DEF Crash
<1> QED
  BY <1>1, <1>2, <1>3, <1>4, <1>5, <1>6, <1>7, <1>8, <1>9, <1>10, <1>11
     DEF Next, UserStep, AdminStep, HookStep

LEMMA StepRest == RefundInv /\ [Next]_vars => RestIsAll'
<1> SUFFICES ASSUME RefundInv, [Next]_vars PROVE RestIsAll'
  OBVIOUS
<1>a. refunded' \in refunded..Amount /\ refunded \in 0..Amount
  BY TossOnlyPays DEF RefundInv, TypeOK
<1>b. /\ reply[AdminKey] # "none" => refunded = Amount
      /\ \A k \in Keys : AmountOf[k] = 0 /\ reply[k] # "none" => refunded = Amount
  BY DEF RefundInv, RestIsAll
<1>1. CASE UNCHANGED <<refunded, reply>>
  BY <1>b, <1>1 DEF RestIsAll
<1>2. ASSUME NEW k \in AllKeys, NEW asked \in 0..Amount, NEW answer,
             TossRefund(k, asked, answer),
             k = AdminKey => asked = 0, k \in Keys => asked = AmountOf[k]
      PROVE  RestIsAll'
  <2>1. /\ \A j \in AllKeys : j # k => reply'[j] = reply[j]
        /\ reply'[k] # reply[k] /\ asked = 0 => refunded' = Amount
    BY <1>2, TossStep
  <2> QED
    BY <1>a, <1>b, <1>2, <2>1 DEF RestIsAll, AllKeys
<1>3. CASE \E u \in Users : CancelAtToss(u)
  <2>1. PICK u \in Users, answer \in RefundStatus \cup {"failed"} :
          /\ CancelAtToss(u)
          /\ TossRefund(thread[u].key, AmountOf[thread[u].key], answer)
    BY <1>3 DEF CancelAtToss
  <2>2. thread[u].key \in Keys /\ AmountOf[thread[u].key] \in 0..Amount
    BY <2>1, AmountOfAssumption DEF CancelAtToss, RefundInv, CancelHasLock, At
  <2> QED
    BY <1>2, <2>1, <2>2, KeysAssumption DEF AllKeys
<1>4. CASE \E a \in Admins : RefundAtToss(a)
  <2>1. PICK answer : TossRefund(AdminKey, 0, answer)
    BY <1>4 DEF RefundAtToss
  <2> QED
    BY <1>2, <2>1, KeysAssumption, AmountAssumption DEF AllKeys
<1> QED
  BY <1>1, <1>3, <1>4
     DEF Next, vars, UserStep, AdminStep, HookStep, CancelPayment, CancelCommit, PrepareRefund,
         FinalizeRefund, ReceiveWebhook, GetPayment, ReflectRead, ReflectCommit,
         MarkProcessed, Crash

LEMMA StepAnswered == RefundInv /\ [Next]_vars => Answered'
<1> SUFFICES ASSUME RefundInv, [Next]_vars PROVE Answered'
  OBVIOUS
<1>a. \A k \in AllKeys : reply[k] # "none" => reply'[k] = reply[k]
  BY TossOnlyPays
<1>b. thread \in [Threads -> ThreadRows] /\ cancelKeys \subseteq Keys
  BY DEF RefundInv, TypeOK, ThreadRows
<1>c. Answered
  BY DEF RefundInv
<1>d. \A u \in Users : thread[u].pc = "cancelCommit" =>
        thread[u].key \in Keys /\ reply'[thread[u].key] = thread[u].answer
  BY <1>a, <1>c DEF RefundInv, CancelHasLock, Answered, AllKeys
<1>e. Idle.pc = "idle"
  BY DEF Idle
\* Most steps touch neither the keys on record nor who has an answer.
<1>f. ASSUME UNCHANGED cancelKeys,
             \A t \in Threads : \/ thread'[t] = thread[t]
                                \/ thread'[t].pc \notin {"cancelCommit", "adminFinalize",
                                                         "reflectRead", "reflectCommit"}
      PROVE  Answered'
  BY <1>a, <1>b, <1>c, <1>d, <1>f DEF Answered, AllKeys, Threads
<1> USE RefundThreadsAssumption DEF Threads, At
<1>1. CASE UNCHANGED vars
  BY <1>1, <1>f DEF vars
<1>2. CASE \E u \in Users : CancelPayment(u)
  <2>1. PICK u \in Users, k \in Keys : thread' = [thread EXCEPT ![u] =
          [Idle EXCEPT !.pc = "cancelAtToss", !.key = k, !.canceled = recorded]]
    BY <1>2 DEF CancelPayment
  <2>2. thread'[u].pc = "cancelAtToss" /\ \A t \in Threads : t # u => thread'[t] = thread[t]
    BY <1>b, <2>1 DEF Idle
  <2> QED
    BY <1>2, <1>f, <2>2 DEF CancelPayment
<1>3. CASE \E u \in Users : CancelAtToss(u)
  <2>1. PICK u \in Users : CancelAtToss(u)
    BY <1>3
  <2>2. PICK answer \in RefundStatus \cup {"failed"} :
          /\ TossRefund(thread[u].key, AmountOf[thread[u].key], answer)
          /\ IF answer = "failed"
             THEN Return(u)
             ELSE thread' = [thread EXCEPT ![u].pc = "cancelCommit", ![u].answer = answer]
    BY <2>1 DEF CancelAtToss
  <2>3. CASE answer = "failed"
    BY <1>b, <1>e, <1>f, <2>1, <2>2, <2>3 DEF Return, CancelAtToss
  <2>4. CASE answer # "failed"
    <3>1. thread[u].key \in AllKeys /\ AmountOf[thread[u].key] \in 0..Amount
      BY <2>1, AmountOfAssumption DEF CancelAtToss, RefundInv, CancelHasLock, AllKeys
    <3>2. reply'[thread[u].key] # "none" /\ answer = reply'[thread[u].key]
      BY <2>2, <2>4, <3>1, TossStep
    <3>3. thread'[u].key = thread[u].key /\ thread'[u].answer = answer
      BY <1>b, <2>2, <2>4 DEF ThreadRows
    <3>4. \A t \in Threads : t # u => thread'[t] = thread[t]
      BY <1>b, <2>2, <2>4
    <3>5. UNCHANGED cancelKeys
      BY <2>1 DEF CancelAtToss
    <3> QED
      BY <1>a, <1>b, <1>c, <1>d, <3>2, <3>3, <3>4, <3>5 DEF Answered, AllKeys
  <2> QED
    BY <2>3, <2>4
<1>4. CASE \E u \in Users : CancelCommit(u)
  <2>1. PICK u \in Users : CancelCommit(u)
    BY <1>4
  <2>2. reply[thread[u].key] # "none"
    BY <2>1, <1>c DEF CancelCommit, Answered
  <2>3. cancelKeys' = cancelKeys \cup {thread[u].key} /\ UNCHANGED reply
    BY <2>1 DEF CancelCommit
  <2>4. thread'[u].pc = "idle" /\ \A t \in Threads : t # u => thread'[t] = thread[t]
    BY <1>b, <1>e, <2>1 DEF CancelCommit, Return
  <2> QED
    BY <1>c, <2>2, <2>3, <2>4 DEF Answered
<1>5. CASE \E a \in Admins : PrepareRefund(a)
  BY <1>b, <1>f, <1>5 DEF PrepareRefund, Goto, ThreadRows
<1>6. CASE \E a \in Admins : RefundAtToss(a)
  <2>1. PICK a \in Admins : RefundAtToss(a)
    BY <1>6
  <2>2. PICK answer : TossRefund(AdminKey, 0, answer)
                      /\ IF answer = "failed" THEN Return(a) ELSE Goto(a, "adminFinalize")
    BY <2>1 DEF RefundAtToss
  <2>3. CASE answer = "failed"
    BY <1>b, <1>e, <1>f, <2>1, <2>2, <2>3 DEF Return, RefundAtToss
  <2>4. CASE answer # "failed"
    <3>1. reply'[AdminKey] # "none"
      BY <2>2, <2>4, TossStep, AmountAssumption DEF AllKeys
    <3>2. \A t \in Threads : t # a => thread'[t] = thread[t]
      BY <1>b, <2>2, <2>4 DEF Goto
    <3>3. UNCHANGED cancelKeys
      BY <2>1 DEF RefundAtToss
    <3> QED
      BY <1>a, <1>b, <1>c, <1>d, <3>1, <3>2, <3>3 DEF Answered, AllKeys
  <2> QED
    BY <2>3, <2>4
<1>7. CASE \E a \in Admins : FinalizeRefund(a)
  BY <1>b, <1>e, <1>f, <1>7 DEF FinalizeRefund, Return
<1>8. CASE \E h \in Hooks : ReceiveWebhook(h)
  <2>1. PICK h \in Hooks, e \in Events :
          thread' = [thread EXCEPT ![h] = [Idle EXCEPT !.pc = "getPayment", !.event = e]]
    BY <1>8 DEF ReceiveWebhook
  <2>2. thread'[h].pc = "getPayment" /\ \A t \in Threads : t # h => thread'[t] = thread[t]
    BY <1>b, <2>1 DEF Idle
  <2> QED
    BY <1>8, <1>f, <2>2 DEF ReceiveWebhook
<1>9. CASE \E h \in Hooks : GetPayment(h)
  <2>1. PICK h \in Hooks : GetPayment(h)
    BY <1>9
  <2>2. thread'[h].answer = StatusAt(refunded)
    BY <1>b, <2>1 DEF GetPayment, ThreadRows
  <2>3. StatusAt(refunded) # "none"
    BY TotalStatus DEF RefundInv, TypeOK, RefundStatus
  <2>4. \A t \in Threads : t # h => thread'[t] = thread[t]
    BY <1>b, <2>1 DEF GetPayment
  <2>5. UNCHANGED <<cancelKeys, reply>>
    BY <2>1 DEF GetPayment
  <2> QED
    BY <1>c, <2>2, <2>3, <2>4, <2>5 DEF Answered
<1>10. CASE \E h \in Hooks : ReflectRead(h)
  <2>1. PICK h \in Hooks : ReflectRead(h)
    BY <1>10
  <2>2. \/ Return(h)
        \/ Goto(h, "markProcessed")
        \/ Goto(h, "reflectCommit")
    BY <2>1 DEF ReflectRead
  <2>3. thread[h].answer # "none"
    BY <1>c, <2>1 DEF ReflectRead, Answered
  <2>4. UNCHANGED <<cancelKeys, reply>>
    BY <2>1 DEF ReflectRead
  <2>5. /\ thread'[h].answer # "none" \/ thread'[h].pc = "idle"
        /\ \A t \in Threads : t # h => thread'[t] = thread[t]
    BY <1>b, <1>e, <2>2, <2>3 DEF Return, Goto, ThreadRows
  <2> QED
    BY <1>c, <2>4, <2>5 DEF Answered
<1>11. CASE \E h \in Hooks : ReflectCommit(h)
  BY <1>b, <1>f, <1>11 DEF ReflectCommit, Goto, ThreadRows
<1>12. CASE \E h \in Hooks : MarkProcessed(h)
  BY <1>b, <1>e, <1>f, <1>12 DEF MarkProcessed, Return
<1>13. CASE \E t \in Threads : Crash(t)
  BY <1>b, <1>e, <1>f, <1>13 DEF Crash, Return
<1> QED
  BY <1>1, <1>2, <1>3, <1>4, <1>5, <1>6, <1>7, <1>8, <1>9, <1>10, <1>11, <1>12, <1>13
     DEF Next, UserStep, AdminStep, HookStep

-----------------------------------------------------------------------------
(* Who the units were paid for.                                              *)

LEMMA UnitsAreFinite ==
  ASSUME NEW owner, NEW total \in Nat, NEW keys
  PROVE  /\ IsFiniteSet(UnitsOf(owner, total, keys))
         /\ Cardinality(UnitsOf(owner, total, keys)) \in 0..total
<1>1. IsFiniteSet(1..total) /\ Cardinality(1..total) = total
  BY FS_Interval
<1>2. UnitsOf(owner, total, keys) \in SUBSET (1..total)
  BY DEF UnitsOf
<1> QED
  BY <1>1, <1>2, FS_Subset, FS_CardinalityType

LEMMA OfBoth ==
  ASSUME NEW S, NEW T, IsFiniteSet(S), IsFiniteSet(T), S \cap T = {}
  PROVE  Cardinality(S \cup T) = Cardinality(S) + Cardinality(T)
<1>1. Cardinality(S) \in Nat /\ Cardinality(T) \in Nat
  BY FS_CardinalityType
<1>2. Cardinality(S \cap T) = 0
  BY FS_EmptySet
<1>3. Cardinality(S \cup T) = Cardinality(S) + Cardinality(T) - Cardinality(S \cap T)
  BY FS_Union
<1> QED
  BY <1>1, <1>2, <1>3

\* A key's own units come on top of those of other keys.
LEMMA OneKeyMore ==
  ASSUME NEW owner, NEW total \in Nat, NEW keys, NEW k, k \notin keys
  PROVE  Cardinality(UnitsOf(owner, total, keys \cup {k})) =
           Cardinality(UnitsOf(owner, total, keys)) + Cardinality(UnitsOf(owner, total, {k}))
<1> DEFINE old == UnitsOf(owner, total, keys)
           new == UnitsOf(owner, total, {k})
<1>1. IsFiniteSet(old) /\ IsFiniteSet(new)
  BY UnitsAreFinite
<1>2. UnitsOf(owner, total, keys \cup {k}) = old \cup new
  BY DEF UnitsOf
<1>3. old \cap new = {}
  BY DEF UnitsOf
<1>4. Cardinality(old \cup new) = Cardinality(old) + Cardinality(new)
  <2> HIDE DEF old, new
  <2> QED
    BY <1>1, <1>3, OfBoth
<1> QED
  BY <1>2, <1>4

\* A refund of asked units gives them to its key and leaves the others alone.
PaidFor(more, owner, total, asked, k) ==
  /\ more \in [1..(total + asked) -> Keys]
  /\ Cardinality(UnitsOf(more, total + asked, {k})) = asked
  /\ \A keys : k \notin keys =>
       UnitsOf(more, total + asked, keys) = UnitsOf(owner, total, keys)

LEMMA Paid ==
  ASSUME NEW total \in Nat, NEW owner, owner \in [1..total -> Keys], NEW k \in Keys,
         NEW asked \in Nat, Cardinality(UnitsOf(owner, total, {k})) = 0
  PROVE  \E more : PaidFor(more, owner, total, asked, k)
<1> DEFINE more == [i \in 1..(total + asked) |-> IF i <= total THEN owner[i] ELSE k]
<1>1. more \in [1..(total + asked) -> Keys]
  OBVIOUS
<1>2. UnitsOf(owner, total, {k}) = {}
  BY UnitsAreFinite, FS_EmptySet
<1>3. UnitsOf(more, total + asked, {k}) = (total + 1)..(total + asked)
  <2>1. \A i \in 1..total : owner[i] # k
    BY <1>2 DEF UnitsOf
  <2> QED
    BY <2>1 DEF UnitsOf
<1>4. Cardinality((total + 1)..(total + asked)) = asked
  BY FS_Interval
<1>5. \A keys : k \notin keys => UnitsOf(more, total + asked, keys) = UnitsOf(owner, total, keys)
  BY DEF UnitsOf
<1> HIDE DEF more
<1>6. PaidFor(more, owner, total, asked, k)
  BY <1>1, <1>3, <1>4, <1>5 DEF PaidFor
<1> QED
  BY <1>6

LEMMA StepOwners == RefundInv /\ [Next]_vars => UnitsHaveOwners'
<1> SUFFICES ASSUME RefundInv, [Next]_vars, refunded' < Amount
             PROVE  \E owner \in [1..refunded' -> Keys] : Owns(owner)'
  BY DEF UnitsHaveOwners
<1>a. refunded \in Nat /\ refunded' \in Nat /\ refunded < Amount
  BY TossOnlyPays, AmountAssumption DEF RefundInv, TypeOK
<1>b. PICK owner \in [1..refunded -> Keys] : Owns(owner)
  BY <1>a DEF RefundInv, UnitsHaveOwners
<1>c. cancelKeys \subseteq Keys /\ reply \in [AllKeys -> RefundStatus \cup {"none"}]
  BY DEF RefundInv, TypeOK, AllKeys
<1>d. AmountOf \in [Keys -> Nat]
  BY AmountOfAssumption, AmountAssumption
<1>1. CASE UNCHANGED <<refunded, reply, recorded, cancelKeys>>
  BY <1>b, <1>1 DEF Owns
<1>2. CASE \E u \in Users : CancelAtToss(u)
  <2>1. PICK u \in Users, answer \in RefundStatus \cup {"failed"} :
          /\ CancelAtToss(u)
          /\ TossRefund(thread[u].key, AmountOf[thread[u].key], answer)
    BY <1>2 DEF CancelAtToss
  <2> DEFINE k == thread[u].key
  <2>2. k \in Keys
    BY <2>1 DEF CancelAtToss, RefundInv, CancelHasLock, At
  <2>3. UNCHANGED <<recorded, cancelKeys>>
    BY <2>1 DEF CancelAtToss
  <2>4. CASE UNCHANGED <<refunded, reply>>
    BY <1>b, <2>3, <2>4 DEF Owns
  <2>5. CASE /\ reply[k] = "none"
             /\ refunded' = IF AmountOf[k] = 0 THEN Amount ELSE refunded + AmountOf[k]
             /\ reply' = [reply EXCEPT ![k] = StatusAt(refunded')]
    <3>1. refunded' = refunded + AmountOf[k]
      BY <1>a, <2>5
    <3>2. StatusAt(refunded') # "none"
      BY <1>a, TotalStatus, AmountAssumption DEF RefundStatus
    <3>3. /\ reply'[k] # "none"
          /\ \A j \in Keys : j # k => reply'[j] = reply[j]
      BY <1>c, <2>2, <2>5, <3>2 DEF AllKeys
    <3>4. Cardinality(UnitsOf(owner, refunded, {k})) = 0
      BY <1>b, <2>2, <2>5 DEF Owns
    <3>5. PICK more \in [1..refunded' -> Keys] :
            /\ Cardinality(UnitsOf(more, refunded', {k})) = AmountOf[k]
            /\ \A keys : k \notin keys =>
                 UnitsOf(more, refunded', keys) = UnitsOf(owner, refunded, keys)
      <4> HIDE DEF k
      <4>1. AmountOf[k] \in Nat
        BY <1>d, <2>2
      <4>2. PICK more : PaidFor(more, owner, refunded, AmountOf[k], k)
        BY <1>a, <1>b, <2>2, <3>4, <4>1, Paid
      <4> QED
        BY <3>1, <4>2 DEF PaidFor
    <3>6. k \notin cancelKeys
      BY <2>5 DEF RefundInv, Answered
    <3>7. recorded' = Cardinality(UnitsOf(more, refunded', cancelKeys'))
      BY <1>b, <2>3, <3>5, <3>6 DEF Owns
    <3>8. \A j \in Keys : Cardinality(UnitsOf(more, refunded', {j})) =
                            IF reply'[j] = "none" THEN 0 ELSE AmountOf[j]
      <4> SUFFICES ASSUME NEW j \in Keys
                   PROVE  Cardinality(UnitsOf(more, refunded', {j})) =
                            IF reply'[j] = "none" THEN 0 ELSE AmountOf[j]
        OBVIOUS
      <4>1. CASE j = k
        BY <3>3, <3>5, <4>1
      <4>2. CASE j # k
        <5>1. UnitsOf(more, refunded', {j}) = UnitsOf(owner, refunded, {j})
          BY <3>5, <4>2
        <5> QED
          BY <1>b, <3>3, <4>2, <5>1 DEF Owns
      <4> QED
        BY <4>1, <4>2
    <3> QED
      BY <3>7, <3>8 DEF Owns
  <2> QED
    BY <2>1, <2>4, <2>5 DEF TossRefund
<1>3. CASE \E u \in Users : CancelCommit(u)
  <2>1. PICK u \in Users : CancelCommit(u)
    BY <1>3
  <2> DEFINE k == thread[u].key
  <2>2. k \in Keys \ cancelKeys /\ thread[u].pc = "cancelCommit"
    BY <2>1 DEF CancelCommit, RefundInv, CancelHasLock, At
  <2>3. reply[k] # "none"
    BY <2>1, <2>2 DEF RefundInv, Answered
  <2>4. recorded' = recorded + AmountOf[k]
    BY <1>a, <2>1, <2>2, <2>3 DEF CancelCommit, ResolvedAmount, RefundInv, RestIsAll
  <2>5. cancelKeys' = cancelKeys \cup {k} /\ UNCHANGED <<refunded, reply>>
    BY <2>1 DEF CancelCommit
  <2>6. Cardinality(UnitsOf(owner, refunded, {k})) = AmountOf[k]
    BY <1>b, <2>2, <2>3 DEF Owns
  <2>7. Cardinality(UnitsOf(owner, refunded, cancelKeys \cup {k})) = recorded + AmountOf[k]
    BY <1>a, <1>b, <2>2, <2>6, OneKeyMore DEF Owns
  <2> QED
    BY <1>b, <2>4, <2>5, <2>7 DEF Owns
<1>4. CASE \E a \in Admins : RefundAtToss(a)
  <2>1. PICK answer : TossRefund(AdminKey, 0, answer)
    BY <1>4 DEF RefundAtToss
  <2>2. UNCHANGED <<refunded, reply>>
    BY <1>a, <2>1 DEF TossRefund
  <2> QED
    BY <1>b, <1>4, <2>2 DEF Owns, RefundAtToss
<1>5. CASE \E a \in Admins : FinalizeRefund(a)
  <2>1. refunded = Amount
    BY <1>5 DEF FinalizeRefund, RefundInv, Answered, RestIsAll, At
  <2> QED
    BY <1>a, <2>1, AmountAssumption
<1> QED
  BY <1>1, <1>2, <1>3, <1>4, <1>5
     DEF Next, vars, UserStep, AdminStep, HookStep, CancelPayment, PrepareRefund,
         ReceiveWebhook, GetPayment, ReflectRead, ReflectCommit, MarkProcessed, Crash

-----------------------------------------------------------------------------

LEMMA RefundInvariant == Spec => []RefundInv
<1>1. RefundInv /\ [Next]_vars => RefundInv'
  BY StepType, StepLock, StepTrue, StepAnswered, StepRest, StepOwners DEF RefundInv
<1> QED
  BY InitRefund, <1>1, PTL DEF Spec

\* The rows of the payment, the answers kept and the threads are of their types,
\* whatever the interleaving of the requests (Payment, PaymentCancel).
THEOREM RefundTypeCorrect == Spec => []TypeOK
<1>1. RefundInv => TypeOK
  BY DEF RefundInv
<1> QED
  BY <1>1, RefundInvariant, PTL

\* The cancels on record never add up to more than Toss has paid back, for any
\* number of requests, repeated keys, partial amounts and crashes.
THEOREM BooksFollowToss == Spec => []BooksNotAheadOfToss
<1>1. RefundInv => BooksNotAheadOfToss
  <2> SUFFICES ASSUME RefundInv PROVE recorded <= refunded
    BY DEF BooksNotAheadOfToss
  <2>1. recorded \in 0..Amount /\ refunded \in 0..Amount
    BY DEF RefundInv, TypeOK
  <2>2. CASE refunded < Amount
    <3>1. PICK owner : recorded = Cardinality(UnitsOf(owner, refunded, cancelKeys))
      BY <2>2 DEF RefundInv, UnitsHaveOwners, Owns
    <3> QED
      BY <2>1, <3>1, UnitsAreFinite, AmountAssumption
  <2> QED
    BY <2>1, <2>2, AmountAssumption
<1> QED
  BY <1>1, RefundInvariant, PTL

\* A payment shown as canceled has been paid back, in full or in part as shown,
\* whoever wrote the status last.
THEOREM CanceledIsRefunded == Spec => []CanceledMeansRefunded
<1>1. RefundInv => CanceledMeansRefunded
  BY DEF RefundInv, AnswersAreTrue, IsTrue, CanceledMeansRefunded
<1> QED
  BY <1>1, RefundInvariant, PTL
=============================================================================
