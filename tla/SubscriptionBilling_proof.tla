---------------------- MODULE SubscriptionBilling_proof ----------------------
(***************************************************************************)
(* The safety invariants of SubscriptionBilling, for any number of          *)
(* subscriptions, orders, requests and schedulers, any period, any bound on *)
(* the clock and any number of crashes; and that with one scheduler it      *)
(* implements PeriodLedger.                                                 *)
(***************************************************************************)
EXTENDS SubscriptionBilling, FiniteSetTheorems, TLAPS

-----------------------------------------------------------------------------
(* Rows *)

\* Every method of the entity turns a row into a row.
LEMMA RowTypes ==
  /\ NoRow \in Row
  /\ Created \in Row
  /\ \A row \in Row :
       /\ BeginAuthorization(row) \in Row
       /\ ResetAuthorization(row) \in Row
       /\ Cancel(row) \in Row
       /\ ScheduleCancelAtPeriodEnd(row) \in Row
       /\ CanceledByUser(row) \in Row
  /\ \A row \in Row, at \in Nat :
       /\ Renew(row, at) \in Row
       /\ Activate(row, at) \in Row
       /\ MarkPastDue(row, at) \in Row
<1>1. NoRow \in Row /\ Created \in Row
  BY DEF NoRow, Created, Row, SubscriptionStatus, NoTime
<1>2. ASSUME NEW row \in Row
      PROVE  /\ BeginAuthorization(row) \in Row
             /\ ResetAuthorization(row) \in Row
  BY DEF BeginAuthorization, ResetAuthorization, Row, SubscriptionStatus
<1>3. ASSUME NEW row \in Row
      PROVE  /\ Cancel(row) \in Row
             /\ ScheduleCancelAtPeriodEnd(row) \in Row
             /\ CanceledByUser(row) \in Row
  BY DEF Cancel, ScheduleCancelAtPeriodEnd, CanceledByUser, Row,
         SubscriptionStatus, NoTime
<1>4. ASSUME NEW row \in Row, NEW at \in Nat
      PROVE  /\ Renew(row, at) \in Row
             /\ Activate(row, at) \in Row
  <2>1. at + Period \in Nat
    BY PeriodAssumption
  <2> QED
    BY <2>1 DEF Renew, Activate, Row, SubscriptionStatus, NoTime
<1>5. ASSUME NEW row \in Row, NEW at \in Nat
      PROVE  MarkPastDue(row, at) \in Row
  <2>1. row.failedAttemptCount + 1 \in Nat
    BY DEF Row
  <2> QED
    BY <2>1 DEF MarkPastDue, Row, SubscriptionStatus
<1> QED
  BY <1>1, <1>2, <1>3, <1>4, <1>5

\* So does the end of a failed charge.
LEMMA AfterFailureType ==
  ASSUME NEW row \in Row, now \in Nat
  PROVE  AfterFailure(row) \in Row
<1>1. MarkPastDue(row, now + 1) \in Row
  BY RowTypes
<1>2. Cancel(MarkPastDue(row, now + 1)) \in Row
  BY <1>1, RowTypes
<1> QED
  BY <1>1, <1>2 DEF AfterFailure

-----------------------------------------------------------------------------
(* Threads *)

\* The steps at which a thread holds an order.
OrderPc == {"finalizeFirstCharge", "confirmPayment", "confirmRead", "confirmCommit",
            "executeBilling", "finalizeRead", "finalizeCommit"}

\* What the program counter of a thread says of its local variables.
LocalsOK ==
  \A t \in Threads :
    /\ thread[t].pc \notin {"idle", "createSubscription"} => thread[t].sub \in Subs
    /\ thread[t].pc \in OrderPc => thread[t].order \in Orders

Typed == TypeOK /\ LocalsOK

\* A thread goes from one step to the next with typed local variables.
LEMMA GotoType ==
  ASSUME Typed,
         NEW t \in Threads,
         NEW pc \in RequestPc \cup SchedulerPc,
         NEW s \in Subs \cup {NoSub},
         NEW row \in Row,
         NEW o \in Orders \cup {NoOrder},
         NEW ok \in BOOLEAN,
         pc # "createSubscription" => s \in Subs,
         pc \in OrderPc => o \in Orders,
         Goto(t, pc, s, row, o, ok)
  PROVE  thread' \in [Threads -> ThreadState] /\ LocalsOK'
<1>1. thread \in [Threads -> ThreadState]
  BY DEF Typed, TypeOK
<1>2. thread' \in [Threads -> ThreadState]
  BY <1>1 DEF Goto, ThreadState
<1>3. LocalsOK'
  BY <1>1 DEF Typed, LocalsOK, Goto
<1> QED
  BY <1>2, <1>3

\* So it does when it ends.
LEMMA ReturnType ==
  ASSUME Typed, NEW t \in Threads, Return(t)
  PROVE  thread' \in [Threads -> ThreadState] /\ LocalsOK'
<1>1. Idle \in ThreadState
  BY RowTypes DEF Idle, ThreadState
<1>2. thread \in [Threads -> ThreadState]
  BY DEF Typed, TypeOK
<1>3. LocalsOK'
  BY <1>2 DEF Typed, LocalsOK, Return, Idle, OrderPc
<1> QED
  BY <1>1, <1>2, <1>3 DEF Return

\* The local variables of a thread between two steps.
LEMMA LocalTypes ==
  ASSUME Typed, NEW t \in Threads
  PROVE  /\ thread[t].row \in Row
         /\ thread[t].ok \in BOOLEAN
         /\ thread[t].pc \notin {"idle", "createSubscription"} =>
              /\ thread[t].sub \in Subs
              /\ subscription[thread[t].sub] \in Row
         /\ thread[t].pc \in OrderPc =>
              /\ thread[t].order \in Orders
              /\ order[thread[t].order].start \in Nat
<1>1. thread[t] \in ThreadState
  BY DEF Typed, TypeOK
<1>2. \A o \in Orders : order[o].start \in Nat
  BY DEF Typed, TypeOK, OrderRecord
<1> QED
  BY <1>1, <1>2 DEF Typed, TypeOK, LocalsOK, ThreadState

\* Writing a row keeps the table a table of rows.
LEMMA WriteType ==
  ASSUME Typed, NEW s \in Subs, NEW row \in Row, Write(s, row)
  PROVE  subscription' \in [Subs -> Row]
BY DEF Typed, TypeOK, Write

\* So does a write the index may refuse.
LEMMA SaveType ==
  ASSUME Typed, NEW s \in Subs, NEW row \in Row, Save(s, row)
  PROVE  subscription' \in [Subs -> Row]
BY WriteType DEF Save, Typed, TypeOK

-----------------------------------------------------------------------------
(* Types *)

\* The initial state is well typed.
LEMMA InitType == Init => Typed
<1>1. NoRow \in Row
  BY RowTypes
<1>2. Idle \in ThreadState
  BY <1>1 DEF Idle, ThreadState
<1>3. NoRun \in RunState
  BY DEF NoRun, RunState, NoTime
<1>4. Unused \in OrderRecord
  BY DEF Unused, OrderRecord, OrderKind, NoTime
<1> SUFFICES ASSUME Init PROVE Typed
  OBVIOUS
<1>5. /\ subscription \in [Subs -> Row]
      /\ order \in [Orders -> OrderRecord]
      /\ thread \in [Threads -> ThreadState]
      /\ run \in [Schedulers -> RunState]
  BY <1>1, <1>2, <1>3, <1>4 DEF Init
<1>6. payment \in [Orders -> PaymentStatus]
  BY DEF Init, PaymentStatus
<1>7. now \in Nat \ {NoTime} /\ crashes \in Nat
  BY DEF Init, NoTime
<1>8. LocalsOK
  BY DEF Init, LocalsOK, Idle, OrderPc
<1> QED
  BY <1>5, <1>6, <1>7, <1>8 DEF Init, Typed, TypeOK

\* What a request begins is well typed.
LEMMA ArrivalType ==
  ASSUME Typed, NEW r \in Requests, RequestArrives(r)
  PROVE  Typed'
<1>0. r \in Threads
  BY DEF Threads
<1>1. CASE CreateSubscription(r)
  BY <1>0, <1>1, GotoType, RowTypes
     DEF CreateSubscription, Typed, TypeOK, RequestPc, OrderPc
<1>2. CASE CancelSubscription(r)
  <2>1. PICK s \in Subs : Goto(r, "cancelSubscription", s, subscription[s], NoOrder, FALSE)
    BY <1>2 DEF CancelSubscription
  <2>2. subscription[s] \in Row
    BY DEF Typed, TypeOK
  <2> QED
    BY <1>0, <1>2, <2>1, <2>2, GotoType
       DEF CancelSubscription, Typed, TypeOK, RequestPc, OrderPc
<1>3. CASE ClaimBillingAuthorization(r)
  <2>1. PICK s \in Subs : /\ Write(s, BeginAuthorization(subscription[s]))
                          /\ Goto(r, "issueBillingKey", s, NoRow, NoOrder, FALSE)
    BY <1>3 DEF ClaimBillingAuthorization
  <2>2. BeginAuthorization(subscription[s]) \in Row
    BY RowTypes DEF Typed, TypeOK
  <2>3. thread' \in [Threads -> ThreadState] /\ LocalsOK'
    BY <1>0, <2>1, GotoType, RowTypes DEF RequestPc, OrderPc
  <2> QED
    BY <1>3, <2>1, <2>2, <2>3, WriteType DEF ClaimBillingAuthorization, Typed, TypeOK
<1>4. CASE ConfirmPayment(r)
  <2>1. PICK s \in Subs, o \in Orders :
          /\ \/ order' = [order EXCEPT ![o] = [kind |-> "widget", sub |-> s, start |-> NoTime]]
             \/ UNCHANGED order
          /\ Goto(r, "confirmPayment", s, NoRow, o, FALSE)
    BY <1>4 DEF ConfirmPayment
  <2>2. order' \in [Orders -> OrderRecord]
    BY <2>1 DEF Typed, TypeOK, OrderRecord, OrderKind, NoTime
  <2>3. thread' \in [Threads -> ThreadState] /\ LocalsOK'
    BY <1>0, <2>1, GotoType, RowTypes DEF RequestPc
  <2> QED
    BY <1>4, <2>2, <2>3 DEF ConfirmPayment, Typed, TypeOK
<1> QED
  BY <1>1, <1>2, <1>3, <1>4 DEF RequestArrives

\* What a request goes on with is well typed.
LEMMA RequestType ==
  ASSUME Typed, NEW r \in Requests, RequestStep(r)
  PROVE  Typed'
<1> DEFINE s == thread[r].sub
           o == thread[r].order
           row == thread[r].row
<1>0. r \in Threads
  BY DEF Threads
<1>1. CASE SaveNewSubscription(r)
  <2>1. subscription' \in [Subs -> Row]
    BY <1>1, RowTypes, WriteType DEF SaveNewSubscription, Typed, TypeOK
  <2> QED
    BY <1>0, <1>1, <2>1, ReturnType DEF SaveNewSubscription, Typed, TypeOK
<1>2. CASE CancelSubscriptionCommit(r)
  <2>1. s \in Subs /\ CanceledByUser(row) \in Row
    BY <1>0, <1>2, LocalTypes, RowTypes DEF CancelSubscriptionCommit, At
  <2>2. subscription' \in [Subs -> Row]
    BY <1>2, <2>1, SaveType DEF CancelSubscriptionCommit, Typed, TypeOK
  <2> QED
    BY <1>0, <1>2, <2>2, ReturnType DEF CancelSubscriptionCommit, Typed, TypeOK
<1>3. CASE IssueBillingKey(r)
  <2>1. s \in Subs
    BY <1>0, <1>3, LocalTypes DEF IssueBillingKey, At
  <2>2. thread' \in [Threads -> ThreadState] /\ LocalsOK'
    BY <1>0, <1>3, <2>1, GotoType, ReturnType, RowTypes
       DEF IssueBillingKey, RequestPc, OrderPc
  <2>3. hasBillingKey' \in BOOLEAN
    BY <1>3 DEF IssueBillingKey, Typed, TypeOK
  <2> QED
    BY <1>3, <2>2, <2>3 DEF IssueBillingKey, Typed, TypeOK
<1>4. CASE FirstCharge(r)
  <2>1. s \in Subs
    BY <1>0, <1>4, LocalTypes DEF FirstCharge, At
  <2>2. PICK x \in Orders, answer \in {"done", "notDone", "failed"} :
          /\ TossCharge(x, answer)
          /\ \/ order' = [order EXCEPT ![x] = [kind |-> "first", sub |-> s, start |-> now]]
             \/ UNCHANGED order
          /\ \/ Goto(r, "resetAuthorization", s, NoRow, NoOrder, FALSE)
             \/ Goto(r, "finalizeFirstCharge", s, NoRow, x, answer = "done")
    BY <1>4 DEF FirstCharge
  <2>3. approved' \in SUBSET Orders
    BY <2>2 DEF TossCharge, Typed, TypeOK
  <2>4. order' \in [Orders -> OrderRecord]
    BY <2>1, <2>2 DEF Typed, TypeOK, OrderRecord, OrderKind
  <2>5. thread' \in [Threads -> ThreadState] /\ LocalsOK'
    BY <1>0, <2>1, <2>2, GotoType, RowTypes DEF RequestPc, OrderPc
  <2> QED
    BY <1>4, <2>3, <2>4, <2>5 DEF FirstCharge, Typed, TypeOK
<1>5. CASE FinalizeFirstCharge(r)
  <2>1. s \in Subs /\ subscription[s] \in Row /\ order[o].start \in Nat
    BY <1>0, <1>5, LocalTypes DEF FinalizeFirstCharge, At, OrderPc
  <2>2. /\ Activate(subscription[s], order[o].start) \in Row
        /\ ResetAuthorization(subscription[s]) \in Row
    BY <2>1, RowTypes
  <2>3. subscription' \in [Subs -> Row]
    BY <1>5, <2>1, <2>2, WriteType DEF FinalizeFirstCharge, Typed, TypeOK
  <2>4. payment' \in [Orders -> PaymentStatus]
    BY <1>5 DEF FinalizeFirstCharge, Typed, TypeOK, PaymentStatus
  <2> QED
    BY <1>0, <1>5, <2>3, <2>4, ReturnType DEF FinalizeFirstCharge, Typed, TypeOK
<1>6. CASE ResetBillingAuthorization(r)
  <2>1. s \in Subs /\ ResetAuthorization(subscription[s]) \in Row
    BY <1>0, <1>6, LocalTypes, RowTypes DEF ResetBillingAuthorization, At
  <2>2. subscription' \in [Subs -> Row]
    BY <1>6, <2>1, WriteType DEF ResetBillingAuthorization, Typed, TypeOK
  <2> QED
    BY <1>0, <1>6, <2>2, ReturnType DEF ResetBillingAuthorization, Typed, TypeOK
<1>7. CASE ConfirmAtToss(r)
  <2>1. s \in Subs /\ o \in Orders
    BY <1>0, <1>7, LocalTypes DEF ConfirmAtToss, At, OrderPc
  <2>2. approved' \in SUBSET Orders
    BY <1>7, <2>1 DEF ConfirmAtToss, TossCharge, Typed, TypeOK
  <2>3. PICK answer \in {"done", "notDone", "failed"} :
          \/ Return(r)
          \/ Goto(r, "confirmRead", s, NoRow, o, answer = "done")
    BY <1>7 DEF ConfirmAtToss
  <2>4. thread' \in [Threads -> ThreadState] /\ LocalsOK'
    BY <1>0, <2>1, <2>3, GotoType, ReturnType, RowTypes DEF RequestPc
  <2> QED
    BY <1>7, <2>2, <2>4 DEF ConfirmAtToss, Typed, TypeOK
<1>8. CASE ConfirmRead(r)
  <2>1. /\ s \in Subs /\ subscription[s] \in Row
        /\ o \in Orders /\ thread[r].ok \in BOOLEAN
    BY <1>0, <1>8, LocalTypes DEF ConfirmRead, At, OrderPc
  <2>2. thread' \in [Threads -> ThreadState] /\ LocalsOK'
    BY <1>0, <1>8, <2>1, GotoType, ReturnType DEF ConfirmRead, RequestPc
  <2> QED
    BY <1>8, <2>2 DEF ConfirmRead, Typed, TypeOK
<1>9. CASE ConfirmCommit(r)
  <2>1. s \in Subs /\ row \in Row
    BY <1>0, <1>9, LocalTypes DEF ConfirmCommit, At
  <2>2. now \in Nat
    BY DEF Typed, TypeOK
  <2>3. subscription' \in [Subs -> Row]
    BY <1>9, <2>1, <2>2, WriteType, RowTypes DEF ConfirmCommit, Typed, TypeOK
  <2>4. order' \in [Orders -> OrderRecord]
    BY <1>9, <2>1, <2>2 DEF ConfirmCommit, Typed, TypeOK, OrderRecord, OrderKind, NoTime
  <2>5. payment' \in [Orders -> PaymentStatus]
    BY <1>9 DEF ConfirmCommit, Typed, TypeOK, PaymentStatus
  <2> QED
    BY <1>0, <1>9, <2>3, <2>4, <2>5, ReturnType DEF ConfirmCommit, Typed, TypeOK
<1> QED
  BY <1>1, <1>2, <1>3, <1>4, <1>5, <1>6, <1>7, <1>8, <1>9 DEF RequestStep

\* A scheduler's pass over its lists is well typed.
LEMMA RunType ==
  ASSUME Typed, NEW w \in Schedulers,
         \/ StartRun(w) \/ NextQuery(w)
         \/ \E s \in Subs : Take(w, s)
  PROVE  run' \in [Schedulers -> RunState]
<1>0. run \in [Schedulers -> RunState] /\ now \in Nat
  BY DEF Typed, TypeOK
<1>1. CASE StartRun(w)
  BY <1>0, <1>1 DEF StartRun, RunState
<1>2. CASE NextQuery(w)
  <2>1. NoRun \in RunState
    BY DEF NoRun, RunState, NoTime
  <2> QED
    BY <1>0, <1>2, <2>1 DEF NextQuery, RunState
<1>3. CASE \E s \in Subs : Take(w, s)
  BY <1>0, <1>3 DEF Take, RunState
<1> QED
  BY <1>1, <1>2, <1>3

\* What a scheduler does is well typed.
LEMMA SchedulerType ==
  ASSUME Typed, NEW w \in Schedulers, SchedulerStep(w)
  PROVE  Typed'
<1> DEFINE s == thread[w].sub
           o == thread[w].order
           row == thread[w].row
<1>0. w \in Threads
  BY DEF Threads
<1>00. run \in [Schedulers -> RunState]
  BY DEF Typed, TypeOK
<1>1. CASE StartRun(w)
  BY <1>1, RunType DEF StartRun, Typed, TypeOK, LocalsOK
<1>2. CASE NextQuery(w)
  BY <1>2, RunType DEF NextQuery, Typed, TypeOK, LocalsOK
<1>3. CASE CancelExpiring(w)
  <2>1. PICK x \in run[w].todo :
          /\ Take(w, x)
          /\ \/ Goto(w, "cancelExpiring", x, subscription[x], NoOrder, FALSE)
             \/ UNCHANGED thread
    BY <1>3 DEF CancelExpiring
  <2>2. x \in Subs /\ subscription[x] \in Row
    BY <1>00 DEF RunState, Typed, TypeOK
  <2>3. thread' \in [Threads -> ThreadState] /\ LocalsOK'
    BY <1>0, <2>1, <2>2, GotoType DEF SchedulerPc, OrderPc, Typed, TypeOK, LocalsOK
  <2>4. run' \in [Schedulers -> RunState]
    BY <2>1, <2>2, RunType
  <2> QED
    BY <1>3, <2>3, <2>4 DEF CancelExpiring, Typed, TypeOK
<1>4. CASE CancelExpiringCommit(w)
  <2>1. s \in Subs /\ Cancel(row) \in Row
    BY <1>0, <1>4, LocalTypes, RowTypes DEF CancelExpiringCommit, At
  <2>2. subscription' \in [Subs -> Row]
    BY <1>4, <2>1, SaveType DEF CancelExpiringCommit
  <2> QED
    BY <1>0, <1>4, <2>2, ReturnType DEF CancelExpiringCommit, Typed, TypeOK
<1>5. CASE PrepareCharge(w)
  <2>1. PICK x \in run[w].todo :
          /\ Take(w, x)
          /\ \/ Goto(w, "findPeriodPayment", x, subscription[x], NoOrder, FALSE)
             \/ UNCHANGED thread
    BY <1>5 DEF PrepareCharge
  <2>2. x \in Subs /\ subscription[x] \in Row
    BY <1>00 DEF RunState, Typed, TypeOK
  <2>3. thread' \in [Threads -> ThreadState] /\ LocalsOK'
    BY <1>0, <2>1, <2>2, GotoType DEF SchedulerPc, OrderPc, Typed, TypeOK, LocalsOK
  <2>4. run' \in [Schedulers -> RunState]
    BY <2>1, <2>2, RunType
  <2> QED
    BY <1>5, <2>3, <2>4 DEF PrepareCharge, Typed, TypeOK
<1>6. CASE FindPeriodPayment(w)
  <2>1. s \in Subs /\ row \in Row
    BY <1>0, <1>6, LocalTypes DEF FindPeriodPayment, At
  <2>2. \/ Goto(w, "createPeriodPayment", s, row, NoOrder, FALSE)
        \/ Goto(w, "renewFromPayment", s, row, NoOrder, FALSE)
        \/ \E x \in Orders : Goto(w, "executeBilling", s, NoRow, x, FALSE)
    BY <1>6 DEF FindPeriodPayment, PeriodPayment
  <2>3. thread' \in [Threads -> ThreadState] /\ LocalsOK'
    BY <1>0, <2>1, <2>2, GotoType, RowTypes DEF SchedulerPc, OrderPc
  <2> QED
    BY <1>6, <2>3 DEF FindPeriodPayment, Typed, TypeOK
<1>7. CASE RenewFromPayment(w)
  <2>1. s \in Subs /\ row \in Row
    BY <1>0, <1>7, LocalTypes DEF RenewFromPayment, At
  <2>2. Renew(row, row.currentPeriodEnd) \in Row
    BY <2>1, RowTypes DEF Row
  <2>3. subscription' \in [Subs -> Row]
    BY <1>7, <2>1, <2>2, SaveType DEF RenewFromPayment
  <2> QED
    BY <1>0, <1>7, <2>3, ReturnType DEF RenewFromPayment, Typed, TypeOK
<1>8. CASE CreatePeriodPayment(w)
  <2>1. s \in Subs /\ row.currentPeriodEnd \in Nat
    BY <1>0, <1>8, LocalTypes DEF CreatePeriodPayment, At, Row
  <2>2. CASE Return(w) /\ UNCHANGED <<order, payment>>
    BY <1>0, <1>8, <2>2, ReturnType DEF CreatePeriodPayment, Typed, TypeOK
  <2>3. CASE \E x \in Orders :
          /\ order' = [order EXCEPT ![x] =
               [kind |-> "recurring", sub |-> s, start |-> row.currentPeriodEnd]]
          /\ payment' = [payment EXCEPT ![x] = "IN_PROGRESS"]
          /\ Goto(w, "executeBilling", s, NoRow, x, FALSE)
    <3>1. order' \in [Orders -> OrderRecord]
      BY <2>1, <2>3 DEF Typed, TypeOK, OrderRecord, OrderKind
    <3>2. payment' \in [Orders -> PaymentStatus]
      BY <2>3 DEF Typed, TypeOK, PaymentStatus
    <3>3. thread' \in [Threads -> ThreadState] /\ LocalsOK'
      BY <1>0, <2>1, <2>3, GotoType, RowTypes DEF SchedulerPc
    <3> QED
      BY <1>8, <3>1, <3>2, <3>3 DEF CreatePeriodPayment, Typed, TypeOK
  <2> QED
    BY <1>8, <2>2, <2>3 DEF CreatePeriodPayment
<1>9. CASE ExecuteBilling(w)
  <2>1. s \in Subs /\ o \in Orders
    BY <1>0, <1>9, LocalTypes DEF ExecuteBilling, At, OrderPc
  <2>2. approved' \in SUBSET Orders
    BY <1>9, <2>1 DEF ExecuteBilling, TossCharge, Typed, TypeOK
  <2>3. \/ \E answer \in {"done", "failed"} :
             Goto(w, "finalizeRead", s, NoRow, o, answer = "done")
        \/ Goto(w, "finalizeRead", s, NoRow, o, FALSE)
    BY <1>9 DEF ExecuteBilling
  <2>4. thread' \in [Threads -> ThreadState] /\ LocalsOK'
    BY <1>0, <2>1, <2>3, GotoType, RowTypes DEF SchedulerPc
  <2> QED
    BY <1>9, <2>2, <2>4 DEF ExecuteBilling, Typed, TypeOK
<1>10. CASE FinalizeRead(w)
  <2>1. /\ s \in Subs /\ subscription[s] \in Row
        /\ o \in Orders /\ thread[w].ok \in BOOLEAN
    BY <1>0, <1>10, LocalTypes DEF FinalizeRead, At, OrderPc
  <2>2. thread' \in [Threads -> ThreadState] /\ LocalsOK'
    BY <1>0, <1>10, <2>1, GotoType, ReturnType DEF FinalizeRead, SchedulerPc
  <2> QED
    BY <1>10, <2>2 DEF FinalizeRead, Typed, TypeOK
<1>11. CASE FinalizeCommit(w)
  <2>1. s \in Subs /\ row \in Row /\ order[o].start \in Nat
    BY <1>0, <1>11, LocalTypes DEF FinalizeCommit, At, OrderPc
  <2>2. Renew(row, order[o].start) \in Row /\ AfterFailure(row) \in Row
    BY <2>1, RowTypes, AfterFailureType DEF Typed, TypeOK
  <2>3. subscription' \in [Subs -> Row]
    BY <1>11, <2>1, <2>2, WriteType DEF FinalizeCommit, Typed, TypeOK
  <2>4. payment' \in [Orders -> PaymentStatus]
    BY <1>11 DEF FinalizeCommit, Typed, TypeOK, PaymentStatus
  <2> QED
    BY <1>0, <1>11, <2>3, <2>4, ReturnType DEF FinalizeCommit, Typed, TypeOK
<1> QED
  BY <1>1, <1>2, <1>3, <1>4, <1>5, <1>6, <1>7, <1>8, <1>9, <1>10, <1>11 DEF SchedulerStep

\* The clock and the crashes are well typed.
LEMMA EnvironmentType ==
  ASSUME Typed, Tick \/ \E t \in Threads : Crash(t)
  PROVE  Typed'
<1>1. CASE Tick
  BY <1>1 DEF Tick, Typed, TypeOK, LocalsOK, NoTime
<1>2. CASE \E t \in Threads : Crash(t)
  <2>1. PICK t \in Threads : Crash(t)
    BY <1>2
  <2>2. thread' \in [Threads -> ThreadState] /\ LocalsOK'
    BY <2>1, ReturnType DEF Crash
  <2>3. NoRun \in RunState
    BY DEF NoRun, RunState, NoTime
  <2>4. run' \in [Schedulers -> RunState]
    BY <2>1, <2>3 DEF Crash, Typed, TypeOK
  <2> QED
    BY <2>1, <2>2, <2>4 DEF Crash, Typed, TypeOK
<1> QED
  BY <1>1, <1>2

\* Every step, stuttering included, is well typed.
LEMMA StepType ==
  ASSUME Typed, [Next]_vars
  PROVE  Typed'
<1>1. CASE UNCHANGED vars
  BY <1>1 DEF vars, Typed, TypeOK, LocalsOK
<1> QED
  BY <1>1, ArrivalType, RequestType, SchedulerType, EnvironmentType DEF Next

\* Every column, row and local variable keeps to its domain: no status outside
\* the enum, no attempt count below zero, no thread without the subscription or
\* the order its next step needs.
THEOREM TypeCorrect == Spec => []TypeOK
<1>1. Init => Typed
  BY InitType
<1>2. Typed /\ [Next]_vars => Typed'
  BY StepType
<1>3. Typed => TypeOK
  BY DEF Typed
<1> QED
  BY <1>1, <1>2, <1>3, PTL DEF Spec

-----------------------------------------------------------------------------
(* One open subscription *)

\* A current row is an open one: every status the index leaves out is CANCELED.
LEMMA CurrentIsOpen ==
  ASSUME Typed, NEW s \in Subs
  PROVE  IsCurrent(s) <=> subscription[s].status \in OpenStatus
<1>1. subscription[s].status \in SubscriptionStatus
  BY DEF Typed, TypeOK, Row
<1> QED
  BY <1>1 DEF IsCurrent, OpenStatus, SubscriptionStatus

\* A write that the index lets through, or that leaves an open row open, adds
\* no second open subscription.
LEMMA WriteKeepsOneOpen ==
  ASSUME Typed, OneOpenSubscription, NEW s \in Subs, NEW row \in Row, Write(s, row),
         IndexAllows(s, row) \/ IsCurrent(s)
  PROVE  OneOpenSubscription'
<1>1. subscription' = [subscription EXCEPT ![s] = row] /\ subscription \in [Subs -> Row]
  BY DEF Write, Typed, TypeOK
<1>2. \A x \in Subs \ {s} : IsCurrent(x)' <=> IsCurrent(x)
  BY <1>1 DEF IsCurrent
<1>3. CASE IsCurrent(s)
  BY <1>2, <1>3 DEF OneOpenSubscription
<1>4. CASE IndexAllows(s, row) /\ row.status \in OpenStatus
  BY <1>2, <1>4, CurrentIsOpen DEF IndexAllows, OneOpenSubscription
<1>5. CASE row.status \notin OpenStatus
  <2>1. ~IsCurrent(s)'
    BY <1>1, <1>5 DEF IsCurrent, OpenStatus, Row, SubscriptionStatus
  <2> QED
    BY <1>2, <2>1 DEF OneOpenSubscription
<1> QED
  BY <1>3, <1>4, <1>5

\* A write the index refuses changes nothing.
LEMMA SaveKeepsOneOpen ==
  ASSUME Typed, OneOpenSubscription, NEW s \in Subs, NEW row \in Row, Save(s, row)
  PROVE  OneOpenSubscription'
<1>1. CASE IndexAllows(s, row)
  BY <1>1, WriteKeepsOneOpen DEF Save
<1>2. CASE ~IndexAllows(s, row)
  BY <1>2 DEF Save, OneOpenSubscription, IsCurrent
<1> QED
  BY <1>1, <1>2

\* Every request keeps one open subscription.
LEMMA RequestKeepsOneOpen ==
  ASSUME Typed, OneOpenSubscription, NEW r \in Requests,
         RequestArrives(r) \/ RequestStep(r)
  PROVE  OneOpenSubscription'
<1> DEFINE s == thread[r].sub
           o == thread[r].order
           row == thread[r].row
<1>0. r \in Threads
  BY DEF Threads
<1>1. CASE UNCHANGED subscription
  BY <1>1 DEF OneOpenSubscription, IsCurrent
<1>2. CASE SaveNewSubscription(r)
  <2>1. CASE \E x \in Subs : IndexAllows(x, Created) /\ Write(x, Created)
    BY <2>1, WriteKeepsOneOpen, RowTypes
  <2> QED
    BY <1>1, <1>2, <2>1 DEF SaveNewSubscription
<1>3. CASE CancelSubscriptionCommit(r)
  <2>1. s \in Subs /\ CanceledByUser(row) \in Row
    BY <1>0, <1>3, LocalTypes, RowTypes DEF CancelSubscriptionCommit, At
  <2> QED
    BY <1>1, <1>3, <2>1, SaveKeepsOneOpen DEF CancelSubscriptionCommit
<1>4. CASE ClaimBillingAuthorization(r)
  <2>1. PICK x \in Subs : /\ subscription[x].status = "INCOMPLETE"
                          /\ Write(x, BeginAuthorization(subscription[x]))
    BY <1>4 DEF ClaimBillingAuthorization
  <2>2. BeginAuthorization(subscription[x]) \in Row
    BY RowTypes DEF Typed, TypeOK
  <2> QED
    BY <2>1, <2>2, WriteKeepsOneOpen DEF IsCurrent
<1>5. CASE FinalizeFirstCharge(r)
  <2>1. s \in Subs /\ subscription[s] \in Row /\ order[o].start \in Nat
    BY <1>0, <1>5, LocalTypes DEF FinalizeFirstCharge, At, OrderPc
  <2>2. /\ Activate(subscription[s], order[o].start) \in Row
        /\ ResetAuthorization(subscription[s]) \in Row
    BY <2>1, RowTypes
  <2>3. CASE subscription[s].status = "AUTHORIZING"
    BY <1>5, <2>1, <2>2, <2>3, WriteKeepsOneOpen DEF FinalizeFirstCharge, IsCurrent
  <2> QED
    BY <1>1, <1>5, <2>3 DEF FinalizeFirstCharge
<1>6. CASE ResetBillingAuthorization(r)
  <2>1. s \in Subs /\ ResetAuthorization(subscription[s]) \in Row
    BY <1>0, <1>6, LocalTypes, RowTypes DEF ResetBillingAuthorization, At
  <2>2. CASE subscription[s].status = "AUTHORIZING"
    BY <1>6, <2>1, <2>2, WriteKeepsOneOpen DEF ResetBillingAuthorization, IsCurrent
  <2> QED
    BY <1>1, <1>6, <2>2 DEF ResetBillingAuthorization
<1>7. CASE ConfirmCommit(r)
  <2>1. s \in Subs /\ row \in Row /\ now \in Nat
    BY <1>0, <1>7, LocalTypes DEF ConfirmCommit, At, Typed, TypeOK
  <2>2. Activate(row, now) \in Row
    BY <2>1, RowTypes
  <2>3. CASE IndexAllows(s, Activate(row, now)) /\ Write(s, Activate(row, now))
    BY <2>1, <2>2, <2>3, WriteKeepsOneOpen
  <2> QED
    BY <1>1, <1>7, <2>3 DEF ConfirmCommit
<1> QED
  BY <1>1, <1>2, <1>3, <1>4, <1>5, <1>6, <1>7
     DEF RequestArrives, RequestStep, CreateSubscription, CancelSubscription,
         ConfirmPayment, IssueBillingKey, FirstCharge, ConfirmAtToss, ConfirmRead

\* Every scheduler keeps one open subscription.
LEMMA SchedulerKeepsOneOpen ==
  ASSUME Typed, OneOpenSubscription, NEW w \in Schedulers, SchedulerStep(w)
  PROVE  OneOpenSubscription'
<1> DEFINE s == thread[w].sub
           o == thread[w].order
           row == thread[w].row
<1>0. w \in Threads
  BY DEF Threads
<1>1. CASE UNCHANGED subscription
  BY <1>1 DEF OneOpenSubscription, IsCurrent
<1>2. CASE CancelExpiringCommit(w)
  <2>1. s \in Subs /\ Cancel(row) \in Row
    BY <1>0, <1>2, LocalTypes, RowTypes DEF CancelExpiringCommit, At
  <2> QED
    BY <1>2, <2>1, SaveKeepsOneOpen DEF CancelExpiringCommit
<1>3. CASE RenewFromPayment(w)
  <2>1. s \in Subs /\ row \in Row
    BY <1>0, <1>3, LocalTypes DEF RenewFromPayment, At
  <2>2. Renew(row, row.currentPeriodEnd) \in Row
    BY <2>1, RowTypes DEF Row
  <2> QED
    BY <1>3, <2>1, <2>2, SaveKeepsOneOpen DEF RenewFromPayment
<1>4. CASE FinalizeCommit(w)
  <2>1. s \in Subs /\ row \in Row /\ order[o].start \in Nat
    BY <1>0, <1>4, LocalTypes DEF FinalizeCommit, At, OrderPc
  <2>2. Renew(row, order[o].start) \in Row /\ AfterFailure(row) \in Row
    BY <2>1, RowTypes, AfterFailureType DEF Typed, TypeOK
  <2>3. CASE \E x \in Row : IndexAllows(s, x) /\ Write(s, x)
    BY <2>1, <2>3, WriteKeepsOneOpen
  <2> QED
    BY <1>1, <1>4, <2>2, <2>3 DEF FinalizeCommit
<1> QED
  BY <1>1, <1>2, <1>3, <1>4
     DEF SchedulerStep, StartRun, NextQuery, CancelExpiring, PrepareCharge,
         FindPeriodPayment, CreatePeriodPayment, ExecuteBilling, FinalizeRead

\* A workspace has at most one subscription that is not CANCELED, whatever the
\* late commits of its requests and of its schedulers revive.
THEOREM OneOpen == Spec => []OneOpenSubscription
<1>1. Init => Typed /\ OneOpenSubscription
  BY InitType DEF Init, OneOpenSubscription, IsCurrent, NoRow
<1>2. Typed /\ OneOpenSubscription /\ [Next]_vars => Typed' /\ OneOpenSubscription'
  <2> SUFFICES ASSUME Typed, OneOpenSubscription, [Next]_vars
               PROVE  OneOpenSubscription'
    BY StepType
  <2>1. CASE UNCHANGED subscription
    BY <2>1 DEF OneOpenSubscription, IsCurrent
  <2> QED
    BY <2>1, RequestKeepsOneOpen, SchedulerKeepsOneOpen DEF Next, Tick, Crash, vars
<1> QED
  BY <1>1, <1>2, PTL DEF Spec

-----------------------------------------------------------------------------
(* One authorization at a time *)

\* Whoever authorizes a subscription has found it INCOMPLETE and moved it on,
\* and no late cancel puts it back.
AuthorizationInv ==
  /\ \A r \in Requests, s \in Subs :
       Authorizes(r, s) => subscription[s].status \notin {"NONE", "INCOMPLETE"}
  /\ \A r \in Requests :
       At(r, "cancelSubscription") => thread[r].row.status \in {"INCOMPLETE", "ACTIVE"}
  /\ AuthorizationExclusive

\* A step that neither begins an authorization or a cancel, nor writes an
\* INCOMPLETE row, keeps the invariant.
LEMMA OtherStepKeepsAuthorization ==
  ASSUME Typed, AuthorizationInv, NEW t \in Threads,
         NEW local, thread' = [thread EXCEPT ![t] = local],
         local.pc \notin {"issueBillingKey", "firstCharge", "finalizeFirstCharge",
                         "resetAuthorization", "cancelSubscription"},
         \/ UNCHANGED subscription
         \/ \E s \in Subs, row \in Row :
              row.status \notin {"NONE", "INCOMPLETE"} /\ Write(s, row)
  PROVE  AuthorizationInv'
<1>1. thread \in [Threads -> ThreadState] /\ subscription \in [Subs -> Row]
  BY DEF Typed, TypeOK
<1>2. \A r \in Requests : r \in Threads
  BY DEF Threads
<1>3. \A r \in Requests, s \in Subs : Authorizes(r, s)' => Authorizes(r, s)
  BY <1>1, <1>2 DEF Authorizes
<1>4. \A s \in Subs : subscription[s].status \notin {"NONE", "INCOMPLETE"} =>
                      subscription'[s].status \notin {"NONE", "INCOMPLETE"}
  BY <1>1 DEF Write
<1>5. \A r \in Requests :
        At(r, "cancelSubscription")' => /\ At(r, "cancelSubscription")
                                       /\ thread'[r] = thread[r]
  BY <1>1, <1>2 DEF At
<1> QED
  BY <1>3, <1>4, <1>5 DEF AuthorizationInv, AuthorizationExclusive

\* So does the end of an authorization, whatever row it leaves.
LEMMA EndKeepsAuthorization ==
  ASSUME Typed, AuthorizationInv, NEW r \in Requests, NEW s \in Subs,
         Authorizes(r, s), Return(r),
         UNCHANGED subscription \/ \E row \in Row : Write(s, row)
  PROVE  AuthorizationInv'
<1>0. r \in Threads /\ \A x \in Requests : x \in Threads
  BY DEF Threads
<1>1. thread \in [Threads -> ThreadState] /\ subscription \in [Subs -> Row]
  BY DEF Typed, TypeOK
<1>2. \A x \in Requests, y \in Subs :
        Authorizes(x, y)' => Authorizes(x, y) /\ x # r
  BY <1>0, <1>1 DEF Authorizes, Return, Idle
<1>3. \A x \in Requests, y \in Subs : Authorizes(x, y)' => y # s
  BY <1>2 DEF AuthorizationInv, AuthorizationExclusive
<1>4. \A y \in Subs : y # s => subscription'[y] = subscription[y]
  BY <1>1 DEF Write
<1>5. \A x \in Requests :
        At(x, "cancelSubscription")' => At(x, "cancelSubscription") /\ thread'[x] = thread[x]
  BY <1>0, <1>1 DEF At, Return, Idle
<1> QED
  BY <1>2, <1>3, <1>4, <1>5 DEF AuthorizationInv, AuthorizationExclusive

\* A step of an authorization that goes on with it keeps the invariant too.
LEMMA GoOnKeepsAuthorization ==
  ASSUME Typed, AuthorizationInv, NEW r \in Requests, NEW s \in Subs,
         Authorizes(r, s), UNCHANGED subscription,
         NEW pc \in {"firstCharge", "finalizeFirstCharge", "resetAuthorization"},
         NEW row, NEW o, NEW ok,
         Goto(r, pc, s, row, o, ok)
  PROVE  AuthorizationInv'
<1>0. r \in Threads /\ \A x \in Requests : x \in Threads
  BY DEF Threads
<1>1. thread \in [Threads -> ThreadState]
  BY DEF Typed, TypeOK
<1>2. \A x \in Requests, y \in Subs : Authorizes(x, y)' => Authorizes(x, y)
  BY <1>0, <1>1 DEF Authorizes, Goto
<1>3. \A x \in Requests :
        At(x, "cancelSubscription")' => At(x, "cancelSubscription") /\ thread'[x] = thread[x]
  BY <1>0, <1>1 DEF At, Goto
<1> QED
  BY <1>2, <1>3 DEF AuthorizationInv, AuthorizationExclusive

\* Every request keeps authorizations apart.
LEMMA RequestKeepsAuthorization ==
  ASSUME Typed, AuthorizationInv, NEW r \in Requests,
         RequestArrives(r) \/ RequestStep(r)
  PROVE  AuthorizationInv'
<1> DEFINE s == thread[r].sub
           o == thread[r].order
           row == thread[r].row
<1>0. r \in Threads /\ \A x \in Requests : x \in Threads
  BY DEF Threads
<1>00. thread \in [Threads -> ThreadState] /\ subscription \in [Subs -> Row]
  BY DEF Typed, TypeOK
<1>1. CASE CreateSubscription(r)
  BY <1>0, <1>1, OtherStepKeepsAuthorization DEF CreateSubscription, Goto
<1>2. CASE CancelSubscription(r)
  <2>1. PICK x \in Subs : /\ subscription[x].status \in {"INCOMPLETE", "ACTIVE"}
                          /\ Goto(r, "cancelSubscription", x, subscription[x], NoOrder, FALSE)
    BY <1>2 DEF CancelSubscription
  <2>2. \A y \in Requests, z \in Subs : Authorizes(y, z)' => Authorizes(y, z)
    BY <1>0, <1>00, <2>1 DEF Authorizes, Goto
  <2>3. \A y \in Requests :
          At(y, "cancelSubscription")' =>
            thread'[y].row.status \in {"INCOMPLETE", "ACTIVE"}
    BY <1>0, <1>00, <2>1 DEF At, Goto, AuthorizationInv
  <2> QED
    BY <1>2, <2>2, <2>3 DEF CancelSubscription, AuthorizationInv, AuthorizationExclusive
<1>3. CASE ClaimBillingAuthorization(r)
  <2>1. PICK x \in Subs : /\ subscription[x].status = "INCOMPLETE"
                          /\ Write(x, BeginAuthorization(subscription[x]))
                          /\ Goto(r, "issueBillingKey", x, NoRow, NoOrder, FALSE)
    BY <1>3 DEF ClaimBillingAuthorization
  <2>2. \A y \in Requests : ~Authorizes(y, x)
    BY <2>1 DEF AuthorizationInv
  <2>3. \A y \in Requests, z \in Subs :
          Authorizes(y, z)' => Authorizes(y, z) \/ (y = r /\ z = x)
    BY <1>0, <1>00, <2>1 DEF Authorizes, Goto
  <2>4. /\ subscription'[x].status = "AUTHORIZING"
        /\ \A z \in Subs \ {x} : subscription'[z] = subscription[z]
    BY <1>00, <2>1 DEF Write, BeginAuthorization, Row
  <2>5. \A y \in Requests :
          At(y, "cancelSubscription")' => At(y, "cancelSubscription") /\ thread'[y] = thread[y]
    BY <1>0, <1>00, <2>1 DEF At, Goto
  <2> QED
    BY <2>2, <2>3, <2>4, <2>5 DEF AuthorizationInv, AuthorizationExclusive
<1>4. CASE ConfirmPayment(r)
  BY <1>0, <1>4, OtherStepKeepsAuthorization DEF ConfirmPayment, Goto
<1>5. CASE SaveNewSubscription(r)
  <2>1. CASE UNCHANGED subscription
    BY <1>0, <1>5, <2>1, OtherStepKeepsAuthorization DEF SaveNewSubscription, Return, Idle
  <2>2. CASE \E x \in Subs : subscription[x] = NoRow /\ Write(x, Created)
    <3>1. PICK x \in Subs : subscription[x] = NoRow /\ Write(x, Created)
      BY <2>2
    <3>2. \A y \in Requests : ~Authorizes(y, x)
      BY <3>1 DEF AuthorizationInv, NoRow
    <3>3. \A y \in Requests, z \in Subs : Authorizes(y, z)' => Authorizes(y, z)
      BY <1>0, <1>00, <1>5 DEF SaveNewSubscription, Authorizes, Return, Idle
    <3>4. \A z \in Subs \ {x} : subscription'[z] = subscription[z]
      BY <1>00, <3>1 DEF Write
    <3>5. \A y \in Requests :
            At(y, "cancelSubscription")' => At(y, "cancelSubscription") /\ thread'[y] = thread[y]
      BY <1>0, <1>00, <1>5 DEF SaveNewSubscription, At, Return, Idle
    <3> QED
      BY <3>2, <3>3, <3>4, <3>5 DEF AuthorizationInv, AuthorizationExclusive
  <2> QED
    BY <1>5, <2>1, <2>2 DEF SaveNewSubscription
<1>6. CASE CancelSubscriptionCommit(r)
  <2>1. s \in Subs /\ row \in Row /\ CanceledByUser(row) \in Row
    BY <1>0, <1>6, LocalTypes, RowTypes DEF CancelSubscriptionCommit, At
  <2>2. row.status \in {"INCOMPLETE", "ACTIVE"}
    BY <1>6 DEF CancelSubscriptionCommit, AuthorizationInv
  <2>3. CanceledByUser(row).status \notin {"NONE", "INCOMPLETE"}
    BY <2>1, <2>2 DEF CanceledByUser, Cancel, ScheduleCancelAtPeriodEnd, Row
  <2>4. \/ UNCHANGED subscription
        \/ Write(s, CanceledByUser(row))
    BY <1>6 DEF CancelSubscriptionCommit, Save
  <2> QED
    BY <1>0, <1>6, <2>1, <2>3, <2>4, OtherStepKeepsAuthorization
       DEF CancelSubscriptionCommit, Return, Idle
<1>7. CASE IssueBillingKey(r)
  <2>1. s \in Subs /\ Authorizes(r, s)
    BY <1>0, <1>7, LocalTypes DEF IssueBillingKey, At, Authorizes
  <2> QED
    BY <1>7, <2>1, GoOnKeepsAuthorization, EndKeepsAuthorization DEF IssueBillingKey
<1>8. CASE FirstCharge(r)
  <2>1. s \in Subs /\ Authorizes(r, s)
    BY <1>0, <1>8, LocalTypes DEF FirstCharge, At, Authorizes
  <2>2. \E x, ok : \/ Goto(r, "resetAuthorization", s, NoRow, x, ok)
                   \/ Goto(r, "finalizeFirstCharge", s, NoRow, x, ok)
    BY <1>8 DEF FirstCharge
  <2> QED
    BY <1>8, <2>1, <2>2, GoOnKeepsAuthorization DEF FirstCharge
<1>9. CASE FinalizeFirstCharge(r)
  <2>1. /\ s \in Subs /\ Authorizes(r, s)
        /\ subscription[s] \in Row /\ order[o].start \in Nat
    BY <1>0, <1>9, LocalTypes DEF FinalizeFirstCharge, At, OrderPc, Authorizes
  <2>2. /\ Activate(subscription[s], order[o].start) \in Row
        /\ ResetAuthorization(subscription[s]) \in Row
    BY <2>1, RowTypes
  <2>3. UNCHANGED subscription \/ \E x \in Row : Write(s, x)
    BY <1>9, <2>2 DEF FinalizeFirstCharge
  <2> QED
    BY <1>9, <2>1, <2>3, EndKeepsAuthorization DEF FinalizeFirstCharge
<1>10. CASE ResetBillingAuthorization(r)
  <2>1. s \in Subs /\ Authorizes(r, s) /\ ResetAuthorization(subscription[s]) \in Row
    BY <1>0, <1>10, LocalTypes, RowTypes DEF ResetBillingAuthorization, At, Authorizes
  <2> QED
    BY <1>10, <2>1, EndKeepsAuthorization DEF ResetBillingAuthorization
<1>11. CASE ConfirmAtToss(r)
  BY <1>0, <1>11, OtherStepKeepsAuthorization DEF ConfirmAtToss, Goto, Return, Idle
<1>12. CASE ConfirmRead(r)
  BY <1>0, <1>12, OtherStepKeepsAuthorization DEF ConfirmRead, Goto, Return, Idle
<1>13. CASE ConfirmCommit(r)
  <2>1. s \in Subs /\ row \in Row /\ now \in Nat
    BY <1>0, <1>13, LocalTypes DEF ConfirmCommit, At, Typed, TypeOK
  <2>2. Activate(row, now) \in Row /\ Activate(row, now).status = "ACTIVE"
    BY <2>1, RowTypes DEF Activate, Renew, Row
  <2>3. UNCHANGED subscription \/ Write(s, Activate(row, now))
    BY <1>13 DEF ConfirmCommit
  <2> QED
    BY <1>0, <1>13, <2>1, <2>2, <2>3, OtherStepKeepsAuthorization
       DEF ConfirmCommit, Return, Idle
<1> QED
  BY <1>1, <1>2, <1>3, <1>4, <1>5, <1>6, <1>7, <1>8, <1>9, <1>10, <1>11, <1>12, <1>13
     DEF RequestArrives, RequestStep

\* Schedulers and crashes keep authorizations apart: what they write is
\* ACTIVE, PAST_DUE or CANCELED.
LEMMA SchedulerKeepsAuthorization ==
  ASSUME Typed, AuthorizationInv, NEW w \in Schedulers, SchedulerStep(w)
  PROVE  AuthorizationInv'
<1> DEFINE s == thread[w].sub
           o == thread[w].order
           row == thread[w].row
<1>0. w \in Threads
  BY DEF Threads
<1>1. CASE UNCHANGED <<subscription, thread>>
  BY <1>1 DEF AuthorizationInv, AuthorizationExclusive, Authorizes, At
<1>2. CASE CancelExpiring(w) \/ PrepareCharge(w)
  BY <1>0, <1>1, <1>2, OtherStepKeepsAuthorization DEF CancelExpiring, PrepareCharge, Goto
<1>3. CASE CancelExpiringCommit(w)
  <2>1. s \in Subs /\ row \in Row /\ Cancel(row) \in Row
    BY <1>0, <1>3, LocalTypes, RowTypes DEF CancelExpiringCommit, At
  <2>2. Cancel(row).status = "CANCELED"
    BY <2>1 DEF Cancel, Row
  <2>3. UNCHANGED subscription \/ Write(s, Cancel(row))
    BY <1>3 DEF CancelExpiringCommit, Save
  <2> QED
    BY <1>0, <1>3, <2>1, <2>2, <2>3, OtherStepKeepsAuthorization
       DEF CancelExpiringCommit, Return, Idle
<1>4. CASE FindPeriodPayment(w)
  <2>1. \/ Goto(w, "createPeriodPayment", s, row, NoOrder, FALSE)
        \/ Goto(w, "renewFromPayment", s, row, NoOrder, FALSE)
        \/ \E x \in Orders : Goto(w, "executeBilling", s, NoRow, x, FALSE)
    BY <1>4 DEF FindPeriodPayment, PeriodPayment
  <2> QED
    BY <1>0, <1>4, <2>1, OtherStepKeepsAuthorization DEF FindPeriodPayment, Goto
<1>5. CASE RenewFromPayment(w)
  <2>1. s \in Subs /\ row \in Row
    BY <1>0, <1>5, LocalTypes DEF RenewFromPayment, At
  <2>2. /\ Renew(row, row.currentPeriodEnd) \in Row
        /\ Renew(row, row.currentPeriodEnd).status = "ACTIVE"
    BY <2>1, RowTypes DEF Row, Renew
  <2>3. UNCHANGED subscription \/ Write(s, Renew(row, row.currentPeriodEnd))
    BY <1>5 DEF RenewFromPayment, Save
  <2> QED
    BY <1>0, <1>5, <2>1, <2>2, <2>3, OtherStepKeepsAuthorization
       DEF RenewFromPayment, Return, Idle
<1>6. CASE CreatePeriodPayment(w)
  BY <1>0, <1>6, OtherStepKeepsAuthorization DEF CreatePeriodPayment, Goto, Return, Idle
<1>7. CASE ExecuteBilling(w)
  <2>1. \E ok : Goto(w, "finalizeRead", s, NoRow, o, ok)
    BY <1>7 DEF ExecuteBilling
  <2> QED
    BY <1>0, <1>7, <2>1, OtherStepKeepsAuthorization DEF ExecuteBilling, Goto
<1>8. CASE FinalizeRead(w)
  BY <1>0, <1>8, OtherStepKeepsAuthorization DEF FinalizeRead, Goto, Return, Idle
<1>9. CASE FinalizeCommit(w)
  <2>1. s \in Subs /\ row \in Row /\ order[o].start \in Nat
    BY <1>0, <1>9, LocalTypes DEF FinalizeCommit, At, OrderPc
  <2>2. /\ Renew(row, order[o].start) \in Row
        /\ Renew(row, order[o].start).status = "ACTIVE"
    BY <2>1, RowTypes DEF Renew, Row
  <2>3. AfterFailure(row) \in Row /\ AfterFailure(row).status \in {"PAST_DUE", "CANCELED"}
    <3>1. AfterFailure(row) \in Row
      BY <2>1, AfterFailureType DEF Typed, TypeOK
    <3>2. MarkPastDue(row, now + 1).status = "PAST_DUE"
      BY <2>1 DEF MarkPastDue, Row
    <3>3. Cancel(MarkPastDue(row, now + 1)).status = "CANCELED"
      BY <2>1 DEF Cancel, MarkPastDue, Row
    <3> QED
      BY <3>1, <3>2, <3>3 DEF AfterFailure
  <2>4. \/ UNCHANGED subscription
        \/ Write(s, Renew(row, order[o].start))
        \/ Write(s, AfterFailure(row))
    BY <1>9 DEF FinalizeCommit
  <2> QED
    BY <1>0, <1>9, <2>1, <2>2, <2>3, <2>4, OtherStepKeepsAuthorization
       DEF FinalizeCommit, Return, Idle
<1> QED
  BY <1>1, <1>2, <1>3, <1>4, <1>5, <1>6, <1>7, <1>8, <1>9
     DEF SchedulerStep, StartRun, NextQuery

\* No two requests hold the claim of a subscription, so that its first charge
\* is under way once at a time, also when the claim was cut short by a crash.
THEOREM OneAuthorization == Spec => []AuthorizationExclusive
<1>1. Init => Typed /\ AuthorizationInv
  <2> SUFFICES ASSUME Init PROVE AuthorizationInv
    BY InitType
  <2>1. \A r \in Requests : thread[r].pc = "idle"
    BY DEF Init, Threads, Idle
  <2> QED
    BY <2>1 DEF AuthorizationInv, AuthorizationExclusive, Authorizes, At
<1>2. Typed /\ AuthorizationInv /\ [Next]_vars => Typed' /\ AuthorizationInv'
  <2> SUFFICES ASSUME Typed, AuthorizationInv, [Next]_vars
               PROVE  AuthorizationInv'
    BY StepType
  <2>1. CASE UNCHANGED <<subscription, thread>>
    BY <2>1 DEF AuthorizationInv, AuthorizationExclusive, Authorizes, At
  <2>2. ASSUME NEW t \in Threads, Crash(t) PROVE AuthorizationInv'
    BY <2>2, OtherStepKeepsAuthorization DEF Crash, Return, Idle
  <2> QED
    BY <2>1, <2>2, RequestKeepsAuthorization, SchedulerKeepsAuthorization
       DEF Next, Tick, vars
<1>3. AuthorizationInv => AuthorizationExclusive
  BY DEF AuthorizationInv
<1> QED
  BY <1>1, <1>2, <1>3, PTL DEF Spec

-----------------------------------------------------------------------------
(* One charge for a period *)

\* A recurring order is generated once for its period.
OneOrderPerPeriod ==
  \A o1, o2 \in Orders :
    order[o1].kind = "recurring" /\ order[o1] = order[o2] => o1 = o2

\* An order that is not recurring, or new to its period, keeps the invariant.
LEMMA NewOrderKeepsPeriods ==
  ASSUME Typed, OneOrderPerPeriod, NEW o \in Orders, NEW new \in OrderRecord,
         order' = [order EXCEPT ![o] = new],
         new.kind = "recurring" => \A x \in Orders : order[x] # new
  PROVE  OneOrderPerPeriod'
<1>1. order \in [Orders -> OrderRecord]
  BY DEF Typed, TypeOK
<1> QED
  BY <1>1 DEF OneOrderPerPeriod

\* No step gives a period a second order: the insert checks the unique key.
LEMMA StepKeepsPeriods ==
  ASSUME Typed, OneOrderPerPeriod, [Next]_vars
  PROVE  OneOrderPerPeriod'
<1>1. CASE UNCHANGED order
  BY <1>1 DEF OneOrderPerPeriod
<1>2. ASSUME NEW r \in Requests, ConfirmPayment(r) PROVE OneOrderPerPeriod'
  <2>1. CASE \E s \in Subs, o \in Orders :
               order' = [order EXCEPT ![o] = [kind |-> "widget", sub |-> s, start |-> NoTime]]
    BY <2>1, NewOrderKeepsPeriods DEF OrderRecord, OrderKind, NoTime
  <2> QED
    BY <1>1, <1>2, <2>1 DEF ConfirmPayment
<1>3. ASSUME NEW r \in Requests, FirstCharge(r) PROVE OneOrderPerPeriod'
  <2>1. thread[r].sub \in Subs /\ now \in Nat
    BY <1>3, LocalTypes DEF FirstCharge, At, Threads, Typed, TypeOK
  <2>2. CASE \E o \in Orders :
               order' = [order EXCEPT ![o] =
                 [kind |-> "first", sub |-> thread[r].sub, start |-> now]]
    BY <2>1, <2>2, NewOrderKeepsPeriods DEF OrderRecord, OrderKind
  <2> QED
    BY <1>1, <1>3, <2>2 DEF FirstCharge
<1>4. ASSUME NEW r \in Requests, ConfirmCommit(r) PROVE OneOrderPerPeriod'
  <2>1. thread[r].sub \in Subs /\ thread[r].order \in Orders /\ now \in Nat
    BY <1>4, LocalTypes DEF ConfirmCommit, At, OrderPc, Threads, Typed, TypeOK
  <2>2. ASSUME NEW start \in {NoTime, now},
               order' = [order EXCEPT ![thread[r].order] =
                 [kind |-> "widget", sub |-> thread[r].sub, start |-> start]]
        PROVE  OneOrderPerPeriod'
    <3>1. [kind |-> "widget", sub |-> thread[r].sub, start |-> start] \in OrderRecord
      BY <2>1 DEF OrderRecord, OrderKind, NoTime
    <3> QED
      BY <2>1, <2>2, <3>1, NewOrderKeepsPeriods
  <2> QED
    BY <1>1, <1>4, <2>2 DEF ConfirmCommit
<1>5. ASSUME NEW w \in Schedulers, CreatePeriodPayment(w) PROVE OneOrderPerPeriod'
  <2> DEFINE s == thread[w].sub
             start == thread[w].row.currentPeriodEnd
  <2>1. s \in Subs /\ start \in Nat
    BY <1>5, LocalTypes DEF CreatePeriodPayment, At, Threads, Row
  <2>2. CASE /\ ~PeriodTaken(s, start)
             /\ \E o \in Orders :
                  order' = [order EXCEPT ![o] =
                    [kind |-> "recurring", sub |-> s, start |-> start]]
    BY <2>1, <2>2, NewOrderKeepsPeriods
       DEF OrderRecord, OrderKind, PeriodTaken, PeriodPayment
  <2> QED
    BY <1>1, <1>5, <2>2 DEF CreatePeriodPayment
<1> QED
  BY <1>1, <1>2, <1>3, <1>4, <1>5
     DEF Next, vars, RequestArrives, RequestStep, SchedulerStep, Tick, Crash,
         CreateSubscription, CancelSubscription, ClaimBillingAuthorization,
         SaveNewSubscription, CancelSubscriptionCommit, IssueBillingKey,
         FinalizeFirstCharge, ResetBillingAuthorization, ConfirmAtToss, ConfirmRead,
         StartRun, NextQuery, CancelExpiring, CancelExpiringCommit, PrepareCharge,
         FindPeriodPayment, RenewFromPayment, ExecuteBilling, FinalizeRead, FinalizeCommit

\* Any number of schedulers that prepare, crash and try again charge a period
\* under one order, which Toss does not charge twice.
THEOREM NoDoubleCharge == Spec => []NoDoubleChargePerPeriod
<1>1. Init => Typed /\ OneOrderPerPeriod
  BY InitType DEF Init, OneOrderPerPeriod, Unused
<1>2. Typed /\ OneOrderPerPeriod /\ [Next]_vars => Typed' /\ OneOrderPerPeriod'
  BY StepType, StepKeepsPeriods
<1>3. Typed /\ OneOrderPerPeriod => NoDoubleChargePerPeriod
  BY DEF Typed, TypeOK, OneOrderPerPeriod, NoDoubleChargePerPeriod
<1> QED
  BY <1>1, <1>2, <1>3, PTL DEF Spec

-----------------------------------------------------------------------------
(* A quota that is paid for *)

\* Toss has charged a period of s that ends then.
Paid(s, end) ==
  \E o \in approved :
    /\ order[o].sub = s
    /\ order[o].start # NoTime
    /\ order[o].start + Period = end

Covered(s, row) == row.currentPeriodEnd # NoTime => Paid(s, row.currentPeriodEnd)

\* An order's first day is written once: with the payment that is DONE, for the
\* widget's orders.
OrdersPaid ==
  \A o \in Orders :
    /\ order[o].kind = "widget" /\ payment[o] = "NONE" => order[o].start = NoTime
    /\ payment[o] = "DONE" => o \in approved

\* What a thread may still write is paid for.
LocalPaid(t) ==
  LET s == thread[t].sub
      o == thread[t].order
      row == thread[t].row
  IN /\ Covered(s, row)
     /\ thread[t].ok => o \in approved
     /\ thread[t].pc \in {"confirmPayment", "confirmRead", "confirmCommit"} =>
          order[o].kind = "widget"
     /\ thread[t].pc = "finalizeFirstCharge" =>
          order[o].kind = "first" /\ order[o].sub = s /\ order[o].start # NoTime
     /\ thread[t].pc \in {"executeBilling", "finalizeRead", "finalizeCommit"} =>
          order[o].kind = "recurring" /\ order[o].sub = s /\ order[o].start # NoTime
     /\ thread[t].pc \in {"findPeriodPayment", "createPeriodPayment", "renewFromPayment"} =>
          row.currentPeriodEnd # NoTime
     /\ thread[t].pc = "renewFromPayment" => Paid(s, row.currentPeriodEnd + Period)

PaidInv ==
  /\ OrdersPaid
  /\ \A s \in Subs : Covered(s, subscription[s])
  /\ \A t \in Threads : LocalPaid(t)

\* What no step undoes: an order with a first day is left as it is, an order
\* that is used keeps its kind, and Toss takes back no charge.
OrdersKept ==
  /\ \A o \in Orders : order[o].start # NoTime => order'[o] = order[o]
  /\ \A o \in Orders : order[o].kind # "unused" => order'[o].kind = order[o].kind
  /\ approved \subseteq approved'

\* Paid(s, end) in the next state, of a subscription and a day of this one.
PaidAfter(s, end) ==
  \E o \in approved' :
    /\ order'[o].sub = s
    /\ order'[o].start # NoTime
    /\ order'[o].start + Period = end

\* Every step keeps what is ordered and charged.
LEMMA StepKeepsOrders ==
  ASSUME Typed, PaidInv, [Next]_vars
  PROVE  OrdersKept
<1>0. order \in [Orders -> OrderRecord]
  BY DEF Typed, TypeOK
<1>1. approved \subseteq approved'
  BY DEF Next, vars, RequestArrives, RequestStep, SchedulerStep, Tick, Crash, TossCharge,
         CreateSubscription, CancelSubscription, ClaimBillingAuthorization, ConfirmPayment,
         SaveNewSubscription, CancelSubscriptionCommit, IssueBillingKey, FirstCharge,
         FinalizeFirstCharge, ResetBillingAuthorization, ConfirmAtToss, ConfirmRead,
         ConfirmCommit, StartRun, NextQuery, CancelExpiring, CancelExpiringCommit,
         PrepareCharge, FindPeriodPayment, RenewFromPayment, CreatePeriodPayment,
         ExecuteBilling, FinalizeRead, FinalizeCommit
<1>2. CASE UNCHANGED order
  BY <1>1, <1>2 DEF OrdersKept
<1>3. ASSUME NEW o \in Orders, NEW new,
             FreshOrder(o), order' = [order EXCEPT ![o] = new]
      PROVE  OrdersKept
  BY <1>0, <1>1, <1>3 DEF OrdersKept, FreshOrder, Unused
<1>4. ASSUME NEW r \in Requests, ConfirmPayment(r) PROVE OrdersKept
  BY <1>2, <1>3, <1>4 DEF ConfirmPayment
<1>5. ASSUME NEW r \in Requests, FirstCharge(r) PROVE OrdersKept
  BY <1>2, <1>3, <1>5 DEF FirstCharge
<1>6. ASSUME NEW r \in Requests, ConfirmCommit(r) PROVE OrdersKept
  <2> DEFINE o == thread[r].order
  <2>1. o \in Orders /\ order[o].kind = "widget"
    BY <1>6, LocalTypes DEF ConfirmCommit, At, OrderPc, Threads, PaidInv, LocalPaid
  <2>2. CASE /\ payment[o] = "NONE"
             /\ \E start \in {NoTime, now} :
                  order' = [order EXCEPT ![o] =
                    [kind |-> "widget", sub |-> thread[r].sub, start |-> start]]
    <3>1. order[o].start = NoTime
      BY <2>1, <2>2 DEF PaidInv, OrdersPaid
    <3> QED
      BY <1>0, <1>1, <2>1, <2>2, <3>1 DEF OrdersKept
  <2> QED
    BY <1>2, <1>6, <2>2 DEF ConfirmCommit
<1>7. ASSUME NEW w \in Schedulers, CreatePeriodPayment(w) PROVE OrdersKept
  BY <1>2, <1>3, <1>7 DEF CreatePeriodPayment
<1> QED
  BY <1>2, <1>4, <1>5, <1>6, <1>7
     DEF Next, vars, RequestArrives, RequestStep, SchedulerStep, Tick, Crash,
         CreateSubscription, CancelSubscription, ClaimBillingAuthorization,
         SaveNewSubscription, CancelSubscriptionCommit, IssueBillingKey,
         FinalizeFirstCharge, ResetBillingAuthorization, ConfirmAtToss, ConfirmRead,
         StartRun, NextQuery, CancelExpiring, CancelExpiringCommit, PrepareCharge,
         FindPeriodPayment, RenewFromPayment, ExecuteBilling, FinalizeRead, FinalizeCommit

\* A period that is paid for stays so.
LEMMA PaidStays ==
  ASSUME Typed, OrdersKept
  PROVE  \A s, end : Paid(s, end) => PaidAfter(s, end)
<1>1. approved \subseteq Orders
  BY DEF Typed, TypeOK
<1> QED
  BY <1>1 DEF OrdersKept, Paid, PaidAfter

\* A thread that does nothing keeps what it holds paid for.
LEMMA LocalStays ==
  ASSUME Typed, OrdersKept, NEW t \in Threads, LocalPaid(t), thread'[t] = thread[t]
  PROVE  LocalPaid(t)'
<1> DEFINE s == thread[t].sub
           o == thread[t].order
           row == thread[t].row
<1>1. Covered(s, row)'
  BY PaidStays DEF LocalPaid, Covered, Paid, PaidAfter
<1>2. thread[t].ok => o \in approved'
  BY DEF LocalPaid, OrdersKept
<1>3. thread[t].pc \in OrderPc => o \in Orders
  BY DEF Typed, LocalsOK
<1>4. thread[t].pc \in {"confirmPayment", "confirmRead", "confirmCommit"} =>
        order'[o].kind = "widget"
  BY <1>3 DEF LocalPaid, OrdersKept, OrderPc
<1>5. thread[t].pc \in {"finalizeFirstCharge", "executeBilling", "finalizeRead",
                        "finalizeCommit"} => order'[o] = order[o]
  BY <1>3 DEF LocalPaid, OrdersKept, OrderPc
<1>6. thread[t].pc = "renewFromPayment" => PaidAfter(s, row.currentPeriodEnd + Period)
  BY PaidStays DEF LocalPaid
<1> QED
  BY <1>1, <1>2, <1>4, <1>5, <1>6 DEF LocalPaid, Paid, PaidAfter

\* A thread that ends holds nothing.
LEMMA ReturnPaid ==
  ASSUME Typed, NEW t \in Threads, Return(t)
  PROVE  LocalPaid(t)'
<1>1. thread'[t] = Idle
  BY DEF Typed, TypeOK, Return
<1> QED
  BY <1>1 DEF LocalPaid, Covered, Idle, NoRow

\* A step keeps the invariant if the row it writes and the local variables it
\* leaves are paid for.
LEMMA StepKeepsPaid ==
  ASSUME Typed, PaidInv, OrdersKept, OrdersPaid',
         NEW t \in Threads, NEW local, thread' = [thread EXCEPT ![t] = local],
         LocalPaid(t)',
         \/ UNCHANGED subscription
         \/ \E s \in Subs, row \in Row :
              /\ Write(s, row)
              /\ row.currentPeriodEnd # NoTime => PaidAfter(s, row.currentPeriodEnd)
  PROVE  PaidInv'
<1>1. subscription \in [Subs -> Row] /\ thread \in [Threads -> ThreadState]
  BY DEF Typed, TypeOK
<1>2. ASSUME NEW x \in Threads PROVE LocalPaid(x)'
  <2>1. CASE x # t
    <3>1. thread'[x] = thread[x]
      BY <1>1, <2>1
    <3> QED
      BY <3>1, LocalStays DEF PaidInv
  <2> QED
    BY <2>1
<1>3. ASSUME NEW x \in Subs PROVE Covered(x, subscription[x])'
  <2>1. CASE subscription'[x] = subscription[x]
    BY <2>1, PaidStays DEF PaidInv, Covered, Paid, PaidAfter
  <2>2. CASE \E row \in Row :
               /\ subscription'[x] = row
               /\ row.currentPeriodEnd # NoTime => PaidAfter(x, row.currentPeriodEnd)
    BY <2>2 DEF Covered, Paid, PaidAfter
  <2> QED
    BY <1>1, <2>1, <2>2 DEF Write
<1> QED
  BY <1>2, <1>3 DEF PaidInv

\* Only a renewal moves the end of the period, and it moves it by one period.
LEMMA PeriodEnds ==
  ASSUME NEW row \in Row, NEW at \in Nat, now \in Nat
  PROVE  /\ BeginAuthorization(row).currentPeriodEnd = row.currentPeriodEnd
         /\ ResetAuthorization(row).currentPeriodEnd = row.currentPeriodEnd
         /\ Cancel(row).currentPeriodEnd = row.currentPeriodEnd
         /\ CanceledByUser(row).currentPeriodEnd = row.currentPeriodEnd
         /\ AfterFailure(row).currentPeriodEnd = row.currentPeriodEnd
         /\ Renew(row, at).currentPeriodEnd = at + Period
         /\ Activate(row, at).currentPeriodEnd = at + Period
<1>1. /\ BeginAuthorization(row).currentPeriodEnd = row.currentPeriodEnd
      /\ ResetAuthorization(row).currentPeriodEnd = row.currentPeriodEnd
  BY DEF BeginAuthorization, ResetAuthorization, Row
<1>2. /\ Cancel(row).currentPeriodEnd = row.currentPeriodEnd
      /\ ScheduleCancelAtPeriodEnd(row).currentPeriodEnd = row.currentPeriodEnd
  BY DEF Cancel, ScheduleCancelAtPeriodEnd, Row
<1>3. CanceledByUser(row).currentPeriodEnd = row.currentPeriodEnd
  BY <1>2 DEF CanceledByUser
<1>4. AfterFailure(row).currentPeriodEnd = row.currentPeriodEnd
  <2> DEFINE pastDue == MarkPastDue(row, now + 1)
  <2>1. pastDue.currentPeriodEnd = row.currentPeriodEnd
    BY DEF MarkPastDue, Row
  <2>2. Cancel(pastDue).currentPeriodEnd = pastDue.currentPeriodEnd
    BY DEF Cancel, MarkPastDue, Row
  <2> QED
    BY <2>1, <2>2 DEF AfterFailure
<1>5. Renew(row, at).currentPeriodEnd = at + Period
  BY DEF Renew, Row
<1> QED
  BY <1>1, <1>2, <1>3, <1>4, <1>5 DEF Activate

\* The clock, the table's rows and the threads of a state with the invariant.
LEMMA PaidFacts ==
  ASSUME Typed, PaidInv, OrdersKept, NEW t \in Threads
  PROVE  /\ now \in Nat \ {NoTime}
         /\ \A s \in Subs :
              /\ subscription[s] \in Row
              /\ subscription[s].currentPeriodEnd # NoTime =>
                   PaidAfter(s, subscription[s].currentPeriodEnd)
         /\ thread[t].row.currentPeriodEnd # NoTime =>
              PaidAfter(thread[t].sub, thread[t].row.currentPeriodEnd)
         /\ thread \in [Threads -> ThreadState]
         /\ order \in [Orders -> OrderRecord]
         /\ payment \in [Orders -> PaymentStatus]
<1>1. \A s \in Subs : Covered(s, subscription[s])
  BY DEF PaidInv
<1>2. Covered(thread[t].sub, thread[t].row)
  BY DEF PaidInv, LocalPaid
<1> QED
  BY <1>1, <1>2, PaidStays DEF Covered, Typed, TypeOK

\* A step that touches neither the payments nor the orders keeps them paid.
LEMMA OrdersStayPaid ==
  ASSUME Typed, PaidInv, OrdersKept, UNCHANGED <<order, payment>>
  PROVE  OrdersPaid'
BY DEF PaidInv, OrdersPaid, OrdersKept, Typed, TypeOK

\* So does a step that touches no row and no thread.
LEMMA IdleStepKeepsPaid ==
  ASSUME Typed, PaidInv, OrdersKept, UNCHANGED <<subscription, order, payment, thread>>
  PROVE  PaidInv'
<1>1. OrdersPaid'
  BY OrdersStayPaid
<1>2. \A t \in Threads : LocalPaid(t)'
  BY LocalStays DEF PaidInv
<1>3. ASSUME NEW s \in Subs PROVE Covered(s, subscription[s])'
  <2>1. subscription'[s] = subscription[s]
    OBVIOUS
  <2> QED
    BY <2>1, PaidStays DEF PaidInv, Covered, Paid, PaidAfter
<1> QED
  BY <1>1, <1>2, <1>3 DEF PaidInv

\* Every request keeps what it writes paid for.
LEMMA RequestKeepsPaid ==
  ASSUME Typed, PaidInv, OrdersKept, NEW r \in Requests,
         RequestArrives(r) \/ RequestStep(r)
  PROVE  PaidInv'
<1> DEFINE s == thread[r].sub
           o == thread[r].order
           row == thread[r].row
<1>0. r \in Threads
  BY DEF Threads
<1>00. LocalPaid(r)
  BY <1>0 DEF PaidInv
<1>1. ASSUME Return(r), OrdersPaid',
             \/ UNCHANGED subscription
             \/ \E x \in Subs, y \in Row :
                  /\ Write(x, y)
                  /\ y.currentPeriodEnd # NoTime => PaidAfter(x, y.currentPeriodEnd)
      PROVE  PaidInv'
  BY <1>0, <1>1, ReturnPaid, StepKeepsPaid DEF Return
<1>2. ASSUME NEW pc, NEW x, NEW y, NEW z, NEW ok, Goto(r, pc, x, y, z, ok),
             LocalPaid(r)', OrdersPaid', UNCHANGED subscription
      PROVE  PaidInv'
  BY <1>0, <1>2, StepKeepsPaid DEF Goto
<1>3. ASSUME NEW pc \in {"createSubscription", "cancelSubscription", "issueBillingKey",
                        "firstCharge", "resetAuthorization"},
             NEW x, NEW y, NEW z,
             Goto(r, pc, x, y, z, FALSE),
             y.currentPeriodEnd # NoTime => PaidAfter(x, y.currentPeriodEnd)
      PROVE  LocalPaid(r)'
  <2>1. thread'[r] = [pc |-> pc, sub |-> x, row |-> y, order |-> z, ok |-> FALSE]
    BY <1>0, <1>3, PaidFacts DEF Goto
  <2> QED
    BY <1>3, <2>1 DEF LocalPaid, Covered, Paid, PaidAfter
<1>4. NoRow.currentPeriodEnd = NoTime
  BY DEF NoRow
<1>5. CASE CreateSubscription(r)
  BY <1>2, <1>3, <1>4, <1>5, OrdersStayPaid DEF CreateSubscription
<1>6. CASE CancelSubscription(r)
  BY <1>0, <1>2, <1>3, <1>6, PaidFacts, OrdersStayPaid DEF CancelSubscription
<1>7. CASE ClaimBillingAuthorization(r)
  <2>1. PICK x \in Subs : /\ Write(x, BeginAuthorization(subscription[x]))
                          /\ Goto(r, "issueBillingKey", x, NoRow, NoOrder, FALSE)
    BY <1>7 DEF ClaimBillingAuthorization
  <2>2. LocalPaid(r)'
    BY <1>3, <1>4, <2>1
  <2>3. /\ BeginAuthorization(subscription[x]) \in Row
        /\ BeginAuthorization(subscription[x]).currentPeriodEnd =
             subscription[x].currentPeriodEnd
    BY <1>0, PaidFacts, PeriodEnds, RowTypes
  <2>4. OrdersPaid'
    BY <1>7, OrdersStayPaid DEF ClaimBillingAuthorization
  <2> QED
    BY <1>0, <2>1, <2>2, <2>3, <2>4, PaidFacts, StepKeepsPaid DEF Goto
<1>8. CASE SaveNewSubscription(r)
  <2>1. Created \in Row /\ Created.currentPeriodEnd = NoTime
    BY RowTypes DEF Created, NoRow
  <2> QED
    BY <1>1, <1>8, <2>1, OrdersStayPaid DEF SaveNewSubscription
<1>9. CASE CancelSubscriptionCommit(r)
  <2>1. s \in Subs /\ row \in Row /\ CanceledByUser(row) \in Row /\ now \in Nat
    BY <1>0, <1>9, LocalTypes, RowTypes, PaidFacts DEF CancelSubscriptionCommit, At
  <2>2. CanceledByUser(row).currentPeriodEnd # NoTime =>
          PaidAfter(s, CanceledByUser(row).currentPeriodEnd)
    BY <1>0, <2>1, PeriodEnds, PaidFacts
  <2>3. UNCHANGED subscription \/ Write(s, CanceledByUser(row))
    BY <1>9 DEF CancelSubscriptionCommit, Save
  <2> QED
    BY <1>1, <1>9, <2>1, <2>2, <2>3, OrdersStayPaid DEF CancelSubscriptionCommit
<1>10. CASE IssueBillingKey(r)
  BY <1>1, <1>2, <1>3, <1>4, <1>10, OrdersStayPaid DEF IssueBillingKey
<1>11. CASE ConfirmRead(r)
  <2>1. CASE Return(r)
    BY <1>1, <1>11, <2>1, OrdersStayPaid DEF ConfirmRead
  <2>2. CASE Goto(r, "confirmCommit", s, subscription[s], o, thread[r].ok)
    <3>1. thread'[r] = [pc |-> "confirmCommit", sub |-> s, row |-> subscription[s],
                        order |-> o, ok |-> thread[r].ok]
      BY <1>0, <2>2, PaidFacts DEF Goto
    <3>2. thread[r].ok => o \in approved
      BY <1>00 DEF LocalPaid
    <3>3. s \in Subs /\ order[o].kind = "widget"
      BY <1>0, <1>00, <1>11, LocalTypes DEF ConfirmRead, At, LocalPaid
    <3>4. LocalPaid(r)'
      BY <1>0, <1>11, <3>1, <3>2, <3>3, PaidFacts
         DEF ConfirmRead, LocalPaid, Covered, Paid, PaidAfter
    <3> QED
      BY <1>2, <1>11, <2>2, <3>4, OrdersStayPaid DEF ConfirmRead
  <2> QED
    BY <1>11, <2>1, <2>2 DEF ConfirmRead
<1>12. CASE ResetBillingAuthorization(r)
  <2>1. /\ s \in Subs /\ subscription[s] \in Row
        /\ ResetAuthorization(subscription[s]) \in Row /\ now \in Nat
    BY <1>0, <1>12, LocalTypes, RowTypes, PaidFacts DEF ResetBillingAuthorization, At
  <2>2. ResetAuthorization(subscription[s]).currentPeriodEnd # NoTime =>
          PaidAfter(s, ResetAuthorization(subscription[s]).currentPeriodEnd)
    BY <1>0, <2>1, PeriodEnds, PaidFacts
  <2> QED
    BY <1>1, <1>12, <2>1, <2>2, OrdersStayPaid DEF ResetBillingAuthorization
<1>13. CASE FirstCharge(r)
  <2>1. PICK x \in Orders, answer \in {"done", "notDone", "failed"} :
          /\ FreshOrder(x)
          /\ TossCharge(x, answer)
          /\ order' = IF x \in approved' \/ answer = "notDone"
                      THEN [order EXCEPT ![x] = [kind |-> "first", sub |-> s, start |-> now]]
                      ELSE order
          /\ IF answer = "failed"
             THEN Goto(r, "resetAuthorization", s, NoRow, NoOrder, FALSE)
             ELSE Goto(r, "finalizeFirstCharge", s, NoRow, x, answer = "done")
    BY <1>13 DEF FirstCharge
  <2>2. OrdersPaid'
    BY <1>0, <1>13, <2>1, PaidFacts DEF FirstCharge, PaidInv, OrdersPaid, OrdersKept
  <2>3. CASE answer = "failed"
    BY <1>2, <1>3, <1>4, <1>13, <2>1, <2>2, <2>3 DEF FirstCharge
  <2>4. CASE answer # "failed"
    <3>0. Goto(r, "finalizeFirstCharge", s, NoRow, x, answer = "done")
      BY <2>1, <2>4
    <3>1. /\ thread'[r].pc = "finalizeFirstCharge" /\ thread'[r].sub = s
          /\ thread'[r].row = NoRow /\ thread'[r].order = x
          /\ thread'[r].ok => answer = "done"
      BY <1>0, <3>0, PaidFacts DEF Goto
    <3>2. answer = "done" => x \in approved'
      BY <2>1 DEF TossCharge
    <3>3. order'[x] = [kind |-> "first", sub |-> s, start |-> now]
      BY <1>0, <2>1, <2>4, <3>2, PaidFacts
    <3>4. LocalPaid(r)'
      BY <1>0, <1>4, <3>1, <3>2, <3>3, PaidFacts DEF LocalPaid, Covered
    <3> QED
      BY <1>2, <1>13, <2>1, <2>2, <2>4, <3>4 DEF FirstCharge
  <2> QED
    BY <2>3, <2>4
<1>14. CASE FinalizeFirstCharge(r)
  <2>1. /\ s \in Subs /\ subscription[s] \in Row /\ o \in Orders
        /\ order[o].start \in Nat /\ now \in Nat
    BY <1>0, <1>14, LocalTypes, PaidFacts DEF FinalizeFirstCharge, At, OrderPc
  <2>2. /\ order[o].kind = "first" /\ order[o].sub = s /\ order[o].start # NoTime
        /\ thread[r].ok => o \in approved
    BY <1>00, <1>14 DEF FinalizeFirstCharge, At, LocalPaid
  <2>3. OrdersPaid'
    BY <1>0, <1>14, <2>1, <2>2, PaidFacts
       DEF FinalizeFirstCharge, PaidInv, OrdersPaid, OrdersKept
  <2>4. /\ Activate(subscription[s], order[o].start) \in Row
        /\ ResetAuthorization(subscription[s]) \in Row
    BY <2>1, RowTypes
  <2>5. thread[r].ok => PaidAfter(s, Activate(subscription[s], order[o].start).currentPeriodEnd)
    BY <1>14, <2>1, <2>2, PeriodEnds DEF FinalizeFirstCharge, PaidAfter
  <2>6. ResetAuthorization(subscription[s]).currentPeriodEnd # NoTime =>
          PaidAfter(s, ResetAuthorization(subscription[s]).currentPeriodEnd)
    BY <1>0, <2>1, PeriodEnds, PaidFacts
  <2> QED
    BY <1>1, <1>14, <2>1, <2>3, <2>4, <2>5, <2>6 DEF FinalizeFirstCharge
<1>15. CASE ConfirmPayment(r)
  <2>1. PICK x \in Subs, z \in Orders :
          /\ \/ order' = [order EXCEPT ![z] = [kind |-> "widget", sub |-> x, start |-> NoTime]]
             \/ order[z].kind = "widget" /\ UNCHANGED order
          /\ Goto(r, "confirmPayment", x, NoRow, z, FALSE)
    BY <1>15 DEF ConfirmPayment
  <2>2. OrdersPaid'
    BY <1>0, <1>15, <2>1, PaidFacts DEF ConfirmPayment, PaidInv, OrdersPaid
  <2>3. thread'[r] = [pc |-> "confirmPayment", sub |-> x, row |-> NoRow,
                      order |-> z, ok |-> FALSE]
    BY <1>0, <2>1, PaidFacts DEF Goto
  <2>4. order'[z].kind = "widget"
    BY <1>0, <2>1, PaidFacts
  <2>5. LocalPaid(r)'
    BY <1>4, <2>3, <2>4 DEF LocalPaid, Covered
  <2> QED
    BY <1>2, <1>15, <2>1, <2>2, <2>5 DEF ConfirmPayment
<1>16. CASE ConfirmAtToss(r)
  <2>1. PICK answer \in {"done", "notDone", "failed"} :
          /\ TossCharge(o, answer)
          /\ \/ Return(r)
             \/ Goto(r, "confirmRead", s, NoRow, o, answer = "done")
    BY <1>16 DEF ConfirmAtToss
  <2>2. OrdersPaid'
    BY <1>16, OrdersStayPaid DEF ConfirmAtToss
  <2>3. CASE Return(r)
    BY <1>1, <1>16, <2>2, <2>3 DEF ConfirmAtToss
  <2>4. CASE Goto(r, "confirmRead", s, NoRow, o, answer = "done")
    <3>1. /\ thread'[r].pc = "confirmRead" /\ thread'[r].sub = s
          /\ thread'[r].row = NoRow /\ thread'[r].order = o
          /\ thread'[r].ok => answer = "done"
      BY <1>0, <2>4, PaidFacts DEF Goto
    <3>2. answer = "done" => o \in approved'
      BY <2>1 DEF TossCharge
    <3>3. order'[o].kind = "widget"
      BY <1>00, <1>16 DEF ConfirmAtToss, At, LocalPaid
    <3>4. LocalPaid(r)'
      BY <1>4, <3>1, <3>2, <3>3 DEF LocalPaid, Covered
    <3> QED
      BY <1>2, <1>16, <2>2, <2>4, <3>4 DEF ConfirmAtToss
  <2> QED
    BY <2>1, <2>3, <2>4
<1>17. CASE ConfirmCommit(r)
  <2>1. s \in Subs /\ row \in Row /\ o \in Orders /\ now \in Nat \ {NoTime}
    BY <1>0, <1>17, LocalTypes, PaidFacts DEF ConfirmCommit, At, OrderPc
  <2>2. thread[r].ok => o \in approved
    BY <1>00 DEF LocalPaid
  <2>3. OrdersPaid'
    BY <1>0, <1>17, <2>1, <2>2, PaidFacts
       DEF ConfirmCommit, PaidInv, OrdersPaid, OrdersKept
  <2>4. Activate(row, now) \in Row /\ Activate(row, now).currentPeriodEnd = now + Period
    BY <2>1, RowTypes, PeriodEnds
  <2>5. CASE UNCHANGED subscription
    BY <1>1, <1>17, <2>3, <2>5 DEF ConfirmCommit
  <2>6. CASE /\ thread[r].ok
             /\ order' = [order EXCEPT ![o] = [kind |-> "widget", sub |-> s, start |-> now]]
             /\ Write(s, Activate(row, now))
    <3>1. PaidAfter(s, now + Period)
      BY <1>0, <1>17, <2>1, <2>2, <2>6, PaidFacts DEF ConfirmCommit, PaidAfter
    <3> QED
      BY <1>1, <1>17, <2>1, <2>3, <2>4, <2>6, <3>1 DEF ConfirmCommit
  <2> QED
    BY <1>17, <2>5, <2>6 DEF ConfirmCommit
<1> QED
  BY <1>5, <1>6, <1>7, <1>8, <1>9, <1>10, <1>11, <1>12, <1>13, <1>14, <1>15, <1>16, <1>17
     DEF RequestArrives, RequestStep

\* Every scheduler keeps what it writes paid for.
LEMMA SchedulerKeepsPaid ==
  ASSUME Typed, PaidInv, OrdersKept, NEW w \in Schedulers, SchedulerStep(w)
  PROVE  PaidInv'
<1> DEFINE s == thread[w].sub
           o == thread[w].order
           row == thread[w].row
<1>0. w \in Threads
  BY DEF Threads
<1>00. LocalPaid(w)
  BY <1>0 DEF PaidInv
<1>1. ASSUME Return(w), OrdersPaid',
             \/ UNCHANGED subscription
             \/ \E x \in Subs, y \in Row :
                  /\ Write(x, y)
                  /\ y.currentPeriodEnd # NoTime => PaidAfter(x, y.currentPeriodEnd)
      PROVE  PaidInv'
  BY <1>0, <1>1, ReturnPaid, StepKeepsPaid DEF Return
<1>2. ASSUME NEW pc, NEW x, NEW y, NEW z, NEW ok, Goto(w, pc, x, y, z, ok),
             LocalPaid(w)', OrdersPaid', UNCHANGED subscription
      PROVE  PaidInv'
  BY <1>0, <1>2, StepKeepsPaid DEF Goto
<1>4. NoRow.currentPeriodEnd = NoTime /\ NoTime = 0
  BY DEF NoRow, NoTime
<1>5. CASE StartRun(w) \/ NextQuery(w)
  BY <1>5, IdleStepKeepsPaid DEF StartRun, NextQuery
<1>6. CASE CancelExpiring(w) \/ PrepareCharge(w)
  <2>1. CASE UNCHANGED thread
    BY <1>6, <2>1, IdleStepKeepsPaid DEF CancelExpiring, PrepareCharge
  <2>2. ASSUME NEW x \in Subs, NEW pc \in {"cancelExpiring", "findPeriodPayment"},
               pc = "findPeriodPayment" => subscription[x].currentPeriodEnd # NoTime,
               Goto(w, pc, x, subscription[x], NoOrder, FALSE)
        PROVE  PaidInv'
    <3>1. thread'[w] = [pc |-> pc, sub |-> x, row |-> subscription[x],
                        order |-> NoOrder, ok |-> FALSE]
      BY <1>0, <2>2, PaidFacts DEF Goto
    <3>2. LocalPaid(w)'
      BY <1>0, <2>2, <3>1, PaidFacts DEF LocalPaid, Covered, Paid, PaidAfter
    <3> QED
      BY <1>2, <1>6, <2>2, <3>2, OrdersStayPaid DEF CancelExpiring, PrepareCharge
  <2>3. run[w].todo \subseteq Subs
    BY DEF Typed, TypeOK, RunState
  <2> QED
    BY <1>6, <2>1, <2>2, <2>3 DEF CancelExpiring, PrepareCharge
<1>7. CASE CancelExpiringCommit(w)
  <2>1. s \in Subs /\ row \in Row /\ Cancel(row) \in Row /\ now \in Nat
    BY <1>0, <1>7, LocalTypes, RowTypes, PaidFacts DEF CancelExpiringCommit, At
  <2>2. Cancel(row).currentPeriodEnd # NoTime => PaidAfter(s, Cancel(row).currentPeriodEnd)
    BY <1>0, <2>1, PeriodEnds, PaidFacts
  <2>3. UNCHANGED subscription \/ Write(s, Cancel(row))
    BY <1>7 DEF CancelExpiringCommit, Save
  <2> QED
    BY <1>1, <1>7, <2>1, <2>2, <2>3, OrdersStayPaid DEF CancelExpiringCommit
<1>8. CASE FindPeriodPayment(w)
  <2>1. /\ s \in Subs /\ row \in Row /\ row.currentPeriodEnd # NoTime
        /\ row.currentPeriodEnd \in Nat
    BY <1>0, <1>00, <1>8, LocalTypes DEF FindPeriodPayment, At, LocalPaid, Row
  <2>2. OrdersPaid'
    BY <1>8, OrdersStayPaid DEF FindPeriodPayment
  <2>3. CASE Goto(w, "createPeriodPayment", s, row, NoOrder, FALSE)
    <3>1. thread'[w] = [pc |-> "createPeriodPayment", sub |-> s, row |-> row,
                        order |-> NoOrder, ok |-> FALSE]
      BY <1>0, <2>3, PaidFacts DEF Goto
    <3>2. LocalPaid(w)'
      BY <1>0, <2>1, <3>1, PaidFacts DEF LocalPaid, Covered, Paid, PaidAfter
    <3> QED
      BY <1>2, <1>8, <2>2, <2>3, <3>2 DEF FindPeriodPayment
  <2>4. CASE /\ \E x \in PeriodPayment(s, row.currentPeriodEnd) : AlreadyPaid(x)
             /\ Goto(w, "renewFromPayment", s, row, NoOrder, FALSE)
    <3>1. thread'[w] = [pc |-> "renewFromPayment", sub |-> s, row |-> row,
                        order |-> NoOrder, ok |-> FALSE]
      BY <1>0, <2>4, PaidFacts DEF Goto
    <3>2. PaidAfter(s, row.currentPeriodEnd + Period)
      <4>1. Paid(s, row.currentPeriodEnd + Period)
        BY <2>1, <2>4 DEF PeriodPayment, AlreadyPaid, PaidInv, OrdersPaid, Paid
      <4> QED
        BY <4>1, PaidStays
    <3>3. LocalPaid(w)'
      BY <1>0, <2>1, <3>1, <3>2, PaidFacts DEF LocalPaid, Covered, Paid, PaidAfter
    <3> QED
      BY <1>2, <1>8, <2>2, <2>4, <3>3 DEF FindPeriodPayment
  <2>5. ASSUME NEW x \in PeriodPayment(s, row.currentPeriodEnd),
               Goto(w, "executeBilling", s, NoRow, x, FALSE)
        PROVE  PaidInv'
    <3>1. thread'[w] = [pc |-> "executeBilling", sub |-> s, row |-> NoRow,
                        order |-> x, ok |-> FALSE]
      BY <1>0, <2>5, PaidFacts DEF Goto
    <3>2. order'[x] = [kind |-> "recurring", sub |-> s, start |-> row.currentPeriodEnd]
      BY <1>8, <2>5 DEF FindPeriodPayment, PeriodPayment
    <3>3. LocalPaid(w)'
      BY <1>4, <2>1, <3>1, <3>2 DEF LocalPaid, Covered
    <3> QED
      BY <1>2, <1>8, <2>2, <2>5, <3>3 DEF FindPeriodPayment
  <2> QED
    BY <1>8, <2>3, <2>4, <2>5 DEF FindPeriodPayment
<1>9. CASE RenewFromPayment(w)
  <2>1. s \in Subs /\ row \in Row /\ row.currentPeriodEnd \in Nat /\ now \in Nat
    BY <1>0, <1>9, LocalTypes, PaidFacts DEF RenewFromPayment, At, Row
  <2> DEFINE renewed == Renew(row, row.currentPeriodEnd)
  <2>2. renewed \in Row /\ renewed.currentPeriodEnd = row.currentPeriodEnd + Period
    BY <2>1, RowTypes, PeriodEnds
  <2>3. PaidAfter(s, row.currentPeriodEnd + Period)
    BY <1>00, <1>9, PaidStays DEF RenewFromPayment, At, LocalPaid
  <2>4. UNCHANGED subscription \/ Write(s, renewed)
    BY <1>9 DEF RenewFromPayment, Save
  <2> QED
    BY <1>1, <1>9, <2>1, <2>2, <2>3, <2>4, OrdersStayPaid DEF RenewFromPayment
<1>10. CASE CreatePeriodPayment(w)
  <2>1. /\ s \in Subs /\ row.currentPeriodEnd \in Nat /\ row.currentPeriodEnd # NoTime
    BY <1>0, <1>00, <1>10, LocalTypes DEF CreatePeriodPayment, At, LocalPaid, Row
  <2>2. CASE Return(w) /\ UNCHANGED <<order, payment>>
    BY <1>1, <1>10, <2>2, OrdersStayPaid DEF CreatePeriodPayment
  <2>3. ASSUME NEW x \in Orders, FreshOrder(x),
               order' = [order EXCEPT ![x] =
                 [kind |-> "recurring", sub |-> s, start |-> row.currentPeriodEnd]],
               payment' = [payment EXCEPT ![x] = "IN_PROGRESS"],
               Goto(w, "executeBilling", s, NoRow, x, FALSE)
        PROVE  PaidInv'
    <3>1. OrdersPaid'
      BY <1>0, <2>3, PaidFacts DEF PaidInv, OrdersPaid, OrdersKept
    <3>2. thread'[w] = [pc |-> "executeBilling", sub |-> s, row |-> NoRow,
                        order |-> x, ok |-> FALSE]
      BY <1>0, <2>3, PaidFacts DEF Goto
    <3>3. order'[x] = [kind |-> "recurring", sub |-> s, start |-> row.currentPeriodEnd]
      BY <1>0, <2>3, PaidFacts
    <3>4. LocalPaid(w)'
      BY <1>4, <2>1, <3>2, <3>3 DEF LocalPaid, Covered
    <3> QED
      BY <1>2, <1>10, <2>3, <3>1, <3>4 DEF CreatePeriodPayment
  <2> QED
    BY <1>10, <2>2, <2>3 DEF CreatePeriodPayment
<1>11. CASE ExecuteBilling(w)
  <2>1. /\ order[o].kind = "recurring" /\ order[o].sub = s /\ order[o].start # NoTime
    BY <1>00, <1>11 DEF ExecuteBilling, At, LocalPaid
  <2>2. OrdersPaid' /\ UNCHANGED <<order, subscription>>
    BY <1>11, OrdersStayPaid DEF ExecuteBilling
  <2>3. \/ \E answer \in {"done", "failed"} :
             /\ TossCharge(o, answer)
             /\ Goto(w, "finalizeRead", s, NoRow, o, answer = "done")
        \/ Goto(w, "finalizeRead", s, NoRow, o, FALSE)
    BY <1>11 DEF ExecuteBilling
  <2>4. ASSUME NEW ok \in BOOLEAN, ok => o \in approved',
               Goto(w, "finalizeRead", s, NoRow, o, ok)
        PROVE  PaidInv'
    <3>1. /\ thread'[w].pc = "finalizeRead" /\ thread'[w].sub = s
          /\ thread'[w].row = NoRow /\ thread'[w].order = o
          /\ thread'[w].ok => ok
      BY <1>0, <2>4, PaidFacts DEF Goto
    <3>2. LocalPaid(w)'
      BY <1>4, <2>1, <2>2, <2>4, <3>1 DEF LocalPaid, Covered
    <3> QED
      BY <1>2, <2>2, <2>4, <3>2
  <2>5. ASSUME NEW answer \in {"done", "failed"}, TossCharge(o, answer),
               Goto(w, "finalizeRead", s, NoRow, o, answer = "done")
        PROVE  PaidInv'
    <3>1. answer = "done" => o \in approved'
      BY <2>5 DEF TossCharge
    <3> QED
      BY <2>4, <2>5, <3>1
  <2> QED
    BY <2>3, <2>4, <2>5
<1>12. CASE FinalizeRead(w)
  <2>1. CASE Return(w)
    BY <1>1, <1>12, <2>1, OrdersStayPaid DEF FinalizeRead
  <2>2. CASE Goto(w, "finalizeCommit", s, subscription[s], o, thread[w].ok)
    <3>1. thread'[w] = [pc |-> "finalizeCommit", sub |-> s, row |-> subscription[s],
                        order |-> o, ok |-> thread[w].ok]
      BY <1>0, <2>2, PaidFacts DEF Goto
    <3>2. /\ order[o].kind = "recurring" /\ order[o].sub = s /\ order[o].start # NoTime
          /\ thread[w].ok => o \in approved
      BY <1>00, <1>12 DEF FinalizeRead, At, LocalPaid
    <3>3. s \in Subs
      BY <1>0, <1>12, LocalTypes DEF FinalizeRead, At
    <3>4. LocalPaid(w)'
      BY <1>0, <1>12, <3>1, <3>2, <3>3, PaidFacts
         DEF FinalizeRead, LocalPaid, Covered, Paid, PaidAfter
    <3> QED
      BY <1>2, <1>12, <2>2, <3>4, OrdersStayPaid DEF FinalizeRead
  <2> QED
    BY <1>12, <2>1, <2>2 DEF FinalizeRead
<1>13. CASE FinalizeCommit(w)
  <2>1. /\ s \in Subs /\ row \in Row /\ o \in Orders
        /\ order[o].start \in Nat /\ now \in Nat
    BY <1>0, <1>13, LocalTypes, PaidFacts DEF FinalizeCommit, At, OrderPc
  <2>2. /\ order[o].kind = "recurring" /\ order[o].sub = s /\ order[o].start # NoTime
        /\ thread[w].ok => o \in approved
    BY <1>00, <1>13 DEF FinalizeCommit, At, LocalPaid
  <2>3. OrdersPaid'
    BY <1>0, <1>13, <2>1, <2>2, PaidFacts
       DEF FinalizeCommit, PaidInv, OrdersPaid, OrdersKept
  <2>4. Renew(row, order[o].start) \in Row /\ AfterFailure(row) \in Row
    BY <2>1, RowTypes, AfterFailureType
  <2>5. thread[w].ok => PaidAfter(s, Renew(row, order[o].start).currentPeriodEnd)
    BY <1>13, <2>1, <2>2, PeriodEnds DEF FinalizeCommit, PaidAfter
  <2>6. AfterFailure(row).currentPeriodEnd # NoTime =>
          PaidAfter(s, AfterFailure(row).currentPeriodEnd)
    BY <1>0, <2>1, PeriodEnds, PaidFacts
  <2> QED
    BY <1>1, <1>13, <2>1, <2>3, <2>4, <2>5, <2>6 DEF FinalizeCommit
<1> QED
  BY <1>5, <1>6, <1>7, <1>8, <1>9, <1>10, <1>11, <1>12, <1>13 DEF SchedulerStep

\* Nothing is owed at the start.
LEMMA InitPaid == Init => PaidInv
<1> SUFFICES ASSUME Init PROVE PaidInv
  OBVIOUS
<1>1. OrdersPaid
  BY DEF Init, OrdersPaid, Unused
<1>2. \A s \in Subs : Covered(s, subscription[s])
  BY DEF Init, Covered, NoRow
<1>3. \A t \in Threads : thread[t] = Idle
  BY DEF Init
<1>4. \A t \in Threads : LocalPaid(t)
  BY <1>3 DEF LocalPaid, Covered, Idle, NoRow
<1> QED
  BY <1>1, <1>2, <1>4 DEF PaidInv

\* No step writes what is not paid for.
LEMMA NextKeepsPaid ==
  ASSUME Typed, PaidInv, [Next]_vars
  PROVE  PaidInv'
<1>0. OrdersKept
  BY StepKeepsOrders
<1>1. CASE UNCHANGED <<subscription, order, payment, thread>>
  BY <1>0, <1>1, IdleStepKeepsPaid
<1>2. ASSUME NEW t \in Threads, Crash(t) PROVE PaidInv'
  <2>1. Return(t) /\ UNCHANGED <<subscription, order, payment>>
    BY <1>2 DEF Crash
  <2> QED
    BY <1>0, <1>2, <2>1, OrdersStayPaid, ReturnPaid, StepKeepsPaid DEF Return
<1> QED
  BY <1>0, <1>1, <1>2, RequestKeepsPaid, SchedulerKeepsPaid DEF Next, Tick, vars

\* Whatever a late commit writes back and whatever Toss answers late, a
\* workspace has the quota of its plan only in a period that Toss has charged.
THEOREM QuotaIsPaid == Spec => []PaidUp
<1>1. Init => Typed /\ PaidInv
  BY InitType, InitPaid
<1>2. Typed /\ PaidInv /\ [Next]_vars => Typed' /\ PaidInv'
  BY StepType, NextKeepsPaid
<1>3. Typed /\ PaidInv => PaidUp
  <2> SUFFICES ASSUME Typed, PaidInv, NEW s \in Subs, GrantsQuota(s)
               PROVE  \E o \in approved :
                        /\ order[o].sub = s
                        /\ order[o].start <= now
                        /\ subscription[s].currentPeriodEnd = order[o].start + Period
    BY DEF PaidUp
  <2> DEFINE end == subscription[s].currentPeriodEnd
  <2>1. /\ now \in Nat \ {NoTime} /\ end \in Nat /\ end > now /\ end <= now + Period
    BY DEF Typed, TypeOK, Row, GrantsQuota
  <2>2. PICK o \in approved : order[o].sub = s /\ order[o].start + Period = end
    <3>1. end # NoTime
      BY <2>1 DEF NoTime
    <3> QED
      BY <3>1 DEF PaidInv, Covered, Paid
  <2>3. order[o].start \in Nat
    BY DEF Typed, TypeOK, OrderRecord
  <2> QED
    BY <2>1, <2>2, <2>3, PeriodAssumption
<1> QED
  BY <1>1, <1>2, <1>3, PTL DEF Spec

-----------------------------------------------------------------------------
(* One scheduler keeps the ledger *)

\* The ledger's two variables, as SubscriptionBilling maps them.
Charges ==
  [p \in {PeriodOf(o) : o \in Recurring} |->
     Cardinality({o \in Recurring \cap approved : PeriodOf(o) = p})]

Booked == {PeriodOf(o) : o \in {x \in Recurring : payment[x] = "DONE"}}

\* How often the orders ord of a table, of which those in charged are charged,
\* charge the period of o.
ChargesOf(ord, charged, o) ==
  Cardinality({x \in {y \in Orders : ord[y].kind = "recurring"} \cap charged :
                 <<ord[x].sub, ord[x].start>> = <<ord[o].sub, ord[o].start>>})

\* As the order of a period is the only one, the period is charged once or not at all.
LEMMA ChargedOnceOrNot ==
  ASSUME NEW ord \in [Orders -> OrderRecord], NEW charged,
         \A o1, o2 \in Orders :
           ord[o1].kind = "recurring" /\ ord[o1] = ord[o2] => o1 = o2,
         NEW o \in Orders, ord[o].kind = "recurring"
  PROVE  ChargesOf(ord, charged, o) = IF o \in charged THEN 1 ELSE 0
<1> DEFINE same == {x \in {y \in Orders : ord[y].kind = "recurring"} \cap charged :
                      <<ord[x].sub, ord[x].start>> = <<ord[o].sub, ord[o].start>>}
<1>1. ASSUME NEW x \in same PROVE x = o
  <2>1. x \in Orders /\ ord[x].kind = "recurring"
        /\ ord[x].sub = ord[o].sub /\ ord[x].start = ord[o].start
    BY <1>1
  <2>2. ord[x] \in OrderRecord /\ ord[o] \in OrderRecord
    BY <2>1
  <2>3. ord[x] = ord[o]
    BY <2>1, <2>2 DEF OrderRecord
  <2> QED
    BY <2>1, <2>3
<1>2. same = IF o \in charged THEN {o} ELSE {}
  BY <1>1
<1>3. Cardinality({o}) = 1 /\ Cardinality({}) = 0
  BY FS_Singleton, FS_EmptySet
<1> QED
  BY <1>2, <1>3 DEF ChargesOf

\* The ledger's charges before a step and after it.
LEMMA ChargesBefore ==
  ASSUME Typed, OneOrderPerPeriod
  PROVE  /\ DOMAIN Charges = {PeriodOf(o) : o \in Recurring}
         /\ \A o \in Recurring : Charges[PeriodOf(o)] = IF o \in approved THEN 1 ELSE 0
<1>1. order \in [Orders -> OrderRecord]
  BY DEF Typed, TypeOK
<1>2. ASSUME NEW o \in Recurring
      PROVE  Charges[PeriodOf(o)] = ChargesOf(order, approved, o)
  BY DEF Charges, ChargesOf, PeriodOf, Recurring
<1>3. ASSUME NEW o \in Recurring
      PROVE  ChargesOf(order, approved, o) = IF o \in approved THEN 1 ELSE 0
  <2>1. o \in Orders /\ order[o].kind = "recurring"
    BY DEF Recurring
  <2> QED
    BY <1>1, <2>1, ChargedOnceOrNot DEF OneOrderPerPeriod
<1> QED
  BY <1>2, <1>3 DEF Charges

\* The charges once an order is charged.
LEMMA ChargesAfter ==
  ASSUME Typed', OneOrderPerPeriod'
  PROVE  /\ DOMAIN Charges' = {PeriodOf(o)' : o \in Recurring'}
         /\ \A o \in Recurring' : Charges'[PeriodOf(o)'] = IF o \in approved' THEN 1 ELSE 0
<1>1. order' \in [Orders -> OrderRecord]
  BY DEF Typed, TypeOK
<1>2. ASSUME NEW o \in Recurring'
      PROVE  Charges'[PeriodOf(o)'] = ChargesOf(order', approved', o)
  BY DEF Charges, ChargesOf, PeriodOf, Recurring
<1>3. ASSUME NEW o \in Recurring'
      PROVE  ChargesOf(order', approved', o) = IF o \in approved' THEN 1 ELSE 0
  <2>1. o \in Orders /\ order'[o].kind = "recurring"
    BY DEF Recurring
  <2> QED
    BY <1>1, <2>1, ChargedOnceOrNot DEF OneOrderPerPeriod
<1> QED
  BY <1>2, <1>3 DEF Charges

\* What the refinement needs beside PaidInv: an order nobody used is neither
\* paid nor charged, and the payment a scheduler is about to finish is open.
LedgerInv ==
  /\ \A o \in Orders : order[o].kind = "unused" => payment[o] = "NONE" /\ o \notin approved
  /\ \A w \in Schedulers :
       thread[w].pc = "finalizeCommit" => payment[thread[w].order] = "IN_PROGRESS"

\* What the ledger does not see.
Quiet ==
  \A o \in Orders :
    /\ order'[o].kind = "recurring" <=> order[o].kind = "recurring"
    /\ order[o].kind = "recurring" =>
         /\ order'[o] = order[o]
         /\ o \in approved' <=> o \in approved
         /\ payment'[o] = "DONE" <=> payment[o] = "DONE"

\* A quiet step is a stutter of the ledger.
LEMMA QuietIsStutter ==
  ASSUME Typed, Typed', Quiet
  PROVE  Charges' = Charges /\ Booked' = Booked
<1>1. Recurring' = Recurring
  BY DEF Quiet, Recurring
<1>2. ASSUME NEW o \in Recurring PROVE PeriodOf(o)' = PeriodOf(o)
  BY DEF Quiet, Recurring, PeriodOf
<1>3. Recurring' \cap approved' = Recurring \cap approved
  BY <1>1 DEF Quiet, Recurring
<1>4. {x \in Recurring : payment[x] = "DONE"}' = {x \in Recurring : payment[x] = "DONE"}
  BY <1>1 DEF Quiet, Recurring
<1>5. Booked' = Booked
  BY <1>2, <1>4 DEF Booked
<1>6. {PeriodOf(o) : o \in Recurring}' = {PeriodOf(o) : o \in Recurring}
  BY <1>1, <1>2
<1>7. ASSUME NEW p
      PROVE  {o \in Recurring \cap approved : PeriodOf(o) = p}' =
             {o \in Recurring \cap approved : PeriodOf(o) = p}
  BY <1>2, <1>3
<1>8. Charges' = Charges
  BY <1>6, <1>7 DEF Charges
<1> QED
  BY <1>5, <1>8

\* A step that uses no order, and puts no scheduler before a commit.
LEMMA NoOrderChanges ==
  ASSUME Typed, LedgerInv, UNCHANGED <<order, payment, approved>>,
         \A w \in Schedulers : thread'[w].pc = "finalizeCommit" => thread'[w] = thread[w]
  PROVE  Quiet /\ LedgerInv'
BY DEF Quiet, LedgerInv

\* A step of a request that uses an order of its own.
LEMMA OwnOrderChanges ==
  ASSUME Typed, PaidInv, LedgerInv,
         NEW o \in Orders, order[o].kind # "recurring",
         order'[o].kind \notin {"unused", "recurring"},
         \A x \in Orders \ {o} : /\ order'[x] = order[x] /\ payment'[x] = payment[x]
                                 /\ x \in approved' <=> x \in approved,
         \A w \in Schedulers : thread'[w] = thread[w]
  PROVE  Quiet /\ LedgerInv'
<1>1. Quiet
  BY DEF Quiet
<1>2. ASSUME NEW x \in Orders, order'[x].kind = "unused"
      PROVE  payment'[x] = "NONE" /\ x \notin approved'
  BY <1>2 DEF LedgerInv
<1>3. ASSUME NEW w \in Schedulers, thread'[w].pc = "finalizeCommit"
      PROVE  payment'[thread'[w].order] = "IN_PROGRESS"
  <2>1. thread[w].pc = "finalizeCommit" /\ thread'[w] = thread[w]
    BY <1>3
  <2>2. thread[w].order \in Orders /\ order[thread[w].order].kind = "recurring"
    BY <2>1 DEF Typed, LocalsOK, OrderPc, Threads, PaidInv, LocalPaid
  <2> QED
    BY <2>1, <2>2 DEF LedgerInv
<1> QED
  BY <1>1, <1>2, <1>3 DEF LedgerInv

\* A step of a thread leaves the others alone.
LEMMA RequestLeavesSchedulers ==
  ASSUME Typed, NEW r \in Requests, NEW local, thread' = [thread EXCEPT ![r] = local]
  PROVE  \A w \in Schedulers : thread'[w] = thread[w]
BY ThreadsAssumption DEF Typed, TypeOK, Threads

\* The ledger sees nothing of what requests do.
LEMMA RequestIsQuiet ==
  ASSUME Typed, PaidInv, LedgerInv, NEW r \in Requests, RequestArrives(r) \/ RequestStep(r)
  PROVE  Quiet /\ LedgerInv'
<1> DEFINE s == thread[r].sub
           o == thread[r].order
<1>0. order \in [Orders -> OrderRecord] /\ payment \in [Orders -> PaymentStatus]
      /\ approved \subseteq Orders
  BY DEF Typed, TypeOK
<1>1. \A w \in Schedulers : thread'[w] = thread[w]
  BY RequestLeavesSchedulers
     DEF RequestArrives, RequestStep, Goto, Return, CreateSubscription, CancelSubscription,
         ClaimBillingAuthorization, ConfirmPayment, SaveNewSubscription,
         CancelSubscriptionCommit, IssueBillingKey, FirstCharge, FinalizeFirstCharge,
         ResetBillingAuthorization, ConfirmAtToss, ConfirmRead, ConfirmCommit
<1>2. CASE UNCHANGED <<order, payment, approved>>
  BY <1>1, <1>2, NoOrderChanges
<1>3. CASE ConfirmPayment(r)
  <2>1. PICK x \in Orders :
          \/ /\ FreshOrder(x)
             /\ \E y \in Subs : order' = [order EXCEPT ![x] =
                  [kind |-> "widget", sub |-> y, start |-> NoTime]]
          \/ UNCHANGED order
    BY <1>3 DEF ConfirmPayment
  <2>2. UNCHANGED <<payment, approved>>
    BY <1>3 DEF ConfirmPayment
  <2> QED
    BY <1>0, <1>1, <1>2, <2>1, <2>2, OwnOrderChanges DEF FreshOrder, Unused
<1>4. CASE FirstCharge(r)
  <2>1. UNCHANGED payment
    BY <1>4 DEF FirstCharge
  <2>2. PICK x \in Orders, answer \in {"done", "notDone", "failed"} :
          /\ FreshOrder(x)
          /\ TossCharge(x, answer)
          /\ order' = IF x \in approved' \/ answer = "notDone"
                      THEN [order EXCEPT ![x] = [kind |-> "first", sub |-> s, start |-> now]]
                      ELSE order
    BY <1>4 DEF FirstCharge
  <2>3. approved' = approved \cup {x} \/ approved' = approved
    BY <2>2 DEF TossCharge
  <2>4. CASE order' = order
    <3>1. x \notin approved'
      BY <1>0, <2>2, <2>4 DEF FreshOrder, Unused
    <3> QED
      BY <1>2, <2>1, <2>3, <2>4, <3>1
  <2>5. CASE order' = [order EXCEPT ![x] = [kind |-> "first", sub |-> s, start |-> now]]
    <3>1. order[x].kind = "unused" /\ order'[x].kind = "first"
      BY <1>0, <2>2, <2>5 DEF FreshOrder, Unused
    <3>2. \A y \in Orders \ {x} : order'[y] = order[y] /\ (y \in approved' <=> y \in approved)
      BY <1>0, <2>3, <2>5
    <3> QED
      BY <1>1, <2>1, <3>1, <3>2, OwnOrderChanges
  <2> QED
    BY <2>2, <2>4, <2>5
<1>5. CASE FinalizeFirstCharge(r)
  <2>1. o \in Orders /\ order[o].kind = "first"
    BY <1>5, LocalTypes DEF FinalizeFirstCharge, At, OrderPc, Threads, PaidInv, LocalPaid
  <2>2. UNCHANGED <<order, approved>>
    BY <1>5 DEF FinalizeFirstCharge
  <2>3. \A x \in Orders \ {o} : payment'[x] = payment[x]
    BY <1>0, <1>5 DEF FinalizeFirstCharge
  <2> QED
    BY <1>1, <2>1, <2>2, <2>3, OwnOrderChanges
<1>6. CASE ConfirmAtToss(r)
  <2>1. o \in Orders /\ order[o].kind = "widget"
    BY <1>6, LocalTypes DEF ConfirmAtToss, At, OrderPc, Threads, PaidInv, LocalPaid
  <2>2. UNCHANGED <<order, payment>>
    BY <1>6 DEF ConfirmAtToss
  <2>3. \A x \in Orders \ {o} : x \in approved' <=> x \in approved
    BY <1>6 DEF ConfirmAtToss, TossCharge
  <2> QED
    BY <1>1, <2>1, <2>2, <2>3, OwnOrderChanges
<1>7. CASE ConfirmCommit(r)
  <2>1. o \in Orders /\ order[o].kind = "widget"
    BY <1>7, LocalTypes DEF ConfirmCommit, At, OrderPc, Threads, PaidInv, LocalPaid
  <2>2. UNCHANGED approved
    BY <1>7 DEF ConfirmCommit
  <2>3. \/ UNCHANGED <<order, payment>>
        \/ \E status, start :
             /\ payment' = [payment EXCEPT ![o] = status]
             /\ order' = [order EXCEPT ![o] = [kind |-> "widget", sub |-> s, start |-> start]]
    BY <1>7 DEF ConfirmCommit
  <2>4. order'[o].kind = "widget"
    <3>1. CASE UNCHANGED order
      BY <2>1, <3>1
    <3>2. ASSUME NEW start,
                 order' = [order EXCEPT ![o] = [kind |-> "widget", sub |-> s, start |-> start]]
          PROVE  order'[o].kind = "widget"
      BY <1>0, <2>1, <3>2
    <3> QED
      BY <2>3, <3>1, <3>2
  <2>5. \A x \in Orders \ {o} : order'[x] = order[x] /\ payment'[x] = payment[x]
    BY <1>0, <2>3
  <2> QED
    BY <1>1, <2>1, <2>2, <2>4, <2>5, OwnOrderChanges
<1> QED
  BY <1>2, <1>3, <1>4, <1>5, <1>6, <1>7
     DEF RequestArrives, RequestStep, CreateSubscription, CancelSubscription,
         ClaimBillingAuthorization, SaveNewSubscription, CancelSubscriptionCommit,
         IssueBillingKey, ResetBillingAuthorization, ConfirmRead

\* The ledger's three steps, by the orders they are about.
LEMMA OrderInvoices ==
  ASSUME Typed, Typed', OneOrderPerPeriod, OneOrderPerPeriod', LedgerInv,
         NEW o \in Orders, FreshOrder(o), NEW s \in Subs, NEW start \in Nat,
         PeriodPayment(s, start) = {},
         order' = [order EXCEPT ![o] = [kind |-> "recurring", sub |-> s, start |-> start]],
         UNCHANGED approved,
         \A x \in Orders : payment'[x] = "DONE" <=> payment[x] = "DONE"
  PROVE  Ledger!Invoice
<1> DEFINE p == <<s, start>>
<1>1. order \in [Orders -> OrderRecord]
  BY DEF Typed, TypeOK
<1>2. order[o].kind = "unused" /\ o \notin approved /\ payment[o] # "DONE"
  BY DEF FreshOrder, Unused, LedgerInv
<1>3. \A x \in Orders \ {o} : order'[x] = order[x]
  BY <1>1
<1>4. order'[o].kind = "recurring" /\ order'[o].sub = s /\ order'[o].start = start
  BY <1>1
<1>5. Recurring' = Recurring \cup {o} /\ o \notin Recurring
  BY <1>2, <1>3, <1>4 DEF Recurring
<1>6. \A x \in Recurring : PeriodOf(x)' = PeriodOf(x)
  BY <1>3, <1>5 DEF PeriodOf, Recurring
<1>7. PeriodOf(o)' = p
  BY <1>4 DEF PeriodOf
<1>8. p \notin {PeriodOf(x) : x \in Recurring}
  <2> SUFFICES ASSUME NEW x \in Recurring, PeriodOf(x) = p PROVE FALSE
    OBVIOUS
  <2>1. x \in Orders /\ order[x] \in OrderRecord /\ order[x].kind = "recurring"
        /\ order[x].sub = s /\ order[x].start = start
    BY <1>1 DEF Recurring, PeriodOf
  <2>2. order[x] = [kind |-> "recurring", sub |-> s, start |-> start]
    BY <2>1 DEF OrderRecord
  <2> QED
    BY <2>1, <2>2 DEF PeriodPayment
<1>9. DOMAIN Charges' = DOMAIN Charges \cup {p}
  BY <1>5, <1>6, <1>7, ChargesBefore, ChargesAfter
<1>10. ASSUME NEW x \in Recurring PROVE Charges'[PeriodOf(x)] = Charges[PeriodOf(x)]
  BY <1>5, <1>6, ChargesBefore, ChargesAfter
<1>11. Charges'[p] = 0
  BY <1>2, <1>5, <1>7, ChargesAfter
<1>12. Charges' = [q \in DOMAIN Charges \cup {p} |-> IF q = p THEN 0 ELSE Charges[q]]
  <2>1. \A q \in DOMAIN Charges : q # p /\ Charges'[q] = Charges[q]
    BY <1>8, <1>10, ChargesBefore
  <2>2. Charges' = [q \in DOMAIN Charges' |-> Charges'[q]]
    BY DEF Charges
  <2> QED
    BY <1>9, <1>11, <2>1, <2>2
<1>13. Booked' = Booked
  <2>1. {x \in Recurring : payment[x] = "DONE"}' = {x \in Recurring : payment[x] = "DONE"}
    BY <1>2, <1>5 DEF Recurring
  <2> QED
    BY <1>6, <2>1 DEF Booked
<1>14. p \in DOMAIN Charges' \ DOMAIN Charges /\ p \in Subs \X Nat
  BY <1>8, <1>9, ChargesBefore
<1> QED
  BY <1>12, <1>13, <1>14 DEF Ledger!Invoice, Ledger!BillingPeriod, Charges, Booked

\* Toss charges an order that is invoiced.
LEMMA OrderCharges ==
  ASSUME Typed, Typed', OneOrderPerPeriod, OneOrderPerPeriod',
         NEW o \in Orders, order[o].kind = "recurring", o \notin approved,
         approved' = approved \cup {o}, UNCHANGED <<order, payment>>
  PROVE  Ledger!Charge
<1> DEFINE p == PeriodOf(o)
<1>1. o \in Recurring /\ Recurring' = Recurring
  BY DEF Recurring
<1>2. \A x \in Recurring : PeriodOf(x)' = PeriodOf(x)
  BY DEF PeriodOf
<1>3. DOMAIN Charges' = DOMAIN Charges /\ p \in DOMAIN Charges
  BY <1>1, <1>2, ChargesBefore, ChargesAfter
<1>4. Charges[p] = 0 /\ Charges'[p] = 1
  BY <1>1, <1>2, ChargesBefore, ChargesAfter
<1>5. ASSUME NEW x \in Recurring, PeriodOf(x) # p
      PROVE  Charges'[PeriodOf(x)] = Charges[PeriodOf(x)]
  <2>1. x # o
    BY <1>5
  <2> QED
    BY <1>1, <1>2, <2>1, ChargesBefore, ChargesAfter
<1>6. Charges' = [Charges EXCEPT ![p] = 1]
  <2>1. \A q \in DOMAIN Charges : q # p => Charges'[q] = Charges[q]
    BY <1>5, ChargesBefore
  <2>2. /\ Charges' = [q \in DOMAIN Charges' |-> Charges'[q]]
        /\ Charges = [q \in DOMAIN Charges |-> Charges[q]]
    BY DEF Charges
  <2> QED
    BY <1>3, <1>4, <2>1, <2>2
<1>7. Booked' = Booked
  BY <1>1, <1>2 DEF Booked
<1> QED
  BY <1>3, <1>4, <1>6, <1>7 DEF Ledger!Charge, Charges, Booked

\* A charge is booked for its order.
LEMMA OrderBooks ==
  ASSUME Typed, Typed', OneOrderPerPeriod, OneOrderPerPeriod',
         NEW o \in Orders, order[o].kind = "recurring", o \in approved,
         payment[o] # "DONE", payment' = [payment EXCEPT ![o] = "DONE"],
         UNCHANGED <<order, approved>>
  PROVE  Ledger!Book
<1> DEFINE p == PeriodOf(o)
<1>0. order \in [Orders -> OrderRecord] /\ payment \in [Orders -> PaymentStatus]
  BY DEF Typed, TypeOK
<1>1. o \in Recurring /\ Recurring' = Recurring /\ Recurring \subseteq Orders
  BY DEF Recurring
<1>2. \A x \in Recurring : PeriodOf(x)' = PeriodOf(x)
  BY DEF PeriodOf
<1>3. p \in DOMAIN Charges /\ Charges[p] = 1
  BY <1>1, ChargesBefore
<1>4. Charges' = Charges
  BY <1>1, <1>2 DEF Charges
<1>5. p \notin Booked
  <2> SUFFICES ASSUME NEW x \in Recurring, payment[x] = "DONE", PeriodOf(x) = p PROVE FALSE
    BY DEF Booked
  <2>1. x \in Orders /\ order[x].kind = "recurring"
        /\ order[x].sub = order[o].sub /\ order[x].start = order[o].start
    BY DEF Recurring, PeriodOf
  <2>2. order[x] \in OrderRecord /\ order[o] \in OrderRecord
    BY <1>0, <2>1
  <2>3. order[x] = order[o]
    BY <2>1, <2>2 DEF OrderRecord
  <2> QED
    BY <2>1, <2>3 DEF OneOrderPerPeriod
<1>6. {x \in Recurring : payment[x] = "DONE"}' = {x \in Recurring : payment[x] = "DONE"} \cup {o}
  BY <1>0, <1>1
<1>7. Booked' = Booked \cup {p}
  BY <1>1, <1>2, <1>6 DEF Booked
<1> QED
  BY <1>3, <1>4, <1>5, <1>7 DEF Ledger!Book, Charges, Booked

\* A single scheduler invoices, charges and books, or leaves the ledger alone.
OneScheduler == \A w1, w2 \in Schedulers : w1 = w2

\* The steps of the one scheduler.
LEMMA SchedulerKeepsLedger ==
  ASSUME OneScheduler, Typed, Typed', PaidInv, LedgerInv,
         OneOrderPerPeriod, OneOrderPerPeriod',
         NEW w \in Schedulers, SchedulerStep(w)
  PROVE  (Quiet \/ Ledger!LedgerNext) /\ LedgerInv'
<1> DEFINE s == thread[w].sub
           o == thread[w].order
           row == thread[w].row
<1>0. /\ order \in [Orders -> OrderRecord] /\ payment \in [Orders -> PaymentStatus]
      /\ approved \subseteq Orders /\ thread \in [Threads -> ThreadState]
      /\ w \in Threads
  BY DEF Typed, TypeOK, Threads
<1>1. \A x \in Schedulers : x = w
  BY DEF OneScheduler
<1>2. CASE /\ UNCHANGED <<order, payment, approved>>
           /\ thread'[w].pc = "finalizeCommit" => thread'[w] = thread[w]
  BY <1>1, <1>2, NoOrderChanges
<1>3. CASE FinalizeRead(w)
  <2>1. UNCHANGED <<order, payment, approved>>
    BY <1>3 DEF FinalizeRead
  <2>2. thread'[w].pc = "finalizeCommit" => payment[thread'[w].order] = "IN_PROGRESS"
    BY <1>0, <1>3 DEF FinalizeRead, Goto, Return, Idle
  <2> QED
    BY <1>1, <2>1, <2>2 DEF Quiet, LedgerInv
<1>4. CASE CreatePeriodPayment(w)
  <2> DEFINE start == row.currentPeriodEnd
  <2>1. s \in Subs /\ start \in Nat
    BY <1>4, LocalTypes DEF CreatePeriodPayment, At, Threads, Row
  <2>2. UNCHANGED approved /\ thread'[w].pc # "finalizeCommit"
    BY <1>0, <1>4 DEF CreatePeriodPayment, Goto, Return, Idle
  <2>3. CASE UNCHANGED <<order, payment>>
    BY <1>2, <2>2, <2>3
  <2>4. ASSUME NEW x \in Orders,
               /\ PeriodPayment(s, start) = {}
               /\ FreshOrder(x)
               /\ order' = [order EXCEPT ![x] = [kind |-> "recurring", sub |-> s, start |-> start]]
               /\ payment' = [payment EXCEPT ![x] = "IN_PROGRESS"]
        PROVE  Ledger!Invoice /\ LedgerInv'
    <3>1. payment[x] = "NONE" /\ order'[x].kind = "recurring"
      BY <1>0, <2>4 DEF LedgerInv, FreshOrder, Unused
    <3>2. \A y \in Orders : payment'[y] = "DONE" <=> payment[y] = "DONE"
      BY <1>0, <2>4, <3>1
    <3>3. Ledger!Invoice
      BY <2>1, <2>2, <2>4, <3>2, OrderInvoices
    <3>4. \A y \in Orders : order'[y].kind = "unused" =>
            order[y].kind = "unused" /\ payment'[y] = payment[y]
      BY <1>0, <2>4, <3>1
    <3> QED
      BY <1>1, <2>2, <3>3, <3>4 DEF LedgerInv
  <2> QED
    BY <1>4, <2>3, <2>4 DEF CreatePeriodPayment, PeriodTaken, Ledger!LedgerNext
<1>5. CASE ExecuteBilling(w)
  <2>1. o \in Orders /\ order[o].kind = "recurring"
    BY <1>5, LocalTypes DEF ExecuteBilling, At, OrderPc, Threads, PaidInv, LocalPaid
  <2>2. UNCHANGED <<order, payment>> /\ thread'[w].pc # "finalizeCommit"
    BY <1>0, <1>5 DEF ExecuteBilling, Goto
  <2>3. approved' = approved \/ approved' = approved \cup {o}
    BY <1>5 DEF ExecuteBilling, TossCharge
  <2>4. CASE approved' = approved
    BY <1>2, <2>2, <2>4
  <2>5. CASE o \notin approved /\ approved' = approved \cup {o}
    <3>1. Ledger!Charge
      BY <2>1, <2>2, <2>5, OrderCharges
    <3> QED
      BY <1>1, <2>1, <2>2, <2>5, <3>1 DEF LedgerInv, Ledger!LedgerNext
  <2> QED
    BY <2>3, <2>4, <2>5
<1>6. CASE FinalizeCommit(w)
  <2>1. o \in Orders /\ order[o].kind = "recurring" /\ payment[o] = "IN_PROGRESS"
        /\ (thread[w].ok => o \in approved)
    BY <1>6, LocalTypes DEF FinalizeCommit, At, OrderPc, Threads, PaidInv, LocalPaid, LedgerInv
  <2>2. UNCHANGED <<order, approved>> /\ thread'[w].pc # "finalizeCommit"
    BY <1>0, <1>6 DEF FinalizeCommit, Return, Idle
  <2>3. \/ UNCHANGED payment
        \/ payment' = [payment EXCEPT ![o] = IF thread[w].ok THEN "DONE" ELSE "ABORTED"]
    BY <1>6 DEF FinalizeCommit
  <2>4. LedgerInv'
    BY <1>0, <1>1, <2>1, <2>2, <2>3 DEF LedgerInv
  <2>5. CASE thread[w].ok /\ payment' = [payment EXCEPT ![o] = "DONE"]
    BY <2>1, <2>2, <2>4, <2>5, OrderBooks DEF Ledger!LedgerNext
  <2>6. CASE UNCHANGED payment \/ payment' = [payment EXCEPT ![o] = "ABORTED"]
    BY <1>0, <2>1, <2>2, <2>4, <2>6 DEF Quiet
  <2> QED
    BY <2>3, <2>5, <2>6
<1>7. CASE RenewFromPayment(w) \/ CancelExpiringCommit(w)
  BY <1>0, <1>2, <1>7 DEF RenewFromPayment, CancelExpiringCommit, Return, Idle
<1>8. CASE StartRun(w) \/ NextQuery(w)
  BY <1>2, <1>8 DEF StartRun, NextQuery
<1>9. CASE CancelExpiring(w) \/ PrepareCharge(w) \/ FindPeriodPayment(w)
  <2>1. UNCHANGED <<order, payment, approved>>
    BY <1>9 DEF CancelExpiring, PrepareCharge, FindPeriodPayment
  <2>2. thread'[w].pc = "finalizeCommit" => thread'[w] = thread[w]
    BY <1>0, <1>9 DEF CancelExpiring, PrepareCharge, FindPeriodPayment, Goto
  <2> QED
    BY <1>2, <2>1, <2>2
<1> QED
  BY <1>3, <1>4, <1>5, <1>6, <1>7, <1>8, <1>9 DEF SchedulerStep

\* One scheduler's billing is the ledger: a period is invoiced before it is
\* charged, charged at most once, and booked only once it is charged and then for
\* good, through crashes, time-outs and retries and beside any number of requests
\* (RecurringBillingService.chargeSubscription).  A second scheduler could write
\* ABORTED over a payment the first one has finished.
THEOREM LedgerRefinement ==
  ASSUME OneScheduler
  PROVE  Spec => ImplementsPeriodLedger
<1> DEFINE Inv == Typed /\ OneOrderPerPeriod /\ PaidInv /\ LedgerInv
<1>1. Init => Inv
  <2>1. Init => OneOrderPerPeriod
    BY DEF Init, OneOrderPerPeriod, Unused
  <2>2. Init => LedgerInv
    BY DEF Init, LedgerInv, Unused, Idle, Threads
  <2> QED
    BY <2>1, <2>2, InitType, InitPaid
<1>2. Init => Ledger!LedgerInit
  <2>1. ASSUME Init PROVE Recurring = {}
    BY <2>1 DEF Init, Recurring, Unused
  <2> QED
    BY <2>1 DEF Ledger!LedgerInit
<1>3. Inv /\ [Next]_vars => Inv' /\ [Ledger!LedgerNext]_(Ledger!ledgerVars)
  <2> SUFFICES ASSUME Inv, [Next]_vars
               PROVE  LedgerInv' /\ [Ledger!LedgerNext]_(Ledger!ledgerVars)
    BY StepType, StepKeepsPeriods, NextKeepsPaid
  <2>0. Typed' /\ OneOrderPerPeriod'
    BY StepType, StepKeepsPeriods
  <2>1. CASE Quiet /\ LedgerInv'
    BY <2>0, <2>1, QuietIsStutter DEF Ledger!ledgerVars, Charges, Booked
  <2>2. CASE UNCHANGED <<order, payment, approved, thread>>
    BY <2>1, <2>2, NoOrderChanges
  <2>3. ASSUME NEW r \in Requests, RequestArrives(r) \/ RequestStep(r)
        PROVE  Quiet /\ LedgerInv'
    BY <2>3, RequestIsQuiet
  <2>4. ASSUME NEW w \in Schedulers, SchedulerStep(w)
        PROVE  (Quiet \/ Ledger!LedgerNext) /\ LedgerInv'
    BY <2>0, <2>4, SchedulerKeepsLedger
  <2>5. ASSUME NEW t \in Threads, Crash(t) PROVE Quiet /\ LedgerInv'
    <3>1. UNCHANGED <<order, payment, approved>> /\ thread' = [thread EXCEPT ![t] = Idle]
      BY <2>5 DEF Crash, Return
    <3>2. \A x \in Threads : thread'[x] = IF x = t THEN Idle ELSE thread[x]
      BY <3>1 DEF Typed, TypeOK
    <3> QED
      BY <3>1, <3>2, NoOrderChanges DEF Idle, Threads
  <2> QED
    BY <2>1, <2>2, <2>3, <2>4, <2>5 DEF Next, Tick, vars
<1> QED
  BY <1>1, <1>2, <1>3, PTL DEF Spec, ImplementsPeriodLedger, Ledger!LedgerSpec

=============================================================================
