------------------------- MODULE SubscriptionBilling -------------------------
(***************************************************************************)
(* The billing of one workspace: SubscriptionService (create, cancel, issue *)
(* a billing key and take the first charge), PaymentService.confirmPayment  *)
(* (the one-off payment widget) and RecurringBillingService (the scheduled  *)
(* renewals, retries and expiries), over the tables subscription and        *)
(* payment and the payment provider Toss.                                   *)
(*                                                                         *)
(* A transaction that locks its row (SELECT ... FOR UPDATE) is one action.  *)
(* A transaction that reads the row without a lock is two: the read keeps a *)
(* copy of the row in the thread, the commit writes the whole copy back     *)
(* with what it changed (READ COMMITTED, no version column).  A call to     *)
(* Toss is an action of its own, outside every transaction.                 *)
(*                                                                         *)
(* Workspaces share no row, so one is enough.                               *)
(***************************************************************************)
EXTENDS SubscriptionRow, FiniteSets

CONSTANTS
  Subs,          \* subscription identifiers
  Orders,        \* order identifiers, random in the code and never repeated
  Requests,      \* HTTP threads
  Schedulers,    \* instances of the service, one scheduler thread each
  NoSub, NoOrder,
  MaxNow,        \* bound: the last day of the model
  MaxCrashes     \* bound: threads lost to a crash or to a failing database

ASSUME NoSubAssumption == NoSub \notin Subs
ASSUME NoOrderAssumption == NoOrder \notin Orders
ASSUME ThreadsAssumption == Requests \cap Schedulers = {}
ASSUME BoundsAssumption == MaxNow \in Nat /\ MaxCrashes \in Nat

VARIABLES
  now,           \* the clock
  subscription,  \* table payment.subscription
  order,         \* what each order identifier was generated for
  payment,       \* table payment.payment: the status of the order's row
  approved,      \* the orders Toss has charged
  hasBillingKey, \* whether the workspace has an ACTIVE billing_key row
  thread,        \* what each thread is doing and holds in local variables
  run,           \* each scheduler's pass over its three queries
  crashes

vars == <<now, subscription, order, payment, approved, hasBillingKey,
          thread, run, crashes>>

Threads == Requests \cup Schedulers

OrderKind == {"unused", "first", "widget", "recurring"}
PaymentStatus == {"NONE", "IN_PROGRESS", "DONE", "ABORTED"}

RequestPc == {"createSubscription", "cancelSubscription", "issueBillingKey",
              "firstCharge", "finalizeFirstCharge", "resetAuthorization",
              "confirmPayment", "confirmRead", "confirmCommit"}
SchedulerPc == {"cancelExpiring", "findPeriodPayment", "createPeriodPayment",
                "renewFromPayment", "executeBilling", "finalizeRead",
                "finalizeCommit"}

OrderRecord == [kind : OrderKind, sub : Subs \cup {NoSub}, start : Nat]

ThreadState == [pc : {"idle"} \cup RequestPc \cup SchedulerPc,
                sub : Subs \cup {NoSub},
                row : Row,
                order : Orders \cup {NoOrder},
                ok : BOOLEAN]

RunState == [phase : {"idle", "expire", "charge", "retry"},
             at : Nat,
             todo : SUBSET Subs]

TypeOK ==
  /\ now \in Nat \ {NoTime}
  /\ subscription \in [Subs -> Row]
  /\ order \in [Orders -> OrderRecord]
  /\ payment \in [Orders -> PaymentStatus]
  /\ approved \in SUBSET Orders
  /\ hasBillingKey \in BOOLEAN
  /\ thread \in [Threads -> ThreadState]
  /\ run \in [Schedulers -> RunState]
  /\ crashes \in Nat

Idle == [pc |-> "idle", sub |-> NoSub, row |-> NoRow, order |-> NoOrder, ok |-> FALSE]
NoRun == [phase |-> "idle", at |-> NoTime, todo |-> {}]
Unused == [kind |-> "unused", sub |-> NoSub, start |-> NoTime]

Init ==
  /\ now = 1
  /\ subscription = [s \in Subs |-> NoRow]
  /\ order = [o \in Orders |-> Unused]
  /\ payment = [o \in Orders |-> "NONE"]
  /\ approved = {}
  /\ hasBillingKey = FALSE
  /\ thread = [t \in Threads |-> Idle]
  /\ run = [w \in Schedulers |-> NoRun]
  /\ crashes = 0

-----------------------------------------------------------------------------
(* The database *)

\* Mutant: the index of the changelog before AUTHORIZING was added to it.
MutOpenStatus == {"INCOMPLETE", "ACTIVE", "PAST_DUE"}

\* The partial unique index uq_payment_subscription_workspace_open.
OpenStatus == {"INCOMPLETE", "AUTHORIZING", "ACTIVE", "PAST_DUE"}

IndexAllows(s, row) ==
  row.status \in OpenStatus =>
    \A x \in Subs \ {s} : subscription[x].status \notin OpenStatus

\* findCurrentByWorkspaceId: the row that is not CANCELED.
IsCurrent(s) == subscription[s].status \notin {"NONE", "CANCELED"}

Write(s, row) == subscription' = [subscription EXCEPT ![s] = row]

\* An UPDATE the index refuses rolls its transaction back.
Save(s, row) ==
  IF IndexAllows(s, row) THEN Write(s, row) ELSE UNCHANGED subscription

FreshOrder(o) == order[o] = Unused

\* The row of the unique key (subscription_id, billing_period_key).
PeriodPayment(s, start) ==
  {o \in Orders : order[o] = [kind |-> "recurring", sub |-> s, start |-> start]}

\* Mutant: no unique key on the period.
MutPeriodTaken(s, start) == FALSE

PeriodTaken(s, start) == PeriodPayment(s, start) # {}

-----------------------------------------------------------------------------
(* The payment provider, from how TossPaymentClient uses it: the order       *)
(* identifier is the Idempotency-Key, so that an order already charged is    *)
(* not charged again.  "failed" is an exception: the call was refused, or it *)
(* timed out, and then Toss may have charged all the same.                   *)

TossCharge(o, answer) ==
  \/ /\ answer \in {"done", "failed"}
     /\ approved' = approved \cup {o}
  \/ /\ answer \in {"notDone", "failed"}
     /\ o \notin approved
     /\ UNCHANGED approved

-----------------------------------------------------------------------------
(* Threads *)

At(t, pc) == thread[t].pc = pc

Goto(t, pc, s, row, o, ok) ==
  thread' = [thread EXCEPT ![t] =
    [pc |-> pc, sub |-> s, row |-> row, order |-> o, ok |-> ok]]

Return(t) == thread' = [thread EXCEPT ![t] = Idle]

-----------------------------------------------------------------------------
(* SubscriptionService.createSubscription *)

CreateSubscription(r) ==
  /\ At(r, "idle")
  /\ \A s \in Subs : ~IsCurrent(s)
  /\ \E s \in Subs : subscription[s] = NoRow
  /\ Goto(r, "createSubscription", NoSub, NoRow, NoOrder, FALSE)
  /\ UNCHANGED <<now, subscription, order, payment, approved, hasBillingKey, run, crashes>>

\* saveNewSubscription: the index turns the second of two inserts away.
SaveNewSubscription(r) ==
  /\ At(r, "createSubscription")
  /\ \/ \E s \in Subs : /\ subscription[s] = NoRow
                        /\ IndexAllows(s, Created)
                        /\ Write(s, Created)
     \/ /\ \A s \in Subs : subscription[s] = NoRow => ~IndexAllows(s, Created)
        /\ UNCHANGED subscription
  /\ Return(r)
  /\ UNCHANGED <<now, order, payment, approved, hasBillingKey, run, crashes>>

(* SubscriptionService.cancelSubscription: an unlocked read, a full write *)

CancelSubscription(r) ==
  /\ At(r, "idle")
  /\ \E s \in Subs :
       /\ subscription[s].status \in {"INCOMPLETE", "ACTIVE"}
       /\ Goto(r, "cancelSubscription", s, subscription[s], NoOrder, FALSE)
  /\ UNCHANGED <<now, subscription, order, payment, approved, hasBillingKey, run, crashes>>

\* Mutant: the status is spelled another way than the enum spells it.
MutCanceledByUser(row) ==
  IF row.status = "INCOMPLETE"
  THEN [Cancel(row) EXCEPT !.status = "CANCELLED"]
  ELSE ScheduleCancelAtPeriodEnd(row)

\* A row left as it was read is not written.
CanceledByUser(row) ==
  IF row.status = "INCOMPLETE" THEN Cancel(row) ELSE ScheduleCancelAtPeriodEnd(row)

CancelSubscriptionCommit(r) ==
  /\ At(r, "cancelSubscription")
  /\ LET row == thread[r].row
     IN IF CanceledByUser(row) # row
        THEN Save(thread[r].sub, CanceledByUser(row))
        ELSE UNCHANGED subscription
  /\ Return(r)
  /\ UNCHANGED <<now, order, payment, approved, hasBillingKey, run, crashes>>

(* SubscriptionService.issueBillingKey *)

\* Mutant: a claim that does not mind another one.
MutClaimBillingAuthorization(r) ==
  /\ At(r, "idle")
  /\ \E s \in Subs :
       /\ subscription[s].status \in {"INCOMPLETE", "AUTHORIZING"}
       /\ Write(s, BeginAuthorization(subscription[s]))
       /\ Goto(r, "issueBillingKey", s, NoRow, NoOrder, FALSE)
  /\ UNCHANGED <<now, order, payment, approved, hasBillingKey, run, crashes>>

ClaimBillingAuthorization(r) ==
  /\ At(r, "idle")
  /\ \E s \in Subs :
       /\ subscription[s].status = "INCOMPLETE"
       /\ Write(s, BeginAuthorization(subscription[s]))
       /\ Goto(r, "issueBillingKey", s, NoRow, NoOrder, FALSE)
  /\ UNCHANGED <<now, order, payment, approved, hasBillingKey, run, crashes>>

\* Toss issues the key and the key is encrypted and saved; or Toss refuses;
\* or the encryption or the insert throws an exception nothing catches.
IssueBillingKey(r) ==
  /\ At(r, "issueBillingKey")
  /\ \/ /\ hasBillingKey' = TRUE
        /\ Goto(r, "firstCharge", thread[r].sub, NoRow, NoOrder, FALSE)
     \/ /\ Goto(r, "resetAuthorization", thread[r].sub, NoRow, NoOrder, FALSE)
        /\ UNCHANGED hasBillingKey
     \/ /\ Return(r)
        /\ UNCHANGED hasBillingKey
  /\ UNCHANGED <<now, subscription, order, payment, approved, run, crashes>>

\* A gateway or rejection exception goes to the catch block, which no longer
\* knows the order.  An order neither charged nor kept is not worth an identifier.
FirstCharge(r) ==
  /\ At(r, "firstCharge")
  /\ \E o \in Orders, answer \in {"done", "notDone", "failed"} :
       /\ FreshOrder(o)
       /\ TossCharge(o, answer)
       /\ order' = IF o \in approved' \/ answer = "notDone"
                   THEN [order EXCEPT ![o] =
                          [kind |-> "first", sub |-> thread[r].sub, start |-> now]]
                   ELSE order
       /\ IF answer = "failed"
          THEN Goto(r, "resetAuthorization", thread[r].sub, NoRow, NoOrder, FALSE)
          ELSE Goto(r, "finalizeFirstCharge", thread[r].sub, NoRow, o, answer = "done")
  /\ UNCHANGED <<now, subscription, payment, hasBillingKey, run, crashes>>

\* finalizeBillingAuthorization, under the lock of the row.  The period key of
\* the payment it inserts is an instant to the microsecond, not a day: two first
\* charges never share it.
FinalizeFirstCharge(r) ==
  LET s == thread[r].sub
      o == thread[r].order
  IN /\ At(r, "finalizeFirstCharge")
     /\ IF subscription[s].status # "AUTHORIZING"
        THEN UNCHANGED <<subscription, payment>>
        ELSE IF thread[r].ok
        THEN /\ payment' = [payment EXCEPT ![o] = "DONE"]
             /\ Write(s, Activate(subscription[s], order[o].start))
        ELSE /\ payment' = [payment EXCEPT ![o] = "ABORTED"]
             /\ Write(s, ResetAuthorization(subscription[s]))
     /\ Return(r)
     /\ UNCHANGED <<now, order, approved, hasBillingKey, run, crashes>>

ResetBillingAuthorization(r) ==
  LET s == thread[r].sub
  IN /\ At(r, "resetAuthorization")
     /\ IF subscription[s].status = "AUTHORIZING"
        THEN Write(s, ResetAuthorization(subscription[s]))
        ELSE UNCHANGED subscription
     /\ Return(r)
     /\ UNCHANGED <<now, order, payment, approved, hasBillingKey, run, crashes>>

-----------------------------------------------------------------------------
(* PaymentService.confirmPayment: the widget's one-off payment.  The client  *)
(* names the order: a new one, or one it sends again.                        *)

ConfirmPayment(r) ==
  /\ At(r, "idle")
  /\ \E s \in Subs, o \in Orders :
       /\ IsCurrent(s)
       /\ \/ /\ FreshOrder(o)
             /\ order' = [order EXCEPT ![o] =
                  [kind |-> "widget", sub |-> s, start |-> NoTime]]
          \/ /\ order[o].kind = "widget"
             /\ payment[o] # "DONE"
             /\ UNCHANGED order
       /\ Goto(r, "confirmPayment", s, NoRow, o, FALSE)
  /\ UNCHANGED <<now, subscription, payment, approved, hasBillingKey, run, crashes>>

ConfirmAtToss(r) ==
  /\ At(r, "confirmPayment")
  /\ \E answer \in {"done", "notDone", "failed"} :
       /\ TossCharge(thread[r].order, answer)
       /\ IF answer = "failed"
          THEN Return(r)
          ELSE Goto(r, "confirmRead", thread[r].sub, NoRow, thread[r].order, answer = "done")
  /\ UNCHANGED <<now, subscription, order, payment, hasBillingKey, run, crashes>>

\* The second transaction: a row that is DONE is returned, and one that is
\* ABORTED makes complete() and markAborted() throw.
ConfirmRead(r) ==
  LET s == thread[r].sub
  IN /\ At(r, "confirmRead")
     /\ IF payment[thread[r].order] # "NONE"
        THEN Return(r)
        ELSE Goto(r, "confirmCommit", s, subscription[s], thread[r].order, thread[r].ok)
     /\ UNCHANGED <<now, subscription, order, payment, approved, hasBillingKey, run, crashes>>

\* activateSubscription leaves a CANCELED or ACTIVE subscription alone.
ConfirmActivates(row) == row.status \notin {"CANCELED", "ACTIVE"}

\* The unique order_id, or the index on subscriptions, rolls everything back.
ConfirmCommit(r) ==
  LET s == thread[r].sub
      o == thread[r].order
      row == thread[r].row
      Insert(status, start) ==
        /\ payment' = [payment EXCEPT ![o] = status]
        /\ order' = [order EXCEPT ![o] = [kind |-> "widget", sub |-> s, start |-> start]]
  IN /\ At(r, "confirmCommit")
     /\ \/ /\ payment[o] = "NONE"
           /\ ~thread[r].ok
           /\ Insert("ABORTED", NoTime)
           /\ UNCHANGED subscription
        \/ /\ payment[o] = "NONE"
           /\ thread[r].ok
           /\ ~ConfirmActivates(row)
           /\ Insert("DONE", NoTime)
           /\ UNCHANGED subscription
        \/ /\ payment[o] = "NONE"
           /\ thread[r].ok
           /\ ConfirmActivates(row)
           /\ IndexAllows(s, Activate(row, now))
           /\ Insert("DONE", now)
           /\ Write(s, Activate(row, now))
        \/ /\ \/ payment[o] # "NONE"
              \/ /\ thread[r].ok
                 /\ ConfirmActivates(row)
                 /\ ~IndexAllows(s, Activate(row, now))
           /\ UNCHANGED <<subscription, order, payment>>
     /\ Return(r)
     /\ UNCHANGED <<now, approved, hasBillingKey, run, crashes>>

-----------------------------------------------------------------------------
(* RecurringBillingService.run: three queries, one after the other, each     *)
(* answered with a list of identifiers that is then worked off.              *)

StartRun(w) ==
  /\ run[w].phase = "idle"
  /\ run' = [run EXCEPT ![w] =
       [phase |-> "expire",
        at |-> now,
        todo |-> {s \in Subs : IsExpiringCancellation(subscription[s], now)}]]
  /\ UNCHANGED <<now, subscription, order, payment, approved, hasBillingKey, thread, crashes>>

NextQuery(w) ==
  /\ At(w, "idle")
  /\ run[w].todo = {}
  /\ \/ /\ run[w].phase = "expire"
        /\ run' = [run EXCEPT ![w].phase = "charge",
             ![w].todo = {s \in Subs : IsChargeable(subscription[s], run[w].at)}]
     \/ /\ run[w].phase = "charge"
        /\ run' = [run EXCEPT ![w].phase = "retry",
             ![w].todo = {s \in Subs : IsRetryDue(subscription[s], run[w].at)}]
     \/ /\ run[w].phase = "retry"
        /\ run' = [run EXCEPT ![w] = NoRun]
  /\ UNCHANGED <<now, subscription, order, payment, approved, hasBillingKey, thread, crashes>>

Take(w, s) == run' = [run EXCEPT ![w].todo = @ \ {s}]

\* cancelExpiring reads the row again before it cancels.
CancelExpiring(w) ==
  /\ At(w, "idle")
  /\ run[w].phase = "expire"
  /\ \E s \in run[w].todo :
       /\ Take(w, s)
       /\ IF subscription[s].cancelAtPeriodEnd /\ subscription[s].status = "ACTIVE"
          THEN Goto(w, "cancelExpiring", s, subscription[s], NoOrder, FALSE)
          ELSE UNCHANGED thread
  /\ UNCHANGED <<now, subscription, order, payment, approved, hasBillingKey, crashes>>

CancelExpiringCommit(w) ==
  /\ At(w, "cancelExpiring")
  /\ Save(thread[w].sub, Cancel(thread[w].row))
  /\ Return(w)
  /\ UNCHANGED <<now, order, payment, approved, hasBillingKey, run, crashes>>

\* prepareCharge asks only whether the row is CANCELED or has no period.
PrepareCharge(w) ==
  /\ At(w, "idle")
  /\ run[w].phase \in {"charge", "retry"}
  /\ \E s \in run[w].todo :
       /\ Take(w, s)
       /\ IF subscription[s].status = "CANCELED" \/ subscription[s].currentPeriodEnd = NoTime
          THEN UNCHANGED thread
          ELSE Goto(w, "findPeriodPayment", s, subscription[s], NoOrder, FALSE)
  /\ UNCHANGED <<now, subscription, order, payment, approved, hasBillingKey, crashes>>

\* Mutant: a payment still IN_PROGRESS counts as paid.
MutAlreadyPaid(o) == payment[o] # "ABORTED"

AlreadyPaid(o) == payment[o] = "DONE"

\* Mutant: a payment still IN_PROGRESS is left to whoever began it.
MutFindPeriodPayment(w) ==
  LET s == thread[w].sub
      row == thread[w].row
      found == PeriodPayment(s, row.currentPeriodEnd)
  IN /\ At(w, "findPeriodPayment")
     /\ \/ /\ found = {}
           /\ Goto(w, "createPeriodPayment", s, row, NoOrder, FALSE)
        \/ \E o \in found :
             IF payment[o] = "IN_PROGRESS"
             THEN Return(w)
             ELSE IF AlreadyPaid(o)
             THEN Goto(w, "renewFromPayment", s, row, NoOrder, FALSE)
             ELSE Goto(w, "executeBilling", s, NoRow, o, FALSE)
     /\ UNCHANGED <<now, subscription, order, payment, approved, hasBillingKey, run, crashes>>

\* findOrCreatePeriodPayment: a payment that is not DONE is used again, with
\* its order, whatever its status.
FindPeriodPayment(w) ==
  LET s == thread[w].sub
      row == thread[w].row
      found == PeriodPayment(s, row.currentPeriodEnd)
  IN /\ At(w, "findPeriodPayment")
     /\ \/ /\ found = {}
           /\ Goto(w, "createPeriodPayment", s, row, NoOrder, FALSE)
        \/ \E o \in found :
             IF AlreadyPaid(o)
             THEN Goto(w, "renewFromPayment", s, row, NoOrder, FALSE)
             ELSE Goto(w, "executeBilling", s, NoRow, o, FALSE)
     /\ UNCHANGED <<now, subscription, order, payment, approved, hasBillingKey, run, crashes>>

RenewFromPayment(w) ==
  LET row == thread[w].row
  IN /\ At(w, "renewFromPayment")
     /\ Save(thread[w].sub, Renew(row, row.currentPeriodEnd))
     /\ Return(w)
     /\ UNCHANGED <<now, order, payment, approved, hasBillingKey, run, crashes>>

\* The unique key refuses the second of two inserts, which marks the
\* transaction for rollback: the charge is skipped.  So is an insert that
\* fails otherwise, here when the model has run out of orders.
CreatePeriodPayment(w) ==
  LET s == thread[w].sub
      start == thread[w].row.currentPeriodEnd
      inserts == ~PeriodTaken(s, start) /\ \E o \in Orders : FreshOrder(o)
  IN /\ At(w, "createPeriodPayment")
     /\ \/ /\ inserts
           /\ \E o \in Orders :
                /\ FreshOrder(o)
                /\ order' = [order EXCEPT ![o] =
                     [kind |-> "recurring", sub |-> s, start |-> start]]
                /\ payment' = [payment EXCEPT ![o] = "IN_PROGRESS"]
                /\ Goto(w, "executeBilling", s, NoRow, o, FALSE)
        \/ /\ ~inserts
           /\ Return(w)
           /\ UNCHANGED <<order, payment>>
     /\ UNCHANGED <<now, subscription, approved, hasBillingKey, run, crashes>>

\* Mutant: an exception of the provider is not a failure.
MutExecuteBilling(w) ==
  /\ At(w, "executeBilling")
  /\ \/ /\ hasBillingKey
        /\ \E answer \in {"done", "failed"} :
             /\ TossCharge(thread[w].order, answer)
             /\ Goto(w, "finalizeRead", thread[w].sub, NoRow, thread[w].order, TRUE)
     \/ /\ ~hasBillingKey
        /\ Goto(w, "finalizeRead", thread[w].sub, NoRow, thread[w].order, FALSE)
        /\ UNCHANGED approved
  /\ UNCHANGED <<now, subscription, order, payment, hasBillingKey, run, crashes>>

\* No billing key, an exception and an answer other than DONE are all failures.
ExecuteBilling(w) ==
  /\ At(w, "executeBilling")
  /\ \/ /\ hasBillingKey
        /\ \E answer \in {"done", "failed"} :
             /\ TossCharge(thread[w].order, answer)
             /\ Goto(w, "finalizeRead", thread[w].sub, NoRow, thread[w].order, answer = "done")
     \/ /\ ~hasBillingKey
        /\ Goto(w, "finalizeRead", thread[w].sub, NoRow, thread[w].order, FALSE)
        /\ UNCHANGED approved
  /\ UNCHANGED <<now, subscription, order, payment, hasBillingKey, run, crashes>>

\* complete() and markAborted() throw unless the payment is IN_PROGRESS.
FinalizeRead(w) ==
  LET s == thread[w].sub
      o == thread[w].order
  IN /\ At(w, "finalizeRead")
     /\ IF payment[o] = "IN_PROGRESS"
        THEN Goto(w, "finalizeCommit", s, subscription[s], o, thread[w].ok)
        ELSE Return(w)
     /\ UNCHANGED <<now, subscription, order, payment, approved, hasBillingKey, run, crashes>>

AfterFailure(row) ==
  LET pastDue == MarkPastDue(row, now + 1)
  IN IF IsRetryExhausted(pastDue) THEN Cancel(pastDue) ELSE pastDue

FinalizeCommit(w) ==
  LET s == thread[w].sub
      o == thread[w].order
      ok == thread[w].ok
      row == IF ok THEN Renew(thread[w].row, order[o].start) ELSE AfterFailure(thread[w].row)
  IN /\ At(w, "finalizeCommit")
     /\ \/ /\ IndexAllows(s, row)
           /\ Write(s, row)
           /\ payment' = [payment EXCEPT ![o] = IF ok THEN "DONE" ELSE "ABORTED"]
        \/ /\ ~IndexAllows(s, row)
           /\ UNCHANGED <<subscription, payment>>
     /\ Return(w)
     /\ UNCHANGED <<now, order, approved, hasBillingKey, run, crashes>>

-----------------------------------------------------------------------------
(* The environment *)

\* Between the first read of a database transaction and its commit.
InTransaction(t) ==
  thread[t].pc \in {"createSubscription", "cancelSubscription", "confirmCommit",
                    "cancelExpiring", "findPeriodPayment", "createPeriodPayment",
                    "renewFromPayment", "finalizeCommit"}

\* A transaction lasts milliseconds: no day passes in the middle of one.  One
\* may pass during a call to Toss.
Tick ==
  /\ now < MaxNow
  /\ \A t \in Threads : ~InTransaction(t)
  /\ now' = now + 1
  /\ UNCHANGED <<subscription, order, payment, approved, hasBillingKey, thread, run, crashes>>

\* A thread is lost with what it holds: the process dies, or a transaction
\* fails with an exception nothing handles.  A scheduler loses the rest of its
\* run with the process, and goes on with its list after an exception.
Crash(t) ==
  /\ crashes < MaxCrashes
  /\ ~At(t, "idle")
  /\ crashes' = crashes + 1
  /\ Return(t)
  /\ \/ UNCHANGED run
     \/ /\ t \in Schedulers
        /\ run' = [run EXCEPT ![t] = NoRun]
  /\ UNCHANGED <<now, subscription, order, payment, approved, hasBillingKey>>

-----------------------------------------------------------------------------

\* What a request does once it has begun.
RequestStep(r) ==
  \/ SaveNewSubscription(r)
  \/ CancelSubscriptionCommit(r)
  \/ IssueBillingKey(r)
  \/ FirstCharge(r)
  \/ FinalizeFirstCharge(r)
  \/ ResetBillingAuthorization(r)
  \/ ConfirmAtToss(r)
  \/ ConfirmRead(r)
  \/ ConfirmCommit(r)

RequestArrives(r) ==
  \/ CreateSubscription(r)
  \/ CancelSubscription(r)
  \/ ClaimBillingAuthorization(r)
  \/ ConfirmPayment(r)

SchedulerStep(w) ==
  \/ StartRun(w)
  \/ NextQuery(w)
  \/ CancelExpiring(w)
  \/ CancelExpiringCommit(w)
  \/ PrepareCharge(w)
  \/ FindPeriodPayment(w)
  \/ RenewFromPayment(w)
  \/ CreatePeriodPayment(w)
  \/ ExecuteBilling(w)
  \/ FinalizeRead(w)
  \/ FinalizeCommit(w)

Next ==
  \/ \E r \in Requests : RequestArrives(r) \/ RequestStep(r)
  \/ \E w \in Schedulers : SchedulerStep(w)
  \/ \E t \in Threads : Crash(t)
  \/ Tick

Spec == Init /\ [][Next]_vars

(***************************************************************************)
(* The cron trigger fires every half hour and a thread that has work goes  *)
(* on with it.  Nothing makes a user send a request, a process crash, or    *)
(* Toss answer one way rather than another.                                 *)
(***************************************************************************)
FairSpec ==
  /\ Spec
  /\ \A r \in Requests : WF_vars(RequestStep(r))
  /\ \A w \in Schedulers : WF_vars(SchedulerStep(w))

-----------------------------------------------------------------------------
(* Safety *)

\* A workspace never has two subscriptions that are not CANCELED, whatever
\* creations, revivals and late commits meet (the index of the changelog and
\* the check of SubscriptionService.createSubscription).
OneOpenSubscription ==
  \A s1, s2 \in Subs : IsCurrent(s1) /\ IsCurrent(s2) => s1 = s2

\* The requests between the claim of a subscription for its first charge and
\* the end of that claim.
Authorizes(r, s) ==
  /\ thread[r].sub = s
  /\ thread[r].pc \in {"issueBillingKey", "firstCharge", "finalizeFirstCharge",
                       "resetAuthorization"}

\* Two requests never take the first charge of a subscription at the same
\* time: what AUTHORIZING is for (Subscription.beginAuthorization).
AuthorizationExclusive ==
  \A r1, r2 \in Requests, s \in Subs :
    Authorizes(r1, s) /\ Authorizes(r2, s) => r1 = r2

\* However many schedulers prepare, crash, time out and try again, Toss
\* charges a period of a subscription under one order only
\* (RecurringBillingService, U-011).
NoDoubleChargePerPeriod ==
  \A o1, o2 \in approved :
    order[o1].kind = "recurring" /\ order[o1] = order[o2] => o1 = o2

\* JdbcWorkspaceQuotaRepository.findCurrentQuota: the subscription lifts the
\* limits of the free plan today.
GrantsQuota(s) ==
  /\ subscription[s].status \in {"ACTIVE", "PAST_DUE"}
  /\ subscription[s].currentPeriodEnd > now
  /\ subscription[s].currentPeriodEnd <= now + Period

\* A subscription that grants its quota does so for a period Toss has charged,
\* also when a commit wrote back an older row or an answer came late.
PaidUp ==
  \A s \in Subs : GrantsQuota(s) =>
    \E o \in approved :
      /\ order[o].sub = s
      /\ order[o].start <= now
      /\ subscription[s].currentPeriodEnd = order[o].start + Period

-----------------------------------------------------------------------------
(* With one scheduler, recurring billing implements PeriodLedger. *)

Recurring == {o \in Orders : order[o].kind = "recurring"}

PeriodOf(o) == <<order[o].sub, order[o].start>>

Ledger == INSTANCE PeriodLedger WITH
  charges <- [p \in {PeriodOf(o) : o \in Recurring} |->
                Cardinality({o \in Recurring \cap approved : PeriodOf(o) = p})],
  booked <- {PeriodOf(o) : o \in {x \in Recurring : payment[x] = "DONE"}}

\* Each period is invoiced, then charged at most once, then booked for good:
\* no late answer, retry or second request for the money takes a step back
\* (RecurringBillingService.chargeSubscription).
ImplementsPeriodLedger == Ledger!LedgerSpec

-----------------------------------------------------------------------------
(* Liveness *)

\* With one scheduler, a subscription whose period is over does not stay
\* ACTIVE in it: it is renewed, put past due or canceled, also when a crash
\* left the period's payment IN_PROGRESS.  (The model may run out of orders.)
DueIsSettled ==
  \A s \in Subs, end \in 1..MaxNow :
    LET due == /\ subscription[s].status = "ACTIVE"
               /\ subscription[s].currentPeriodEnd = end
               /\ end <= now
               /\ \/ PeriodPayment(s, end) # {}
                  \/ \E o \in Orders : FreshOrder(o)
    IN due ~> ~due

-----------------------------------------------------------------------------
(* What the documentation says and the code does not do *)

\* "일 1회 재시도(최대 3일) 후 해지": a retry that is due is carried out and
\* counted, so that it ends PAST_DUE or moves the next retry to a later day.
DueRetryIsCounted ==
  \A s \in Subs :
    IsRetryDue(subscription[s], now) ~> ~IsRetryDue(subscription[s], now)

\* "만기 구독을 청구": the scheduler charges a period once it has begun.
NeverChargedEarly ==
  \A o \in approved : order[o].kind = "recurring" => order[o].start <= now

\* "취소된 구독은 활성화할 수 없습니다": a CANCELED subscription stays so.
CanceledIsFinal ==
  [][\A s \in Subs :
       subscription[s].status = "CANCELED" => subscription'[s].status = "CANCELED"]_vars

=============================================================================
