---------------------------- MODULE PaymentRefund ----------------------------
(***************************************************************************)
(* The refund of one payment that Toss has approved: the customer's full or *)
(* partial cancel (PaymentService.cancelPayment), the administrator's full  *)
(* refund (AdminBillingUseCase.refundFull) and the webhook by which Toss     *)
(* reports the payment's status (PaymentWebhookService.handle), over the     *)
(* rows payment, payment_cancel and webhook_event.                          *)
(*                                                                         *)
(* cancelPayment holds the lock of the payment row during its call to Toss. *)
(* refundFull locks it before and again after the call.  The webhook reads  *)
(* it without a lock, and its UPDATE waits for the lock.                    *)
(*                                                                         *)
(* A row found by its payment key has been DONE, for the key is saved with  *)
(* that status: READY, IN_PROGRESS and ABORTED do not occur here.           *)
(***************************************************************************)
EXTENDS Naturals

CONSTANTS
  Amount,      \* what was paid
  Keys,        \* Idempotency-Keys of the customer's cancel requests
  AdminKey,    \* "admin-full-refund-" with the payment's id
  AmountOf,    \* what a customer's key asks for; 0 (null) is all that remains
  Users, Admins, Hooks,
  NoThread, NoKey,
  MaxCrashes   \* bound: threads lost to a crash

ASSUME AmountAssumption == Amount \in Nat \ {0}
ASSUME KeysAssumption == AdminKey \notin Keys /\ NoKey \notin Keys
ASSUME AmountOfAssumption == AmountOf \in [Keys -> 0..Amount]
ASSUME RefundThreadsAssumption ==
  /\ Users \cap Admins = {} /\ Users \cap Hooks = {} /\ Admins \cap Hooks = {}
  /\ NoThread \notin Users \cup Admins \cup Hooks
ASSUME MaxCrashesAssumption == MaxCrashes \in Nat

VARIABLES
  status,      \* payment.status
  recorded,    \* the sum of the payment's payment_cancel rows
  cancelKeys,  \* their idempotency keys
  lock,        \* who holds the lock of the payment row
  refunded,    \* what Toss has paid back
  reply,       \* what Toss answers to a key it has seen
  event,       \* webhook_event, by the order in which Toss sends
  thread,
  crashes

vars == <<status, recorded, cancelKeys, lock, refunded, reply, event, thread, crashes>>

Threads == Users \cup Admins \cup Hooks

\* Event 0 tells of the approval, each later one of a refund.
Events == 0..Amount

RefundStatus == {"DONE", "PARTIAL_CANCELED", "CANCELED"}

TypeOK ==
  /\ status \in RefundStatus
  /\ recorded \in 0..Amount
  /\ cancelKeys \subseteq Keys
  /\ lock \in Users \cup {NoThread}
  /\ refunded \in 0..Amount
  /\ reply \in [Keys \cup {AdminKey} -> RefundStatus \cup {"none"}]
  /\ event \in [Events -> {"none", "pending", "processed"}]
  /\ thread \in [Threads ->
       [pc : {"idle", "cancelAtToss", "cancelCommit", "adminAtToss", "adminFinalize",
              "getPayment", "reflectRead", "reflectCommit", "markProcessed"},
        key : Keys \cup {NoKey},
        canceled : 0..Amount,
        answer : RefundStatus \cup {"none"},
        event : Events]]
  /\ crashes \in 0..MaxCrashes

Idle == [pc |-> "idle", key |-> NoKey, canceled |-> 0, answer |-> "none", event |-> 0]

Init ==
  /\ status = "DONE"
  /\ recorded = 0
  /\ cancelKeys = {}
  /\ lock = NoThread
  /\ refunded = 0
  /\ reply = [k \in Keys \cup {AdminKey} |-> "none"]
  /\ event = [e \in Events |-> IF e = 0 THEN "pending" ELSE "none"]
  /\ thread = [t \in Threads |-> Idle]
  /\ crashes = 0

-----------------------------------------------------------------------------
(* Toss, from how TossPaymentClient uses it.  A refund changes the status of *)
(* the payment there and sends one event; a key seen before is answered as   *)
(* it was.  "failed" is an exception: a refusal, or a call that timed out    *)
(* before or after Toss acted on it.                                         *)

StatusAt(total) ==
  CASE total = 0 -> "DONE"
    [] total = Amount -> "CANCELED"
    [] OTHER -> "PARTIAL_CANCELED"

TossRefund(key, asked, answer) ==
  \/ /\ reply[key] # "none"
     /\ answer \in {reply[key], "failed"}
     /\ UNCHANGED <<refunded, reply, event>>
  \/ /\ reply[key] = "none"
     /\ refunded < Amount
     /\ refunded + asked <= Amount
     /\ refunded' = IF asked = 0 THEN Amount ELSE refunded + asked
     /\ reply' = [reply EXCEPT ![key] = StatusAt(refunded')]
     /\ \E e \in Events :
          /\ event[e] = "none"
          /\ \A x \in Events : event[x] = "none" => e <= x
          /\ event' = [event EXCEPT ![e] = "pending"]
     /\ answer \in {reply'[key], "failed"}
  \/ /\ reply[key] = "none"
     /\ answer = "failed"
     /\ UNCHANGED <<refunded, reply, event>>

-----------------------------------------------------------------------------

At(t, pc) == thread[t].pc = pc

Goto(t, pc) == thread' = [thread EXCEPT ![t].pc = pc]

Return(t) == thread' = [thread EXCEPT ![t] = Idle]

\* Mutant: SELECT without FOR UPDATE.
MutRowIsFree == TRUE

RowIsFree == lock = NoThread

-----------------------------------------------------------------------------
(* PaymentService.cancelPayment: one transaction around the call to Toss.    *)

\* A key that is already recorded returns the payment as it is.
CancelPayment(u) ==
  /\ At(u, "idle")
  /\ RowIsFree
  /\ \E k \in Keys \ cancelKeys :
       /\ status \in {"DONE", "PARTIAL_CANCELED"}
       /\ recorded < Amount
       /\ recorded + AmountOf[k] <= Amount
       /\ thread' = [thread EXCEPT ![u] =
            [Idle EXCEPT !.pc = "cancelAtToss", !.key = k, !.canceled = recorded]]
  /\ lock' = u
  /\ UNCHANGED <<status, recorded, cancelKeys, refunded, reply, event, crashes>>

\* An exception rolls the transaction back.
CancelAtToss(u) ==
  LET k == thread[u].key
  IN /\ At(u, "cancelAtToss")
     /\ \E answer \in RefundStatus \cup {"failed"} :
          /\ TossRefund(k, AmountOf[k], answer)
          /\ IF answer = "failed"
             THEN Return(u) /\ lock' = NoThread
             ELSE /\ thread' = [thread EXCEPT ![u].pc = "cancelCommit", ![u].answer = answer]
                  /\ UNCHANGED lock
     /\ UNCHANGED <<status, recorded, cancelKeys, crashes>>

\* resolveCancelAmount, from the sum read at the start of the transaction.
ResolvedAmount(u) ==
  LET asked == AmountOf[thread[u].key]
  IN IF asked = 0 THEN Amount - thread[u].canceled ELSE asked

\* Mutant: the answer PARTIAL_CANCELED is not looked for.
MutIsPartialCancel(answer, total) ==
  answer \notin {"PARTIAL_CANCELED", "CANCELED"} /\ total < Amount

IsPartialCancel(answer, total) ==
  \/ answer = "PARTIAL_CANCELED"
  \/ answer # "CANCELED" /\ total < Amount

CancelCommit(u) ==
  /\ At(u, "cancelCommit")
  /\ recorded' = recorded + ResolvedAmount(u)
  /\ cancelKeys' = cancelKeys \cup {thread[u].key}
  /\ status' = IF IsPartialCancel(thread[u].answer, thread[u].canceled + ResolvedAmount(u))
               THEN "PARTIAL_CANCELED"
               ELSE "CANCELED"
  /\ lock' = NoThread
  /\ Return(u)
  /\ UNCHANGED <<refunded, reply, event, crashes>>

-----------------------------------------------------------------------------
(* AdminBillingUseCase.refundFull *)

\* validateRefundable: DONE, and no payment_cancel row.
Refundable == recorded = 0 /\ status = "DONE"

PrepareRefund(a) ==
  /\ At(a, "idle")
  /\ RowIsFree
  /\ Refundable
  /\ Goto(a, "adminAtToss")
  /\ UNCHANGED <<status, recorded, cancelKeys, lock, refunded, reply, event, crashes>>

RefundAtToss(a) ==
  /\ At(a, "adminAtToss")
  /\ \E answer \in RefundStatus \cup {"failed"} :
       /\ TossRefund(AdminKey, 0, answer)
       /\ IF answer = "failed" THEN Return(a) ELSE Goto(a, "adminFinalize")
  /\ UNCHANGED <<status, recorded, cancelKeys, lock, crashes>>

\* Mutant: the second transaction does not validate again.
MutFinalizeRefund(a) ==
  /\ At(a, "adminFinalize")
  /\ RowIsFree
  /\ recorded' = recorded + Amount
  /\ status' = "CANCELED"
  /\ Return(a)
  /\ UNCHANGED <<cancelKeys, lock, refunded, reply, event, crashes>>

\* finalizeRefund validates again and throws if the row has changed.
FinalizeRefund(a) ==
  /\ At(a, "adminFinalize")
  /\ RowIsFree
  /\ IF Refundable
     THEN recorded' = Amount /\ status' = "CANCELED"
     ELSE UNCHANGED <<recorded, status>>
  /\ Return(a)
  /\ UNCHANGED <<cancelKeys, lock, refunded, reply, event, crashes>>

-----------------------------------------------------------------------------
(* PaymentWebhookService.handle *)

\* Mutant: the event is marked processed as it is saved.
MutReceiveWebhook(h) ==
  /\ At(h, "idle")
  /\ \E e \in Events :
       /\ event[e] = "pending"
       /\ event' = [event EXCEPT ![e] = "processed"]
       /\ thread' = [thread EXCEPT ![h] = [Idle EXCEPT !.pc = "getPayment", !.event = e]]
  /\ UNCHANGED <<status, recorded, cancelKeys, lock, refunded, reply, crashes>>

\* Toss sends an event again until it is acknowledged, perhaps while an
\* earlier delivery is still being handled.
ReceiveWebhook(h) ==
  /\ At(h, "idle")
  /\ \E e \in Events :
       /\ event[e] = "pending"
       /\ thread' = [thread EXCEPT ![h] = [Idle EXCEPT !.pc = "getPayment", !.event = e]]
  /\ UNCHANGED <<status, recorded, cancelKeys, lock, refunded, reply, event, crashes>>

\* The status comes from Toss, not from the event.
GetPayment(h) ==
  /\ At(h, "getPayment")
  /\ thread' = [thread EXCEPT ![h].pc = "reflectRead", ![h].answer = StatusAt(refunded)]
  /\ UNCHANGED <<status, recorded, cancelKeys, lock, refunded, reply, event, crashes>>

\* applyStatus.  complete() throws unless the row is READY or IN_PROGRESS, and
\* markPartialCanceled() throws when it is CANCELED: Toss will send again.
ReflectRead(h) ==
  LET answer == thread[h].answer
  IN /\ At(h, "reflectRead")
     /\ \/ answer = status /\ Goto(h, "markProcessed")
        \/ /\ answer # status
           /\ \/ answer = "CANCELED"
              \/ answer = "PARTIAL_CANCELED" /\ status = "DONE"
           /\ Goto(h, "reflectCommit")
        \/ /\ answer # status
           /\ \/ answer = "DONE"
              \/ answer = "PARTIAL_CANCELED" /\ status = "CANCELED"
           /\ Return(h)
     /\ UNCHANGED <<status, recorded, cancelKeys, lock, refunded, reply, event, crashes>>

\* The UPDATE waits for the lock and writes what was decided before.
ReflectCommit(h) ==
  /\ At(h, "reflectCommit")
  /\ RowIsFree
  /\ status' = thread[h].answer
  /\ Goto(h, "markProcessed")
  /\ UNCHANGED <<recorded, cancelKeys, lock, refunded, reply, event, crashes>>

MarkProcessed(h) ==
  /\ At(h, "markProcessed")
  /\ event' = [event EXCEPT ![thread[h].event] = "processed"]
  /\ Return(h)
  /\ UNCHANGED <<status, recorded, cancelKeys, lock, refunded, reply, crashes>>

-----------------------------------------------------------------------------

\* The thread's transaction, if it is in one, is rolled back.
Crash(t) ==
  /\ crashes < MaxCrashes
  /\ ~At(t, "idle")
  /\ crashes' = crashes + 1
  /\ Return(t)
  /\ lock' = IF lock = t THEN NoThread ELSE lock
  /\ UNCHANGED <<status, recorded, cancelKeys, refunded, reply, event>>

UserStep(u) == CancelAtToss(u) \/ CancelCommit(u)

AdminStep(a) == RefundAtToss(a) \/ FinalizeRefund(a)

HookStep(h) ==
  \/ ReceiveWebhook(h)
  \/ GetPayment(h)
  \/ ReflectRead(h)
  \/ ReflectCommit(h)
  \/ MarkProcessed(h)

Next ==
  \/ \E u \in Users : CancelPayment(u) \/ UserStep(u)
  \/ \E a \in Admins : PrepareRefund(a) \/ AdminStep(a)
  \/ \E h \in Hooks : HookStep(h)
  \/ \E t \in Threads : Crash(t)

Spec == Init /\ [][Next]_vars

(***************************************************************************)
(* A request that has begun goes on; one that waits for the lock gets it in *)
(* its turn, the waiters of a PostgreSQL row lock being queued, hence SF.    *)
(* Toss delivers an event until it is acknowledged.                         *)
(***************************************************************************)
FairSpec ==
  /\ Spec
  /\ \A u \in Users : WF_vars(UserStep(u))
  /\ \A a \in Admins : SF_vars(AdminStep(a))
  /\ \A h \in Hooks : SF_vars(HookStep(h))

-----------------------------------------------------------------------------
(* Properties *)

\* The cancels on record never add up to more than Toss has paid back, though
\* a cancel whose answer was lost is sent again, another takes what is left,
\* and an administrator refunds what the records call unrefunded
\* (PaymentService.cancelPayment under the row lock, AdminBillingUseCase).
BooksNotAheadOfToss == recorded <= refunded

\* A payment shown as canceled has been paid back in full, one shown as
\* partially canceled at least in part, whoever wrote the status last.
CanceledMeansRefunded ==
  /\ status = "CANCELED" => refunded = Amount
  /\ status = "PARTIAL_CANCELED" => refunded > 0

\* A refund Toss has made shows in the end and for good, also when the request
\* that asked for it died before its commit (PaymentWebhookService.handle).
RefundIsReflected == refunded > 0 ~> [](status # "DONE")

\* "Toss 권위 상태를 Payment에 반영한다": a payment Toss has paid back in full
\* is shown as CANCELED in the end and for good.
FullRefundIsReflected == refunded = Amount ~> [](status = "CANCELED")

=============================================================================
