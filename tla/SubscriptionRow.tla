--------------------------- MODULE SubscriptionRow ---------------------------
(***************************************************************************)
(* One row of payment.subscription and the methods of the entity           *)
(* Subscription, each as an operator from a row to the row it leaves.      *)
(*                                                                         *)
(* The entity has no @Version and no @DynamicUpdate: a transaction that    *)
(* changed one field of the row it read writes every field back.           *)
(*                                                                         *)
(* An instant is a day, and 0 stands for a null column.  customer_key,     *)
(* plan_id and current_period_start are left out: no step of the billing   *)
(* services reads them (the start of a period is the end of the last one). *)
(***************************************************************************)
EXTENDS Naturals

CONSTANTS
  Period,        \* the days BillingInterval.advance adds
  MaxAttempts    \* Subscription.MAX_RECURRING_ATTEMPTS

ASSUME PeriodAssumption == Period \in Nat \ {0}
ASSUME MaxAttemptsAssumption == MaxAttempts \in Nat \ {0}

NoTime == 0

\* "NONE" is an identifier no row has been inserted for.
SubscriptionStatus ==
  {"NONE", "INCOMPLETE", "AUTHORIZING", "ACTIVE", "PAST_DUE", "CANCELED"}

Row == [status : SubscriptionStatus,
        currentPeriodEnd : Nat,
        cancelAtPeriodEnd : BOOLEAN,
        failedAttemptCount : Nat,
        nextRetryAt : Nat]

NoRow == [status |-> "NONE",
          currentPeriodEnd |-> NoTime,
          cancelAtPeriodEnd |-> FALSE,
          failedAttemptCount |-> 0,
          nextRetryAt |-> NoTime]

Created == [NoRow EXCEPT !.status = "INCOMPLETE"]

BeginAuthorization(row) == [row EXCEPT !.status = "AUTHORIZING"]

ResetAuthorization(row) == [row EXCEPT !.status = "INCOMPLETE"]

\* activate and renew set the same columns; cancelAtPeriodEnd survives both.
Renew(row, periodStart) ==
  [row EXCEPT !.status = "ACTIVE",
              !.currentPeriodEnd = periodStart + Period,
              !.failedAttemptCount = 0,
              !.nextRetryAt = NoTime]

Activate(row, periodStart) == Renew(row, periodStart)

Cancel(row) == [row EXCEPT !.status = "CANCELED", !.nextRetryAt = NoTime]

ScheduleCancelAtPeriodEnd(row) == [row EXCEPT !.cancelAtPeriodEnd = TRUE]

\* Mutant: a failed charge leaves the subscription its quota until the retry.
MutMarkPastDue(row, retryAt) ==
  [row EXCEPT !.status = "PAST_DUE",
              !.currentPeriodEnd = retryAt,
              !.failedAttemptCount = @ + 1,
              !.nextRetryAt = retryAt]

MarkPastDue(row, retryAt) ==
  [row EXCEPT !.status = "PAST_DUE",
              !.failedAttemptCount = @ + 1,
              !.nextRetryAt = retryAt]

IsRetryExhausted(row) == row.failedAttemptCount >= MaxAttempts

\* The queries of the scheduler, as conditions on a row.
IsExpiringCancellation(row, at) ==
  /\ row.status = "ACTIVE"
  /\ row.cancelAtPeriodEnd
  /\ row.currentPeriodEnd <= at

IsChargeable(row, at) ==
  /\ row.status = "ACTIVE"
  /\ ~row.cancelAtPeriodEnd
  /\ row.currentPeriodEnd <= at

IsRetryDue(row, at) ==
  /\ row.status = "PAST_DUE"
  /\ row.nextRetryAt # NoTime
  /\ row.nextRetryAt <= at

=============================================================================
