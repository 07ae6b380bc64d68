---------------------------- MODULE PeriodLedger ----------------------------
(***************************************************************************)
(* What recurring billing promises of each billing period of each           *)
(* subscription: it is invoiced before it is charged, it is charged at most *)
(* once, and it is booked as paid only when it was charged, for good.       *)
(***************************************************************************)
EXTENDS Naturals

CONSTANT Subs

VARIABLES
  charges,   \* how many times Toss has charged each period that was invoiced
  booked     \* the periods whose payment is recorded as DONE

ledgerVars == <<charges, booked>>

\* A period is named by its subscription and its first day.
BillingPeriod == Subs \X Nat

LedgerInit ==
  /\ charges = [p \in {} |-> 0]
  /\ booked = {}

Invoice ==
  \E p \in DOMAIN charges' \ DOMAIN charges :
    /\ p \in BillingPeriod
    /\ charges' = [q \in DOMAIN charges \cup {p} |-> IF q = p THEN 0 ELSE charges[q]]
    /\ UNCHANGED booked

Charge ==
  \E p \in DOMAIN charges :
    /\ charges[p] = 0
    /\ charges' = [charges EXCEPT ![p] = 1]
    /\ UNCHANGED booked

Book ==
  \E p \in DOMAIN charges :
    /\ charges[p] = 1
    /\ p \notin booked
    /\ booked' = booked \cup {p}
    /\ UNCHANGED charges

LedgerNext == Invoice \/ Charge \/ Book

LedgerSpec == LedgerInit /\ [][LedgerNext]_ledgerVars

=============================================================================
