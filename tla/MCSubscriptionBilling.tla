----------------------- MODULE MCSubscriptionBilling -----------------------
(***************************************************************************)
(* SubscriptionBilling on small sets.  Identifiers and threads are told     *)
(* apart only by equality, so permuting them is a symmetry of the runs that *)
(* check safety.                                                            *)
(***************************************************************************)
EXTENDS SubscriptionBilling, TLC

Symmetry ==
  Permutations(Subs) \cup Permutations(Orders) \cup
  Permutations(Requests) \cup Permutations(Schedulers)

=============================================================================
