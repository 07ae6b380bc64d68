--------------------------- MODULE MCPaymentRefund ---------------------------
(***************************************************************************)
(* PaymentRefund for a payment of two units: one key asks for one unit, the *)
(* other for all that remains.                                              *)
(***************************************************************************)
EXTENDS PaymentRefund, TLC

CONSTANTS k1, k2

MCKeys == {k1, k2}

MCAmountOf == k1 :> 1 @@ k2 :> 0

=============================================================================
