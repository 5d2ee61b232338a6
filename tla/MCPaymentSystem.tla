--------------------------- MODULE MCPaymentSystem ---------------------------
(* Instances of PaymentSystem for TLC.                                     *)
EXTENDS PaymentSystem
=============================================================================
