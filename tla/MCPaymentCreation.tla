------------------------- MODULE MCPaymentCreation -------------------------
(* Instances of PaymentCreation, and of ApiProcess around it, for TLC.     *)
EXTENDS ApiProcess, TLC

CONSTANTS r1, r2, r3, r4, k1, k2

\* Three requests share a key, one has a key of its own.
MCKeyOf == (r1 :> k1 @@ r2 :> k1 @@ r3 :> k1 @@ r4 :> k2)
=============================================================================
