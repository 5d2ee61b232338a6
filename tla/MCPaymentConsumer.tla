------------------------- MODULE MCPaymentConsumer -------------------------
(* Instances of PaymentConsumer for TLC.                                   *)
EXTENDS PaymentConsumer, TLC

\* Workers run the same handlers; sound for the runs without liveness.
WorkerSymmetry == Permutations(Worker)

\* Bound: messages that are returned or published again, in one behaviour.
\* It cuts behaviours short, which is sound for the run without liveness.
MaxRepeats == 2
FewRepeats == again <= MaxRepeats
=============================================================================
