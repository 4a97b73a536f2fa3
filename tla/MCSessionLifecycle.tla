------------------------- MODULE MCSessionLifecycle -------------------------
(* The workers are alike. *)
EXTENDS SessionLifecycleProps, TLC

WorkerSymmetry == Permutations(Workers)
=============================================================================
