----------------------------- MODULE MCJobQueue -----------------------------
(* JobQueue for TLC: worker identities are interchangeable. *)
EXTENDS JobQueue, TLC

WorkerSymmetry == Permutations(Workers)

=============================================================================
