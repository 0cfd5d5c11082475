--------------------------- MODULE MCProvisioning ---------------------------
(* Provisioning with threads that are interchangeable. *)
EXTENDS Provisioning, TLC

Symmetry == Permutations(Threads)
=============================================================================
