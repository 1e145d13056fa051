--------------------------- MODULE MCLoginLockout ---------------------------
(* LoginLockout for TLC. *)
EXTENDS LoginLockout, TLC

\* Requests are interchangeable: nothing orders or singles one out.
RequestSymmetry == Permutations(Requests)
=============================================================================
