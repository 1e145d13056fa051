----------------------------- MODULE MCSessions -----------------------------
(* Sessions for TLC. *)
EXTENDS Sessions, TLC

\* Calls are interchangeable, and so are writers.
SessionSymmetry == Permutations(Calls) \cup Permutations(Writers)
=============================================================================
