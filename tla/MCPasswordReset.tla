--------------------------- MODULE MCPasswordReset ---------------------------
(* PasswordReset for TLC. *)
EXTENDS PasswordReset, TLC

\* Requests are interchangeable, and so are checks.
CallSymmetry == Permutations(Requests) \cup Permutations(Checks)
=============================================================================
