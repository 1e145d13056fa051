----------------------------- MODULE MCApiClient -----------------------------
(* Model-checking instance of ApiClient: two concurrent calls of one tab,  *)
(* a write and either a read, with which it shares the refresh, or a       *)
(* sign-in, which neither primes nor refreshes.                            *)
EXTENDS ApiClient, TLC

CONSTANTS r1, r2

MCKindsOf == r1 :> {"write"} @@ r2 :> {"read", "signin"}

=============================================================================
