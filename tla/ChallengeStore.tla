--------------------------- MODULE ChallengeStore ---------------------------
(* dbo.VerificationChallenges, seen from one (UserId, ChallengeType).        *)
(*                                                                           *)
(* A unique index leaves at most one row per user and challenge type, and    *)
(* every service that owns a type goes through the same adapter, so the      *)
(* table is modelled as one variable per type: the stored state (StateJson), *)
(* or NoState.  The adapter's operations are single SQL statements, hence    *)
(* atomic; everything between two of them interleaves with other requests.   *)
EXTENDS Naturals

CONSTANT NoState        \* no row for this user and type

\* A query filter hides the rows of deleted users from every SELECT, UPDATE and
\* DELETE of the adapter; an INSERT knows nothing of it.
Visible(row, hidden) == IF hidden THEN NoState ELSE row

\* A compare-and-swap that forgot to compare.
TryReplaceBlindly(row, hidden, expected, new) == [ok |-> TRUE, row |-> new]

\* TryReplaceChallengeStateAsync.  With an expected state it is an UPDATE that
\* also compares StateJson; without one (NoState) it is an INSERT, which the
\* unique index refuses when a row exists.
TryReplace(row, hidden, expected, new) ==
    LET ok == row = expected /\ (hidden => expected = NoState)
    IN [ok |-> ok, row |-> IF ok THEN new ELSE row]

\* TryDeleteChallengeStateAsync: DELETE ... WHERE StateJson = expected.
TryDelete(row, hidden, expected) ==
    LET ok == row # NoState /\ row = expected /\ ~hidden
    IN [ok |-> ok, row |-> IF ok THEN NoState ELSE row]

\* The rows the hygiene purge deletes: ExpiresAt < UtcNow, evaluated by the
\* DELETE itself and not when the scan counted them.
Purgeable(row, hidden, expiresAt, now) == row # NoState /\ ~hidden /\ expiresAt < now
=============================================================================
