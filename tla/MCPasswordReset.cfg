\* Two requests for a code race a verification or a confirmation, the account's
\* standing and the purge.
SPECIFICATION Spec
CONSTANTS
    NoState = NoState
    Corrupt = Corrupt
    Requests = {q1, q2}
    Checks = {k1}
    Standings = {"active", "inactive", "deleted"}
    MaxAttempts = 2
    Lifetime = 2
    Cooldown = 1
    MaxConcurrencyRetries = 2
    MaxTime = 4
SYMMETRY CallSymmetry
INVARIANTS UndeliveredExplained
PROPERTIES CooldownRespected ImplementsOneTimeCode
CHECK_DEADLOCK FALSE
