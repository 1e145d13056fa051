\* One code, three concurrent verifications or confirmations of it.
SPECIFICATION Spec
CONSTANTS
    NoState = NoState
    Corrupt = Corrupt
    Requests = {q1}
    Checks = {k1, k2, k3}
    Standings = {"active"}
    MaxAttempts = 2
    Lifetime = 1
    Cooldown = 1
    MaxConcurrencyRetries = 2
    MaxTime = 3
SYMMETRY CallSymmetry
INVARIANTS TypeOK RedeemedOnce GuessBudget
PROPERTIES ImplementsOneTimeCode
CHECK_DEADLOCK FALSE
