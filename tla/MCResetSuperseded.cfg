\* A request that loses its compare-and-swap to something that is no request.
SPECIFICATION FairSpec
CONSTANTS
    NoState = NoState
    Corrupt = Corrupt
    Requests = {q1, q2}
    Checks = {k1}
    Standings = {"active"}
    MaxAttempts = 2
    Lifetime = 1
    Cooldown = 1
    MaxConcurrencyRetries = 1
    MaxTime = 3
PROPERTIES SupersededHasOwner
CHECK_DEADLOCK FALSE
