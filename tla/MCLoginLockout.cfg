\* Four racing logins, one password: the counter and the lock.
SPECIFICATION Spec
CONSTANTS
    NoState = NoState
    Corrupt = Corrupt
    Requests = {r1, r2, r3, r4}
    MaxFailedAttempts = 2
    LockoutDuration = 1
    CounterTtl = 2
    MaxConcurrencyRetries = 2
    MaxTime = 4
    MaxPassword = 0
    Standings = {"eligible"}
    LegacyHashes = {FALSE}
SYMMETRY RequestSymmetry
INVARIANTS NoLostFailure ThresholdLocks WrongAnswerBudget
PROPERTIES LockNeverShortened ClearForgetsOnlySeen
CHECK_DEADLOCK FALSE
