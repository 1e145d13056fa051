\* Two racing logins while the account itself changes; termination.
SPECIFICATION FairSpec
CONSTANTS
    NoState = NoState
    Corrupt = Corrupt
    Requests = {r1, r2}
    MaxFailedAttempts = 0
    LockoutDuration = 0
    CounterTtl = 1
    MaxConcurrencyRetries = 1
    MaxTime = 2
    MaxPassword = 1
    Standings = {"eligible", "refused", "deleted"}
    LegacyHashes = {TRUE, FALSE}
INVARIANTS TypeOK
PROPERTIES PasswordNeverReverts EveryLoginAnswered
CHECK_DEADLOCK FALSE
