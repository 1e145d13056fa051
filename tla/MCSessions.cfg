\* Three calls, one writer of the account.
SPECIFICATION Spec
CONSTANTS
    NoToken = NoToken
    Calls = {c1, c2, c3}
    Writers = {w1}
    Kinds = {"reset", "edit", "reinstate", "deactivate", "suspend", "ban", "bulkBan", "bulkActivate", "delete"}
    Lifetime = 2
    ClockSkew = 1
    Suspension = 2
    MaxTime = 4
SYMMETRY SessionSymmetry
INVARIANTS TypeOK LoggedOutUntilExpiry
PROPERTY OnlyInGoodStanding
CHECK_DEADLOCK FALSE
