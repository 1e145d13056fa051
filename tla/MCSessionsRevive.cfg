\* Two writers of the account overlap a session.
SPECIFICATION Spec
CONSTANTS
    NoToken = NoToken
    Calls = {c1, c2}
    Writers = {w1, w2}
    Kinds = {"reset", "edit"}
    Lifetime = 3
    ClockSkew = 1
    Suspension = 2
    MaxTime = 4
SYMMETRY SessionSymmetry
INVARIANTS InvalidatedStaysInvalid
CHECK_DEADLOCK FALSE
