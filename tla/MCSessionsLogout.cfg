\* A logged-out token, presented again.
SPECIFICATION Spec
CONSTANTS
    NoToken = NoToken
    Calls = {c1, c2, c3}
    Writers = {}
    Kinds = {}
    Lifetime = 1
    ClockSkew = 1
    Suspension = 2
    MaxTime = 3
SYMMETRY SessionSymmetry
INVARIANTS LoggedOutStaysOut
CHECK_DEADLOCK FALSE
