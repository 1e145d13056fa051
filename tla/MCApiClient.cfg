SPECIFICATION Spec
CONSTANTS
  r1 = r1
  r2 = r2
  Requests = {r1, r2}
  KindsOf <- MCKindsOf
INVARIANTS TypeOK AppliedOnce OutcomeHonest RefusalBudget
PROPERTY Settles
CHECK_DEADLOCK FALSE
