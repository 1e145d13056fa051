SPECIFICATION Spec
CONSTANTS
  Pages <- MCPages
  MaxQueries = 2
  MaxRuns = 2
INVARIANTS TypeOK HonestSuccess SingleFlight CurrentRows NoOrphanFlag
CHECK_DEADLOCK FALSE
