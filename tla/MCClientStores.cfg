SPECIFICATION Spec
CONSTANTS
  Users = {a, b}
  Nobody = nobody
  MaxQueue = 4
INVARIANTS TypeOK OwnDataOnly ChatAccountBound WaitsAreOwed FavoritesReconciled
