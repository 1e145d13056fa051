SPECIFICATION Spec
CONSTANTS
  Tabs = {a, b}
  MaxActs = 2
INVARIANTS TypeOK LogoutSticks LogoutSettled
PROPERTIES LogoutReachesTabs LoadingEnds
CHECK_DEADLOCK FALSE
