\* Two calls, one of which acts; the worker dies, the server restarts.  Or batches on pages that change.  Or two invocations of
\* agents on two accounts.
SPECIFICATION OutsideSpec
CONSTANTS
  Batches = {b1, b2}
  Acts = {b2}
  None = None
  MaxInstances = 2
  MaxDeaths = 1
  MaxRestarts = 1
  Relinks = TRUE
  Origins = {"o1", "o2"}
  HomePage <- PageHomes
  RolesOf <- PageRoles
  Granted = {"o1"}
  PageAsks <- AsksOfPage
  PageTabs = 2
  PageEdits = 1
  BatchesMax = 2
  Lengths = {0, 1, 2, 3}
  Calls = {"c1", "c2"}
  KindsOf <- LanesOfCalls
  ForgeCalls = {"c1"}
  Logins <- TwoLogins
  MaxClock = 1
INVARIANTS ChannelInv PageInv PageRead CallsInv
PROPERTIES ImplementsRpc InFlightClears CallsSettle
CHECK_DEADLOCK FALSE
