SPECIFICATION FairSpec
CONSTANTS
  A = A
  B = B
  Agent = Agent
  Pids = {1, 2, 3, 4, 5}
  SelfPid = 5
  Apps = {A, B}
  Agents = {Agent}
  DisplayName <- Names
  Machines <- Tables
  RESPONSIBILITY_MAX_HOPS = 4
  TopN = 1
  MaxExits = 1
INVARIANTS NeverAnotherApp AppsOwnProcessIsCounted RowsAreTheHeaviestApps
PROPERTIES ScanEnds
CHECK_DEADLOCK FALSE
