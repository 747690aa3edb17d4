SPECIFICATION RegisterSpec
CONSTANTS
  Nodes = {1, 2}
  Controlling = {2}
  Grace = 3
  Beat = 2
  MaxCrashes = 2
  MaxRestarts = 1
INVARIANTS
  RegisterTypeOK
  MembersMonitored
PROPERTIES
  DeadNodeRemoved
  RestartedNodeGetsIn
