SPECIFICATION NorthSpec
CONSTANTS
  Controls <- MCControls
  Reads <- MCReads
  Operations <- MCOperations
  Suffix <- MCSuffix
  OwnSchema = {"SET_GAIN", "SET_VOA"}
  WithNodeId = {"SET_GAIN"}
  Launches = {"script", "server"}
  Bundles = {"main", "other"}
  MainBundle = "main"
  AppsOf <- MCAppsOf
  CommandsIn <- MCCommandsIn
  Plugins = {"P"}
  Required <- MCRequired
  Incomplete = {}
  Callers = {"c1", "c2"}
  Calls <- MCCalls
INVARIANTS
  NorthTypeOK
  ToolsCurrent
PROPERTIES
  AcceptedStateKept
  SetUpComplete
  CallsAnswered
  StartsEventually
CHECK_DEADLOCK FALSE
