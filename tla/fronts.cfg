SPECIFICATION FrontSpec
CONSTANTS
  Requests = {"r1", "r2", "r3"}
  Asks <- MCAsks
PROPERTIES
  ClientsRelyOnCall
  RequestsAnswered
CHECK_DEADLOCK FALSE
