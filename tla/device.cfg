SPECIFICATION BridgeSpec
CONSTANTS
  Kinds = {"amp", "roadm", "source", "end"}
  Schema <- MCSchema
  Commands <- MCCommands
  Sessions = {"default_session", "other_session"}
  DefaultSession = "default_session"
  Initial = 5
  OtherValue = 7
  Null = Null
  NoPath = NoPath
INVARIANTS
  BridgeTypeOK
  LastWriteStands
PROPERTY
  ReportsResume
