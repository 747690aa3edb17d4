SPECIFICATION BridgeSpec
CONSTANTS
  Kinds = {"amp"}
  Schema <- MCSchema
  Commands <- ZeroGain
  Sessions = {"default_session", "other_session"}
  DefaultSession = "default_session"
  Initial = 5
  OtherValue = 7
  Null = Null
  NoPath = NoPath
PROPERTY
  PatchAsCommanded
