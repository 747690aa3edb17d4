SPECIFICATION DeliverySpec
CONSTANTS
  Nodes = {1, 10}
  Sends = {"k1", "k2", "r1", "bad"}
  Addressee <- MCAddressee
  Prefix <- MCPrefix
  GivenKey <- MCGivenKey
  Plain = {}
  Malformed = {"bad"}
  MaxPending = 1
  SendLimit = 2
  ReceiveLimit = 2
  NoKey = "none"
  NoMessage = "no_message"
INVARIANTS
  DeliveryTypeOK
  AppliedOnce
  HandledInOrder
PROPERTIES
  ImplementsCommandLog
  Delivered
