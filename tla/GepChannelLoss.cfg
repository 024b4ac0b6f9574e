SPECIFICATION Spec
CONSTANTS
  Magic <- MsgMagic
  MaxMsgLen = 16
  Client = Client
  Server = Server
  c1 = c1
  c2 = c2
  s1 = s1
  Free = Free
  Apps <- LossApps
  AppEnd <- LossEnd
  Messages <- AllMessages
  Outbox <- LossOut
  Serializable <- Serializables
  Parseable <- BinaryMode
  Ops <- Handled
  Stoppable = {}
  Cap = 12
  Chunks = {5, 1}
  MaxConns = 1
INVARIANT LossIsReported
