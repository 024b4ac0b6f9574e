SPECIFICATION Spec
CONSTANTS
  Magic <- MsgMagic
  MaxMsgLen = 16
  Client = Client
  Server = Server
  c1 = c1
  c2 = c2
  s1 = s1
  Free = Free
  Apps <- DuplexApps
  AppEnd <- DuplexEnd
  Messages <- AllMessages
  Outbox <- DuplexOut
  Serializable <- Serializables
  Parseable <- BinaryMode
  Ops <- Handled
  Stoppable = {Client, Server}
  Cap = 13
  Chunks = {5}
  MaxConns = 2
INVARIANTS TypeOK LockInv StreamInSync BufferHasRoom
PROPERTY ZeroOrOneSpec
