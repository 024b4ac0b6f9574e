SPECIFICATION FairSpec
CONSTANTS
  Magic <- MsgMagic
  MaxMsgLen = 26
  Client = Client
  Server = Server
  c1 = c1
  c2 = c2
  s1 = s1
  Free = Free
  Apps <- CrossApps
  AppEnd <- CrossEnd
  Messages <- CrossMessages
  Outbox <- CrossOut
  Serializable <- CrossMessages
  Parseable <- TextMode
  Ops <- Handled
  Stoppable = {}
  Cap = 13
  Chunks = {5}
  MaxConns = 2
PROPERTIES SendReturns InFlightSettles
