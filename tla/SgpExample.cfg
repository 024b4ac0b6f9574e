SPECIFICATION FairSpec
CONSTANTS
  Client = Client
  Server = Server
  fifo1 = fifo1
  Fifos = {fifo1}
  NoFifo = NoFifo
  Junk = Junk
  Port = Port
  OtherPort = OtherPort
  Killed = Killed
  None = None
  CommandLines <- MCCommandLines
INVARIANTS TypeOK ResultsExact NothingExtra SendsToSomebody FirstTrySucceeds
PROPERTY BothFinish
CHECK_DEADLOCK FALSE
