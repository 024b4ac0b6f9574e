SPECIFICATION FairSpec
CONSTANTS
  s1 = s1
  Senders = {s1}
  Service = Service
  Free = Free
  Interruptible = TRUE
  MaxStarts = 2
  MaxSends = 1
  MaxMsgs = 2
  MaxFaults = 3
INVARIANTS TypeOK CopyIsCurrent NoSocketLost CountIsExact
PROPERTIES StopReturns SendsReturn Reconnects
CHECK_DEADLOCK FALSE
