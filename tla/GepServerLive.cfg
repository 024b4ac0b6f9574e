SPECIFICATION FairSpec
CONSTANTS
  MaxChannels = 2
  Fds = {3, 4, 5}
  Backlog = 2
  c1 = c1
  c2 = c2
  c3 = c3
  s1 = s1
  Conns = {c1, c2}
  Input <- BusyInput
  Endless = {c1}
  Window = 1
  Senders = {s1}
  Service = Service
  Ids = {0, 1}
  MaxSends = 1
  MaxStarts = 1
  Interruptible = FALSE
  SelectMayFail = FALSE
  AppLocks = TRUE
  Unused = Unused
  Listening = Listening
  Free = Free
  Nobody = Nobody
  All = All
PROPERTIES StopReturns SendsReturn PendingIsAccepted InputIsRead
