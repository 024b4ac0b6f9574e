SPECIFICATION Spec
CONSTANTS
  MaxChannels = 2
  Fds = {3, 4, 5, 6}
  Backlog = 2
  c1 = c1
  c2 = c2
  c3 = c3
  s1 = s1
  Conns = {c1, c2, c3}
  Input <- CrowdInput
  Endless = {}
  Window = 1
  Senders = {s1}
  Service = Service
  Ids = {0, 1, 2}
  MaxSends = 1
  MaxStarts = 2
  Interruptible = TRUE
  SelectMayFail = TRUE
  AppLocks = FALSE
  Unused = Unused
  Listening = Listening
  Free = Free
  Nobody = Nobody
  All = All
INVARIANTS TypeOK ChannelsAreReal DescriptorsAccounted Announced
PROPERTIES ClientRegistrySpec BroadcastIsExact
SYMMETRY SilentClients
