SPECIFICATION FairSpec
CONSTANTS
  Size = 3
  Timeout = 2
  TicksPerMs = 3
  MaxNow = 15
INVARIANTS TypeOK ResultIsExact TimeoutHasCause NotEarly OneLateSend
PROPERTY Returns
