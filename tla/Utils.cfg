SPECIFICATION Spec
CONSTANTS
  MaxSize = 32
  Sizes = {1,2,3,4,5,6,7,8,9,10,11,12,13,14,15,16,17,18,19,20,21,22,23,24,25,26,27,28,29,30}
  MaxData = 4
  NUL = NUL
  Untouched = Untouched
INVARIANTS TypeOK WritesStay PrintsWhatFits DateIsPrefix
CHECK_DEADLOCK FALSE
