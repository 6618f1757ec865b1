CONSTANTS
  Size   = 3
  Byte   = {0, 1, 2}
  Images <- MCImages
SPECIFICATION RSpec
INVARIANT SameEveryTime
INVARIANT KeptAcrossReset
