CONSTANTS
  Size   = 2
  LongestFile = 3
  Block  <- MCBlock
  Zeros  <- MCZeros
  Serial = serial
  Erased <- MCErased
  MaxSessions = 3
  zeros  = zeros
  serial = serial
  erased = erased
SPECIFICATION HSpec
INVARIANT SavedIsReloaded
INVARIANT FileUntouched
INVARIANT ProtectedUntilUnlocked
