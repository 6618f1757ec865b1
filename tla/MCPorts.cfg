CONSTANTS
  Port <- MCPort
  Val  <- MCVal
  Times <- MCTimes
SPECIFICATION PSpec
INVARIANT PendingIsEnabled
INVARIANT Misc9IsShared
INVARIANT ReadsBack
INVARIANT DigitsSpellTime
