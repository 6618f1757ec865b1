CONSTANTS
  ReadAddr  <- MCReadAddr
  WriteAddr <- MCWriteAddr
  Val       <- MCVal
  Blank     = 0
SPECIFICATION HSpec
INVARIANT TypeOK
INVARIANT SequenceTracked
PROPERTY KeepsPromise
