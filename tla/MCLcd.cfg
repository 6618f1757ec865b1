CONSTANTS
  Offset <- MCOffset
  Byte   <- MCByte
  Column = {0, 19, 20}
SPECIFICATION Spec
INVARIANTS OnlyStraysOverrun Coherent
CHECK_DEADLOCK FALSE
PROPERTY ImplementsPanel
