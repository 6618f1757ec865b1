CONSTANTS
  Port <- MCPort
  Val <- MCVal
  Times <- MCTimes
  interrupt_period = 2
  Tstates = {2}
  IntTstates = {2}
  Deltas = {16}
  Hertz = 0
  Code = {0}
  Vector = {0}
  Data = {49152}
  BpAddr = {}
  Key <- MCKey
  LUT <- MCLUT
  MaxQueue = 2
SPECIFICATION MCSpec
INVARIANT ButtonIsSeen
INVARIANT KeysAreSeen
PROPERTY LoopIsRunLoop
PROPERTY RegistersArePorts
PROPERTY KeysAreKeyboard
PROPERTY EscapeIsHeard
