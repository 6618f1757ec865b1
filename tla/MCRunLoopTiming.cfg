CONSTANTS
  interrupt_period = 5
  Tstates    = {2, 3}
  IntTstates = {2}
  Deltas     = {8, 16}
  Hertz      = 1
  Code       = {0, 56}
  Vector     = {56}
  Data       = {49152}
  PortVals   <- MCPortVals
  BpAddr     = {}
SPECIFICATION SSpec
INVARIANT TypeOK
INVARIANT TimerInPhase
INVARIANT EveryPeriodOffered
INVARIANT TailIsBounded
INVARIANT PacedByClock
INVARIANT StaleFrameOnce
PROPERTY RaisedWhenTaken
