CONSTANTS
  interrupt_period = 2
  Tstates    = {1}
  IntTstates = {1}
  Deltas     = {15}
  Hertz      = 0
  Code       = {0, 56}
  Vector     = {56}
  Data       = {56}
  PortVals   = {}
  BpAddr     = {56}
  Lines      <- MCLines
SPECIFICATION MCSpec
INVARIANT PromptObeys
INVARIANT BreakIsPrompt
INVARIANT StepIsOne
PROPERTY PcBreakpointCaught
PROPERTY SlicesEnd
PROPERTY BreakHeeded
PROPERTY QuitHeeded
