CONSTANTS
  Key <- MCKey
  LUT <- MCLUT
  KbAddr <- MCKbAddr
  MaxQueue = 2
SPECIFICATION SSpec
INVARIANT HighUnlessPressed
