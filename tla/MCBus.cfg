CONSTANTS
  Code     <- MCCode
  Loads    <- MCLoads
  Stores   <- MCStores
  Val      <- MCVal
  Settings <- MCSettings
  Filler   <- MCFiller
  Probes   <- MCProbes
  Stacks   <- MCStacks
SPECIFICATION HSpec
INVARIANT WindowsAgree
INVARIANT GuardHeard
PROPERTY ChipIsDataflash
