SPECIFICATION Spec
CONSTANTS
  Grain = 2
  NumPages = 6
  Space = 7
  Translated <- MCTranslated
  PciPages <- MCPciPages
  CacheMode <- MCCacheMode
  InitMaps <- MCInitMaps
  DEntries = 5
  IEntries = 4
  Instructions <- MCInstructions
  Ranges <- MCRanges
  MaxCalls = 3
INVARIANTS LockedStays OneLockEach DriverUncached
PROPERTIES InstructionEnds CallReturns
