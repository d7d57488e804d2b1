SPECIFICATION Spec
CONSTANTS
  Top = 1
  Byte = {0, 1}
  Files <- MCFiles
  CutRecords <- MCCutRecords
  MaxFaults = 2
  MaxLoads = 1
INVARIANTS VerifiedHolds OneFaultComplete DamageStops
PROPERTIES GoodStarts
CHECK_DEADLOCK FALSE
