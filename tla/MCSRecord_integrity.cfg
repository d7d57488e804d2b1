SPECIFICATION Spec
CONSTANTS
  Top = 1
  Byte = {0, 1}
  Files <- MCFiles
  CutRecords <- MCCutRecords
  MaxFaults = 2
  MaxLoads = 1
INVARIANT IntegrityChecked
CHECK_DEADLOCK FALSE
