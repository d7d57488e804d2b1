SPECIFICATION Spec
CONSTANTS
  Pool = 6
  MaxMD = 5
  Amounts <- MCAmounts
  MaxUse = 2
INVARIANTS ListsRight
PROPERTIES Refines
