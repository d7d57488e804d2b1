SPECIFICATION FairSpec
CONSTANTS
  Sectors = 6
  Chunk = 2
  Half = 5
  Byte = 5
  Scale = 2
  Requests <- Any
  Kinds <- AllKinds
  Slow <- SlowV2
  MaxReqs = 2
  MaxFaults = 3
INVARIANTS ReadWhole ChunksWhole
PROPERTIES Bystanders RequestEnds
CHECK_DEADLOCK FALSE
