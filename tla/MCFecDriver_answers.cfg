CONSTANTS
  Nbuf = {b1, b2, b3}
  NULL = NULL
  NRXBD = 1
  NTXBD = 3
  FrameKinds <- AnyFrame
SPECIFICATION Spec
SYMMETRY BufferSymmetry
INVARIANTS  TxQueueCovers
CHECK_DEADLOCK FALSE
