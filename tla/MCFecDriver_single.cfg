CONSTANTS
  Nbuf = {b1, b2, b3}
  NULL = NULL
  NRXBD = 2
  NTXBD = 2
  FrameKinds <- NoAnswer
SPECIFICATION FairSpec
INVARIANTS RxRingAligned RxFifo TxFifo
PROPERTIES RxServed TxServed
