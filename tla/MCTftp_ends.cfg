CONSTANTS
  f0 = f0
  f1 = f1
  Files = {f1}
  NBLK = 2
  TFTP_PKTSIZE = 2
  LastSize <- One
  Tids = {1}
  Dirs = {"read", "write"}
  MaxTransfers = 1
  TRIES = 2
  FusedRemove = FALSE
SPECIFICATION FairSpec
PROPERTIES TransferEnds
CHECK_DEADLOCK FALSE
