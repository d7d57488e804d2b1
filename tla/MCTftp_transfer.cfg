CONSTANTS
  f0 = f0
  f1 = f1
  Files = {f0, f1}
  NBLK = 2
  TFTP_PKTSIZE = 2
  LastSize <- Ends
  Tids = {1, 2}
  Dirs = {"read", "write"}
  MaxTransfers = 1
  TRIES = 2
  FusedRemove = TRUE
SPECIFICATION TftpSpec
INVARIANTS InOrder CompletedWhole AckedAreReceived UploadStored
CHECK_DEADLOCK FALSE
