SPECIFICATION Spec
CONSTANTS
  Reqs <- Few
  NCHANNELS = 2
  Careless <- Fec
  Copies = TRUE
INVARIANTS OwnTask OwnTrigger PausedFrozen
