---------------------------- MODULE MCFecDriver ----------------------------
(* FecDriver with small rings and the frames a run lets arrive.            *)
EXTENDS FecDriver, TLC

AnyFrame == {"error", "discard", "reply", "reack", "keep", "forget", "stray"}
NoAnswer == {"error", "discard", "keep"}
BufferSymmetry == Permutations(Nbuf)
=============================================================================
