--------------------------- MODULE MCDmaChannels ----------------------------
(* Model values for DmaChannels. *)
EXTENDS DmaChannels

(* Requestors that compete for slots but never for all of one's choices; on *)
(* two channels each of them can be refused one.                             *)
Few == {"FEC1_TX", "DREQ1", "CTM5"}
Fec == {"FEC1_TX"}
=============================================================================
