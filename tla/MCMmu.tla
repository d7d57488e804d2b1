------------------------------- MODULE MCMmu --------------------------------
(* Model values for Mmu. Page 0 is plain memory, 1 the I/O area, 2 the       *)
(* driver buffers, 3 has no translation, 4 and 5 are plain memory again; the *)
(* PCI window is page 6. No range starts on page 0: the loop of a lock call  *)
(* there ends only when the range ends on a page boundary. The first range   *)
(* is of two pages. The second instruction has its extension words on another *)
(* page than its opword.                                                     *)
EXTENDS Mmu

MCTranslated == {0, 1, 2, 4, 5}
MCPciPages == {6}
MCCacheMode == [p \in 0..5 |-> IF p = 1 THEN "nocache" ELSE "cached"]
MCInitMaps == <<<<1, "nocache">>, <<2, "nocache">>>>

I(pc, ext, data) == [pc |-> pc, ext |-> ext, data |-> data]
MCInstructions ==
  {I(0, 0, <<4, 5>>), I(5, 0, <<2, 6, 3>>), I(3, 3, <<>>)}
MCRanges == {<<8, 3>>, <<11, 1>>, <<6, 1>>}
=============================================================================
