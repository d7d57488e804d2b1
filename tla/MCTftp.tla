------------------------------- MODULE MCTftp -------------------------------
(* Tftp with short files: two files that end in an empty block and in a    *)
(* block of one character.                                                 *)
EXTENDS Tftp, TLC

CONSTANTS f0, f1
Ends == (f0 :> 0) @@ (f1 :> 1)
One == f1 :> 1
=============================================================================
