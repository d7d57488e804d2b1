------------------------------ MODULE MCSRecord -----------------------------
(* Model values for SRecord: two bytes of memory, and all files of at most   *)
(* four records made of a few good and damaged ones.                         *)
EXTENDS SRecord

Rec(kind, sound, addr, data) == [kind |-> kind, sound |-> sound, addr |-> addr, data |-> data]

Pool ==
  {Rec("header", TRUE, 0, <<>>), Rec("header", FALSE, 0, <<>>),
   Rec("data", TRUE, 0, <<1, 1>>), Rec("data", TRUE, 1, <<0>>),
   Rec("data", FALSE, 0, <<0>>), Rec("data", TRUE, 0, <<>>),
   Rec("end", TRUE, 1, <<>>), Rec("end", TRUE, 0, <<>>), Rec("end", FALSE, 0, <<>>), Rec("other", FALSE, 0, <<>>)}

MCFiles == UNION {[1..n -> Pool] : n \in 0..2}
             \cup {<<Rec("header", TRUE, 0, <<>>)>> \o f : f \in [1..3 -> Pool]}
MCCutRecords ==
  {Rec("header", FALSE, 0, <<>>), Rec("data", FALSE, 1, <<1>>), Rec("end", FALSE, 0, <<>>)}
=============================================================================
