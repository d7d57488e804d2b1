------------------------------- MODULE MCPci --------------------------------
(* Pci with three buses: a card with registers of every kind and a second    *)
(* with two functions; a bridge, a card that shows copies of itself, and     *)
(* sizes that grow; one card alone.                                          *)
EXTENDS Pci, TLC

R(space, size) == [space |-> space, size |-> size]
Plain(requests) == [kind |-> "card", multi |-> FALSE, ghost |-> FALSE, driven |-> FALSE,
                   requests |-> requests]
Driven1(requests) == [Plain(requests) EXCEPT !.driven = TRUE]

TwoCards ==
     (80 :> Driven1(<<R("mem", 4), R("io", 2), R("mem", 0), R("mem", 2), R("rom", 1)>>))
  @@ (88 :> [Driven1(<<R("mem", 1), R("io", 1)>>) EXCEPT !.multi = TRUE])
  @@ (90 :> Plain(<<R("io", 1), R("rom", 1)>>))

Copies ==
     (80 :> [Plain(<<>>) EXCEPT !.kind = "bridge"])
  @@ (96 :> Driven1(<<R("mem", 1), R("mem", 4), R("mem", 1)>>))
  @@ (97 :> [Plain(<<R("mem", 1)>>) EXCEPT !.ghost = TRUE])
  @@ (240 :> Driven1(<<R("io", 1), R("io", 4), R("io", 2)>>))

OneCard == 80 :> Driven1(<<R("mem", 2)>>)

SomeBuses == <<TwoCards, Copies, OneCard>>
TheirBoards == <<"FIREBEE", "LITE", "LITE">>

(* What the theorems about the scan assume holds of the instance. *)
ASSUME GhostsUnannounced /\ PowersOfTwo
=============================================================================
