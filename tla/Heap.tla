-------------------------------- MODULE Heap --------------------------------
(* What sys/driver_mem.c promises its callers, without a word on how: a pool *)
(* of memory from which disjoint blocks are taken and to which they are      *)
(* given back. Lengths and addresses count grains of 16 bytes, the unit to   *)
(* which ffit() rounds.                                                      *)
EXTENDS Integers, FiniteSets

CONSTANTS
  Pool,     \* grains in the pool
  Parts,    \* parts, taken or free, that the bookkeeping can tell apart
  Amounts   \* the lengths callers ask for

VARIABLES
  live,     \* the blocks that callers hold
  ret       \* the last call and what it returned

heapVars == <<live, ret>>

Null == -1
None == <<"none">>
Block == [start : 0..(Pool - 1), len : 1..Pool]
Grains(b) == b.start..(b.start + b.len - 1)

Unused == (0..(Pool - 1)) \ UNION {Grains(b) : b \in live}
Gaps == {g \in Unused : g - 1 \notin Unused}
Room(a, n) == a..(a + n - 1) \subseteq Unused

HeapInit == live = {} /\ ret = None

(* A block is granted wherever there is room for it. *)
Grant(n) ==
  \E a \in Unused :
    /\ Room(a, n)
    /\ live' = live \cup {[start |-> a, len |-> n]}
    /\ ret' = <<"alloc", n, a>>

(* A request is refused only without room, or when no part can be added. *)
Refuse(n) ==
  /\ \/ \A a \in Unused : ~Room(a, n)
     \/ Cardinality(live) + Cardinality(Gaps) >= Parts
  /\ ret' = <<"alloc", n, Null>>
  /\ UNCHANGED live

Return(b) == live' = live \ {b} /\ ret' = <<"free", 0>>

(* An address at which no block starts is rejected. *)
Reject(a) ==
  /\ \A b \in live : b.start # a
  /\ ret' = <<"free", Null>>
  /\ UNCHANGED live

(* The length that is reported can be granted now. *)
Report ==
  \E n \in 0..Pool :
    /\ n = 0 \/ \E a \in Unused : Room(a, n)
    /\ ret' = <<"max", n>>
    /\ UNCHANGED live

HeapNext ==
  \/ \E n \in Amounts : Grant(n) \/ Refuse(n)
  \/ \E b \in live : Return(b)
  \/ \E a \in 0..(Pool - 1) : Reject(a)
  \/ Report

HeapSpec == HeapInit /\ [][HeapNext]_heapVars

RetOK ==
  ret \in {None} \cup ({"alloc"} \X Amounts \X (Null..(Pool - 1)))
         \cup ({"free"} \X {Null, 0}) \cup ({"max"} \X (0..Pool))

HeapTypeOK ==
  /\ live \subseteq Block
  /\ RetOK

(* Two callers of driver_mem_alloc never hold the same byte, and nobody holds *)
(* a byte outside of driver_mem_buffer.                                       *)
Separate ==
  /\ \A b \in live : Grains(b) \subseteq 0..(Pool - 1)
  /\ \A b, c \in live : b # c => Grains(b) \cap Grains(c) = {}
=============================================================================
