----------------------------- MODULE DriverMem ------------------------------
(* sys/driver_mem.c: the next-fit allocator behind all buffers that devices  *)
(* share with the drivers. A memory descriptor (MD) stands for a part of the *)
(* pool; MDs of free parts are linked by address (mp_mfl), MDs of taken      *)
(* parts in mp_mal. driver_mem_alloc and driver_mem_free run at interrupt    *)
(* level 7, so each call is one action.                                      *)
(*                                                                           *)
(* mp_mfl is the sequence mfl. mp_mal is a set: it is searched by address    *)
(* only, and no two taken parts start at the same one (Refines). A MD that   *)
(* nobody owns keeps stale fields that no code reads; here they are reset.   *)
EXTENDS Integers, Sequences, FiniteSets

CONSTANTS
  Pool,      \* DRIVER_MEM_BUFFER_SIZE, in grains of 16 bytes
  MaxMD,     \* MAXMD
  Amounts,   \* requests, rounded up to grains as driver_mem_alloc and ffit do
  MaxUse     \* bound on use_count

ASSUME DriverMemAssumption ==
  /\ Pool \in Nat \ {0}
  /\ MaxMD \in Nat \ {0}
  /\ Amounts \subseteq 1..Pool
  /\ MaxUse \in Nat \ {0}

VARIABLES
  md,         \* tab_md: start and length of each part, and whether m_own is set
  mfl,        \* mp_mfl, by address
  mal,        \* mp_mal
  rover,      \* mp_rover: the free MD after which the next search starts
  use_count,
  ret         \* the last call and what it returned

vars == <<md, mfl, mal, rover, use_count, ret>>

MDs == 0..(MaxMD - 1)
NoMD == -1
Null == -1
None == <<"none">>
Unowned == [start |-> 0, len |-> 0, own |-> FALSE]

(* driver_mem_init, as initialize_hardware calls it first. *)
Init ==
  /\ md = [i \in MDs |-> IF i = 0 THEN [start |-> 0, len |-> Pool, own |-> TRUE]
                                  ELSE Unowned]
  /\ mfl = <<0>>
  /\ mal = {}
  /\ rover = 0
  /\ use_count = 1
  /\ ret = None

Spare == {i \in MDs : ~md[i].own}
xmgetblk == CHOOSE i \in Spare : \A j \in Spare : i <= j

(* Mutant: the MD of a joined part is not given back. *)
KeepOwned(t, i) == t

(* xmfreblk never gives back the MD at index 0. *)
xmfreblk(t, i) == IF i > 0 THEN [t EXCEPT ![i] = Unowned] ELSE t

Resized(t, i, n) == [t EXCEPT ![i] = [t[i] EXCEPT !.len = n]]

Index(i) == CHOOSE k \in 1..Len(mfl) : mfl[k] = i
Without(s, k) == SubSeq(s, 1, k - 1) \o SubSeq(s, k + 1, Len(s))

(* The k-th part that ffit looks at: it starts behind the rover and wraps. *)
Visit(k) == ((Index(rover) + k - 1) % Len(mfl)) + 1
Steps(n) == {k \in 1..Len(mfl) : md[mfl[Visit(k)]].len >= n}
Place(n) == Visit(CHOOSE k \in Steps(n) : \A j \in Steps(n) : k <= j)

(* The rover stays on the predecessor q of the part that was taken, or goes *)
(* to the head of the list when there was none.                             *)
RoverAt(k, l) ==
  rover' = IF k > 1 THEN mfl[k - 1] ELSE IF l = <<>> THEN NoMD ELSE Head(l)

Grant(p, n) ==
  /\ mal' = mal \cup {p}
  /\ ret' = <<"alloc", n, md[p].start>>

TakeWhole(k, n) ==
  /\ mfl' = Without(mfl, k)
  /\ RoverAt(k, mfl')
  /\ Grant(mfl[k], n)
  /\ UNCHANGED md

(* The remainder gets a MD of its own, in the place of the part. *)
Split(k, n) ==
  LET p == mfl[k]
      p1 == xmgetblk
  IN  /\ md' = [Resized(md, p, n) EXCEPT
                    ![p1] = [start |-> md[p].start + n, len |-> md[p].len - n, own |-> TRUE]]
      /\ mfl' = [mfl EXCEPT ![k] = p1]
      /\ RoverAt(k, mfl')
      /\ Grant(p, n)

Refuse(n) == ret' = <<"alloc", n, Null>> /\ UNCHANGED <<md, mfl, mal, rover>>

driver_mem_alloc(n) ==
  /\ UNCHANGED use_count
  /\ IF rover = NoMD \/ Steps(n) = {} THEN Refuse(n)
     ELSE IF md[mfl[Place(n)]].len = n THEN TakeWhole(Place(n), n)
     ELSE IF Spare = {} THEN Refuse(n)
     ELSE Split(Place(n), n)

(* driver_mem_alloc(-1): the longest part, less the room lost by rounding *)
(* ((maxval - 15) & ~15).                                                 *)
driver_mem_max ==
  LET lens == {md[mfl[k]].len : k \in 1..Len(mfl)}
  IN  /\ ret' = <<"max", IF rover = NoMD THEN 0
                        ELSE (CHOOSE l \in lens : \A x \in lens : x <= l) - 1>>
      /\ UNCHANGED <<md, mfl, mal, rover, use_count>>

(* freeit: m goes in front of the first free part that does not start below *)
(* it, then is joined to its neighbours. Each join keeps the lower MD.      *)
Slot(m) ==
  LET above == {k \in 1..Len(mfl) : md[m].start <= md[mfl[k]].start}
  IN  IF above = {} THEN Len(mfl) + 1 ELSE CHOOSE k \in above : \A j \in above : k <= j

Touches(h, k) ==
  /\ k \in 1..(Len(h.list) - 1)
  /\ h.md[h.list[k]].start + h.md[h.list[k]].len = h.md[h.list[k + 1]].start

(* Mutant: the first free part is never joined. *)
JoinHigher(h, k) ==
  LET low == h.list[k]
      high == h.list[k + 1]
  IN  IF ~Touches(h, k) \/ k = 1 THEN h
      ELSE [md    |-> xmfreblk(Resized(h.md, low, h.md[low].len + h.md[high].len), high),
            list  |-> Without(h.list, k + 1),
            rover |-> IF h.rover = high THEN low ELSE h.rover]

Join(h, k) ==
  LET low == h.list[k]
      high == h.list[k + 1]
  IN  IF ~Touches(h, k) THEN h
      ELSE [md    |-> xmfreblk(Resized(h.md, low, h.md[low].len + h.md[high].len), high),
            list  |-> Without(h.list, k + 1),
            rover |-> IF h.rover = high THEN low ELSE h.rover]

freeit(m) ==
  LET k == Slot(m)
      linked == [md    |-> md,
                 list  |-> SubSeq(mfl, 1, k - 1) \o <<m>> \o SubSeq(mfl, k, Len(mfl)),
                 rover |-> IF rover = NoMD THEN m ELSE rover]
      h == Join(Join(linked, k), k - 1)
  IN  md' = h.md /\ mfl' = h.list /\ rover' = h.rover

driver_mem_free(a) ==
  LET found == {p \in mal : md[p].start = a}
  IN  /\ UNCHANGED use_count
      /\ \/ /\ found = {}
            /\ ret' = <<"free", Null>>
            /\ UNCHANGED <<md, mfl, mal, rover>>
         \/ \E p \in found :
              /\ freeit(p)
              /\ mal' = mal \ {p}
              /\ ret' = <<"free", 0>>

(* Later calls of driver_mem_init and driver_mem_release only count: the use *)
(* of initialize_hardware is never released, so use_count stays above 0.     *)
driver_mem_init ==
  /\ use_count < MaxUse
  /\ use_count' = use_count + 1
  /\ UNCHANGED <<md, mfl, mal, rover, ret>>

driver_mem_release ==
  /\ use_count > 1
  /\ use_count' = use_count - 1
  /\ UNCHANGED <<md, mfl, mal, rover, ret>>

Next ==
  \/ \E n \in Amounts : driver_mem_alloc(n)
  \/ driver_mem_max
  \/ \E a \in 0..(Pool - 1) : driver_mem_free(a)
  \/ driver_mem_init
  \/ driver_mem_release

Spec == Init /\ [][Next]_vars

-----------------------------------------------------------------------------
(* The heap that the callers see. *)
Heap == INSTANCE Heap WITH
          Parts <- MaxMD,
          live <- {[start |-> md[i].start, len |-> md[i].len] : i \in mal}

Listed == {mfl[k] : k \in 1..Len(mfl)}

TypeOK ==
  /\ md \in [MDs -> [start : 0..Pool, len : 0..Pool, own : BOOLEAN]]
  /\ mfl \in Seq(MDs)
  /\ mal \subseteq MDs
  /\ rover \in MDs \cup {NoMD}
  /\ use_count \in 1..MaxUse
  /\ Heap!RetOK

(* After any number of splits and joins the MDs are well formed, the search  *)
(* of ffit ends, because it comes back to a rover that is on the free list   *)
(* (there is none without a free part), and no MD is lost: one is owned      *)
(* exactly while it is on one of the two lists. In particular the MD at      *)
(* index 0, which xmfreblk would leak, always describes the lowest part of   *)
(* the pool and is never the upper side of a join.                           *)
ListsRight ==
  /\ TypeOK
  /\ IF mfl = <<>> THEN rover = NoMD ELSE rover \in Listed
  /\ \A i \in MDs : md[i].own <=> i \in Listed \cup mal
  /\ Listed \cap mal = {}

(* Callers see a heap: disjoint blocks inside the pool, a request refused    *)
(* only when no gap is long enough or the MDs are used up, and freed         *)
(* neighbours merged into one gap.                                           *)
Refines == Heap!HeapSpec

=============================================================================
