----------------------------- MODULE Mmu_proofs -----------------------------
(* Proofs about Mmu, for TLBs of any size, any instructions and any calls of *)
(* drivers: how many locked entries there can be, and, as long as no entry   *)
(* is needed when all are locked, that locked pages stay and that the driver *)
(* buffers stay uncached.                                                    *)
EXTENDS Mmu, FiniteSetTheorems, SequenceTheorems, WellFoundedInduction, TLAPS

\* t has entries of s only, and each at most once.
ComesFrom(t, s) ==
  \E h \in [DOMAIN t -> DOMAIN s] :
    /\ \A i, j \in DOMAIN t : i # j => h[i] # h[j]
    /\ \A i \in DOMAIN t : t[i] = s[h[i]]

\* Each locked entry of s is in t.
KeepsLocked(t, s) == \A i \in DOMAIN s : s[i].lk => \E j \in DOMAIN t : t[j] = s[i]

LockedIn(tlb) == {i \in DOMAIN tlb : tlb[i].lk}
InitPages == {InitMaps[m][1] : m \in DOMAIN InitMaps}

\* The locked entries of a TLB are those of the pages os and ls, one for each
\* page, and two only for a page that is in both.
LocksOf(tlb, os, ls) ==
  /\ \A i \in LockedIn(tlb) : tlb[i].page \in os \cup ls
  /\ \A i, j \in LockedIn(tlb) :
       i # j /\ tlb[i].page = tlb[j].page => tlb[i].page \in os \cap ls
  /\ \A i, j, k \in LockedIn(tlb) :
       tlb[i].page = tlb[j].page /\ tlb[j].page = tlb[k].page => i = j \/ j = k \/ i = k

\* What the calls of drivers are about.
CallRight ==
  /\ locked \subseteq {PageOf(r[1]) : r \in Ranges}
  /\ call.op \in {"lock", "map"} =>
       /\ call.index \in {PageOf(r[1]) : r \in Ranges} \cap asked
       /\ call.index \notin locked => PageOf(call.virt) = call.index
  /\ call.op = "map" => call.index \in locked /\ PageOf(call.virt) = call.index
  /\ call.op = "unlock" => PageOf(call.virt) \in asked \ held
  /\ regs # NoRegs => call.op = "unlock"

\* The pages that lock calls have mapped, and those that have locked entries
\* from elsewhere.
Mapped == (locked \ Pending) \cap Translated
Others == InitPages \cup doubled

LocksRight == LocksOf(dtlb, Others, Mapped)

IInv == TypeOK /\ CallRight /\ LocksRight

\* The pages that mmu_init maps in another mode than their descriptor has, and
\* that no driver has named.
Special(m) ==
  InitMaps[m][1] \notin asked /\ CacheMode[InitMaps[m][1]] # InitMaps[m][2]

\* The registers of an unlock call are not those of a page that must stay.
RegsApart ==
  /\ regs.ar \notin held \ exposed
  /\ \A e \in regs.hit : e.page \notin held \ exposed
  /\ \A m \in DOMAIN InitMaps :
       /\ Special(m) => regs.ar # InitMaps[m][1]
       /\ \A e \in regs.hit :
            e.page = InitMaps[m][1] /\ e.page \notin asked => ~Special(m) /\ e.mode = InitMaps[m][2]

SpecialStay ==
  \A m \in DOMAIN InitMaps :
    Special(m) => \E i \in DOMAIN dtlb : dtlb[i].page = InitMaps[m][1] /\ dtlb[i].lk

\* LockedStays and DriverUncached, as long as some entry was always left.
HeldStay == \A p \in held \ exposed : \E i \in DOMAIN dtlb : dtlb[i].page = p /\ dtlb[i].lk
ModesStay ==
  \A m \in DOMAIN InitMaps :
    InitMaps[m][1] \notin asked =>
      \A i \in DOMAIN dtlb : dtlb[i].page = InitMaps[m][1] => dtlb[i].mode = InitMaps[m][2]

\* What a step must keep beside IInv, when it needs no entry that is locked.
StaysRight == RegsApart /\ HeldStay /\ ModesStay /\ SpecialStay

StayInv == IInv /\ StaysRight

-----------------------------------------------------------------------------
(* What happens to a TLB *)

(* A sequence of entries is a function on the first numbers. *)
LEMMA TlbIs ==
  ASSUME NEW tlb \in Seq(Entry)
  PROVE  Len(tlb) \in Nat /\ DOMAIN tlb = 1..Len(tlb) /\ \A i \in DOMAIN tlb : tlb[i] \in Entry
  BY ElementOfSeq

(* Touch puts the entries in another order. *)
LEMMA TouchOrders ==
  ASSUME NEW tlb \in Seq(Entry), NEW ps
  PROVE  /\ Touch(tlb, ps) \in Seq(Entry) /\ Len(Touch(tlb, ps)) = Len(tlb)
         /\ ComesFrom(Touch(tlb, ps), tlb)
         /\ KeepsLocked(Touch(tlb, ps), tlb)
         /\ \A i \in DOMAIN tlb : \E j \in DOMAIN Touch(tlb, ps) : Touch(tlb, ps)[j] = tlb[i]
<1> DEFINE n == Len(tlb)
           D == DOMAIN tlb
           hit == {i \in DOMAIN tlb : \E k \in DOMAIN ps : ps[k] = tlb[i].page}
           older(i) == IF i \in hit THEN {j \in DOMAIN tlb : j \in hit => j < i}
                       ELSE {j \in 1..(i - 1) : j \notin hit}
           place == [i \in D |-> Cardinality(older(i)) + 1]
           nth == [k \in D |-> CHOOSE i \in D : Cardinality(older(i)) = k - 1]
           t == [k \in D |-> tlb[nth[k]]]
<1>1. n \in Nat /\ D = 1..n /\ \A i \in D : tlb[i] \in Entry
  BY TlbIs
<1>2. Touch(tlb, ps) = t
  BY DEF Touch
<1>3. hit \subseteq D
  OBVIOUS
<1> HIDE DEF hit
<1>4. IsFiniteSet(D) /\ Cardinality(D) = n
  BY <1>1, FS_Interval
<1>5. \A i \in D : older(i) \subseteq D \ {i}
  BY <1>1
<1>6. \A i \in D : IsFiniteSet(older(i)) /\ Cardinality(older(i)) \in 0..(n - 1)
  <2> SUFFICES ASSUME NEW i \in D
               PROVE  IsFiniteSet(older(i)) /\ Cardinality(older(i)) \in 0..(n - 1)
    OBVIOUS
  <2>1. IsFiniteSet(D \ {i}) /\ Cardinality(D \ {i}) = n - 1
    BY <1>4, FS_RemoveElement
  <2>2. older(i) \in SUBSET (D \ {i})
    BY <1>5
  <2> HIDE DEF older
  <2>3. IsFiniteSet(older(i)) /\ Cardinality(older(i)) <= n - 1
    BY <2>1, <2>2, FS_Subset
  <2> QED
    BY <1>1, <2>3, FS_CardinalityType
<1>7. ASSUME NEW i \in D, NEW j \in D, i \in older(j)
      PROVE  Cardinality(older(i)) < Cardinality(older(j))
  <2>1. older(i) \subseteq older(j)
    BY <1>1, <1>3, <1>7
  <2>2. i \notin older(i)
    BY <1>5
  <2> HIDE DEF older
  <2>3. older(i) # older(j)
    BY <1>7, <2>2
  <2>4. older(i) \in SUBSET older(j)
    BY <2>1
  <2>5. /\ Cardinality(older(i)) <= Cardinality(older(j))
        /\ Cardinality(older(j)) = Cardinality(older(i)) => older(j) = older(i)
    BY <1>6, <2>4, FS_Subset
  <2>6. Cardinality(older(i)) \in Int /\ Cardinality(older(j)) \in Int
    BY <1>6
  <2> QED
    BY <2>3, <2>5, <2>6
<1>8. \A i, j \in D : i # j => i \in older(j) \/ j \in older(i)
  BY <1>1
<1>9. place \in Injection(D, D)
  <2>1. \A i \in D : place[i] = Cardinality(older(i)) + 1
    OBVIOUS
  <2> HIDE DEF older
  <2>2. \A i \in D : place[i] \in D
    BY <1>1, <1>6, <2>1
  <2>3. place \in [D -> D]
    BY <2>2
  <2>4. ASSUME NEW i \in D, NEW j \in D, place[i] = place[j] PROVE i = j
    <3>1. Cardinality(older(i)) \in Int /\ Cardinality(older(j)) \in Int
      BY <1>6
    <3>2. Cardinality(older(i)) = Cardinality(older(j))
      BY <2>1, <2>4, <3>1
    <3>3. ~(i \in older(j)) /\ ~(j \in older(i))
      BY <1>7, <3>1, <3>2
    <3> QED
      BY <1>8, <3>3
  <2> QED
    BY <2>3, <2>4 DEF Injection, IsInjective
<1>10. place \in Surjection(D, D)
  BY <1>4, <1>9, FS_Injection
<1>11. \A k \in D : nth[k] \in D /\ Cardinality(older(nth[k])) = k - 1
  <2> SUFFICES ASSUME NEW k \in D
               PROVE  nth[k] \in D /\ Cardinality(older(nth[k])) = k - 1
    OBVIOUS
  <2> HIDE DEF older
  <2>1. PICK i \in D : place[i] = k
    BY <1>10 DEF Surjection
  <2>2. Cardinality(older(i)) = k - 1
    BY <1>1, <1>6, <2>1
  <2>3. nth[k] = CHOOSE x \in D : Cardinality(older(x)) = k - 1
    OBVIOUS
  <2> HIDE DEF nth
  <2> QED
    BY <2>2, <2>3
<1>12. \A i \in D : nth[place[i]] = i
  <2> SUFFICES ASSUME NEW i \in D PROVE nth[place[i]] = i
    OBVIOUS
  <2>1. place[i] \in D
    BY <1>9 DEF Injection
  <2>2. place[i] = Cardinality(older(i)) + 1
    OBVIOUS
  <2> HIDE DEF older, nth
  <2>3. Cardinality(older(i)) = place[i] - 1
    BY <1>6, <2>2
  <2> HIDE DEF place
  <2>4. nth[place[i]] \in D /\ Cardinality(older(nth[place[i]])) = place[i] - 1
    BY <1>11, <2>1
  <2>5. Cardinality(older(i)) \in Int
    BY <1>6
  <2> QED
    BY <1>7, <1>8, <2>3, <2>4, <2>5
<1>13. nth \in [D -> D] /\ \A i, j \in D : i # j => nth[i] # nth[j]
  <2>1. nth \in [D -> D]
    BY <1>11
  <2> HIDE DEF nth, older
  <2>2. ASSUME NEW i \in D, NEW j \in D, nth[i] = nth[j] PROVE i = j
    <3>1. Cardinality(older(nth[i])) = i - 1 /\ Cardinality(older(nth[j])) = j - 1
      BY <1>11
    <3> QED
      BY <1>1, <2>2, <3>1
  <2> QED
    BY <2>1, <2>2
<1>14. place \in [D -> D]
  BY <1>9 DEF Injection
<1> HIDE DEF nth, place
<1>15. t \in [1..n -> Entry] /\ DOMAIN t = D /\ \A k \in D : t[k] = tlb[nth[k]]
  BY <1>1, <1>13
<1> HIDE DEF t
<1>16. t \in Seq(Entry) /\ Len(t) = n
  BY <1>1, <1>15, SeqDef
<1>17. ComesFrom(t, tlb)
  BY <1>13, <1>15 DEF ComesFrom
<1>18. \A i \in D : \E j \in DOMAIN t : t[j] = tlb[i]
  BY <1>12, <1>14, <1>15
<1>19. KeepsLocked(t, tlb)
  BY <1>18 DEF KeepsLocked
<1> QED
  BY <1>2, <1>16, <1>17, <1>18, <1>19

(* RemoveAt leaves out one entry. *)
LEMMA RemoveOne ==
  ASSUME NEW s \in Seq(Entry), NEW k \in DOMAIN s
  PROVE  /\ RemoveAt(s, k) \in Seq(Entry) /\ Len(RemoveAt(s, k)) = Len(s) - 1
         /\ \A j \in 1..(Len(s) - 1) : RemoveAt(s, k)[j] = IF j < k THEN s[j] ELSE s[j + 1]
<1> DEFINE a == SubSeq(s, 1, k - 1)
           b == SubSeq(s, k + 1, Len(s))
<1>1. Len(s) \in Nat /\ k \in 1..Len(s) /\ \A i \in 1..Len(s) : s[i] \in Entry
  BY TlbIs
<1>2. a \in Seq(Entry) /\ Len(a) = k - 1 /\ \A i \in 1..(k - 1) : a[i] = s[i]
  <2>1. \A i \in 1..(k - 1) : s[i] \in Entry
    BY <1>1
  <2> QED
    BY <1>1, <2>1, SubSeqProperties
<1>3. b \in Seq(Entry) /\ Len(b) = Len(s) - k /\ \A i \in 1..(Len(s) - k) : b[i] = s[k + i]
  <2>1. \A i \in (k + 1)..Len(s) : s[i] \in Entry
    BY <1>1
  <2>2. /\ b \in Seq(Entry) /\ Len(b) = IF k + 1 <= Len(s) THEN Len(s) - (k + 1) + 1 ELSE 0
        /\ \A i \in 1..(Len(s) - (k + 1) + 1) : b[i] = s[(k + 1) + i - 1]
    BY <1>1, <2>1, SubSeqProperties
  <2>3. \A i \in 1..(Len(s) - k) : i \in 1..(Len(s) - (k + 1) + 1) /\ (k + 1) + i - 1 = k + i
    BY <1>1
  <2> QED
    BY <1>1, <2>2, <2>3
<1>4. RemoveAt(s, k) = a \o b
  BY DEF RemoveAt
<1> HIDE DEF a, b
<1>5. /\ a \o b \in Seq(Entry) /\ Len(a \o b) = Len(a) + Len(b)
      /\ \A i \in 1..(Len(a) + Len(b)) : (a \o b)[i] = IF i <= Len(a) THEN a[i] ELSE b[i - Len(a)]
  BY <1>2, <1>3, ConcatProperties
<1>6. \A j \in 1..(Len(s) - 1) : (a \o b)[j] = IF j < k THEN s[j] ELSE s[j + 1]
  <2> SUFFICES ASSUME NEW j \in 1..(Len(s) - 1)
               PROVE  (a \o b)[j] = IF j < k THEN s[j] ELSE s[j + 1]
    OBVIOUS
  <2>1. j \in 1..(Len(a) + Len(b))
    BY <1>1, <1>2, <1>3
  <2>2. (a \o b)[j] = IF j <= k - 1 THEN a[j] ELSE b[j - (k - 1)]
    BY <1>2, <1>5, <2>1
  <2>3. CASE j < k
    BY <1>1, <1>2, <2>2, <2>3
  <2>4. CASE j >= k
    <3>1. j - (k - 1) \in 1..(Len(s) - k) /\ k + (j - (k - 1)) = j + 1
      BY <1>1, <2>4
    <3>2. b[j - (k - 1)] = s[j + 1]
      BY <1>3, <3>1
    <3>3. ~(j <= k - 1) /\ ~(j < k)
      BY <1>1, <2>4
    <3> QED
      BY <2>2, <3>2, <3>3
  <2>5. j < k \/ j >= k
    BY <1>1
  <2> QED
    BY <2>3, <2>4, <2>5, Zenon
<1>7. Len(a) + Len(b) = Len(s) - 1
  BY <1>1, <1>2, <1>3
<1> QED
  BY <1>4, <1>5, <1>6, <1>7

(* So the others stay, each once. *)
LEMMA RemoveKeeps ==
  ASSUME NEW s \in Seq(Entry), NEW k \in DOMAIN s
  PROVE  /\ ComesFrom(RemoveAt(s, k), s)
         /\ ~s[k].lk => KeepsLocked(RemoveAt(s, k), s)
<1> DEFINE r == RemoveAt(s, k)
           h == [j \in DOMAIN r |-> IF j < k THEN j ELSE j + 1]
<1>1. Len(s) \in Nat /\ DOMAIN s = 1..Len(s) /\ k \in 1..Len(s)
  BY TlbIs
<1>2. /\ r \in Seq(Entry) /\ Len(r) = Len(s) - 1
      /\ \A j \in 1..(Len(s) - 1) : r[j] = IF j < k THEN s[j] ELSE s[j + 1]
  BY RemoveOne
<1> HIDE DEF r
<1>3. DOMAIN r = 1..(Len(s) - 1)
  BY <1>2, TlbIs
<1>4. h \in [DOMAIN r -> DOMAIN s]
  BY <1>1, <1>3
<1>5. \A i, j \in DOMAIN r : i # j => h[i] # h[j]
  BY <1>1, <1>3
<1>6. \A j \in DOMAIN r : r[j] = s[h[j]]
  BY <1>1, <1>2, <1>3
<1>7. ComesFrom(r, s)
  <2> HIDE DEF h
  <2> QED
    BY <1>4, <1>5, <1>6 DEF ComesFrom
<1>8. ASSUME ~s[k].lk, NEW i \in DOMAIN s, s[i].lk PROVE \E j \in DOMAIN r : r[j] = s[i]
  <2>1. i # k
    BY <1>8
  <2>2. CASE i < k
    <3>1. i \in DOMAIN r /\ r[i] = s[i]
      BY <1>1, <1>2, <1>3, <2>2
    <3> QED
      BY <3>1
  <2>3. CASE i > k
    <3>1. i - 1 \in DOMAIN r /\ ~(i - 1 < k) /\ (i - 1) + 1 = i
      BY <1>1, <1>3, <2>3
    <3>2. r[i - 1] = s[i]
      BY <1>2, <1>3, <3>1
    <3> QED
      BY <3>1, <3>2
  <2> QED
    BY <1>1, <2>1, <2>2, <2>3
<1>9. ~s[k].lk => KeepsLocked(r, s)
  BY <1>8 DEF KeepsLocked
<1> QED
  BY <1>7, <1>9 DEF r

(* A TLB has its own entries. *)
LEMMA ComesFromItself ==
  ASSUME NEW s \in Seq(Entry)
  PROVE  ComesFrom(s, s) /\ KeepsLocked(s, s)
<1> DEFINE id == [i \in DOMAIN s |-> i]
<1>1. id \in [DOMAIN s -> DOMAIN s] /\ \A i \in DOMAIN s : id[i] = i
  OBVIOUS
<1> HIDE DEF id
<1> QED
  BY <1>1 DEF ComesFrom, KeepsLocked

(* A set of numbers that is not empty has a lowest one. *)
LEMMA LowestIn ==
  ASSUME NEW S, S \subseteq Nat, S # {}
  PROVE  \E x \in S : \A y \in S : x <= y
<1>1. PICK x \in S : \A y \in S : ~(<<y, x>> \in OpToRel(<, Nat))
  BY WFMin, NatLessThanWellFounded
<1>2. \A y \in S : ~(y < x)
  BY <1>1, Zenon DEF OpToRel
<1> QED
  BY <1>2

(* Fill appends the entry to what remains. An entry without a lock, or room, *)
(* spares the locked ones.                                                   *)
LEMMA FillAppends ==
  ASSUME NEW s \in Seq(Entry), NEW size \in Nat, Len(s) <= size,
         NEW e \in Entry, NEW t \in Fill(s, size, e)
  PROVE  \E r \in Seq(Entry) :
           /\ t = Append(r, e) /\ Len(r) < size
           /\ ComesFrom(r, s)
           /\ Len(s) < size \/ (\E i \in DOMAIN s : ~s[i].lk) => KeepsLocked(r, s)
<1> DEFINE victims == {i \in DOMAIN s : ~s[i].lk /\ \A j \in 1..(i - 1) : s[j].lk}
<1>1. Len(s) \in Nat /\ DOMAIN s = 1..Len(s)
  BY TlbIs
<1>2. CASE Len(s) < size
  <2>1. t = Append(s, e)
    BY <1>2 DEF Fill
  <2> QED
    BY <1>2, <2>1, ComesFromItself
<1>3. CASE ~(Len(s) < size)
  <2>1. PICK i \in (IF victims = {} THEN DOMAIN s ELSE victims) : t = Append(RemoveAt(s, i), e)
    BY <1>3 DEF Fill
  <2>2. i \in DOMAIN s
    BY <2>1
  <2>3. RemoveAt(s, i) \in Seq(Entry) /\ Len(RemoveAt(s, i)) < size
    BY <1>1, <2>2, RemoveOne
  <2>4. ASSUME \E j \in DOMAIN s : ~s[j].lk PROVE ~s[i].lk
    <3> DEFINE free == {j \in DOMAIN s : ~s[j].lk}
    <3>1. free \subseteq Nat /\ free # {}
      BY <1>1, <2>4
    <3>2. PICK j \in free : \A x \in free : j <= x
      BY <3>1, LowestIn
    <3>3. j \in DOMAIN s /\ ~s[j].lk
      BY <3>2
    <3>4. \A x \in 1..(j - 1) : s[x].lk
      BY <1>1, <3>2
    <3>5. j \in victims
      BY <3>3, <3>4
    <3> QED
      BY <2>1, <3>5
  <2> HIDE DEF victims
  <2>5. ComesFrom(RemoveAt(s, i), s) /\ (~s[i].lk => KeepsLocked(RemoveAt(s, i), s))
    BY <2>2, RemoveKeeps
  <2>6. Len(s) < size \/ (\E j \in DOMAIN s : ~s[j].lk) => KeepsLocked(RemoveAt(s, i), s)
    BY <1>3, <2>4, <2>5
  <2> QED
    BY <2>1, <2>3, <2>5, <2>6
<1> QED
  BY <1>2, <1>3

-----------------------------------------------------------------------------
(* Locked entries *)

(* An appended entry is behind all others. *)
LEMMA AppendIs ==
  ASSUME NEW r \in Seq(Entry), NEW e \in Entry
  PROVE  /\ Append(r, e) \in Seq(Entry) /\ Len(Append(r, e)) = Len(r) + 1
         /\ DOMAIN Append(r, e) = 1..(Len(r) + 1)
         /\ \A i \in DOMAIN r : Append(r, e)[i] = r[i]
         /\ Append(r, e)[Len(r) + 1] = e
<1>1. /\ Append(r, e) \in Seq(Entry) /\ Len(Append(r, e)) = Len(r) + 1
      /\ \A i \in 1..Len(r) : Append(r, e)[i] = r[i]
      /\ Append(r, e)[Len(r) + 1] = e
  BY AppendProperties
<1>2. DOMAIN Append(r, e) = 1..(Len(r) + 1) /\ DOMAIN r = 1..Len(r)
  BY <1>1, TlbIs
<1> QED
  BY <1>1, <1>2

(* Entries that go, or change places, leave the locked ones right. *)
LEMMA LocksComes ==
  ASSUME NEW s \in Seq(Entry), NEW t \in Seq(Entry), NEW os, NEW ls,
         ComesFrom(t, s), LocksOf(s, os, ls)
  PROVE  LocksOf(t, os, ls)
<1>1. PICK h \in [DOMAIN t -> DOMAIN s] :
         /\ \A i, j \in DOMAIN t : i # j => h[i] # h[j]
         /\ \A i \in DOMAIN t : t[i] = s[h[i]]
  BY DEF ComesFrom
<1>2. \A i \in LockedIn(t) : i \in DOMAIN t /\ h[i] \in LockedIn(s) /\ t[i].page = s[h[i]].page
  BY <1>1 DEF LockedIn
<1>3. \A i, j \in LockedIn(t) : i # j => h[i] # h[j]
  BY <1>1, <1>2
<1>4. \A i \in LockedIn(t) : t[i].page \in os \cup ls
  BY <1>2 DEF LocksOf
<1>5. ASSUME NEW i \in LockedIn(t), NEW j \in LockedIn(t), i # j, t[i].page = t[j].page
      PROVE  t[i].page \in os \cap ls
  <2>1. /\ h[i] \in LockedIn(s) /\ h[j] \in LockedIn(s) /\ h[i] # h[j]
        /\ t[i].page = s[h[i]].page /\ t[j].page = s[h[j]].page
    BY <1>2, <1>3, <1>5
  <2>2. s[h[i]].page = s[h[j]].page
    BY <1>5, <2>1
  <2>3. s[h[i]].page \in os \cap ls
    BY <2>1, <2>2 DEF LocksOf
  <2> QED
    BY <2>1, <2>3
<1>6. ASSUME NEW i \in LockedIn(t), NEW j \in LockedIn(t), NEW k \in LockedIn(t),
             t[i].page = t[j].page, t[j].page = t[k].page
      PROVE  i = j \/ j = k \/ i = k
  <2>1. h[i] \in LockedIn(s) /\ h[j] \in LockedIn(s) /\ h[k] \in LockedIn(s)
    BY <1>2
  <2>2. s[h[i]].page = s[h[j]].page /\ s[h[j]].page = s[h[k]].page
    BY <1>2, <1>6
  <2>3. h[i] = h[j] \/ h[j] = h[k] \/ h[i] = h[k]
    BY <2>1, <2>2 DEF LocksOf
  <2> QED
    BY <1>3, <2>3
<1> QED
  BY <1>4, <1>5, <1>6 DEF LocksOf

(* A new locked entry is of a page that may have one and has no entry, or    *)
(* could not be locked before.                                               *)
LEMMA LocksAppend ==
  ASSUME NEW r \in Seq(Entry), NEW e \in Entry, NEW os, NEW o2, os \subseteq o2,
         NEW ls, NEW l2, ls \subseteq l2, LocksOf(r, os, ls),
         e.lk => \/ e.page \in l2 \ ls
                 \/ e.page \in o2 \cup l2 /\ \A i \in DOMAIN r : r[i].page # e.page
  PROVE  LocksOf(Append(r, e), o2, l2)
<1> DEFINE t == Append(r, e)
           n == Len(r) + 1
<1>1. /\ DOMAIN t = 1..n /\ t[n] = e /\ \A i \in DOMAIN r : t[i] = r[i]
      /\ DOMAIN r = 1..Len(r) /\ Len(r) \in Nat
  BY AppendIs, TlbIs
<1> HIDE DEF t
<1>2. \A i \in LockedIn(t) : (i \in LockedIn(r) /\ t[i] = r[i]) \/ (i = n /\ t[i] = e /\ e.lk)
  BY <1>1 DEF LockedIn
<1>3. \A i \in LockedIn(t) : t[i].page \in o2 \cup l2
  BY <1>2 DEF LocksOf
<1>4. \A i \in LockedIn(r) : e.lk /\ r[i].page = e.page =>
        e.page \in o2 \cap l2 /\ e.page \notin ls
  BY DEF LocksOf, LockedIn
<1>5. ASSUME NEW i \in LockedIn(t), NEW j \in LockedIn(t), i # j, t[i].page = t[j].page
      PROVE  t[i].page \in o2 \cap l2
  <2>1. CASE i \in LockedIn(r) /\ t[i] = r[i] /\ j \in LockedIn(r) /\ t[j] = r[j]
    BY <1>5, <2>1 DEF LocksOf
  <2>2. CASE i \in LockedIn(r) /\ t[i] = r[i] /\ j = n /\ t[j] = e /\ e.lk
    BY <1>4, <1>5, <2>2
  <2>3. CASE j \in LockedIn(r) /\ t[j] = r[j] /\ i = n /\ t[i] = e /\ e.lk
    BY <1>4, <1>5, <2>3
  <2> QED
    BY <1>2, <1>5, <2>1, <2>2, <2>3
<1>6. \A i, j \in LockedIn(r) : e.lk /\ r[i].page = e.page /\ r[j].page = e.page => i = j
  <2> SUFFICES ASSUME NEW i \in LockedIn(r), NEW j \in LockedIn(r),
                      e.lk, r[i].page = e.page, r[j].page = e.page
               PROVE  i = j
    OBVIOUS
  <2>1. e.page \notin ls
    BY <1>4
  <2> QED
    BY <2>1 DEF LocksOf
<1>7. ASSUME NEW i \in LockedIn(t), NEW j \in LockedIn(t), NEW k \in LockedIn(t),
             t[i].page = t[j].page, t[j].page = t[k].page
      PROVE  i = j \/ j = k \/ i = k
  <2>1. CASE i # n /\ j # n /\ k # n
    <3>1. /\ i \in LockedIn(r) /\ j \in LockedIn(r) /\ k \in LockedIn(r)
          /\ r[i].page = r[j].page /\ r[j].page = r[k].page
      BY <1>2, <1>7, <2>1
    <3> QED
      BY <3>1 DEF LocksOf
  <2>2. ASSUME NEW x \in LockedIn(t), NEW y \in LockedIn(t), NEW z \in LockedIn(t),
               x = n, y # n, z # n, t[x].page = t[y].page, t[x].page = t[z].page
        PROVE  y = z
    <3>1. t[x] = e
      BY <1>1, <2>2
    <3>2. e.lk
      BY <3>1, <2>2 DEF LockedIn
    <3>3. y \in LockedIn(r) /\ t[y] = r[y] /\ z \in LockedIn(r) /\ t[z] = r[z]
      BY <1>2, <2>2
    <3> QED
      BY <1>6, <2>2, <3>1, <3>2, <3>3
  <2> QED
    BY <1>7, <2>1, <2>2
<1> QED
  BY <1>3, <1>5, <1>7 DEF LocksOf, t

(* How many locked entries that allows. *)
LEMMA LocksCount ==
  ASSUME NEW tlb \in Seq(Entry), NEW os, NEW ls, IsFiniteSet(os), IsFiniteSet(ls), LocksOf(tlb, os, ls)
  PROVE  /\ IsFiniteSet(LockedIn(tlb)) /\ Cardinality(LockedIn(tlb)) \in Nat
         /\ Cardinality(LockedIn(tlb)) <= Cardinality(os) + Cardinality(ls)
<1> DEFINE K == LockedIn(tlb)
           second == {i \in K : \E j \in K : j < i /\ tlb[j].page = tlb[i].page}
           first == K \ second
           pf == [i \in first |-> tlb[i].page]
           ps == [i \in second |-> tlb[i].page]
<1>1. DOMAIN tlb = 1..Len(tlb) /\ Len(tlb) \in Nat
  BY TlbIs
<1>2. IsFiniteSet(K) /\ \A i \in K : i \in Int
  <2>1. IsFiniteSet(1..Len(tlb)) /\ K \in SUBSET (1..Len(tlb))
    BY <1>1, FS_Interval DEF LockedIn
  <2> QED
    BY <1>1, <2>1, FS_Subset
<1>3. /\ IsFiniteSet(first) /\ IsFiniteSet(second) /\ IsFiniteSet({})
      /\ Cardinality(K) = Cardinality(first) + Cardinality(second)
  <2>1. first \in SUBSET K /\ second \in SUBSET K /\ K = first \cup second /\ first \cap second = {}
    OBVIOUS
  <2> HIDE DEF first, second, K
  <2>2. IsFiniteSet(first) /\ IsFiniteSet(second)
    BY <1>2, <2>1, FS_Subset
  <2>3. Cardinality(first \cup second)
          = Cardinality(first) + Cardinality(second) - Cardinality(first \cap second)
    BY <2>2, FS_Union
  <2>4. IsFiniteSet({}) /\ Cardinality({}) = 0
    BY FS_EmptySet
  <2>5. Cardinality(first) \in Nat /\ Cardinality(second) \in Nat
    BY <2>2, FS_CardinalityType
  <2>6. Cardinality(first \cap second) = 0
    BY <2>1, <2>4
  <2>7. Cardinality(K) = Cardinality(first) + Cardinality(second) - Cardinality(first \cap second)
    BY <2>1, <2>3
  <2> QED
    BY <2>2, <2>4, <2>5, <2>6, <2>7
<1>4. IsFiniteSet(os)
  OBVIOUS
<1>5. /\ IsFiniteSet(os \cup ls) /\ IsFiniteSet(os \cap ls)
      /\ Cardinality(os \cup ls)
           = Cardinality(os) + Cardinality(ls) - Cardinality(os \cap ls)
  <2>1. os \cap ls \in SUBSET ls
    OBVIOUS
  <2> QED
    BY <1>4, <2>1, FS_Union, FS_Subset
<1>6. Cardinality(first) <= Cardinality(os \cup ls)
  <2>1. pf \in [first -> os \cup ls]
    BY DEF LocksOf
  <2>2. ASSUME NEW i \in first, NEW j \in first, pf[i] = pf[j] PROVE i = j
    <3>1. i \in K /\ j \in K /\ tlb[i].page = tlb[j].page /\ ~(i < j) /\ ~(j < i)
      BY <2>2
    <3> QED
      BY <1>2, <3>1
  <2>3. pf \in Injection(first, os \cup ls)
    BY <2>1, <2>2 DEF Injection, IsInjective
  <2> HIDE DEF pf, first
  <2> QED
    BY <1>5, <2>3, FS_Injection
<1>7. Cardinality(second) <= Cardinality(os \cap ls)
  <2>1. ASSUME NEW i \in second PROVE ps[i] \in os \cap ls
    <3>1. PICK j \in K : j < i /\ tlb[j].page = tlb[i].page
      OBVIOUS
    <3>2. i \in K /\ i # j
      BY <1>2, <3>1
    <3>3. tlb[i].page \in os \cap ls
      BY <3>1, <3>2 DEF LocksOf
    <3> QED
      BY <3>3
  <2>2. ASSUME NEW i \in second, NEW j \in second, i < j, tlb[i].page = tlb[j].page PROVE FALSE
    <3>1. PICK k \in K : k < i /\ tlb[k].page = tlb[i].page
      OBVIOUS
    <3>2. i \in K /\ j \in K /\ i \in Int /\ j \in Int /\ k \in Int
      BY <1>2, <3>1
    <3>3. k = i \/ i = j \/ k = j
      BY <2>2, <3>1, <3>2 DEF LocksOf
    <3> QED
      BY <2>2, <3>1, <3>2, <3>3
  <2>3. ASSUME NEW i \in second, NEW j \in second, ps[i] = ps[j] PROVE i = j
    <3>1. tlb[i].page = tlb[j].page /\ i \in Int /\ j \in Int
      BY <1>2, <2>3
    <3> QED
      BY <2>2, <3>1
  <2>4. ps \in Injection(second, os \cap ls)
    BY <2>1, <2>3 DEF Injection, IsInjective
  <2> HIDE DEF ps, second
  <2> QED
    BY <1>5, <2>4, FS_Injection
<1>8. /\ Cardinality(first) \in Nat /\ Cardinality(second) \in Nat /\ Cardinality(ls) \in Nat
      /\ Cardinality(os) \in Nat /\ Cardinality(os \cup ls) \in Nat
      /\ Cardinality(os \cap ls) \in Nat
  <2> HIDE DEF first, second
  <2> QED
    BY <1>3, <1>4, <1>5, FS_CardinalityType
<1> HIDE DEF first, second, K
<1>9. Cardinality(K) \in Nat /\ Cardinality(K) <= Cardinality(os) + Cardinality(ls)
  BY <1>3, <1>4, <1>5, <1>6, <1>7, <1>8
<1> QED
  BY <1>2, <1>9 DEF K

(* mmu_init maps no more pages than it has mappings. *)
LEMMA InitPagesCount ==
  IsFiniteSet(InitPages) /\ Cardinality(InitPages) <= Len(InitMaps)
<1> DEFINE f == [m \in 1..Len(InitMaps) |-> InitMaps[m][1]]
<1>1. Len(InitMaps) \in Nat /\ DOMAIN InitMaps = 1..Len(InitMaps)
  BY MmuAssumption
<1>2. f \in Surjection(1..Len(InitMaps), InitPages)
  BY <1>1 DEF Surjection, InitPages
<1>3. IsFiniteSet(1..Len(InitMaps)) /\ Cardinality(1..Len(InitMaps)) = Len(InitMaps)
  <2> DEFINE n == Len(InitMaps)
  <2>1. n \in Nat
    BY <1>1
  <2> HIDE DEF n
  <2>2. IsFiniteSet(1..n) /\ Cardinality(1..n) = n
    BY <2>1, FS_Interval
  <2> QED
    BY <2>2 DEF n
<1> HIDE DEF f
<1> QED
  BY <1>2, <1>3, FS_Surjection

(* A miss or a lock adds at most the lock it is to add. *)
LEMMA FillLocks ==
  ASSUME NEW s \in Seq(Entry), Len(s) <= DEntries,
         NEW e \in Entry, NEW t \in Fill(s, DEntries, e),
         NEW os, NEW o2, os \subseteq o2, NEW ls, NEW l2, ls \subseteq l2, LocksOf(s, os, ls),
         e.lk => \/ e.page \in l2 \ ls
                 \/ e.page \in o2 \cup l2 /\ \A i \in DOMAIN s : s[i].page # e.page
  PROVE  t \in Seq(Entry) /\ Len(t) <= DEntries /\ LocksOf(t, o2, l2)
<1>1. PICK r \in Seq(Entry) : t = Append(r, e) /\ Len(r) < DEntries /\ ComesFrom(r, s)
  BY FillAppends, MmuAssumption
<1>2. LocksOf(r, os, ls)
  BY <1>1, LocksComes
<1>3. \A i \in DOMAIN r : \E j \in DOMAIN s : r[i] = s[j]
  BY <1>1 DEF ComesFrom
<1>4. e.lk => \/ e.page \in l2 \ ls
              \/ e.page \in o2 \cup l2 /\ \A i \in DOMAIN r : r[i].page # e.page
  BY <1>3
<1>5. LocksOf(Append(r, e), o2, l2)
  BY <1>2, <1>4, LocksAppend
<1>6. t \in Seq(Entry) /\ Len(t) = Len(r) + 1 /\ Len(r) \in Nat
  BY <1>1, AppendIs, TlbIs
<1> QED
  BY <1>1, <1>5, <1>6, MmuAssumption

(* Only entries without a lock are replaced as long as there is one. *)
LEMMA FillStays ==
  ASSUME NEW s \in Seq(Entry), Len(s) <= DEntries,
         NEW e \in Entry, NEW t \in Fill(s, DEntries, e)
  PROVE  /\ \A j \in DOMAIN t : t[j] = e \/ \E i \in DOMAIN s : t[j] = s[i]
         /\ \E j \in DOMAIN t : t[j] = e
         /\ Len(s) < DEntries \/ (\E i \in DOMAIN s : ~s[i].lk) => KeepsLocked(t, s)
<1>1. PICK r \in Seq(Entry) :
         /\ t = Append(r, e) /\ ComesFrom(r, s)
         /\ Len(s) < DEntries \/ (\E i \in DOMAIN s : ~s[i].lk) => KeepsLocked(r, s)
  BY FillAppends, MmuAssumption
<1>2. /\ DOMAIN t = 1..(Len(r) + 1) /\ DOMAIN r = 1..Len(r) /\ Len(r) \in Nat
      /\ \A i \in DOMAIN r : t[i] = r[i]
      /\ t[Len(r) + 1] = e
  BY <1>1, AppendIs, TlbIs
<1>3. \A j \in DOMAIN t : t[j] = e \/ \E i \in DOMAIN s : t[j] = s[i]
  <2> SUFFICES ASSUME NEW j \in DOMAIN t, j # Len(r) + 1 PROVE \E i \in DOMAIN s : t[j] = s[i]
    BY <1>2
  <2>1. j \in DOMAIN r
    BY <1>2
  <2> QED
    BY <1>1, <1>2, <2>1 DEF ComesFrom
<1>4. Len(r) + 1 \in DOMAIN t
  BY <1>2
<1>5. ASSUME Len(s) < DEntries \/ \E i \in DOMAIN s : ~s[i].lk PROVE KeepsLocked(t, s)
  <2>1. KeepsLocked(r, s)
    BY <1>1, <1>5
  <2>2. \A i \in DOMAIN r : i \in DOMAIN t /\ t[i] = r[i]
    BY <1>2
  <2> QED
    BY <2>1, <2>2 DEF KeepsLocked
<1> QED
  BY <1>2, <1>3, <1>4, <1>5

-----------------------------------------------------------------------------
(* Pages, entries and ranges *)

(* There are finitely many descriptors. *)
LEMMA DescriptorsFinite == IsFiniteSet(Descriptors)
<1> DEFINE n == NumPages - 1
<1>1. n \in Int
  BY MmuAssumption
<1> HIDE DEF n
<1>2. IsFiniteSet(0..n)
  BY <1>1, FS_Interval
<1> QED
  BY <1>2 DEF Descriptors, n

(* A range begins on a page that has a descriptor. *)
LEMMA RangePage ==
  ASSUME NEW r \in Ranges
  PROVE  r[1] \in 0..(Space * Grain - 1) /\ r[2] \in Nat /\ PageOf(r[1]) \in Descriptors
<1>1. /\ Grain \in Nat /\ Grain > 0 /\ NumPages \in Nat /\ Space \in Nat /\ NumPages <= Space
      /\ r[1] \in 0..(NumPages * Grain - 1) /\ r[2] \in Nat
  BY MmuAssumption
<1>2. NumPages * Grain <= Space * Grain /\ NumPages * Grain \in Nat /\ Space * Grain \in Nat
  BY <1>1
<1>3. r[1] \in Nat /\ r[1] < NumPages * Grain
  BY <1>1, <1>2
<1>4. r[1] \div Grain \in Nat /\ r[1] \div Grain < NumPages
  BY <1>1, <1>3
<1> QED
  BY <1>1, <1>2, <1>3, <1>4 DEF PageOf, Descriptors

(* The address that a lock call goes on with is in the address space. *)
LEMMA AdvanceIn ==
  ASSUME NEW a \in 0..(Space * Grain - 1)
  PROVE  Advance(a) \in 0..(Space * Grain - 1)
<1> DEFINE m == Space * Grain
<1>1. Grain \in Nat /\ Grain > 0 /\ Space \in Nat /\ Space > 0
  BY MmuAssumption
<1>2. m \in Nat /\ m > 0
  BY <1>1
<1> HIDE DEF m
<1>3. \A x \in Nat : x % m \in 0..(m - 1)
  BY <1>2
<1>4. a + Grain \in Nat
  BY <1>1
<1>5. (a + Grain) % m \in 0..(m - 1)
  BY <1>3, <1>4
<1> QED
  BY <1>5 DEF Advance, m

(* The entry for a page. *)
LEMMA DataEntryIs ==
  ASSUME NEW p \in Pages, NEW ls, NEW e \in DataEntry(p, ls)
  PROVE  /\ e \in Entry /\ e.page = p
         /\ e.lk => p \in ls \cap Translated
         /\ p \in Descriptors => p \in Translated
         /\ p \in Translated => e.mode = CacheMode[p]
         /\ p \in Translated /\ p \in ls => e.lk
<1>1. Translated \subseteq Descriptors /\ PciPages \cap Descriptors = {}
      /\ \A q \in Descriptors : CacheMode[q] \in Modes
  BY MmuAssumption
<1>2. CASE p \in Translated
  <2>1. e = [page |-> p, mode |-> CacheMode[p], lk |-> p \in ls]
    BY <1>2 DEF DataEntry
  <2>2. CacheMode[p] \in Modes
    BY <1>1, <1>2
  <2>3. e \in Entry /\ e.page = p /\ e.mode = CacheMode[p]
    BY <2>1, <2>2 DEF Entry
  <2>4. e.lk <=> p \in ls
    BY <2>1, Zenon
  <2> QED
    BY <1>2, <2>3, <2>4
<1>3. CASE p \notin Translated
  <2>1. p \in PciPages /\ e = [page |-> p, mode |-> "nocache", lk |-> FALSE]
    BY <1>3 DEF DataEntry
  <2> QED
    BY <1>1, <1>3, <2>1 DEF Entry, Modes
<1> QED
  BY <1>2, <1>3

(* The same for instructions. *)
LEMMA InstructionEntryIs ==
  ASSUME NEW p \in Pages, NEW ls, NEW e \in InstructionEntry(p, ls)
  PROVE  e \in Entry /\ e.page = p /\ p \in Translated /\ e.mode = CacheMode[p]
<1>1. p \in Translated /\ e = [page |-> p, mode |-> CacheMode[p], lk |-> p \in ls]
  BY DEF InstructionEntry
<1>2. CacheMode[p] \in Modes
  BY <1>1, MmuAssumption
<1> QED
  BY <1>1, <1>2 DEF Entry

-----------------------------------------------------------------------------
(* What holds of any number of locked pages. *)

(* An entry that is written back without its lock. *)
LEMMA Unlocked ==
  ASSUME NEW e \in Entry
  PROVE  LET u == [e EXCEPT !.lk = FALSE]
         IN  u \in Entry /\ u.page = e.page /\ u.mode = e.mode /\ ~u.lk
  BY DEF Entry

(* Overwriting an entry with one that is not locked. *)
LEMMA Overwritten ==
  ASSUME NEW s \in Seq(Entry), NEW i \in DOMAIN s, NEW u \in Entry, ~u.lk
  PROVE  LET t == [s EXCEPT ![i] = u]
         IN  /\ t \in Seq(Entry) /\ Len(t) = Len(s) /\ DOMAIN t = DOMAIN s
             /\ \A j \in DOMAIN s : t[j] = IF j = i THEN u ELSE s[j]
             /\ \A os, ls : LocksOf(s, os, ls) => LocksOf(t, os, ls)
<1> DEFINE t == [s EXCEPT ![i] = u]
<1>1. t \in Seq(Entry) /\ Len(t) = Len(s)
  BY ExceptSeq
<1>2. DOMAIN t = DOMAIN s /\ \A j \in DOMAIN s : t[j] = IF j = i THEN u ELSE s[j]
  OBVIOUS
<1> HIDE DEF t
<1>3. \A j \in LockedIn(t) : j \in LockedIn(s) /\ t[j] = s[j]
  BY <1>2 DEF LockedIn
<1>4. ASSUME NEW os, NEW ls, LocksOf(s, os, ls) PROVE LocksOf(t, os, ls)
  <2>1. \A j \in LockedIn(t) : t[j].page \in os \cup ls
    BY <1>3, <1>4 DEF LocksOf
  <2>2. \A j, k \in LockedIn(t) :
          j # k /\ t[j].page = t[k].page => t[j].page \in os \cap ls
    BY <1>3, <1>4 DEF LocksOf
  <2>3. \A j, k, l \in LockedIn(t) :
          t[j].page = t[k].page /\ t[k].page = t[l].page => j = k \/ k = l \/ j = l
    BY <1>3, <1>4 DEF LocksOf
  <2> QED
    BY <2>1, <2>2, <2>3 DEF LocksOf
<1> QED
  BY <1>1, <1>2, <1>4 DEF t

(* One entry is what the registers can hold. *)
LEMMA OneEntry ==
  ASSUME NEW e \in Entry
  PROVE  {e} \subseteq Entry /\ Cardinality({e}) <= 1
<1>1. Cardinality({e}) = 1
  BY FS_Singleton, Zenon
<1> QED
  BY <1>1

(* What a miss leaves in the registers. *)
LEMMA DisturbTypes ==
  ASSUME TypeOK, NEW p \in Pages, NEW es, es \subseteq Entry, Cardinality(es) <= 1,
         Disturb(p, es)
  PROVE  /\ regs' \in [ar : Pages \cup {-1}, hit : SUBSET Entry] /\ Cardinality(regs'.hit) <= 1
         /\ exposed' \subseteq Descriptors
         /\ regs' # NoRegs => regs # NoRegs
<1>1. CASE regs = NoRegs
  BY <1>1 DEF Disturb, TypeOK
<1>2. CASE regs # NoRegs
  <2>1. /\ regs' = [ar |-> p, hit |-> IF regs.hit = {} THEN {} ELSE es]
        /\ exposed' = exposed \cup (held \cap {p})
    BY <1>2 DEF Disturb
  <2>2. Cardinality({}) = 0
    BY FS_EmptySet
  <2>3. regs'.hit = {} \/ regs'.hit = es
    BY <2>1
  <2>4. Cardinality(regs'.hit) <= 1
    BY <2>2, <2>3
  <2> QED
    BY <1>2, <2>1, <2>4 DEF TypeOK
<1> QED
  BY <1>1, <1>2

(* The TLBs that mmu_init leaves. *)
LEMMA InitRight == Init => IInv
<1> SUFFICES ASSUME Init PROVE IInv
  OBVIOUS
<1> DEFINE t == MapPages(InitMaps)
<1>1. /\ Len(InitMaps) \in Nat /\ DOMAIN InitMaps = 1..Len(InitMaps)
      /\ \A i \in DOMAIN InitMaps : InitMaps[i] \in Translated \X Modes
      /\ \A i, j \in DOMAIN InitMaps : i # j => InitMaps[i][1] # InitMaps[j][1]
      /\ Translated \subseteq Descriptors /\ NumPages <= Space /\ NumPages \in Nat /\ Space \in Nat
      /\ Len(InitMaps) <= DEntries /\ Len(InitMaps) <= IEntries
  BY MmuAssumption, ElementOfSeq
<1>2. /\ DOMAIN t = 1..Len(InitMaps)
      /\ \A i \in DOMAIN InitMaps :
           t[i] = [page |-> InitMaps[i][1], mode |-> InitMaps[i][2], lk |-> TRUE]
  BY <1>1 DEF MapPages
<1>3. \A i \in DOMAIN InitMaps : t[i] \in Entry /\ t[i].page = InitMaps[i][1]
  <2> SUFFICES ASSUME NEW i \in DOMAIN InitMaps
               PROVE  t[i] \in Entry /\ t[i].page = InitMaps[i][1]
    OBVIOUS
  <2>1. InitMaps[i][1] \in Descriptors /\ InitMaps[i][2] \in Modes
    BY <1>1
  <2>2. InitMaps[i][1] \in Pages
    BY <1>1, <2>1 DEF Descriptors, Pages
  <2>3. t[i] = [page |-> InitMaps[i][1], mode |-> InitMaps[i][2], lk |-> TRUE]
    BY <1>2
  <2> HIDE DEF t
  <2> QED
    BY <2>1, <2>2, <2>3 DEF Entry
<1>4. t \in [1..Len(InitMaps) -> Entry]
  BY <1>1, <1>2, <1>3 DEF MapPages
<1> HIDE DEF t
<1>5. t \in Seq(Entry) /\ Len(t) = Len(InitMaps)
  BY <1>1, <1>4, SeqDef
<1>6. LocksOf(t, InitPages, {})
  <2>1. \A i \in LockedIn(t) : i \in DOMAIN InitMaps /\ t[i].page = InitMaps[i][1]
    BY <1>1, <1>2, <1>3 DEF LockedIn
  <2>2. \A i \in LockedIn(t) : t[i].page \in InitPages
    BY <2>1 DEF InitPages
  <2>3. \A i, j \in LockedIn(t) : t[i].page = t[j].page => i = j
    BY <1>1, <2>1
  <2> QED
    BY <2>2, <2>3 DEF LocksOf
<1>7. dtlb = t /\ itlb = t /\ locked = {}
  BY DEF Init, t
<1>8. TypeOK
  <2>1. Space * Grain \in Nat /\ Space * Grain > 0 /\ MaxCalls \in Nat
    BY <1>1, MmuAssumption
  <2>2. call \in [op : {"none", "lock", "map", "unlock"}, index : Nat,
                  virt : 0..(Space * Grain - 1), size : Nat]
    BY <2>1 DEF Init, NoCall
  <2>3. regs \in [ar : Pages \cup {-1}, hit : SUBSET Entry] /\ regs.hit = {}
    BY DEF Init, NoRegs
  <2>4. Cardinality(regs.hit) <= 1
    BY <2>3, FS_EmptySet
  <2>5. doubled \subseteq locked /\ crammed \in BOOLEAN
    BY DEF Init
  <2>6. /\ instr = Idle /\ calls \in 0..MaxCalls
        /\ held \subseteq Descriptors /\ asked \subseteq Descriptors /\ exposed \subseteq Descriptors
    BY <2>1 DEF Init
  <2> QED
    BY <1>1, <1>5, <1>7, <2>2, <2>3, <2>4, <2>5, <2>6 DEF TypeOK
<1>9. CallRight
  BY DEF Init, CallRight, NoCall
<1>10. Mapped = {} /\ Others = InitPages
  BY <1>7 DEF Mapped, Others, Init
<1> QED
  BY <1>6, <1>7, <1>8, <1>9, <1>10 DEF IInv, LocksRight

(* What an instruction touches are pages. *)
LEMMA InstructionIs ==
  ASSUME NEW i \in Instructions
  PROVE  /\ i.pc \in Pages /\ i.ext \in Pages /\ i.data \in Seq(Pages)
         /\ \A k \in DOMAIN i.data : i.data[k] \in Pages
<1>1. i.pc \in Pages /\ i.ext \in Pages /\ i.data \in Seq(Pages)
  BY MmuAssumption
<1> QED
  BY <1>1, ElementOfSeq

(* Execution changes the order of entries only. *)
LEMMA ExecuteRight == ASSUME IInv, Execute PROVE IInv'
<1>1. /\ dtlb' \in Seq(Entry) /\ Len(dtlb') = Len(dtlb) /\ ComesFrom(dtlb', dtlb)
      /\ itlb' \in Seq(Entry) /\ Len(itlb') = Len(itlb)
  BY TouchOrders DEF IInv, TypeOK, Execute
<1>2. LocksOf(dtlb', Others, Mapped)
  BY <1>1, LocksComes DEF IInv, TypeOK, LocksRight
<1>3. LocksRight'
  BY <1>2 DEF Execute, LocksRight, Others, Mapped, Pending
<1>4. TypeOK'
  BY <1>1 DEF IInv, TypeOK, Execute
<1>5. CallRight'
  BY DEF IInv, CallRight, Execute
<1> QED
  BY <1>3, <1>4, <1>5 DEF IInv

(* A fetch that misses fills the instruction TLB. *)
LEMMA MissFetchRight == ASSUME IInv, MissFetch PROVE IInv'
<1>1. TypeOK /\ instr \in Instructions /\ instr.pc \in Pages
  BY InstructionIs DEF IInv, TypeOK, MissFetch
<1>2. UNCHANGED <<dtlb, locked, call, calls, held, asked, doubled, crammed>>
  BY DEF MissFetch, BusError, tlbs
<1>3. /\ regs' \in [ar : Pages \cup {-1}, hit : SUBSET Entry] /\ Cardinality(regs'.hit) <= 1
      /\ exposed' \subseteq Descriptors
      /\ regs' # NoRegs => regs # NoRegs
      /\ itlb' \in Seq(Entry) /\ Len(itlb') <= IEntries
      /\ instr' \in Instructions \cup {Idle}
  <2>1. CASE \E e \in InstructionEntry(instr.pc, locked) :
               /\ itlb' \in Fill(itlb, IEntries, e)
               /\ Disturb(instr.pc, {e})
               /\ UNCHANGED <<instr, dtlb>>
    <3>1. PICK e \in InstructionEntry(instr.pc, locked) :
               /\ itlb' \in Fill(itlb, IEntries, e)
               /\ Disturb(instr.pc, {e})
               /\ UNCHANGED <<instr, dtlb>>
      BY <2>1
    <3>2. e \in Entry
      BY <1>1, InstructionEntryIs
    <3>3. {e} \subseteq Entry /\ Cardinality({e}) <= 1
      BY <3>2, OneEntry
    <3>4. /\ regs' \in [ar : Pages \cup {-1}, hit : SUBSET Entry] /\ Cardinality(regs'.hit) <= 1
          /\ exposed' \subseteq Descriptors
          /\ regs' # NoRegs => regs # NoRegs
      BY <1>1, <3>1, <3>3, DisturbTypes
    <3>5. itlb \in Seq(Entry) /\ Len(itlb) <= IEntries /\ IEntries \in Nat
      BY <1>1, MmuAssumption DEF TypeOK
    <3>6. PICK r \in Seq(Entry) : itlb' = Append(r, e) /\ Len(r) < IEntries
      BY <3>1, <3>2, <3>5, FillAppends
    <3>7. itlb' \in Seq(Entry) /\ Len(itlb') = Len(r) + 1 /\ Len(r) \in Nat
      BY <3>2, <3>6, AppendIs, TlbIs
    <3> QED
      BY <1>1, <3>1, <3>4, <3>5, <3>6, <3>7
  <2>2. CASE BusError /\ Disturb(instr.pc, regs.hit)
    <3>1. regs.hit \subseteq Entry /\ Cardinality(regs.hit) <= 1
      BY <1>1 DEF TypeOK
    <3>2. /\ regs' \in [ar : Pages \cup {-1}, hit : SUBSET Entry] /\ Cardinality(regs'.hit) <= 1
          /\ exposed' \subseteq Descriptors
          /\ regs' # NoRegs => regs # NoRegs
      BY <1>1, <2>2, <3>1, DisturbTypes
    <3> QED
      BY <1>1, <2>2, <3>2 DEF BusError, tlbs, TypeOK
  <2> QED
    BY <2>1, <2>2 DEF MissFetch
<1>4. TypeOK'
  BY <1>1, <1>2, <1>3 DEF TypeOK
<1>5. CallRight'
  BY <1>2, <1>3 DEF IInv, CallRight
<1>6. LocksRight'
  BY <1>2 DEF IInv, LocksRight, Others, Mapped, Pending
<1> QED
  BY <1>4, <1>5, <1>6 DEF IInv

(* A miss on page p that puts the entry e into the data TLB, whose entries    *)
(* the accesses before it have put in the order s.                           *)
Refills(p, e, s) ==
  /\ Len(s) = Len(dtlb) /\ ComesFrom(s, dtlb) /\ KeepsLocked(s, dtlb)
  /\ ~AllLocked => Len(s) < DEntries \/ \E i \in DOMAIN s : ~s[i].lk
  /\ dtlb' \in Fill(s, DEntries, e)
  /\ Disturb(p, {e})
  /\ doubled' = doubled \cup (Pending \cap {p})
  /\ crammed' = (crammed \/ AllLocked)
  /\ UNCHANGED <<instr, itlb>>

(* A miss on page p that ends in a bus error.                                *)
Refused(p) == BusError /\ Disturb(p, regs.hit) /\ UNCHANGED <<doubled, crammed>>

(* What a miss must leave right.                                             *)
LeftRight ==
  /\ regs' \in [ar : Pages \cup {-1}, hit : SUBSET Entry] /\ Cardinality(regs'.hit) <= 1
  /\ exposed' \subseteq Descriptors
  /\ doubled' \subseteq locked /\ crammed' \in BOOLEAN
  /\ regs' # NoRegs => regs # NoRegs
  /\ dtlb' \in Seq(Entry) /\ Len(dtlb') <= DEntries
  /\ UNCHANGED itlb
  /\ instr' \in Instructions \cup {Idle}
  /\ LocksOf(dtlb', Others', Mapped)

(* What a data access that misses does: it fills the data TLB for a page     *)
(* that has no entry, or ends in a bus error.                                *)
LEMMA MissDataIs ==
  ASSUME TypeOK, MissData
  PROVE  \E p \in Pages :
           /\ ~Holds(dtlb, p)
           /\ (\E e \in DataEntry(p, locked), s \in Seq(Entry) : Refills(p, e, s)) \/ Refused(p)
<1>1. instr \in Instructions
  BY DEF TypeOK, MissData
<1>2. PICK k \in FirstMiss(instr.data) :
        \/ \E e \in DataEntry(FaultPage(k), locked) :
             \E hit \in {Touch(dtlb, SubSeq(instr.data, 1, k - 1))} :
               /\ dtlb' \in Fill(hit, DEntries, e)
               /\ Disturb(instr.data[k], {e})
               /\ doubled' = doubled \cup (Pending \cap {instr.data[k]})
               /\ crammed' = (crammed \/ AllLocked)
               /\ UNCHANGED <<instr, itlb>>
        \/ Refused(instr.data[k])
  BY DEF MissData, Refused
<1>3. instr.data[k] \in Pages /\ ~Holds(dtlb, instr.data[k])
  BY <1>1, InstructionIs DEF FirstMiss
<1> DEFINE s == Touch(dtlb, SubSeq(instr.data, 1, k - 1))
<1>4. /\ s \in Seq(Entry) /\ Len(s) = Len(dtlb) /\ ComesFrom(s, dtlb) /\ KeepsLocked(s, dtlb)
      /\ \A i \in DOMAIN dtlb : \E j \in DOMAIN s : s[j] = dtlb[i]
  <2> DEFINE ps == SubSeq(instr.data, 1, k - 1)
  <2>1. dtlb \in Seq(Entry)
    BY DEF TypeOK
  <2> HIDE DEF ps
  <2>2. /\ Touch(dtlb, ps) \in Seq(Entry) /\ Len(Touch(dtlb, ps)) = Len(dtlb)
        /\ ComesFrom(Touch(dtlb, ps), dtlb) /\ KeepsLocked(Touch(dtlb, ps), dtlb)
        /\ \A i \in DOMAIN dtlb : \E j \in DOMAIN Touch(dtlb, ps) : Touch(dtlb, ps)[j] = dtlb[i]
    BY <2>1, TouchOrders, Zenon
  <2> QED
    BY <2>2 DEF ps
<1>5. \/ \E e \in DataEntry(instr.data[k], locked) :
           /\ dtlb' \in Fill(s, DEntries, e)
           /\ Disturb(instr.data[k], {e})
           /\ doubled' = doubled \cup (Pending \cap {instr.data[k]})
           /\ crammed' = (crammed \/ AllLocked)
           /\ UNCHANGED <<instr, itlb>>
      \/ Refused(instr.data[k])
  BY <1>2 DEF FaultPage
<1> HIDE DEF s
<1>6. ~AllLocked => Len(s) < DEntries \/ \E i \in DOMAIN s : ~s[i].lk
  <2>1. Len(dtlb) \in Nat /\ Len(dtlb) <= DEntries /\ DEntries \in Nat
    BY TlbIs, MmuAssumption DEF TypeOK
  <2>2. ~AllLocked => Len(dtlb) < DEntries \/ \E i \in DOMAIN dtlb : ~dtlb[i].lk
    BY <2>1 DEF AllLocked
  <2> QED
    BY <1>4, <2>2
<1>7. CASE \E e \in DataEntry(instr.data[k], locked) :
             /\ dtlb' \in Fill(s, DEntries, e)
             /\ Disturb(instr.data[k], {e})
             /\ doubled' = doubled \cup (Pending \cap {instr.data[k]})
             /\ crammed' = (crammed \/ AllLocked)
             /\ UNCHANGED <<instr, itlb>>
  <2>1. \E e \in DataEntry(instr.data[k], locked) : Refills(instr.data[k], e, s)
    BY <1>4, <1>6, <1>7 DEF Refills
  <2> QED
    BY <1>3, <1>4, <2>1
<1> QED
  BY <1>3, <1>5, <1>7

(* The entry that it adds is of a page that had none. *)
LEMMA MissDataRight == ASSUME IInv, MissData PROVE IInv'
<1>1. TypeOK /\ instr \in Instructions
  BY DEF IInv, TypeOK, MissData
<1>2. UNCHANGED <<locked, call, calls, held, asked>>
  BY DEF MissData
<1>3. PICK p \in Pages :
           /\ ~Holds(dtlb, p)
           /\ (\E e \in DataEntry(p, locked), s \in Seq(Entry) : Refills(p, e, s)) \/ Refused(p)
  BY <1>1, MissDataIs
<1>4. Pending \subseteq locked /\ Mapped' = Mapped
  BY <1>2 DEF IInv, CallRight, Pending, Mapped
<1>5. LeftRight
  <2>1. ASSUME NEW e \in DataEntry(p, locked), NEW s \in Seq(Entry), Refills(p, e, s)
        PROVE  LeftRight
    <3>1. /\ Len(s) = Len(dtlb) /\ ComesFrom(s, dtlb) /\ dtlb' \in Fill(s, DEntries, e)
          /\ Disturb(p, {e}) /\ doubled' = doubled \cup (Pending \cap {p})
          /\ crammed' = (crammed \/ AllLocked) /\ UNCHANGED <<instr, itlb>>
      BY <2>1 DEF Refills
    <3>2. e \in Entry /\ e.page = p /\ (e.lk => p \in locked \cap Translated)
      BY DataEntryIs
    <3>3. {e} \subseteq Entry /\ Cardinality({e}) <= 1
      BY <3>2, OneEntry
    <3>4. /\ regs' \in [ar : Pages \cup {-1}, hit : SUBSET Entry] /\ Cardinality(regs'.hit) <= 1
          /\ exposed' \subseteq Descriptors
          /\ regs' # NoRegs => regs # NoRegs
      BY <1>1, <3>1, <3>3, DisturbTypes
    <3>5. LocksOf(s, Others, Mapped) /\ Len(s) <= DEntries
      BY <3>1, LocksComes DEF IInv, TypeOK, LocksRight
    <3>6. \A i \in DOMAIN s : s[i].page # p
      BY <1>3, <3>1 DEF ComesFrom, Holds
    <3>7. Others \subseteq Others' /\ (e.lk => e.page \in Others' \cup Mapped)
      BY <3>1, <3>2 DEF Others, Mapped, InitPages
    <3>8. dtlb' \in Seq(Entry) /\ Len(dtlb') <= DEntries /\ LocksOf(dtlb', Others', Mapped)
      BY <3>1, <3>2, <3>5, <3>6, <3>7, FillLocks
    <3>9. doubled' \subseteq locked /\ crammed' \in BOOLEAN
      BY <1>1, <1>4, <3>1 DEF TypeOK
    <3> QED
      BY <1>1, <3>1, <3>4, <3>8, <3>9 DEF LeftRight
  <2>2. CASE Refused(p)
    <3>1. regs.hit \subseteq Entry /\ Cardinality(regs.hit) <= 1
      BY <1>1 DEF TypeOK
    <3>2. /\ regs' \in [ar : Pages \cup {-1}, hit : SUBSET Entry] /\ Cardinality(regs'.hit) <= 1
          /\ exposed' \subseteq Descriptors
          /\ regs' # NoRegs => regs # NoRegs
      BY <1>1, <2>2, <3>1, DisturbTypes DEF Refused
    <3>3. /\ instr' = Idle /\ dtlb' = dtlb /\ itlb' = itlb
          /\ doubled' = doubled /\ crammed' = crammed
      BY <2>2 DEF Refused, BusError, tlbs
    <3>4. /\ LocksOf(dtlb, Others, Mapped) /\ dtlb \in Seq(Entry) /\ Len(dtlb) <= DEntries
          /\ doubled \subseteq locked /\ crammed \in BOOLEAN
      BY DEF IInv, LocksRight, TypeOK
    <3>5. Others' = Others
      BY <3>3 DEF Others, InitPages
    <3> QED
      BY <3>2, <3>3, <3>4, <3>5 DEF LeftRight
  <2> QED
    BY <1>3, <2>1, <2>2
<1>6. TypeOK'
  BY <1>1, <1>2, <1>5 DEF TypeOK, LeftRight
<1>7. CallRight'
  BY <1>2, <1>5 DEF IInv, CallRight, LeftRight
<1>8. LocksRight'
  BY <1>4, <1>5 DEF LocksRight, LeftRight
<1> QED
  BY <1>6, <1>7, <1>8 DEF IInv

(* A step that only moves on with a call, and is not about to map a page.    *)
LEMMA SameLocks ==
  ASSUME LocksRight, UNCHANGED <<dtlb, locked, doubled>>, call.op # "map", call'.op # "map"
  PROVE  LocksRight'
<1>1. Others' = Others /\ Mapped' = Mapped
  BY DEF Others, InitPages, Mapped, Pending
<1> QED
  BY <1>1 DEF LocksRight

(* A driver's call begins. *)
LEMMA CallLockRight == ASSUME IInv, NEW r \in Ranges, CallLock(r) PROVE IInv'
<1>1. r[1] \in 0..(Space * Grain - 1) /\ r[2] \in Nat /\ PageOf(r[1]) \in Descriptors
  BY RangePage
<1>2. /\ call' = [op |-> "lock", index |-> PageOf(r[1]), virt |-> r[1], size |-> r[2]]
      /\ calls' = calls + 1 /\ calls < MaxCalls /\ asked' = asked \cup {PageOf(r[1])}
      /\ UNCHANGED <<dtlb, itlb, locked, instr, regs, held, exposed, doubled, crammed>>
      /\ call.op = "none"
  BY DEF CallLock, tlbs, NoCall
<1>3. PageOf(r[1]) \in Nat /\ MaxCalls \in Nat
  BY <1>1, MmuAssumption DEF Descriptors
<1>4. call' \in [op : {"none", "lock", "map", "unlock"}, index : Nat,
                 virt : 0..(Space * Grain - 1), size : Nat]
  BY <1>1, <1>2, <1>3
<1>5. TypeOK'
  BY <1>1, <1>2, <1>3, <1>4 DEF IInv, TypeOK
<1>6. regs = NoRegs
  BY <1>2 DEF IInv, CallRight
<1>7. CallRight'
  BY <1>2, <1>6 DEF IInv, CallRight
<1>8. LocksRight'
  BY <1>2, SameLocks DEF IInv
<1> QED
  BY <1>5, <1>7, <1>8 DEF IInv

(* The same for unlocking, which takes the page out of held. *)
LEMMA CallUnlockRight == ASSUME IInv, NEW r \in Ranges, CallUnlock(r) PROVE IInv'
<1>1. r[1] \in 0..(Space * Grain - 1) /\ r[2] \in Nat /\ PageOf(r[1]) \in Descriptors
  BY RangePage
<1>2. /\ call' = [op |-> "unlock", index |-> PageOf(r[1]), virt |-> r[1], size |-> r[2]]
      /\ calls' = calls + 1 /\ calls < MaxCalls /\ asked' = asked \cup {PageOf(r[1])}
      /\ held' = held \ {PageOf(r[1])}
      /\ UNCHANGED <<dtlb, itlb, locked, instr, regs, exposed, doubled, crammed>>
      /\ call.op = "none"
  BY DEF CallUnlock, tlbs, NoCall
<1>3. PageOf(r[1]) \in Nat /\ MaxCalls \in Nat
  BY <1>1, MmuAssumption DEF Descriptors
<1>4. call' \in [op : {"none", "lock", "map", "unlock"}, index : Nat,
                 virt : 0..(Space * Grain - 1), size : Nat]
  BY <1>1, <1>2, <1>3
<1>5. TypeOK'
  BY <1>1, <1>2, <1>3, <1>4 DEF IInv, TypeOK
<1>6. CallRight'
  BY <1>2 DEF IInv, CallRight
<1>7. LocksRight'
  BY <1>2, SameLocks DEF IInv
<1> QED
  BY <1>5, <1>6, <1>7 DEF IInv

(* The pages that calls name have descriptors. *)
LEMMA NamedPage ==
  ASSUME NEW p \in {PageOf(r[1]) : r \in Ranges}
  PROVE  p \in Descriptors /\ p \in Pages
  BY RangePage, MmuAssumption DEF Descriptors, Pages

(* The lock loop, round by round, and its end. *)
LEMMA LockStepRight == ASSUME IInv, LockStep PROVE IInv'
<1>1. /\ call.op = "lock"
      /\ UNCHANGED <<dtlb, itlb, instr, regs, calls, held, asked, exposed, doubled, crammed>>
  BY DEF LockStep, tlbs
<1>2. regs = NoRegs
  BY <1>1 DEF IInv, CallRight
<1>3. CASE call.index \in locked /\ call' = [call EXCEPT !.virt = Advance(call.virt)]
           /\ UNCHANGED locked
  <2>1. Advance(call.virt) \in 0..(Space * Grain - 1)
    BY AdvanceIn DEF IInv, TypeOK
  <2>2. /\ call' \in [op : {"none", "lock", "map", "unlock"}, index : Nat,
                      virt : 0..(Space * Grain - 1), size : Nat]
        /\ call'.op = "lock" /\ call'.index = call.index
    BY <1>1, <1>3, <2>1 DEF IInv, TypeOK
  <2>3. TypeOK'
    BY <1>1, <1>3, <2>2 DEF IInv, TypeOK
  <2>4. CallRight'
    BY <1>1, <1>2, <1>3, <2>2 DEF IInv, CallRight
  <2>5. LocksRight'
    BY <1>1, <1>3, <2>2, SameLocks DEF IInv
  <2> QED
    BY <2>3, <2>4, <2>5 DEF IInv
<1>4. CASE call.index \notin locked /\ locked' = locked \cup {call.index}
           /\ call' = [call EXCEPT !.op = "map"]
  <2>1. /\ call' \in [op : {"none", "lock", "map", "unlock"}, index : Nat,
                      virt : 0..(Space * Grain - 1), size : Nat]
        /\ call'.op = "map" /\ call'.index = call.index /\ call'.virt = call.virt
    BY <1>1, <1>4 DEF IInv, TypeOK
  <2>2. call.index \in {PageOf(r[1]) : r \in Ranges} \cap asked /\ PageOf(call.virt) = call.index
    BY <1>1, <1>4 DEF IInv, CallRight
  <2>3. call.index \in Descriptors
    BY <2>2, NamedPage
  <2>4. TypeOK'
    BY <1>1, <1>4, <2>1, <2>3 DEF IInv, TypeOK
  <2>5. CallRight'
    BY <1>1, <1>2, <1>4, <2>1, <2>2 DEF IInv, CallRight
  <2>6. Pending = {} /\ Pending' = {call.index}
    BY <1>1, <2>1, <2>2 DEF Pending, PageOf
  <2>7. Mapped' = Mapped /\ Others' = Others
    BY <1>1, <1>4, <2>6 DEF Mapped, Others, InitPages
  <2>8. LocksRight'
    BY <1>1, <2>7 DEF IInv, LocksRight
  <2> QED
    BY <2>4, <2>5, <2>8 DEF IInv
<1>5. CASE call' = NoCall /\ UNCHANGED locked
  <2>1. Space * Grain > 0 /\ Space * Grain \in Nat
    BY MmuAssumption
  <2>2. NoCall \in [op : {"none", "lock", "map", "unlock"}, index : Nat,
                      virt : 0..(Space * Grain - 1), size : Nat] /\ NoCall.op = "none"
    BY <2>1 DEF NoCall
  <2>3. TypeOK'
    BY <1>1, <1>5, <2>2 DEF IInv, TypeOK
  <2>4. CallRight'
    BY <1>1, <1>2, <1>5, <2>2 DEF IInv, CallRight
  <2>5. LocksRight'
    BY <1>1, <1>5, <2>2, SameLocks DEF IInv
  <2> QED
    BY <2>3, <2>4, <2>5 DEF IInv
<1> QED
  BY <1>3, <1>4, <1>5 DEF LockStep, LockPage

(* What a lock call does to the page that it has marked. *)
LEMMA MapLockedIs ==
  ASSUME IInv, MapLocked
  PROVE  LET p == call.index
         IN  /\ p \in locked /\ p \in asked /\ p \in Descriptors /\ p \in Pages /\ Pending = {p}
             /\ \/ \E e \in DataEntry(p, locked) :
                     /\ dtlb' \in Fill(dtlb, DEntries, e)
                     /\ crammed' = (crammed \/ AllLocked)
                     /\ held' = held \cup {p}
                \/ p \notin Translated /\ UNCHANGED <<dtlb, crammed, held>>
<1>1. /\ call.op = "map" /\ call.index \in locked /\ PageOf(call.virt) = call.index
      /\ call.index \in {PageOf(r[1]) : r \in Ranges} \cap asked
  BY DEF MapLocked, IInv, CallRight
<1>2. call.index \in Descriptors /\ call.index \in Pages
  BY <1>1, NamedPage
<1>3. \/ \E e \in DataEntry(call.index, locked) :
           /\ dtlb' \in Fill(dtlb, DEntries, e)
           /\ crammed' = (crammed \/ AllLocked)
           /\ held' = held \cup {call.index}
      \/ DataEntry(call.index, locked) = {} /\ UNCHANGED <<dtlb, crammed, held>>
  BY <1>1 DEF MapLocked
<1>4. DataEntry(call.index, locked) = {} => call.index \notin Translated
  BY DEF DataEntry
<1>5. Pending = {call.index}
  BY <1>1 DEF Pending
<1> QED
  BY <1>1, <1>2, <1>3, <1>4, <1>5

(* It adds a lock to a page that had none, or one from elsewhere. *)
LEMMA MapLockedRight == ASSUME IInv, MapLocked PROVE IInv'
<1> DEFINE p == call.index
<1>1. /\ call.op = "map" /\ UNCHANGED <<itlb, locked, instr, regs, calls, asked, exposed, doubled>>
      /\ call' = [call EXCEPT !.op = "lock", !.virt = Advance(call.virt)]
  BY DEF MapLocked
<1>2. /\ p \in locked /\ p \in asked /\ p \in Descriptors /\ p \in Pages /\ Pending = {p}
      /\ \/ \E e \in DataEntry(p, locked) :
              /\ dtlb' \in Fill(dtlb, DEntries, e)
              /\ crammed' = (crammed \/ AllLocked)
              /\ held' = held \cup {p}
         \/ p \notin Translated /\ UNCHANGED <<dtlb, crammed, held>>
  BY MapLockedIs
<1>3. /\ dtlb \in Seq(Entry) /\ Len(dtlb) <= DEntries /\ held \subseteq Descriptors
      /\ crammed \in BOOLEAN /\ LocksOf(dtlb, Others, Mapped) /\ regs = NoRegs
      /\ p \in {PageOf(r[1]) : r \in Ranges}
  BY <1>1 DEF IInv, TypeOK, LocksRight, CallRight
<1>4. Advance(call.virt) \in 0..(Space * Grain - 1)
  BY AdvanceIn DEF IInv, TypeOK
<1>5. /\ call' \in [op : {"none", "lock", "map", "unlock"}, index : Nat,
                    virt : 0..(Space * Grain - 1), size : Nat]
      /\ call'.op = "lock" /\ call'.index = p
  BY <1>1, <1>4 DEF IInv, TypeOK
<1> HIDE DEF p
<1>6. Mapped' = locked \cap Translated /\ Mapped = (locked \ {p}) \cap Translated
  BY <1>1, <1>2, <1>5 DEF Mapped, Pending
<1>7. Others' = Others
  BY <1>1 DEF Others, InitPages
<1>8. /\ dtlb' \in Seq(Entry) /\ Len(dtlb') <= DEntries /\ LocksOf(dtlb', Others, Mapped')
      /\ held' \subseteq Descriptors /\ crammed' \in BOOLEAN
  <2>1. ASSUME NEW e \in DataEntry(p, locked), dtlb' \in Fill(dtlb, DEntries, e)
        PROVE  dtlb' \in Seq(Entry) /\ Len(dtlb') <= DEntries /\ LocksOf(dtlb', Others, Mapped')
    <3>1. e \in Entry /\ e.page = p /\ (e.lk => p \in locked \cap Translated)
      BY <1>2, DataEntryIs
    <3>2. e.lk => e.page \in Mapped' \ Mapped
      BY <1>6, <3>1
    <3>3. Mapped \subseteq Mapped'
      BY <1>6
    <3> QED
      BY <1>3, <2>1, <3>1, <3>2, <3>3, FillLocks
  <2>2. CASE p \notin Translated /\ UNCHANGED <<dtlb, crammed, held>>
    <3>1. Mapped' = Mapped
      BY <1>6, <2>2
    <3> QED
      BY <1>3, <2>2, <3>1
  <2> QED
    BY <1>2, <1>3, <2>1, <2>2
<1>9. TypeOK'
  BY <1>1, <1>5, <1>8 DEF IInv, TypeOK
<1>10. CallRight'
  BY <1>1, <1>2, <1>3, <1>5 DEF IInv, CallRight
<1>11. LocksRight'
  BY <1>7, <1>8 DEF LocksRight
<1> QED
  BY <1>9, <1>10, <1>11 DEF IInv

(* The steps of an unlock call. *)
LEMMA UnlockAddressRight == ASSUME IInv, UnlockAddress PROVE IInv'
<1>1. call.op = "unlock" /\ UNCHANGED <<dtlb, itlb, locked, instr, calls, held, asked, exposed, doubled, crammed>>
  BY DEF UnlockAddress, tlbs
<1>2. CASE regs' = [NoRegs EXCEPT !.ar = PageOf(call.virt)] /\ UNCHANGED call
  <2>1. PageOf(call.virt) \in Pages
    <3>1. PageOf(call.virt) \in asked /\ asked \subseteq Descriptors
      BY <1>1 DEF IInv, CallRight, TypeOK
    <3>2. Descriptors \subseteq Pages
      BY MmuAssumption DEF Descriptors, Pages
    <3> QED
      BY <3>1, <3>2
  <2>2. regs' \in [ar : Pages \cup {-1}, hit : SUBSET Entry] /\ regs'.hit = {}
    BY <1>2, <2>1 DEF NoRegs
  <2>3. Cardinality(regs'.hit) <= 1
    BY <2>2, FS_EmptySet
  <2>4. TypeOK'
    BY <1>1, <1>2, <2>2, <2>3 DEF IInv, TypeOK
  <2>5. CallRight'
    BY <1>1, <1>2 DEF IInv, CallRight
  <2> QED
    BY <1>1, <1>2, <2>4, <2>5, SameLocks DEF IInv
<1>3. CASE call' = NoCall /\ UNCHANGED regs /\ regs = NoRegs
  <2>1. Space * Grain > 0 /\ Space * Grain \in Nat
    BY MmuAssumption
  <2>2. NoCall \in [op : {"none", "lock", "map", "unlock"}, index : Nat,
                      virt : 0..(Space * Grain - 1), size : Nat] /\ NoCall.op = "none"
    BY <2>1 DEF NoCall
  <2>3. TypeOK'
    BY <1>1, <1>3, <2>2 DEF IInv, TypeOK
  <2>4. CallRight'
    BY <1>1, <1>3, <2>2 DEF IInv, CallRight
  <2> QED
    BY <1>1, <1>3, <2>2, <2>3, <2>4, SameLocks DEF IInv
<1> QED
  BY <1>2, <1>3 DEF UnlockAddress

(* The next round of the loop of an unlock call. *)
LEMMA NextRound ==
  ASSUME TypeOK, call.op = "unlock", call' = [call EXCEPT !.index = @ + 1], regs' = NoRegs
  PROVE  /\ call' \in [op : {"none", "lock", "map", "unlock"}, index : Nat,
                       virt : 0..(Space * Grain - 1), size : Nat]
         /\ call'.op = "unlock" /\ call'.virt = call.virt
         /\ regs' \in [ar : Pages \cup {-1}, hit : SUBSET Entry] /\ Cardinality(regs'.hit) <= 1
<1>1. /\ call' \in [op : {"none", "lock", "map", "unlock"}, index : Nat,
                    virt : 0..(Space * Grain - 1), size : Nat]
      /\ call'.op = "unlock" /\ call'.virt = call.virt
  BY DEF TypeOK
<1>2. regs' \in [ar : Pages \cup {-1}, hit : SUBSET Entry] /\ regs'.hit = {}
  BY DEF NoRegs
<1> QED
  BY <1>1, <1>2, FS_EmptySet

(* The search of an unlock call. *)
LEMMA UnlockSearchRight == ASSUME IInv, UnlockSearch PROVE IInv'
<1>1. call.op = "unlock" /\ UNCHANGED <<dtlb, itlb, locked, instr, calls, held, asked, exposed, doubled, crammed>>
  BY DEF UnlockSearch, tlbs
<1>2. CASE \E i \in {i \in DOMAIN dtlb : dtlb[i].page = regs.ar} :
             /\ regs' = [regs EXCEPT !.hit = {dtlb[i]}]
             /\ UNCHANGED call
  <2>1. PICK i \in DOMAIN dtlb : regs' = [regs EXCEPT !.hit = {dtlb[i]}]
    BY <1>2
  <2>2. dtlb[i] \in Entry
    BY TlbIs DEF IInv, TypeOK
  <2>3. {dtlb[i]} \subseteq Entry /\ Cardinality({dtlb[i]}) <= 1
    BY <2>2, OneEntry
  <2>4. regs' \in [ar : Pages \cup {-1}, hit : SUBSET Entry] /\ regs'.hit = {dtlb[i]}
    BY <2>1, <2>3 DEF IInv, TypeOK
  <2>5. Cardinality(regs'.hit) <= 1
    BY <2>3, <2>4
  <2>6. TypeOK'
    BY <1>1, <1>2, <2>4, <2>5 DEF IInv, TypeOK
  <2>7. CallRight'
    BY <1>1, <1>2 DEF IInv, CallRight
  <2> QED
    BY <1>1, <1>2, <2>6, <2>7, SameLocks DEF IInv
<1>3. CASE call' = [call EXCEPT !.index = @ + 1] /\ regs' = NoRegs
  <2>1. /\ call' \in [op : {"none", "lock", "map", "unlock"}, index : Nat,
                      virt : 0..(Space * Grain - 1), size : Nat]
        /\ call'.op = "unlock" /\ call'.virt = call.virt
        /\ regs' \in [ar : Pages \cup {-1}, hit : SUBSET Entry] /\ Cardinality(regs'.hit) <= 1
    BY <1>1, <1>3, NextRound DEF IInv
  <2>2. TypeOK'
    BY <1>1, <2>1 DEF IInv, TypeOK
  <2>3. CallRight'
    BY <1>1, <1>3, <2>1 DEF IInv, CallRight
  <2> QED
    BY <1>1, <2>1, <2>2, <2>3, SameLocks DEF IInv
<1> QED
  BY <1>2, <1>3 DEF UnlockSearch

(* The write goes to the entry that was found or in the place of another; no *)
(* entry gains a lock.                                                       *)
LEMMA UnlockWriteIs ==
  ASSUME TypeOK, UnlockWrite
  PROVE  \E e \in regs.hit, u \in Entry :
           /\ u.page = e.page /\ u.mode = e.mode /\ ~u.lk
           /\ crammed' \in BOOLEAN /\ (crammed => crammed')
           /\ \/ \E i \in DOMAIN dtlb : dtlb[i].page = u.page /\ dtlb' = [dtlb EXCEPT ![i] = u]
              \/ dtlb' \in Fill(dtlb, DEntries, u) /\ (AllLocked => crammed')
<1> DEFINE u(e) == [e EXCEPT !.lk = FALSE]
<1>1. PICK e \in regs.hit :
        /\ dtlb' \in WriteBack(u(e))
        /\ crammed' = (crammed \/ (AllLocked /\ dtlb' \in Fill(dtlb, DEntries, u(e))))
  BY DEF UnlockWrite
<1>2. e \in Entry
  BY <1>1 DEF TypeOK
<1>3. u(e) \in Entry /\ u(e).page = e.page /\ u(e).mode = e.mode /\ ~u(e).lk
  BY <1>2, Unlocked
<1> HIDE DEF u
<1>4. \/ \E i \in DOMAIN dtlb : dtlb[i].page = u(e).page /\ dtlb' = [dtlb EXCEPT ![i] = u(e)]
      \/ dtlb' \in Fill(dtlb, DEntries, u(e))
  BY <1>1 DEF WriteBack
<1>5. crammed' \in BOOLEAN /\ (crammed => crammed')
  BY <1>1
<1> QED
  BY <1>1, <1>3, <1>4, <1>5

(* So the write leaves the locked entries right. *)
LEMMA UnlockWriteRight == ASSUME IInv, UnlockWrite PROVE IInv'
<1>1. /\ call.op = "unlock" /\ UNCHANGED <<itlb, locked, instr, calls, held, asked, exposed, doubled>>
      /\ call' = [call EXCEPT !.index = @ + 1] /\ regs' = NoRegs
  BY DEF UnlockWrite
<1>2. PICK e \in regs.hit, u \in Entry :
           /\ u.page = e.page /\ u.mode = e.mode /\ ~u.lk
           /\ crammed' \in BOOLEAN /\ (crammed => crammed')
           /\ \/ \E i \in DOMAIN dtlb : dtlb[i].page = u.page /\ dtlb' = [dtlb EXCEPT ![i] = u]
              \/ dtlb' \in Fill(dtlb, DEntries, u) /\ (AllLocked => crammed')
  BY UnlockWriteIs DEF IInv
<1>3. dtlb \in Seq(Entry) /\ Len(dtlb) <= DEntries /\ LocksOf(dtlb, Others, Mapped)
  BY DEF IInv, TypeOK, LocksRight
<1>4. dtlb' \in Seq(Entry) /\ Len(dtlb') <= DEntries /\ LocksOf(dtlb', Others, Mapped)
  <2>1. CASE dtlb' \in Fill(dtlb, DEntries, u)
    BY <1>2, <1>3, <2>1, FillLocks
  <2>2. ASSUME NEW i \in DOMAIN dtlb, dtlb' = [dtlb EXCEPT ![i] = u]
        PROVE  dtlb' \in Seq(Entry) /\ Len(dtlb') <= DEntries /\ LocksOf(dtlb', Others, Mapped)
    <3>1. /\ dtlb' \in Seq(Entry) /\ Len(dtlb') = Len(dtlb)
          /\ \A os, ls : LocksOf(dtlb, os, ls) => LocksOf(dtlb', os, ls)
      BY <1>2, <1>3, <2>2, Overwritten
    <3> QED
      BY <1>3, <3>1
  <2> QED
    BY <1>2, <2>1, <2>2
<1>5. /\ call' \in [op : {"none", "lock", "map", "unlock"}, index : Nat,
                    virt : 0..(Space * Grain - 1), size : Nat]
      /\ call'.op = "unlock" /\ call'.virt = call.virt
      /\ regs' \in [ar : Pages \cup {-1}, hit : SUBSET Entry] /\ Cardinality(regs'.hit) <= 1
  BY <1>1, NextRound DEF IInv
<1>6. TypeOK'
  BY <1>1, <1>2, <1>4, <1>5 DEF IInv, TypeOK
<1>7. CallRight'
  BY <1>1, <1>5 DEF IInv, CallRight
<1>8. Others' = Others /\ Mapped' = Mapped
  BY <1>1, <1>5 DEF Others, InitPages, Mapped, Pending
<1>9. LocksRight'
  BY <1>4, <1>8 DEF LocksRight
<1> QED
  BY <1>6, <1>7, <1>9 DEF IInv

(* Every step of the processor, the handler and the drivers. *)
LEMMA StepRight == IInv /\ [Next]_vars => IInv'
<1> SUFFICES ASSUME IInv, [Next]_vars PROVE IInv'
  OBVIOUS
<1>1. ASSUME NEW i \in Instructions, Fetch(i) PROVE IInv'
  <2>1. TypeOK'
    BY <1>1 DEF IInv, TypeOK, Fetch, tlbs
  <2>2. CallRight' /\ LocksRight'
    BY <1>1 DEF IInv, CallRight, LocksRight, Others, Mapped, Pending, Fetch, tlbs
  <2> QED
    BY <2>1, <2>2 DEF IInv
<1>2. CASE Cpu
  BY <1>2, ExecuteRight, MissFetchRight, MissDataRight DEF Cpu
<1>3. ASSUME NEW r \in Ranges, CallLock(r) \/ CallUnlock(r) PROVE IInv'
  BY <1>3, CallLockRight, CallUnlockRight
<1>4. CASE Driver
  BY <1>4, LockStepRight, MapLockedRight, UnlockAddressRight, UnlockSearchRight, UnlockWriteRight DEF Driver
<1>5. CASE UNCHANGED vars
  BY <1>5 DEF IInv, TypeOK, CallRight, LocksRight, Others, Mapped, Pending, vars
<1> QED
  BY <1>1, <1>2, <1>3, <1>4, <1>5 DEF Next

-----------------------------------------------------------------------------
(* The theorems *)

(* What the number of locked entries rests on. *)
THEOREM MmuInvariant == Spec => []IInv
<1> QED
  BY InitRight, StepRight, PTL DEF Spec

(* Whatever is missed, evicted, locked and unlocked in whatever order, the   *)
(* data TLB has no more locked entries than mmu_init, the pages that were    *)
(* ever locked, and those of them that were missed in the middle of their    *)
(* lock call account for, and both TLBs stay within their size.              *)
THEOREM MmuLocksBounded == Spec => []OneLockEach
<1>1. IInv => OneLockEach
  <2> SUFFICES ASSUME IInv PROVE OneLockEach
    OBVIOUS
  <2>1. /\ TypeOK /\ dtlb \in Seq(Entry) /\ locked \subseteq Descriptors
        /\ doubled \subseteq locked /\ LocksOf(dtlb, Others, Mapped)
    BY DEF IInv, TypeOK, LocksRight
  <2>2. /\ IsFiniteSet(locked) /\ IsFiniteSet(doubled)
        /\ Cardinality(locked) \in Nat /\ Cardinality(doubled) \in Nat
    <3>1. IsFiniteSet(locked)
      BY <2>1, DescriptorsFinite, FS_Subset
    <3>2. IsFiniteSet(doubled)
      BY <2>1, <3>1, FS_Subset
    <3> QED
      BY <3>1, <3>2, FS_CardinalityType
  <2>3. /\ IsFiniteSet(Mapped) /\ Cardinality(Mapped) <= Cardinality(locked)
        /\ Cardinality(Mapped) \in Nat
    <3>1. Mapped \in SUBSET locked
      BY DEF Mapped
    <3> QED
      BY <2>2, <3>1, FS_Subset, FS_CardinalityType
  <2>4. /\ IsFiniteSet(Others) /\ Cardinality(Others) \in Nat /\ Len(InitMaps) \in Nat
        /\ Cardinality(Others) <= Len(InitMaps) + Cardinality(doubled)
    <3>1. IsFiniteSet(InitPages) /\ Cardinality(InitPages) <= Len(InitMaps)
      BY InitPagesCount
    <3>2. /\ IsFiniteSet(InitPages \cup doubled) /\ IsFiniteSet(InitPages \cap doubled)
          /\ Cardinality(InitPages \cup doubled)
               = Cardinality(InitPages) + Cardinality(doubled) - Cardinality(InitPages \cap doubled)
      <4>1. InitPages \cap doubled \in SUBSET doubled
        OBVIOUS
      <4> QED
        BY <2>2, <3>1, <4>1, FS_Union, FS_Subset
    <3>3. /\ Cardinality(InitPages) \in Nat /\ Cardinality(InitPages \cup doubled) \in Nat
          /\ Cardinality(InitPages \cap doubled) \in Nat /\ Len(InitMaps) \in Nat
      BY <3>1, <3>2, FS_CardinalityType, MmuAssumption
    <3> QED
      BY <2>2, <3>1, <3>2, <3>3 DEF Others
  <2>5. /\ Cardinality(LockedIn(dtlb)) <= Cardinality(Others) + Cardinality(Mapped)
        /\ Cardinality(LockedIn(dtlb)) \in Nat
    BY <2>1, <2>3, <2>4, LocksCount
  <2>6. Cardinality(LockedIn(dtlb)) <= Len(InitMaps) + Cardinality(locked) + Cardinality(doubled)
    BY <2>2, <2>3, <2>4, <2>5
  <2> QED
    BY <2>1, <2>6 DEF OneLockEach, LockedIn
<1> QED
  BY <1>1, MmuInvariant, PTL

-----------------------------------------------------------------------------
(* What stays in the TLB *)

(* Not all entries are locked, or there is room. *)
LEMMA SomeLeft ==
  ASSUME TypeOK, ~AllLocked
  PROVE  Len(dtlb) < DEntries \/ \E i \in DOMAIN dtlb : ~dtlb[i].lk
<1>1. Len(dtlb) \in Nat /\ Len(dtlb) <= DEntries /\ DEntries \in Nat
  BY TlbIs, MmuAssumption DEF TypeOK
<1> QED
  BY <1>1 DEF AllLocked

(* A page that must keep the mapping of mmu_init never lacks an entry. *)
LEMMA SpecialNamed ==
  ASSUME SpecialStay, NEW p \in Pages, ~Holds(dtlb, p)
  PROVE  \A m \in DOMAIN InitMaps : Special(m) => InitMaps[m][1] # p
  BY DEF SpecialStay, Holds

(* What keeps the locked entries keeps the pages that must stay. *)
LEMMA Stay ==
  ASSUME HeldStay, SpecialStay, KeepsLocked(dtlb', dtlb),
         held' \ exposed' \subseteq held \ exposed, asked \subseteq asked'
  PROVE  HeldStay' /\ SpecialStay'
<1>1. \A i \in DOMAIN dtlb : dtlb[i].lk =>
        \E j \in DOMAIN dtlb' : dtlb'[j].page = dtlb[i].page /\ dtlb'[j].lk
  BY DEF KeepsLocked
<1>2. HeldStay'
  BY <1>1 DEF HeldStay
<1>3. \A m \in DOMAIN InitMaps : Special(m)' => Special(m)
  BY DEF Special
<1>4. SpecialStay'
  BY <1>1, <1>3 DEF SpecialStay
<1> QED
  BY <1>2, <1>4

(* An entry of a page that a driver has named, or in the mode of mmu_init. *)
ModeRight(e) ==
  \A m \in DOMAIN InitMaps :
    InitMaps[m][1] = e.page /\ e.page \notin asked => e.mode = InitMaps[m][2]

(* The driver buffers stay uncached as long as each new entry is right. *)
LEMMA Uncached ==
  ASSUME ModesStay, asked \subseteq asked',
         \A j \in DOMAIN dtlb' : ModeRight(dtlb'[j]) \/ \E i \in DOMAIN dtlb : dtlb'[j] = dtlb[i]
  PROVE  ModesStay'
<1> SUFFICES ASSUME NEW m \in DOMAIN InitMaps, InitMaps[m][1] \notin asked',
                    NEW j \in DOMAIN dtlb', dtlb'[j].page = InitMaps[m][1]
             PROVE  dtlb'[j].mode = InitMaps[m][2]
  BY DEF ModesStay
<1>1. InitMaps[m][1] \notin asked
  OBVIOUS
<1>2. CASE ModeRight(dtlb'[j])
  BY <1>1, <1>2 DEF ModeRight
<1>3. ASSUME NEW i \in DOMAIN dtlb, dtlb'[j] = dtlb[i] PROVE dtlb'[j].mode = InitMaps[m][2]
  BY <1>1, <1>3 DEF ModesStay
<1> QED
  BY <1>2, <1>3

(* The entry for a page that no entry was there for is in the right mode: it *)
(* is none that mmu_init maps in another mode and no driver has named.       *)
LEMMA NewMode ==
  ASSUME NEW p \in Pages, NEW ls, NEW e \in DataEntry(p, ls),
         \A m \in DOMAIN InitMaps : Special(m) => InitMaps[m][1] # p
  PROVE  e.page = p /\ ModeRight(e)
<1>1. e.page = p /\ (p \in Translated => e.mode = CacheMode[p])
  BY DataEntryIs
<1>2. \A m \in DOMAIN InitMaps : InitMaps[m][1] \in Translated
  BY MmuAssumption, ElementOfSeq
<1> QED
  BY <1>1, <1>2 DEF ModeRight, Special

(* A miss in the middle of an unlock call moves its registers to the page    *)
(* that was missed, which is exposed from then on.                           *)
LEMMA DisturbApart ==
  ASSUME RegsApart, NEW p, NEW es, Disturb(p, es), UNCHANGED <<held, asked>>,
         \A m \in DOMAIN InitMaps : Special(m) => InitMaps[m][1] # p,
         \A e \in es : e \in regs.hit \/ (e.page = p /\ ModeRight(e))
  PROVE  RegsApart' /\ held' \ exposed' \subseteq held \ exposed
<1>1. \A m \in DOMAIN InitMaps : Special(m)' <=> Special(m)
  BY DEF Special
<1>2. CASE regs = NoRegs
  <2>1. UNCHANGED <<regs, exposed>>
    BY <1>2 DEF Disturb
  <2> QED
    BY <1>1, <2>1 DEF RegsApart
<1>3. CASE regs # NoRegs
  <2>1. /\ regs' = [ar |-> p, hit |-> IF regs.hit = {} THEN {} ELSE es]
        /\ exposed' = exposed \cup (held \cap {p})
    BY <1>3 DEF Disturb
  <2>2. regs'.ar = p /\ regs'.hit \subseteq es
    BY <2>1
  <2>3. held' = held /\ asked' = asked /\ p \notin held' \ exposed'
    BY <2>1
  <2>4. ASSUME NEW e \in regs'.hit
        PROVE  /\ e.page \notin held' \ exposed'
               /\ \A m \in DOMAIN InitMaps :
                    e.page = InitMaps[m][1] /\ e.page \notin asked =>
                      ~Special(m) /\ e.mode = InitMaps[m][2]
    <3>1. CASE e \in regs.hit
      BY <2>1, <3>1 DEF RegsApart
    <3>2. CASE e.page = p /\ ModeRight(e)
      BY <2>3, <3>2 DEF ModeRight
    <3> QED
      BY <2>2, <3>1, <3>2
  <2>5. RegsApart'
    BY <1>1, <2>2, <2>3, <2>4 DEF RegsApart
  <2> QED
    BY <2>1, <2>5
<1> QED
  BY <1>2, <1>3

(* No unlock call, no registers. *)
LEMMA NoRegsApart ==
  ASSUME TypeOK, regs = NoRegs
  PROVE  RegsApart
<1>1. regs.ar = -1 /\ regs.hit = {}
  BY DEF NoRegs
<1>2. -1 \notin Descriptors
  BY DEF Descriptors
<1>3. \A m \in DOMAIN InitMaps : InitMaps[m][1] \in Descriptors
  BY MmuAssumption, ElementOfSeq
<1> QED
  BY <1>1, <1>2, <1>3 DEF RegsApart, TypeOK

(* mmu_init maps each of its pages, in its mode and locked. *)
LEMMA InitStay == Init => StayInv
<1> SUFFICES ASSUME Init PROVE StayInv
  OBVIOUS
<1>1. IInv /\ TypeOK
  BY InitRight DEF IInv
<1>2. /\ DOMAIN dtlb = DOMAIN InitMaps
      /\ \A i \in DOMAIN InitMaps :
           dtlb[i] = [page |-> InitMaps[i][1], mode |-> InitMaps[i][2], lk |-> TRUE]
  BY DEF Init, MapPages
<1>3. \A i \in DOMAIN InitMaps :
        dtlb[i].page = InitMaps[i][1] /\ dtlb[i].mode = InitMaps[i][2] /\ dtlb[i].lk
  BY <1>2
<1>4. RegsApart
  BY <1>1, NoRegsApart DEF Init
<1>5. HeldStay
  BY DEF Init, HeldStay
<1>6. \A i, j \in DOMAIN InitMaps : i # j => InitMaps[i][1] # InitMaps[j][1]
  BY MmuAssumption
<1>7. ModesStay
  BY <1>2, <1>3, <1>6 DEF ModesStay
<1>8. SpecialStay
  BY <1>2, <1>3 DEF SpecialStay
<1> QED
  BY <1>1, <1>4, <1>5, <1>7, <1>8 DEF StayInv, StaysRight

(* A step that leaves the data TLB and the registers alone. *)
LEMMA QuietStays ==
  ASSUME StayInv, UNCHANGED <<dtlb, regs, exposed>>, held' \subseteq held, asked \subseteq asked'
  PROVE  StaysRight'
<1>1. \A m \in DOMAIN InitMaps : Special(m)' => Special(m)
  BY DEF Special
<1>2. RegsApart'
  BY <1>1 DEF StayInv, StaysRight, RegsApart
<1>3. HeldStay' /\ SpecialStay'
  BY <1>1 DEF StayInv, StaysRight, HeldStay, SpecialStay
<1>4. ModesStay'
  BY DEF StayInv, StaysRight, ModesStay
<1> QED
  BY <1>2, <1>3, <1>4 DEF StaysRight

(* Execution changes the order of entries only. *)
LEMMA ExecuteStays == ASSUME StayInv, Execute PROVE StaysRight'
<1>1. ComesFrom(dtlb', dtlb) /\ KeepsLocked(dtlb', dtlb) /\ UNCHANGED <<regs, held, asked, exposed>>
  BY TouchOrders DEF StayInv, IInv, TypeOK, Execute
<1>2. HeldStay' /\ SpecialStay'
  BY <1>1, Stay DEF StayInv, StaysRight
<1>3. ModesStay'
  BY <1>1, Uncached DEF StayInv, StaysRight, ComesFrom
<1>4. RegsApart'
  BY <1>1 DEF StayInv, StaysRight, RegsApart, Special
<1> QED
  BY <1>2, <1>3, <1>4 DEF StaysRight

(* Code does not run on the pages that mmu_init maps in another mode. *)
LEMMA MissFetchStays == ASSUME StayInv, MissFetch PROVE StaysRight'
<1> DEFINE p == instr.pc
<1>1. instr \in Instructions /\ p \in Pages
  BY InstructionIs DEF StayInv, IInv, TypeOK, MissFetch
<1>2. UNCHANGED <<dtlb, held, asked>>
  BY DEF MissFetch, BusError, tlbs
<1>3. \A m \in DOMAIN InitMaps : InitMaps[m][1] = p => InitMaps[m][2] = CacheMode[p]
  BY <1>1, MmuAssumption
<1>4. \A m \in DOMAIN InitMaps : Special(m) => InitMaps[m][1] # p
  BY <1>3 DEF Special
<1>5. \/ \E e \in InstructionEntry(p, locked) : Disturb(p, {e})
      \/ Disturb(p, regs.hit)
  BY DEF MissFetch
<1>6. \A e \in InstructionEntry(p, locked) : e.page = p /\ e.mode = CacheMode[p]
  BY <1>1, InstructionEntryIs
<1>7. \A e \in InstructionEntry(p, locked) : e.page = p /\ ModeRight(e)
  BY <1>3, <1>6 DEF ModeRight
<1> HIDE DEF p
<1>8. RegsApart /\ HeldStay /\ SpecialStay /\ ModesStay
  BY DEF StayInv, StaysRight
<1>9. RegsApart' /\ held' \ exposed' \subseteq held \ exposed
  <2>1. ASSUME NEW e \in InstructionEntry(p, locked), Disturb(p, {e})
        PROVE  RegsApart' /\ held' \ exposed' \subseteq held \ exposed
    <3>1. \A x \in {e} : x.page = p /\ ModeRight(x)
      BY <1>7
    <3> QED
      BY <1>2, <1>4, <1>8, <2>1, <3>1, DisturbApart
  <2>2. CASE Disturb(p, regs.hit)
    BY <1>2, <1>4, <1>8, <2>2, DisturbApart
  <2> QED
    BY <1>5, <2>1, <2>2
<1>10. HeldStay' /\ SpecialStay'
  BY <1>2, <1>8, <1>9 DEF HeldStay, SpecialStay, Special
<1>11. ModesStay'
  BY <1>2, <1>8 DEF ModesStay
<1> QED
  BY <1>9, <1>10, <1>11 DEF StaysRight

(* A page whose entry must stay is not missed. *)
LEMMA MissDataStays == ASSUME StayInv, MissData, ~crammed' PROVE StaysRight'
<1>1. TypeOK /\ IInv /\ dtlb \in Seq(Entry) /\ Len(dtlb) <= DEntries
  BY DEF StayInv, IInv, TypeOK
<1>2. UNCHANGED <<held, asked>>
  BY DEF MissData
<1>3. PICK p \in Pages :
        /\ ~Holds(dtlb, p)
        /\ (\E e \in DataEntry(p, locked), s \in Seq(Entry) : Refills(p, e, s)) \/ Refused(p)
  BY <1>1, MissDataIs
<1>4. RegsApart /\ HeldStay /\ SpecialStay /\ ModesStay
  BY DEF StayInv, StaysRight
<1>5. \A m \in DOMAIN InitMaps : Special(m) => InitMaps[m][1] # p
  BY <1>3, <1>4, SpecialNamed
<1>6. ASSUME NEW e \in DataEntry(p, locked), NEW s \in Seq(Entry), Refills(p, e, s)
      PROVE  StaysRight'
  <2>0. /\ Len(s) = Len(dtlb) /\ ComesFrom(s, dtlb) /\ KeepsLocked(s, dtlb)
        /\ dtlb' \in Fill(s, DEntries, e) /\ Disturb(p, {e})
    BY <1>6 DEF Refills
  <2>1. e \in Entry /\ e.page = p /\ ModeRight(e)
    BY <1>5, DataEntryIs, NewMode
  <2>2. RegsApart' /\ held' \ exposed' \subseteq held \ exposed
    <3>1. \A x \in {e} : x.page = p /\ ModeRight(x)
      BY <2>1
    <3> QED
      BY <1>2, <1>4, <1>5, <2>0, <3>1, DisturbApart
  <2>3. Len(s) < DEntries \/ \E i \in DOMAIN s : ~s[i].lk
    BY <1>6 DEF Refills
  <2>4. /\ \A j \in DOMAIN dtlb' : dtlb'[j] = e \/ \E i \in DOMAIN s : dtlb'[j] = s[i]
        /\ KeepsLocked(dtlb', s)
    BY <1>1, <2>0, <2>1, <2>3, FillStays
  <2>5. KeepsLocked(dtlb', dtlb)
    BY <2>0, <2>4 DEF KeepsLocked
  <2>6. HeldStay' /\ SpecialStay'
    BY <1>2, <1>4, <2>2, <2>5, Stay
  <2>7. \A i \in DOMAIN s : \E j \in DOMAIN dtlb : s[i] = dtlb[j]
    BY <2>0 DEF ComesFrom
  <2>8. ModesStay'
    BY <1>2, <1>4, <2>1, <2>4, <2>7, Uncached
  <2> QED
    BY <2>2, <2>6, <2>8 DEF StaysRight
<1>7. CASE Refused(p)
  <2>1. dtlb' = dtlb /\ Disturb(p, regs.hit)
    BY <1>7 DEF Refused, BusError, tlbs
  <2>2. RegsApart' /\ held' \ exposed' \subseteq held \ exposed
    BY <1>2, <1>4, <1>5, <2>1, DisturbApart
  <2>3. HeldStay' /\ SpecialStay'
    BY <1>2, <1>4, <2>1, <2>2 DEF HeldStay, SpecialStay, Special
  <2>4. ModesStay'
    BY <1>2, <1>4, <2>1 DEF ModesStay
  <2> QED
    BY <2>2, <2>3, <2>4 DEF StaysRight
<1> QED
  BY <1>3, <1>6, <1>7

(* A lock call adds the entry of a page that it names, and replaces none     *)
(* that is locked.                                                           *)
LEMMA MapLockedStays == ASSUME StayInv, MapLocked, ~crammed' PROVE StaysRight'
<1> DEFINE p == call.index
<1>1. TypeOK /\ IInv /\ dtlb \in Seq(Entry) /\ Len(dtlb) <= DEntries
  BY DEF StayInv, IInv, TypeOK
<1>2. UNCHANGED <<regs, asked, exposed>> /\ call.op = "map"
  BY DEF MapLocked
<1>3. RegsApart /\ HeldStay /\ SpecialStay /\ ModesStay
  BY DEF StayInv, StaysRight
<1>4. regs = NoRegs
  BY <1>1, <1>2 DEF IInv, CallRight
<1>5. RegsApart'
  <2>1. TypeOK'
    BY <1>1, MapLockedRight DEF IInv
  <2>2. (TypeOK /\ regs = NoRegs)' => RegsApart'
    BY NoRegsApart, PTL
  <2> QED
    BY <1>2, <1>4, <2>1, <2>2
<1>6. CASE UNCHANGED <<dtlb, held>>
  BY <1>2, <1>3, <1>5, <1>6 DEF StaysRight, HeldStay, SpecialStay, ModesStay, Special
<1>7. /\ p \in locked /\ p \in asked /\ p \in Pages /\ p \in Descriptors
      /\ \/ \E e \in DataEntry(p, locked) :
              /\ dtlb' \in Fill(dtlb, DEntries, e)
              /\ crammed' = (crammed \/ AllLocked)
              /\ held' = held \cup {p}
         \/ UNCHANGED <<dtlb, held>>
  BY <1>1, MapLockedIs
<1>8. ASSUME NEW e \in DataEntry(p, locked), dtlb' \in Fill(dtlb, DEntries, e),
             crammed' = (crammed \/ AllLocked), held' = held \cup {p}
      PROVE  StaysRight'
  <2>1. e \in Entry /\ e.page = p /\ e.lk
    BY <1>7, <1>8, DataEntryIs
  <2>2. Len(dtlb) < DEntries \/ \E i \in DOMAIN dtlb : ~dtlb[i].lk
    BY <1>1, <1>8, SomeLeft
  <2>3. /\ \A j \in DOMAIN dtlb' : dtlb'[j] = e \/ \E i \in DOMAIN dtlb : dtlb'[j] = dtlb[i]
        /\ \E j \in DOMAIN dtlb' : dtlb'[j] = e
        /\ KeepsLocked(dtlb', dtlb)
    BY <1>1, <1>8, <2>1, <2>2, FillStays
  <2>4. ModeRight(e)
    BY <1>7, <2>1 DEF ModeRight
  <2>5. ModesStay'
    BY <1>2, <1>3, <2>3, <2>4, Uncached
  <2>6. \A i \in DOMAIN dtlb : dtlb[i].lk =>
          \E j \in DOMAIN dtlb' : dtlb'[j].page = dtlb[i].page /\ dtlb'[j].lk
    BY <2>3 DEF KeepsLocked
  <2>7. HeldStay'
    BY <1>2, <1>3, <1>8, <2>1, <2>3, <2>6 DEF HeldStay
  <2>8. SpecialStay'
    BY <1>2, <1>3, <2>6 DEF SpecialStay, Special
  <2> QED
    BY <1>5, <2>5, <2>7, <2>8 DEF StaysRight
<1> HIDE DEF p
<1> QED
  BY <1>6, <1>7, <1>8

(* An unlock call searches for a page that it has taken out of held.         *)
LEMMA UnlockAddressStays == ASSUME StayInv, UnlockAddress PROVE StaysRight'
<1>1. call.op = "unlock" /\ UNCHANGED <<dtlb, held, asked, exposed>>
  BY DEF UnlockAddress, tlbs
<1>2. RegsApart /\ HeldStay /\ SpecialStay /\ ModesStay
  BY DEF StayInv, StaysRight
<1>3. HeldStay' /\ SpecialStay' /\ ModesStay'
  BY <1>1, <1>2 DEF HeldStay, SpecialStay, ModesStay, Special
<1>4. CASE UNCHANGED regs
  BY <1>1, <1>2, <1>3, <1>4 DEF StaysRight, RegsApart, Special
<1>5. CASE regs' = [NoRegs EXCEPT !.ar = PageOf(call.virt)]
  <2>1. PageOf(call.virt) \in asked \ held
    BY <1>1 DEF StayInv, IInv, CallRight
  <2>2. regs'.ar = PageOf(call.virt) /\ regs'.hit = {}
    BY <1>5 DEF NoRegs
  <2>3. RegsApart'
    BY <1>1, <2>1, <2>2 DEF RegsApart, Special
  <2> QED
    BY <1>3, <2>3 DEF StaysRight
<1> QED
  BY <1>4, <1>5 DEF UnlockAddress

(* The entry it finds is of the page that it searches for.                   *)
LEMMA UnlockSearchStays == ASSUME StayInv, UnlockSearch PROVE StaysRight'
<1>1. UNCHANGED <<dtlb, held, asked, exposed>>
  BY DEF UnlockSearch, tlbs
<1>2. RegsApart /\ HeldStay /\ SpecialStay /\ ModesStay
  BY DEF StayInv, StaysRight
<1>3. HeldStay' /\ SpecialStay' /\ ModesStay'
  BY <1>1, <1>2 DEF HeldStay, SpecialStay, ModesStay, Special
<1>4. CASE regs' = NoRegs
  <2>1. TypeOK'
    BY UnlockSearchRight DEF StayInv, IInv
  <2>2. (TypeOK /\ regs = NoRegs)' => RegsApart'
    BY NoRegsApart, PTL
  <2>3. RegsApart'
    BY <1>4, <2>1, <2>2
  <2> QED
    BY <1>3, <2>3 DEF StaysRight
<1>5. ASSUME NEW i \in DOMAIN dtlb, dtlb[i].page = regs.ar, regs' = [regs EXCEPT !.hit = {dtlb[i]}]
      PROVE  StaysRight'
  <2>1. regs'.ar = regs.ar /\ regs'.hit = {dtlb[i]}
    BY <1>5 DEF StayInv, IInv, TypeOK
  <2>2. \A m \in DOMAIN InitMaps :
          dtlb[i].page = InitMaps[m][1] /\ dtlb[i].page \notin asked =>
            ~Special(m) /\ dtlb[i].mode = InitMaps[m][2]
    BY <1>2, <1>5 DEF RegsApart, ModesStay
  <2>3. regs.ar \notin held \ exposed
    BY <1>2 DEF RegsApart
  <2>4. \A m \in DOMAIN InitMaps : Special(m) => regs.ar # InitMaps[m][1]
    BY <1>2 DEF RegsApart
  <2>5. \A m \in DOMAIN InitMaps : Special(m)' <=> Special(m)
    BY <1>1 DEF Special
  <2>6. RegsApart'
    BY <1>1, <1>5, <2>1, <2>2, <2>3, <2>4, <2>5 DEF RegsApart
  <2> QED
    BY <1>3, <2>6 DEF StaysRight
<1> QED
  BY <1>4, <1>5 DEF UnlockSearch

(* So it never overwrites the entry of a page that must stay.                *)
LEMMA UnlockWriteStays == ASSUME StayInv, UnlockWrite, ~crammed' PROVE StaysRight'
<1>1. /\ UNCHANGED <<held, asked, exposed>> /\ regs' = NoRegs
      /\ TypeOK /\ IInv /\ dtlb \in Seq(Entry) /\ Len(dtlb) <= DEntries
  BY DEF UnlockWrite, StayInv, IInv, TypeOK
<1>2. RegsApart /\ HeldStay /\ SpecialStay /\ ModesStay
  BY DEF StayInv, StaysRight
<1>3. PICK e \in regs.hit, u \in Entry :
           /\ u.page = e.page /\ u.mode = e.mode /\ ~u.lk
           /\ \/ \E i \in DOMAIN dtlb : dtlb[i].page = u.page /\ dtlb' = [dtlb EXCEPT ![i] = u]
              \/ dtlb' \in Fill(dtlb, DEntries, u) /\ ~AllLocked
  BY <1>1, UnlockWriteIs
<1>4. RegsApart'
  <2>1. TypeOK'
    BY <1>1, UnlockWriteRight DEF IInv
  <2>2. (TypeOK /\ regs = NoRegs)' => RegsApart'
    BY NoRegsApart, PTL
  <2> QED
    BY <1>1, <2>1, <2>2
<1>5. u.page \notin held \ exposed
  BY <1>2, <1>3 DEF RegsApart
<1>6. \A m \in DOMAIN InitMaps : Special(m) => InitMaps[m][1] # u.page
  <2>1. \A m \in DOMAIN InitMaps : Special(m) => InitMaps[m][1] \notin asked
    BY DEF Special
  <2> QED
    BY <1>2, <1>3, <2>1 DEF RegsApart
<1>7. ModeRight(u)
  BY <1>2, <1>3 DEF RegsApart, ModeRight
<1>8. CASE dtlb' \in Fill(dtlb, DEntries, u) /\ ~AllLocked
  <2>1. Len(dtlb) < DEntries \/ \E i \in DOMAIN dtlb : ~dtlb[i].lk
    BY <1>1, <1>8, SomeLeft
  <2>2. /\ \A j \in DOMAIN dtlb' : dtlb'[j] = u \/ \E i \in DOMAIN dtlb : dtlb'[j] = dtlb[i]
        /\ KeepsLocked(dtlb', dtlb)
    BY <1>1, <1>3, <1>8, <2>1, FillStays
  <2>3. HeldStay' /\ SpecialStay'
    BY <1>1, <1>2, <2>2, Stay
  <2>4. ModesStay'
    BY <1>1, <1>2, <1>7, <2>2, Uncached
  <2> QED
    BY <1>4, <2>3, <2>4 DEF StaysRight
<1>9. ASSUME NEW i \in DOMAIN dtlb, dtlb[i].page = u.page, dtlb' = [dtlb EXCEPT ![i] = u]
      PROVE  StaysRight'
  <2>1. DOMAIN dtlb' = DOMAIN dtlb /\ \A j \in DOMAIN dtlb : dtlb'[j] = IF j = i THEN u ELSE dtlb[j]
    BY <1>9
  <2>2. \A j \in DOMAIN dtlb : dtlb[j].page # u.page => j # i /\ dtlb'[j] = dtlb[j]
    BY <1>9, <2>1
  <2>3. HeldStay'
    BY <1>1, <1>2, <1>5, <2>1, <2>2 DEF HeldStay
  <2>4. SpecialStay'
    BY <1>1, <1>2, <1>6, <2>1, <2>2 DEF SpecialStay, Special
  <2>5. \A j \in DOMAIN dtlb' : ModeRight(dtlb'[j]) \/ \E k \in DOMAIN dtlb : dtlb'[j] = dtlb[k]
    BY <1>7, <2>1
  <2>6. ModesStay'
    BY <1>1, <1>2, <2>5, Uncached
  <2> QED
    BY <1>4, <2>3, <2>4, <2>6 DEF StaysRight
<1> QED
  BY <1>3, <1>8, <1>9

(* A TLB that an entry was missing from once is no longer looked at. *)
LEMMA CrammedStays == ASSUME IInv, [Next]_vars, crammed PROVE crammed'
<1>1. CASE UnlockWrite
  BY <1>1, UnlockWriteIs DEF IInv
<1>2. CASE MissData
  BY <1>2 DEF MissData
<1>3. CASE MapLocked
  BY <1>3 DEF MapLocked
<1> QED
  BY <1>1, <1>2, <1>3
  DEF Next, Cpu, Driver, Fetch, Execute, MissFetch, CallLock, CallUnlock, LockStep,
      UnlockAddress, UnlockSearch, vars

(* Every step keeps what must stay, as long as entries are left. *)
LEMMA StepStays == IInv /\ (crammed \/ StaysRight) /\ [Next]_vars => crammed' \/ StaysRight'
<1> SUFFICES ASSUME IInv, crammed \/ StaysRight, [Next]_vars, ~crammed' PROVE StaysRight'
  OBVIOUS
<1>1. StayInv
  BY CrammedStays DEF StayInv
<1>2. ASSUME NEW i \in Instructions, Fetch(i) PROVE StaysRight'
  BY <1>1, <1>2, QuietStays DEF Fetch, tlbs
<1>3. CASE Cpu
  BY <1>1, <1>3, ExecuteStays, MissFetchStays, MissDataStays DEF Cpu
<1>4. ASSUME NEW r \in Ranges, CallLock(r) \/ CallUnlock(r) PROVE StaysRight'
  <2>1. UNCHANGED <<dtlb, regs, exposed>> /\ held' \subseteq held /\ asked \subseteq asked'
    BY <1>4 DEF CallLock, CallUnlock, tlbs
  <2> QED
    BY <1>1, <2>1, QuietStays
<1>5. CASE Driver
  <2>1. CASE LockStep
    BY <1>1, <2>1, QuietStays DEF LockStep, tlbs
  <2> QED
    BY <1>1, <1>5, <2>1, MapLockedStays, UnlockAddressStays, UnlockSearchStays, UnlockWriteStays
    DEF Driver
<1>6. CASE UNCHANGED vars
  BY <1>1, <1>6, QuietStays DEF vars
<1> QED
  BY <1>2, <1>3, <1>4, <1>5, <1>6 DEF Next

(* The invariant of the last two theorems. *)
LEMMA StayInvariant == Spec => [](IInv /\ (crammed \/ StaysRight))
<1>1. Init => IInv /\ (crammed \/ StaysRight)
  BY InitStay DEF StayInv
<1>2. IInv /\ (crammed \/ StaysRight) /\ [Next]_vars => (IInv /\ (crammed \/ StaysRight))'
  BY StepRight, StepStays
<1> QED
  BY <1>1, <1>2, PTL DEF Spec

(* A page that was mapped by a lock call stays mapped and locked, through    *)
(* all misses and calls, until it is unlocked, or missed in the middle of an *)
(* unlock call - as long as no entry is needed when all are locked.          *)
THEOREM MmuLockedStays == Spec => []LockedStays
<1>1. IInv /\ (crammed \/ StaysRight) => LockedStays
  BY DEF StaysRight, HeldStay, LockedStays
<1> QED
  BY <1>1, StayInvariant, PTL

(* Until then, the pages of the driver buffers are in the data TLB with the  *)
(* cache mode of mmu_init only, unless a driver names them.                  *)
THEOREM MmuDriverUncached == Spec => []DriverUncached
<1>1. IInv /\ (crammed \/ StaysRight) => DriverUncached
  BY DEF StaysRight, ModesStay, DriverUncached
<1> QED
  BY <1>1, StayInvariant, PTL
=============================================================================
