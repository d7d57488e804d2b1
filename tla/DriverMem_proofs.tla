-------------------------- MODULE DriverMem_proofs --------------------------
(* Proofs about DriverMem, for any size of the pool, any number of memory    *)
(* descriptors and any requests: its lists stay well formed, and it is a     *)
(* Heap, however parts are split, joined and linked.                         *)
EXTENDS DriverMem, FiniteSetTheorems, SequenceTheorems, WellFoundedInduction, TLAPS

MDRec == [start : 0..Pool, len : 0..Pool, own : BOOLEAN]
Owned(d) == {p \in MDs : d[p].own}
End(d, p) == d[p].start + d[p].len

\* The MDs d, the list l of the free ones, the rover v and the set A of the
\* taken ones describe a pool that is divided into parts.
Typed(d, l, v, A) ==
  d \in [MDs -> MDRec] /\ l \in Seq(MDs) /\ v \in MDs \cup {NoMD} /\ A \subseteq MDs

Linked(d, l, A) ==
  /\ \A i, j \in 1..Len(l) : i # j => l[i] # l[j]
  /\ \A i \in 1..Len(l) : l[i] \notin A
  /\ \A p \in MDs : d[p].own <=> (p \in A \/ \E i \in 1..Len(l) : l[i] = p)

Divided(d) ==
  /\ \A p \in Owned(d) : d[p].len > 0 /\ End(d, p) <= Pool
  /\ \A p, q \in Owned(d) : p # q => End(d, p) <= d[q].start \/ End(d, q) <= d[p].start
  /\ \A g \in 0..(Pool - 1) : \E p \in Owned(d) : d[p].start <= g /\ g < End(d, p)
  /\ 0 \in Owned(d) /\ d[0].start = 0

Sorted(d, l) == \A i, j \in 1..Len(l) : i < j => End(d, l[i]) <= d[l[j]].start

RoverOn(l, v) == IF Len(l) = 0 THEN v = NoMD ELSE \E i \in 1..Len(l) : l[i] = v

Good(d, l, v, A) ==
  Typed(d, l, v, A) /\ Linked(d, l, A) /\ Divided(d) /\ Sorted(d, l) /\ RoverOn(l, v)

\* The free part at place i does not touch the next one.
Apart(d, l, i) == i \in 1..(Len(l) - 1) => End(d, l[i]) < d[l[i + 1]].start

AllApart(d, l) == \A i \in Int : Apart(d, l, i)

\* t is l with m at place k.
OneMore(l, m, k, t) ==
  /\ t \in Seq(MDs) /\ Len(t) = Len(l) + 1
  /\ \A j \in 1..(Len(l) + 1) : t[j] = IF j < k THEN l[j] ELSE IF j = k THEN m ELSE l[j - 1]

\* The free parts that start below m are those in front of place k.
Between(d, l, m, k) ==
  /\ k \in 1..(Len(l) + 1)
  /\ \A j \in 1..Len(l) : j < k => d[l[j]].start < d[m].start
  /\ \A j \in 1..Len(l) : j >= k => d[m].start <= d[l[j]].start

\* What a call of Join leaves of h. The taken MDs are A.
Kept(h, g, A, k) ==
  /\ Good(g.md, g.list, g.rover, A)
  /\ \A p \in A : g.md[p] = h.md[p]
  /\ \A i \in Int : i < k /\ Apart(h.md, h.list, i) => Apart(g.md, g.list, i)
  /\ Apart(h.md, h.list, k + 1) => Apart(g.md, g.list, k)
  /\ \A i \in Int : i > k /\ Apart(h.md, h.list, i) /\ Apart(h.md, h.list, i + 1)
                      => Apart(g.md, g.list, i)

IInv ==
  /\ Good(md, mfl, rover, mal)
  /\ AllApart(md, mfl)
  /\ use_count \in 1..MaxUse /\ Heap!RetOK

-----------------------------------------------------------------------------
(* Numbers and sequences *)

(* A set of numbers that is not empty has a lowest one. *)
LEMMA LowestIn ==
  ASSUME NEW S, S \subseteq Nat, S # {}
  PROVE  \E x \in S : \A y \in S : x <= y
<1>1. PICK x \in S : \A y \in S : ~(<<y, x>> \in OpToRel(<, Nat))
  BY WFMin, NatLessThanWellFounded
<1>2. \A y \in S : ~(y < x)
  BY <1>1, Zenon DEF OpToRel
<1> QED
  BY <1>2

(* A set of numbers up to n that is not empty has a highest one. *)
LEMMA HighestIn ==
  ASSUME NEW n \in Nat, NEW S, S \subseteq 0..n, S # {}
  PROVE  \E x \in S : \A y \in S : y <= x
<1> DEFINE T == {n - x : x \in S}
<1>1. T \subseteq Nat /\ T # {}
  <2>1. ASSUME NEW x \in S PROVE n - x \in Nat
    <3>1. x \in 0..n
      OBVIOUS
    <3> QED
      BY <3>1
  <2>2. PICK x \in S : TRUE
    OBVIOUS
  <2>3. n - x \in T
    BY <2>2
  <2> QED
    BY <2>1, <2>3
<1>2. PICK t \in T : \A u \in T : t <= u
  BY <1>1, LowestIn
<1>3. PICK x \in S : t = n - x
  BY <1>2
<1>4. ASSUME NEW y \in S PROVE y <= x
  <2>1. n - x <= n - y
    BY <1>2, <1>3
  <2>2. x \in 0..n /\ y \in 0..n
    BY <1>3
  <2> QED
    BY <2>1, <2>2
<1> QED
  BY <1>4

(* Without leaves out one element of a list. *)
LEMMA WithoutOne ==
  ASSUME NEW S, NEW s \in Seq(S), NEW k \in 1..Len(s)
  PROVE  /\ Without(s, k) \in Seq(S) /\ Len(Without(s, k)) = Len(s) - 1
         /\ \A j \in 1..(Len(s) - 1) : Without(s, k)[j] = IF j < k THEN s[j] ELSE s[j + 1]
<1> DEFINE a == SubSeq(s, 1, k - 1)
           b == SubSeq(s, k + 1, Len(s))
<1>1. Len(s) \in Nat /\ \A i \in 1..Len(s) : s[i] \in S
  BY ElementOfSeq
<1>2. a \in Seq(S) /\ Len(a) = k - 1 /\ \A i \in 1..(k - 1) : a[i] = s[i]
  <2>1. \A i \in 1..(k - 1) : s[i] \in S
    BY <1>1
  <2> QED
    BY <1>1, <2>1, SubSeqProperties
<1>3. b \in Seq(S) /\ Len(b) = Len(s) - k /\ \A i \in 1..(Len(s) - k) : b[i] = s[k + i]
  <2>1. \A i \in (k + 1)..Len(s) : s[i] \in S
    BY <1>1
  <2>2. /\ b \in Seq(S) /\ Len(b) = IF k + 1 <= Len(s) THEN Len(s) - (k + 1) + 1 ELSE 0
        /\ \A i \in 1..(Len(s) - (k + 1) + 1) : b[i] = s[(k + 1) + i - 1]
    BY <1>1, <2>1, SubSeqProperties
  <2>3. \A i \in 1..(Len(s) - k) : i \in 1..(Len(s) - (k + 1) + 1) /\ (k + 1) + i - 1 = k + i
    BY <1>1
  <2> QED
    BY <1>1, <2>2, <2>3
<1>4. Without(s, k) = a \o b
  BY DEF Without
<1> HIDE DEF a, b
<1>5. /\ a \o b \in Seq(S) /\ Len(a \o b) = Len(a) + Len(b)
      /\ \A i \in 1..(Len(a) + Len(b)) : (a \o b)[i] = IF i <= Len(a) THEN a[i] ELSE b[i - Len(a)]
  BY <1>2, <1>3, ConcatProperties
<1>6. \A j \in 1..(Len(s) - 1) : (a \o b)[j] = IF j < k THEN s[j] ELSE s[j + 1]
  <2> SUFFICES ASSUME NEW j \in 1..(Len(s) - 1)
               PROVE  (a \o b)[j] = IF j < k THEN s[j] ELSE s[j + 1]
    OBVIOUS
  <2>1. (a \o b)[j] = IF j <= k - 1 THEN a[j] ELSE b[j - (k - 1)]
    BY <1>1, <1>2, <1>3, <1>5
  <2>2. CASE j < k
    BY <1>1, <1>2, <2>1, <2>2
  <2>3. CASE j >= k
    <3>1. j - (k - 1) \in 1..(Len(s) - k) /\ k + (j - (k - 1)) = j + 1
      BY <1>1, <2>3
    <3>2. b[j - (k - 1)] = s[j + 1]
      BY <1>3, <3>1
    <3>3. ~(j <= k - 1) /\ ~(j < k)
      BY <1>1, <2>3
    <3> QED
      BY <2>1, <3>2, <3>3
  <2>4. j < k \/ j >= k
    BY <1>1
  <2> QED
    BY <2>2, <2>3, <2>4, Zenon
<1> QED
  BY <1>1, <1>2, <1>3, <1>4, <1>5, <1>6

(* A list with one more element at place k, as freeit makes it. *)
LEMMA WithOneMore ==
  ASSUME NEW s \in Seq(MDs), NEW m \in MDs, NEW k \in 1..(Len(s) + 1)
  PROVE  OneMore(s, m, k, SubSeq(s, 1, k - 1) \o <<m>> \o SubSeq(s, k, Len(s)))
<1> DEFINE S == MDs
<1> HIDE DEF S
<1>0. s \in Seq(S) /\ m \in S
  BY DEF S
<1> DEFINE a == SubSeq(s, 1, k - 1)
           b == SubSeq(s, k, Len(s))
           c == <<m>>
<1>1. Len(s) \in Nat /\ \A i \in 1..Len(s) : s[i] \in S
  BY <1>0, ElementOfSeq
<1>2. a \in Seq(S) /\ Len(a) = k - 1 /\ \A i \in 1..(k - 1) : a[i] = s[i]
  <2>1. \A i \in 1..(k - 1) : s[i] \in S
    BY <1>1
  <2> QED
    BY <1>1, <2>1, SubSeqProperties
<1>3. b \in Seq(S) /\ Len(b) = Len(s) - k + 1 /\ \A i \in 1..(Len(s) - k + 1) : b[i] = s[k + i - 1]
  <2>1. \A i \in k..Len(s) : s[i] \in S
    BY <1>1
  <2>2. /\ b \in Seq(S) /\ Len(b) = IF k <= Len(s) THEN Len(s) - k + 1 ELSE 0
        /\ \A i \in 1..(Len(s) - k + 1) : b[i] = s[k + i - 1]
    BY <1>1, <2>1, SubSeqProperties
  <2> QED
    BY <1>1, <2>2
<1>4. c \in Seq(S) /\ Len(c) = 1 /\ c[1] = m
  BY <1>0
<1> HIDE DEF a, b, c
<1>6. /\ a \o c \in Seq(S) /\ Len(a \o c) = k
      /\ \A i \in 1..k : (a \o c)[i] = IF i < k THEN s[i] ELSE m
  <2>1. /\ a \o c \in Seq(S) /\ Len(a \o c) = Len(a) + Len(c)
        /\ \A i \in 1..(Len(a) + Len(c)) : (a \o c)[i] = IF i <= Len(a) THEN a[i] ELSE c[i - Len(a)]
    BY <1>2, <1>4, ConcatProperties
  <2>2. Len(a) = k - 1 /\ Len(c) = 1 /\ k \in Nat
    BY <1>1, <1>2, <1>4
  <2>3. ASSUME NEW i \in 1..k PROVE (a \o c)[i] = IF i < k THEN s[i] ELSE m
    <3>1. (a \o c)[i] = IF i <= k - 1 THEN a[i] ELSE c[i - (k - 1)]
      BY <2>1, <2>2
    <3>2. CASE i < k
      BY <3>1, <3>2, <2>2, <1>2
    <3>3. CASE i = k
      <4>1. i - (k - 1) = 1 /\ ~(i <= k - 1)
        BY <3>3, <2>2
      <4> QED
        BY <3>1, <3>3, <4>1, <1>4, <2>2
    <3>4. i < k \/ i = k
      BY <2>2
    <3> QED
      BY <3>2, <3>3, <3>4
  <2> QED
    BY <2>1, <2>2, <2>3
<1> DEFINE t == (a \o c) \o b
<1>7. /\ t \in Seq(S) /\ Len(t) = Len(a \o c) + Len(b)
      /\ \A i \in 1..(Len(a \o c) + Len(b)) :
           t[i] = IF i <= Len(a \o c) THEN (a \o c)[i] ELSE b[i - Len(a \o c)]
  <2> DEFINE e == a \o c
  <2>1. e \in Seq(S)
    BY <1>6
  <2> HIDE DEF e
  <2>2. /\ e \o b \in Seq(S) /\ Len(e \o b) = Len(e) + Len(b)
        /\ \A i \in 1..(Len(e) + Len(b)) : (e \o b)[i] = IF i <= Len(e) THEN e[i] ELSE b[i - Len(e)]
    BY <1>3, <2>1, ConcatProperties
  <2> QED
    BY <2>2 DEF e
<1> HIDE DEF t
<1>8. \A j \in 1..(Len(s) + 1) : t[j] = IF j < k THEN s[j] ELSE IF j = k THEN m ELSE s[j - 1]
  <2> SUFFICES ASSUME NEW j \in 1..(Len(s) + 1)
               PROVE  t[j] = IF j < k THEN s[j] ELSE IF j = k THEN m ELSE s[j - 1]
    OBVIOUS
  <2>0. Len(a \o c) + Len(b) = Len(s) + 1 /\ Len(s) \in Nat
    BY <1>1, <1>3, <1>6
  <2>1. t[j] = IF j <= k THEN (a \o c)[j] ELSE b[j - k]
    BY <1>6, <1>7, <2>0
  <2>2. CASE j <= k
    BY <1>1, <1>6, <2>1, <2>2
  <2>3. CASE j > k
    <3>1. j - k \in 1..(Len(s) - k + 1) /\ k + (j - k) - 1 = j - 1
      BY <1>1, <2>3
    <3>2. b[j - k] = s[j - 1]
      BY <1>3, <3>1
    <3> QED
      BY <1>1, <2>1, <2>3, <3>2
  <2> QED
    BY <1>1, <2>2, <2>3
<1>9. Len(t) = Len(s) + 1
  BY <1>1, <1>3, <1>6, <1>7
<1> QED
  BY <1>7, <1>8, <1>9 DEF OneMore, S, t, a, b, c

-----------------------------------------------------------------------------
(* Joining, linking and taking keep the pool divided *)

(* What Typed says of one MD. *)
LEMMA Fields ==
  ASSUME NEW d, NEW l, NEW v, NEW A, Good(d, l, v, A)
  PROVE  /\ Len(l) \in Nat /\ l \in Seq(MDs)
         /\ \A i \in 1..Len(l) : l[i] \in MDs /\ l[i] \in Owned(d)
         /\ A \subseteq MDs /\ A \subseteq Owned(d)
         /\ \A p \in MDs : /\ d[p].start \in Int /\ d[p].len \in Int /\ d[p].own \in BOOLEAN
                          /\ d[p].start >= 0 /\ d[p].len >= 0 /\ p >= 0
<1>1. d \in [MDs -> MDRec] /\ l \in Seq(MDs) /\ A \subseteq MDs
  BY DEF Good, Typed
<1>2. Len(l) \in Nat /\ \A i \in 1..Len(l) : l[i] \in MDs
  BY <1>1, ElementOfSeq
<1>3. ASSUME NEW p \in MDs
      PROVE  /\ d[p].start \in 0..Pool /\ d[p].len \in 0..Pool /\ d[p].own \in BOOLEAN /\ p \in 0..(MaxMD - 1)
  <2>1. d[p] \in MDRec
    BY <1>1
  <2> QED
    BY <2>1 DEF MDRec, MDs
<1>4. \A i \in 1..Len(l) : l[i] \in Owned(d)
  BY <1>2 DEF Good, Linked, Owned
<1>5. A \subseteq Owned(d)
  BY <1>1 DEF Good, Linked, Owned
<1> QED
  BY <1>1, <1>2, <1>3, <1>4, <1>5, DriverMemAssumption

(* A descriptor whose length is set. *)
LEMMA LenSet ==
  ASSUME NEW r \in MDRec, NEW n \in 0..Pool
  PROVE  LET x == [r EXCEPT !.len = n]
         IN  x \in MDRec /\ x.start = r.start /\ x.len = n /\ x.own = r.own
  BY DEF MDRec

(* The MDs after a join of low with high. *)
Merged(d, low, high) == xmfreblk(Resized(d, low, d[low].len + d[high].len), high)

(* The MDs after a join. The upper one is never the MD at index 0, which     *)
(* xmfreblk could not give back, because that one starts the pool.           *)
LEMMA JoinedMDs ==
  ASSUME NEW d \in [MDs -> MDRec], Divided(d), NEW low \in Owned(d), NEW high \in Owned(d),
         low # high, End(d, low) = d[high].start
  PROVE  /\ Merged(d, low, high) \in [MDs -> MDRec]
         /\ Merged(d, low, high)[low].start = d[low].start
         /\ Merged(d, low, high)[low].own
         /\ Merged(d, low, high)[low].len = d[low].len + d[high].len
         /\ Merged(d, low, high)[high] = Unowned
         /\ \A p \in MDs \ {low, high} : Merged(d, low, high)[p] = d[p]
<1> DEFINE n == d[low].len + d[high].len
           new == [d[low] EXCEPT !.len = n]
           f == [d EXCEPT ![low] = new]
           e == [f EXCEPT ![high] = Unowned]
<1> HIDE DEF n, new, f, e
<1>2. low \in MDs /\ high \in MDs
  BY DEF Owned
<1>4. End(d, high) <= Pool /\ d[low].len > 0 /\ d[high].len > 0
  BY DEF Divided
<1>5. Unowned \in MDRec
  BY DriverMemAssumption DEF Unowned, MDRec
<1>6. d[low] \in MDRec /\ d[high] \in MDRec /\ d[low].own
  <2>1. d[low] \in MDRec /\ d[high] \in MDRec
    BY <1>2
  <2> QED
    BY <2>1 DEF Owned, MDRec
<1>7. /\ d[low].start \in Int /\ d[low].len \in Int /\ d[high].start \in Int /\ d[high].len \in Int
      /\ d[low].start >= 0 /\ high \in Int /\ high >= 0 /\ Pool \in Int
  BY <1>2, <1>6, DriverMemAssumption DEF MDs, MDRec
<1>8. high > 0
  <2>1. high # 0
    BY <1>4, <1>7 DEF Divided, End
  <2> QED
    BY <1>7, <2>1
<1>9. n \in 0..Pool
  <2>1. /\ d[high].start + d[high].len <= Pool /\ d[low].start + d[low].len = d[high].start
    BY <1>4 DEF End
  <2>2. n = d[low].len + d[high].len
    BY DEF n
  <2>3. d[low].len + d[high].len \in Int /\ d[low].len + d[high].len >= 0
    BY <1>4, <1>7
  <2>4. d[low].start + (d[low].len + d[high].len) <= Pool
    BY <1>7, <2>1
  <2> QED
    BY <1>7, <2>2, <2>3, <2>4
<1>10. new \in MDRec /\ new.start = d[low].start /\ new.len = n /\ new.own
  BY <1>6, <1>9, LenSet DEF new
<1>11. /\ f \in [MDs -> MDRec] /\ f[low] = new /\ \A p \in MDs \ {low} : f[p] = d[p]
  BY <1>2, <1>10 DEF f
<1>12. /\ e \in [MDs -> MDRec] /\ e[low] = new /\ e[high] = Unowned
       /\ \A p \in MDs \ {low, high} : e[p] = d[p]
  BY <1>2, <1>5, <1>11 DEF e
<1>13. xmfreblk(f, high) = e
  BY <1>8 DEF xmfreblk, e
<1>14. /\ e \in [MDs -> MDRec] /\ e[low].start = d[low].start /\ e[low].own
       /\ e[low].len = n /\ e[high] = Unowned /\ \A p \in MDs \ {low, high} : e[p] = d[p]
  BY <1>10, <1>12
<1>15. Merged(d, low, high) = e
  BY <1>13 DEF f, new, n, Resized, Merged
<1> QED
  BY <1>14, <1>15 DEF n

(* Two free parts that touch become one part, and the rest stays as it was.  *)
LEMMA Joined ==
  ASSUME NEW d, NEW l, NEW v, NEW A, Good(d, l, v, A), NEW k \in 1..(Len(l) - 1),
         End(d, l[k]) = d[l[k + 1]].start,
         NEW e, e = Merged(d, l[k], l[k + 1]),
         NEW m, m = Without(l, k + 1),
         NEW w, w = IF v = l[k + 1] THEN l[k] ELSE v
  PROVE  /\ Good(e, m, w, A)
         /\ \A p \in A : e[p] = d[p]
         /\ \A i \in Int : i < k /\ Apart(d, l, i) => Apart(e, m, i)
         /\ \A i \in Int : i >= k /\ Apart(d, l, i + 1) => Apart(e, m, i)
<1> DEFINE low == l[k]
           high == l[k + 1]
           L == Len(l)
           At(j) == IF j <= k THEN j ELSE j + 1
<1>1. L \in Nat /\ L > k /\ k \in 1..L /\ k + 1 \in 1..L /\ k \in Nat /\ l \in Seq(MDs)
  BY Fields
<1>2. /\ m \in Seq(MDs) /\ Len(m) = L - 1
      /\ \A j \in 1..(L - 1) : At(j) \in 1..L /\ At(j) # k + 1 /\ m[j] = l[At(j)]
  <2>1. /\ m \in Seq(MDs) /\ Len(m) = L - 1
        /\ \A j \in 1..(L - 1) : m[j] = IF j < k + 1 THEN l[j] ELSE l[j + 1]
    BY <1>1, WithoutOne
  <2> QED
    BY <1>1, <2>1
<1>4. /\ \A i, j \in 1..L : i # j => l[i] # l[j]
      /\ \A i \in 1..L : l[i] \in MDs /\ l[i] \in Owned(d) /\ l[i] \notin A
  BY Fields DEF Good, Linked
<1>5. /\ \A p \in MDs : /\ d[p].start \in Int /\ d[p].len \in Int /\ d[p].own \in BOOLEAN
                        /\ d[p].start >= 0 /\ d[p].len >= 0
      /\ A \subseteq MDs /\ Pool \in Int
  BY Fields, DriverMemAssumption
<1>6. /\ low \in MDs /\ high \in MDs /\ low \in Owned(d) /\ high \in Owned(d) /\ low # high
      /\ low \notin A /\ high \notin A
  BY <1>1, <1>4
<1>7. End(d, low) = d[high].start
  OBVIOUS
<1>8. w = IF v = high THEN low ELSE v
  OBVIOUS
<1>0. Divided(d) /\ d \in [MDs -> MDRec] /\ e = Merged(d, low, high)
  BY DEF Good, Typed
<1> HIDE DEF low, high, L
<1>3. /\ e \in [MDs -> MDRec] /\ e[low].start = d[low].start /\ e[low].own
      /\ e[low].len = d[low].len + d[high].len /\ e[high] = Unowned
      /\ \A p \in MDs \ {low, high} : e[p] = d[p]
  BY <1>0, <1>6, <1>7, JoinedMDs
<1>9. Owned(e) = Owned(d) \ {high}
  BY <1>3, <1>6 DEF Owned, Unowned
<1>10. /\ \A p \in Owned(d) : p \in MDs /\ d[p].len > 0 /\ End(d, p) <= Pool
       /\ \A p, q \in Owned(d) : p # q => End(d, p) <= d[q].start \/ End(d, q) <= d[p].start
       /\ 0 \in Owned(d) /\ d[0].start = 0
  BY DEF Good, Divided, Owned
<1>11. End(e, low) = End(d, high)
  BY <1>3, <1>5, <1>6, <1>7 DEF End
<1>12. \A p \in Owned(e) \ {low} : e[p] = d[p] /\ End(e, p) = End(d, p)
  BY <1>3, <1>9, <1>10 DEF End
<1>13. \A p \in Owned(e) : e[p].start = d[p].start /\ p \in Owned(d)
  BY <1>3, <1>9, <1>12
<1>14. \A p \in MDs : End(d, p) \in Int /\ End(d, p) = d[p].start + d[p].len
  BY <1>5 DEF End
<1>15. Divided(e)
  <2>1. ASSUME NEW p \in Owned(e) PROVE e[p].len > 0 /\ End(e, p) <= Pool
    BY <1>3, <1>5, <1>6, <1>9, <1>10, <1>11, <1>12
  <2>2. ASSUME NEW q \in Owned(e), q # low
        PROVE  End(d, high) <= d[q].start \/ End(d, q) <= d[low].start
    <3>1. q \in Owned(d) /\ q # high /\ q \in MDs
      BY <1>9, <1>10
    <3>2. End(d, high) <= d[q].start \/ End(d, q) <= d[high].start
      BY <3>1, <1>6, <1>10
    <3>3. End(d, low) <= d[q].start \/ End(d, q) <= d[low].start
      BY <2>2, <3>1, <1>6, <1>10
    <3>4. /\ d[low].start \in Int /\ d[q].start \in Int /\ d[q].len > 0 /\ d[q].len \in Int
          /\ End(d, q) = d[q].start + d[q].len
          /\ End(d, q) \in Int /\ End(d, high) \in Int /\ End(d, low) \in Int
      BY <3>1, <1>5, <1>6, <1>10, <1>14
    <3> QED
      BY <3>2, <3>3, <3>4, <1>7
  <2>3. ASSUME NEW p \in Owned(e), NEW q \in Owned(e), p # q
        PROVE  End(e, p) <= e[q].start \/ End(e, q) <= e[p].start
    <3>1. CASE p = low
      BY <2>2, <2>3, <3>1, <1>11, <1>12, <1>13
    <3>2. CASE q = low
      BY <2>2, <2>3, <3>2, <1>11, <1>12, <1>13
    <3>3. CASE p # low /\ q # low
      BY <2>3, <3>3, <1>10, <1>12, <1>13
    <3> QED
      BY <3>1, <3>2, <3>3
  <2>4. ASSUME NEW g \in 0..(Pool - 1)
        PROVE  \E p \in Owned(e) : e[p].start <= g /\ g < End(e, p)
    <3>1. PICK p \in Owned(d) : d[p].start <= g /\ g < End(d, p)
      BY DEF Good, Divided
    <3>2. low \in Owned(e)
      BY <1>6, <1>9
    <3>3. CASE p \in {low, high}
      <4>1. d[low].start <= g /\ g < End(d, high)
        <5>1. /\ d[low].start \in Int /\ d[high].start \in Int /\ g \in Int
              /\ End(d, high) \in Int /\ End(d, low) \in Int
              /\ d[low].start <= End(d, low) /\ d[high].start <= End(d, high)
          BY <1>5, <1>6, <1>14
        <5>2. CASE p = low
          BY <3>1, <5>1, <5>2, <1>7
        <5>3. CASE p = high
          BY <3>1, <5>1, <5>3, <1>7
        <5> QED
          BY <3>3, <5>2, <5>3
      <4> QED
        BY <3>2, <4>1, <1>3, <1>11
    <3>4. CASE p \notin {low, high}
      <4>1. p \in Owned(e) /\ p # low
        BY <3>4, <1>9
      <4> QED
        BY <3>1, <4>1, <1>12
    <3> QED
      BY <3>3, <3>4
  <2>5. 0 \in Owned(e) /\ e[0].start = 0
    <3>1. high # 0
      BY <1>5, <1>6, <1>7, <1>10, <1>14
    <3> QED
      BY <3>1, <1>9, <1>10, <1>13
  <2> QED
    BY <2>1, <2>3, <2>4, <2>5 DEF Divided
<1>16. ASSUME NEW x \in 1..L, x # k + 1
       PROVE  \E i \in 1..(L - 1) : m[i] = l[x]
  <2>1. CASE x <= k
    <3>1. x \in 1..(L - 1) /\ At(x) = x
      BY <1>1, <2>1
    <3> QED
      BY <3>1, <1>2
  <2>2. CASE x > k
    <3>1. x - 1 \in 1..(L - 1) /\ At(x - 1) = x
      BY <1>1, <1>16, <2>2
    <3> QED
      BY <3>1, <1>2
  <2> QED
    BY <1>1, <2>1, <2>2
<1>17. \A i, j \in 1..(L - 1) : (i # j => At(i) # At(j)) /\ (i < j => At(i) < At(j))
  BY <1>1
<1>18. Linked(e, m, A)
  <2>1. ASSUME NEW i \in 1..(L - 1), NEW j \in 1..(L - 1), i # j PROVE m[i] # m[j]
    <3>1. At(i) # At(j)
      BY <2>1, <1>17
    <3> HIDE DEF At
    <3> QED
      BY <3>1, <1>2, <1>4
  <2>2. \A i \in 1..(L - 1) : m[i] \notin A /\ m[i] # high
    <3> SUFFICES ASSUME NEW i \in 1..(L - 1) PROVE m[i] \notin A /\ m[i] # high
      OBVIOUS
    <3>1. At(i) \in 1..L /\ At(i) # k + 1 /\ m[i] = l[At(i)]
      BY <1>2
    <3> HIDE DEF At
    <3> QED
      BY <3>1, <1>1, <1>4 DEF high
  <2>3. ASSUME NEW p \in MDs
        PROVE  e[p].own <=> (p \in A \/ \E i \in 1..(L - 1) : m[i] = p)
    <3>1. CASE p = high
      BY <3>1, <2>2, <1>3, <1>6 DEF Unowned
    <3>2. CASE p # high
      <4>1. e[p].own <=> d[p].own
        BY <3>2, <1>3, <1>6 DEF Owned
      <4>2. d[p].own <=> (p \in A \/ \E i \in 1..L : l[i] = p)
        BY DEF Good, Linked, L
      <4>3. ASSUME NEW i \in 1..L, l[i] = p PROVE \E j \in 1..(L - 1) : m[j] = p
        <5>1. i # k + 1
          BY <3>2, <4>3 DEF high
        <5> QED
          BY <5>1, <4>3, <1>16
      <4>4. ASSUME NEW j \in 1..(L - 1), m[j] = p PROVE \E i \in 1..L : l[i] = p
        BY <4>4, <1>2
      <4> QED
        BY <4>1, <4>2, <4>3, <4>4
    <3> QED
      BY <3>1, <3>2
  <2> QED
    BY <2>1, <2>2, <2>3, <1>2 DEF Linked
<1>19. ASSUME NEW j \in 1..(L - 1)
       PROVE  /\ m[j] \in Owned(e) /\ e[m[j]].start = d[l[At(j)]].start
              /\ End(e, m[j]) = End(d, l[IF j = k THEN k + 1 ELSE At(j)])
  <2>1. At(j) \in 1..L /\ At(j) # k + 1 /\ m[j] = l[At(j)] /\ (At(j) = k <=> j = k)
    BY <1>1, <1>2
  <2> HIDE DEF At
  <2>2. m[j] \in Owned(e)
    BY <2>1, <1>1, <1>4, <1>9 DEF high
  <2>3. CASE j = k
    BY <2>1, <2>2, <2>3, <1>11, <1>13 DEF low, high
  <2>4. CASE j # k
    <3>1. m[j] # low
      BY <2>1, <2>4, <1>1, <1>4 DEF low
    <3> QED
      BY <2>1, <2>2, <2>4, <3>1, <1>12
  <2> QED
    BY <2>3, <2>4
<1>20. \A i, j \in 1..L : i < j => End(d, l[i]) <= d[l[j]].start
  BY DEF Good, Sorted, L
<1>21. Sorted(e, m)
  <2> SUFFICES ASSUME NEW i \in 1..(L - 1), NEW j \in 1..(L - 1), i < j
               PROVE  End(e, m[i]) <= e[m[j]].start
    BY <1>2 DEF Sorted
  <2> DEFINE x == IF i = k THEN k + 1 ELSE At(i)
  <2>1. x \in 1..L /\ At(j) \in 1..L /\ x < At(j)
    BY <1>1
  <2>2. End(e, m[i]) = End(d, l[x]) /\ e[m[j]].start = d[l[At(j)]].start
    BY <1>19
  <2> QED
    BY <2>1, <2>2, <1>20
<1>22. RoverOn(m, w)
  <2>1. L # 0 /\ L - 1 # 0
    BY <1>1
  <2>2. PICK x \in 1..L : l[x] = v
    BY <2>1 DEF Good, RoverOn, L
  <2>3. CASE x = k + 1
    <3>1. w = l[k] /\ k # k + 1
      BY <2>2, <2>3, <1>1, <1>8 DEF low, high
    <3> QED
      BY <3>1, <2>1, <1>1, <1>2, <1>16 DEF RoverOn
  <2>4. CASE x # k + 1
    <3>1. w = l[x]
      BY <2>2, <2>4, <1>1, <1>4, <1>8 DEF high
    <3> QED
      BY <3>1, <2>1, <2>4, <1>2, <1>16 DEF RoverOn
  <2> QED
    BY <2>3, <2>4
<1>23. Typed(e, m, w, A)
  <2>1. w \in MDs \cup {NoMD}
    BY <1>6, <1>8 DEF Good, Typed
  <2> QED
    BY <2>1, <1>2, <1>3, <1>5 DEF Typed
<1>24. \A p \in A : e[p] = d[p]
  BY <1>3, <1>5, <1>6
<1>25. ASSUME NEW i \in Int, i < k /\ Apart(d, l, i) PROVE Apart(e, m, i)
  <2> SUFFICES ASSUME i \in 1..(L - 2) PROVE End(e, m[i]) < e[m[i + 1]].start
    BY <1>1, <1>2 DEF Apart
  <2>1. i \in 1..(L - 1) /\ i + 1 \in 1..(L - 1) /\ At(i) = i /\ At(i + 1) = i + 1 /\ i # k
    BY <1>1, <1>25
  <2>2. End(e, m[i]) = End(d, l[i]) /\ e[m[i + 1]].start = d[l[i + 1]].start
    BY <2>1, <1>19
  <2> QED
    BY <2>1, <2>2, <1>25 DEF Apart, L
<1>26. ASSUME NEW i \in Int, i >= k /\ Apart(d, l, i + 1) PROVE Apart(e, m, i)
  <2> SUFFICES ASSUME i \in 1..(L - 2) PROVE End(e, m[i]) < e[m[i + 1]].start
    BY <1>1, <1>2 DEF Apart
  <2>1. /\ i \in 1..(L - 1) /\ i + 1 \in 1..(L - 1) /\ At(i + 1) = (i + 1) + 1
        /\ (IF i = k THEN k + 1 ELSE At(i)) = i + 1
    BY <1>1, <1>26
  <2>2. End(e, m[i]) = End(d, l[i + 1]) /\ e[m[i + 1]].start = d[l[(i + 1) + 1]].start
    BY <2>1, <1>19
  <2> QED
    BY <2>1, <2>2, <1>26 DEF Apart, L
<1> QED
  BY <1>15, <1>18, <1>21, <1>22, <1>23, <1>24, <1>25, <1>26 DEF Good

(* A call of Join, whether the two parts touch or not: parts that were kept  *)
(* apart stay so, and afterwards the part at place k is apart from the next. *)
LEMMA JoinKeeps ==
  ASSUME NEW h, NEW A, Good(h.md, h.list, h.rover, A), NEW k \in Int, NEW g, g = Join(h, k)
  PROVE  Kept(h, g, A, k)
<1> DEFINE d == h.md
           l == h.list
           v == h.rover
<1>1. CASE Touches(h, k)
  <2>1. k \in 1..(Len(l) - 1) /\ End(d, l[k]) = d[l[k + 1]].start
    BY <1>1 DEF Touches, End
  <2> DEFINE e == Merged(d, l[k], l[k + 1])
             m == Without(l, k + 1)
             w == IF v = l[k + 1] THEN l[k] ELSE v
  <2>2. g = [md |-> e, list |-> m, rover |-> w]
    BY <1>1 DEF Join, Merged
  <2>3. g.md = e /\ g.list = m /\ g.rover = w
    BY <2>2
  <2>4. e = Merged(d, l[k], l[k + 1]) /\ m = Without(l, k + 1) /\ w = IF v = l[k + 1] THEN l[k] ELSE v
    OBVIOUS
  <2>5. Good(d, l, v, A)
    OBVIOUS
  <2> HIDE DEF e, m, w, d, l, v
  <2>6. /\ Good(e, m, w, A)
        /\ \A p \in A : e[p] = d[p]
        /\ \A i \in Int : i < k /\ Apart(d, l, i) => Apart(e, m, i)
        /\ \A i \in Int : i >= k /\ Apart(d, l, i + 1) => Apart(e, m, i)
    BY <2>1, <2>4, <2>5, Joined
  <2> QED
    BY <2>3, <2>6 DEF Kept, d, l, v
<1>2. CASE ~Touches(h, k)
  <2>1. g = h
    BY <1>2 DEF Join
  <2>2. Apart(d, l, k)
    <3> SUFFICES ASSUME k \in 1..(Len(l) - 1) PROVE End(d, l[k]) < d[l[k + 1]].start
      BY DEF Apart
    <3>1. End(d, l[k]) # d[l[k + 1]].start
      BY <1>2 DEF Touches, End
    <3>2. /\ Len(l) \in Nat /\ l[k] \in MDs /\ l[k + 1] \in MDs
          /\ \A p \in MDs : d[p].start \in Int /\ d[p].len \in Int
      <4> HIDE DEF d, l, v
      <4>1. Good(d, l, v, A)
        BY DEF d, l, v
      <4>2. /\ Len(l) \in Nat /\ \A i \in 1..Len(l) : l[i] \in MDs
            /\ \A p \in MDs : d[p].start \in Int /\ d[p].len \in Int
        BY <4>1, Fields
      <4> QED
        BY <4>2
    <3>3. End(d, l[k]) <= d[l[k + 1]].start
      BY <3>2 DEF Good, Sorted
    <3>4. d[l[k]].start \in Int /\ d[l[k]].len \in Int /\ d[l[k + 1]].start \in Int
      BY <3>2
    <3> QED
      BY <3>1, <3>3, <3>4 DEF End
  <2> QED
    BY <2>1, <2>2 DEF Kept
<1> QED
  BY <1>1, <1>2

(* A MD that is linked at its place by address, before any join.             *)
LEMMA Inserted ==
  ASSUME NEW d, NEW l, NEW v, NEW A, Good(d, l, v, A), AllApart(d, l),
         NEW m \in A, NEW s, Between(d, l, m, s), NEW t, OneMore(l, m, s, t)
  PROVE  /\ Good(d, t, IF v = NoMD THEN m ELSE v, A \ {m})
         /\ \A i \in Int : i < s - 1 \/ i > s => Apart(d, t, i)
<1> DEFINE w == IF v = NoMD THEN m ELSE v
<1> USE DEF Between, OneMore, AllApart
<1> DEFINE L == Len(l)
<1>1. /\ L \in Nat /\ s \in Nat
      /\ \A i \in 1..L : l[i] \in MDs /\ l[i] \in Owned(d) /\ l[i] \notin A
      /\ \A i, j \in 1..L : i # j => l[i] # l[j]
      /\ \A i, j \in 1..L : i < j => End(d, l[i]) <= d[l[j]].start
      /\ m \in MDs /\ m \in Owned(d) /\ A \subseteq MDs
  BY Fields DEF Good, Linked, Sorted
<1>2. \A p, q \in Owned(d) : /\ p # q => End(d, p) <= d[q].start \/ End(d, q) <= d[p].start
                             /\ d[p].len > 0 /\ d[p].start \in Int /\ d[p].len \in Int
                             /\ End(d, p) = d[p].start + d[p].len
  <2>1. Owned(d) \subseteq MDs
    BY DEF Owned
  <2> QED
    BY <2>1, Fields DEF Good, Divided, End
<1>3. /\ \A j \in 1..L : j < s => t[j] = l[j]
      /\ t[s] = m
      /\ \A j \in 1..L : j >= s => t[j + 1] = l[j]
  BY <1>1
<1>4. ASSUME NEW j \in 1..(L + 1) PROVE (j < s /\ j \in 1..L) \/ j = s \/ (j > s /\ j - 1 \in 1..L)
  BY <1>1
<1>5. \A j \in 1..L : m # l[j]
  BY <1>1
<1>6. \A j \in 1..L : /\ j < s => End(d, l[j]) <= d[m].start
                      /\ j >= s => End(d, m) <= d[l[j]].start
  <2> SUFFICES ASSUME NEW j \in 1..L
               PROVE  /\ j < s => End(d, l[j]) <= d[m].start
                      /\ j >= s => End(d, m) <= d[l[j]].start
    OBVIOUS
  <2>1. l[j] \in Owned(d) /\ m \in Owned(d) /\ m # l[j]
    BY <1>1, <1>5
  <2>2. End(d, l[j]) <= d[m].start \/ End(d, m) <= d[l[j]].start
    BY <2>1, <1>2
  <2>3. /\ d[l[j]].len > 0 /\ d[l[j]].start \in Int /\ d[l[j]].len \in Int
        /\ End(d, l[j]) = d[l[j]].start + d[l[j]].len
        /\ d[m].len > 0 /\ d[m].start \in Int /\ d[m].len \in Int /\ End(d, m) = d[m].start + d[m].len
    BY <2>1, <1>2
  <2>4. /\ j < s => d[l[j]].start < d[m].start
        /\ j >= s => d[m].start <= d[l[j]].start
    OBVIOUS
  <2>5. CASE j < s
    <3>1. d[l[j]].start < d[m].start
      BY <2>4, <2>5
    <3> QED
      BY <1>1, <2>2, <2>3, <2>5, <3>1
  <2>6. CASE j >= s
    <3>1. d[m].start <= d[l[j]].start
      BY <2>4, <2>6
    <3> QED
      BY <1>1, <2>2, <2>3, <2>6, <3>1
  <2> QED
    BY <1>1, <2>5, <2>6
<1>7. Linked(d, t, A \ {m})
  <2>1. ASSUME NEW i \in 1..(L + 1), NEW j \in 1..(L + 1), i # j PROVE t[i] # t[j]
    <3> DEFINE Of(x) == IF x < s THEN x ELSE x - 1
    <3>1. \A x \in 1..(L + 1) : x # s => Of(x) \in 1..L /\ t[x] = l[Of(x)]
      BY <1>1
    <3>2. i # s /\ j # s => Of(i) # Of(j)
      BY <2>1, <1>1
    <3> HIDE DEF Of
    <3>3. CASE i = s
      BY <2>1, <3>1, <3>3, <1>3, <1>5
    <3>4. CASE j = s
      BY <2>1, <3>1, <3>4, <1>3, <1>5
    <3>5. CASE i # s /\ j # s
      <4>1. Of(i) \in 1..L /\ Of(j) \in 1..L /\ Of(i) # Of(j)
        BY <3>1, <3>2, <3>5
      <4>2. t[i] = l[Of(i)] /\ t[j] = l[Of(j)]
        BY <3>1, <3>5
      <4> QED
        BY <4>1, <4>2, <1>1
    <3> QED
      BY <3>3, <3>4, <3>5
  <2>2. ASSUME NEW i \in 1..(L + 1) PROVE t[i] \notin A \ {m}
    <3>1. t[i] = m \/ \E j \in 1..L : t[i] = l[j]
      <4>1. CASE i = s
        BY <4>1, <1>3
      <4>2. CASE i < s
        <5>1. i \in 1..L
          BY <1>4, <4>2, <1>1
        <5> QED
          BY <5>1, <4>2, <1>3
      <4>3. CASE i > s
        <5>1. i - 1 \in 1..L
          BY <1>4, <4>3, <1>1
        <5>2. i - 1 >= s /\ (i - 1) + 1 = i
          BY <4>3, <1>1
        <5> QED
          BY <5>1, <5>2, <1>3
      <4> QED
        BY <4>1, <4>2, <4>3, <1>1
    <3>2. \A j \in 1..L : l[j] \notin A
      BY <1>1
    <3> QED
      BY <3>1, <3>2
  <2>3. ASSUME NEW p \in MDs
        PROVE  d[p].own <=> (p \in A \ {m} \/ \E i \in 1..(L + 1) : t[i] = p)
    <3>1. d[p].own <=> (p \in A \/ \E i \in 1..L : l[i] = p)
      BY DEF Good, Linked
    <3>2. ASSUME NEW i \in 1..L PROVE \E j \in 1..(L + 1) : t[j] = l[i]
      <4>1. i \in 1..(L + 1) /\ i + 1 \in 1..(L + 1)
        BY <1>1
      <4>2. t[i] = l[i] \/ t[i + 1] = l[i]
        BY <1>1, <1>3
      <4> QED
        BY <4>1, <4>2
    <3>3. \E j \in 1..(L + 1) : t[j] = m
      BY <1>1, <1>3
    <3>4. ASSUME NEW j \in 1..(L + 1) PROVE t[j] = m \/ \E i \in 1..L : l[i] = t[j]
      BY <1>4, <1>1
    <3> QED
      BY <3>1, <3>2, <3>3, <3>4
  <2> QED
    BY <2>1, <2>2, <2>3, <1>1 DEF Linked
<1>8. Sorted(d, t)
  <2> SUFFICES ASSUME NEW i \in 1..(L + 1), NEW j \in 1..(L + 1), i < j
               PROVE  End(d, t[i]) <= d[t[j]].start
    BY DEF Sorted
  <2>1. CASE j < s
    BY <2>1, <1>1, <1>3
  <2>2. CASE j = s
    <3>1. i \in 1..L /\ i < s
      BY <2>2, <1>1
    <3> QED
      BY <2>2, <3>1, <1>3, <1>6
  <2>3. CASE j > s
    <3>1. j - 1 \in 1..L /\ j - 1 >= s /\ t[j] = l[j - 1]
      BY <2>3, <1>1
    <3>2. CASE i < s
      <4>1. i \in 1..L /\ i < j - 1
        BY <3>1, <3>2, <1>1
      <4> QED
        BY <3>1, <3>2, <4>1, <1>1, <1>3
    <3>3. CASE i = s
      BY <3>1, <3>3, <1>3, <1>6
    <3>4. CASE i > s
      <4>1. i - 1 \in 1..L /\ i - 1 < j - 1 /\ t[i] = l[i - 1]
        BY <3>4, <1>1
      <4> QED
        BY <3>1, <4>1, <1>1
    <3> QED
      BY <3>2, <3>3, <3>4, <1>1
  <2> QED
    BY <2>1, <2>2, <2>3, <1>1
<1>9. RoverOn(t, w)
  <2>1. Len(t) # 0
    BY <1>1
  <2>2. CASE v = NoMD
    <3>1. w = m /\ s \in 1..Len(t)
      BY <2>2, <1>1
    <3> QED
      BY <2>1, <3>1, <1>3 DEF RoverOn
  <2>3. CASE v # NoMD
    <3>1. L # 0
      BY <2>3 DEF Good, RoverOn
    <3>2. PICK x \in 1..L : l[x] = v
      BY <3>1 DEF Good, RoverOn
    <3>3. x \in 1..Len(t) /\ x + 1 \in 1..Len(t) /\ (t[x] = v \/ t[x + 1] = v)
      BY <3>2, <1>1, <1>3
    <3>4. w = v
      BY <2>3
    <3> QED
      BY <2>1, <3>3, <3>4 DEF RoverOn
  <2> QED
    BY <2>2, <2>3
<1>10. Typed(d, t, w, A \ {m})
  <2>1. w \in MDs \cup {NoMD}
    BY <1>1 DEF Good, Typed
  <2> QED
    BY <2>1 DEF Good, Typed
<1>11. ASSUME NEW i \in Int, i < s - 1 \/ i > s PROVE Apart(d, t, i)
  <2> SUFFICES ASSUME i \in 1..L PROVE End(d, t[i]) < d[t[i + 1]].start
    BY <1>1 DEF Apart
  <2>1. CASE i < s - 1
    <3>1. i \in 1..(L - 1) /\ i + 1 \in 1..L /\ i < s /\ i + 1 < s
      BY <2>1, <1>1
    <3>2. t[i] = l[i] /\ t[i + 1] = l[i + 1]
      BY <3>1, <1>3
    <3> QED
      BY <3>1, <3>2 DEF Apart
  <2>2. CASE i > s
    <3>1. i - 1 \in 1..(L - 1) /\ (i - 1) + 1 = i
      BY <2>2, <1>1
    <3>2. t[i] = l[i - 1] /\ t[i + 1] = l[i]
      BY <2>2, <1>1
    <3>3. End(d, l[i - 1]) < d[l[(i - 1) + 1]].start
      BY <3>1 DEF Apart
    <3> QED
      BY <3>1, <3>2, <3>3
  <2> QED
    BY <1>11, <2>1, <2>2
<1> QED
  BY <1>7, <1>8, <1>9, <1>10, <1>11 DEF Good

(* Where freeit links a MD: behind the free parts that start below it.       *)
LEMMA SlotRight ==
  ASSUME Good(md, mfl, rover, mal), NEW m \in mal
  PROVE  Between(md, mfl, m, Slot(m))
<1> USE DEF Between
<1> DEFINE above == {k \in 1..Len(mfl) : md[m].start <= md[mfl[k]].start}
           L == Len(mfl)
<1>1. /\ L \in Nat /\ m \in MDs /\ \A i \in 1..L : mfl[i] \in Owned(md) /\ mfl[i] \in MDs
      /\ \A p \in MDs : md[p].start \in Int /\ md[p].len \in Int
  BY Fields
<1>2. \A i, j \in 1..L : i < j => End(md, mfl[i]) <= md[mfl[j]].start
  BY DEF Good, Sorted
<1>3. \A i \in 1..L : md[mfl[i]].len > 0
  BY <1>1 DEF Good, Divided
<1>4. CASE above = {}
  <2>1. Slot(m) = L + 1
    BY <1>4 DEF Slot
  <2>2. ASSUME NEW j \in 1..L PROVE md[mfl[j]].start < md[m].start
    <3>1. j \notin above
      BY <1>4
    <3> QED
      BY <3>1, <1>1
  <2> QED
    BY <1>1, <2>1, <2>2
<1>5. CASE above # {}
  <2>1. above \subseteq Nat
    BY <1>1
  <2>2. \E k \in above : \A j \in above : k <= j
    BY <1>5, <2>1, LowestIn
  <2>3. Slot(m) = CHOOSE k \in above : \A j \in above : k <= j
    BY <1>5 DEF Slot
  <2>4. Slot(m) \in above /\ \A j \in above : Slot(m) <= j
    BY <2>2, <2>3
  <2> DEFINE s == Slot(m)
  <2>5. s \in 1..L /\ md[m].start <= md[mfl[s]].start /\ \A j \in above : s <= j
    BY <2>4
  <2> HIDE DEF s
  <2>6. ASSUME NEW j \in 1..L, j < s PROVE md[mfl[j]].start < md[m].start
    <3>1. j \notin above
      BY <2>5, <2>6, <1>1
    <3> QED
      BY <3>1, <1>1
  <2>7. ASSUME NEW j \in 1..L, j >= s PROVE md[m].start <= md[mfl[j]].start
    <3>1. CASE j = s
      BY <2>5, <3>1
    <3>2. CASE j > s
      <4>1. md[mfl[s]].start + md[mfl[s]].len <= md[mfl[j]].start
        BY <2>5, <3>2, <1>2 DEF End
      <4>2. /\ md[mfl[s]].start \in Int /\ md[mfl[s]].len \in Int /\ md[mfl[s]].len > 0
            /\ md[mfl[j]].start \in Int /\ md[m].start \in Int
        BY <2>5, <1>1, <1>3
      <4> QED
        BY <2>5, <4>1, <4>2
    <3> QED
      BY <2>7, <3>1, <3>2, <2>5, <1>1
  <2> QED
    BY <1>1, <2>5, <2>6, <2>7 DEF s
<1> QED
  BY <1>4, <1>5

(* driver_mem_free leaves a pool in which no two free parts touch, and the   *)
(* other taken parts as they were.                                           *)
LEMMA Freed ==
  ASSUME Good(md, mfl, rover, mal), AllApart(md, mfl), NEW m \in mal, freeit(m)
  PROVE  /\ Good(md', mfl', rover', mal \ {m})
         /\ AllApart(md', mfl')
         /\ \A p \in mal \ {m} : md'[p] = md[p]
<1> DEFINE k == Slot(m)
           t == SubSeq(mfl, 1, k - 1) \o <<m>> \o SubSeq(mfl, k, Len(mfl))
           w == IF rover = NoMD THEN m ELSE rover
           h0 == [md |-> md, list |-> t, rover |-> w]
           h1 == Join(h0, k)
           h2 == Join(h1, k - 1)
           A == mal \ {m}
<1>1. md' = h2.md /\ mfl' = h2.list /\ rover' = h2.rover
  BY DEF freeit
<1>2. Between(md, mfl, m, k)
  BY SlotRight
<1> HIDE DEF k
<1>3. mfl \in Seq(MDs) /\ Len(mfl) \in Nat /\ m \in MDs
  BY Fields
<1>4. k \in 1..(Len(mfl) + 1)
  BY <1>2 DEF Between
<1>16. OneMore(mfl, m, k, t)
  BY <1>3, <1>4, WithOneMore
<1>5. w = IF rover = NoMD THEN m ELSE rover
  OBVIOUS
<1>6. h0.md = md /\ h0.list = t /\ h0.rover = w
  OBVIOUS
<1> HIDE DEF t, w, h0
<1>7. Good(md, t, w, A) /\ \A i \in Int : i < k - 1 \/ i > k => Apart(md, t, i)
  BY <1>2, <1>16, Inserted DEF w
<1> HIDE DEF A
<1>8. k \in Int /\ k - 1 \in Int
  BY <1>3, <1>4
<1>9. Good(h0.md, h0.list, h0.rover, A) /\ \A i \in Int : i < k - 1 \/ i > k => Apart(h0.md, h0.list, i)
  BY <1>6, <1>7
<1>10. h1 = Join(h0, k) /\ h2 = Join(h1, k - 1)
  OBVIOUS
<1> HIDE DEF h1, h2
<1>11. Kept(h0, h1, A, k)
  BY <1>8, <1>9, <1>10, JoinKeeps
<1>17. Good(h1.md, h1.list, h1.rover, A)
  BY <1>11 DEF Kept
<1>12. \A i \in Int : i # k - 1 => Apart(h1.md, h1.list, i)
  <2> SUFFICES ASSUME NEW i \in Int, i # k - 1 PROVE Apart(h1.md, h1.list, i)
    OBVIOUS
  <2>1. CASE i < k
    <3>1. i < k - 1
      BY <1>8, <2>1
    <3> QED
      BY <2>1, <3>1, <1>9, <1>11 DEF Kept
  <2>2. CASE i = k
    <3>1. k + 1 \in Int /\ k + 1 > k
      BY <1>8
    <3> QED
      BY <2>2, <3>1, <1>9, <1>11 DEF Kept
  <2>3. CASE i > k
    <3>1. i + 1 \in Int /\ i + 1 > k
      BY <1>8, <2>3
    <3> QED
      BY <2>3, <3>1, <1>9, <1>11 DEF Kept
  <2> QED
    BY <2>1, <2>2, <2>3, <1>8
<1>13. Kept(h1, h2, A, k - 1)
  BY <1>8, <1>10, <1>17, JoinKeeps
<1>14. \A i \in Int : Apart(h2.md, h2.list, i)
  <2> SUFFICES ASSUME NEW i \in Int PROVE Apart(h2.md, h2.list, i)
    OBVIOUS
  <2>1. CASE i < k - 1
    BY <2>1, <1>8, <1>12, <1>13 DEF Kept
  <2>2. CASE i = k - 1
    <3>1. (k - 1) + 1 \in Int /\ (k - 1) + 1 # k - 1
      BY <1>8
    <3>2. Apart(h1.md, h1.list, (k - 1) + 1)
      BY <3>1, <1>12
    <3> QED
      BY <2>2, <3>2, <1>13 DEF Kept
  <2>3. CASE i > k - 1
    <3>1. i + 1 \in Int /\ i + 1 # k - 1 /\ i # k - 1
      BY <1>8, <2>3
    <3>2. Apart(h1.md, h1.list, i) /\ Apart(h1.md, h1.list, i + 1)
      BY <3>1, <1>12
    <3> QED
      BY <2>3, <3>2, <1>13 DEF Kept
  <2> QED
    BY <2>1, <2>2, <2>3, <1>8
<1>15. \A p \in A : h2.md[p] = md[p]
  BY <1>6, <1>11, <1>13 DEF Kept
<1> QED
  BY <1>1, <1>13, <1>14, <1>15 DEF A, AllApart, Kept

(* Where alloc leaves the rover: on a free MD, as long as there is one.      *)
LEMMA RoverRight ==
  ASSUME mfl \in Seq(MDs), NEW k \in 1..Len(mfl), NEW l \in Seq(MDs), Len(l) >= k - 1,
         \A j \in 1..Len(l) : j < k => l[j] = mfl[j], RoverAt(k, l)
  PROVE  RoverOn(l, rover') /\ rover' \in MDs \cup {NoMD}
<1>1. /\ Len(mfl) \in Nat /\ Len(l) \in Nat /\ k \in Nat
      /\ \A i \in 1..Len(mfl) : mfl[i] \in MDs
      /\ \A i \in 1..Len(l) : l[i] \in MDs
  BY ElementOfSeq
<1>2. rover' = IF k > 1 THEN mfl[k - 1] ELSE IF l = <<>> THEN NoMD ELSE Head(l)
  BY DEF RoverAt
<1>3. CASE k > 1
  <2>1. k - 1 \in 1..Len(l) /\ k - 1 < k /\ k - 1 \in 1..Len(mfl) /\ Len(l) # 0
    BY <1>1, <1>3
  <2>2. l[k - 1] = mfl[k - 1] /\ rover' = mfl[k - 1]
    BY <2>1, <1>2, <1>3
  <2> QED
    BY <2>1, <2>2, <1>1 DEF RoverOn
<1>4. CASE ~(k > 1) /\ l = <<>>
  <2>1. Len(l) = 0
    BY <1>4
  <2> QED
    BY <2>1, <1>2, <1>4 DEF RoverOn
<1>5. CASE ~(k > 1) /\ l # <<>>
  <2>1. Len(l) # 0 /\ 1 \in 1..Len(l)
    BY <1>1, <1>5, EmptySeq
  <2>2. rover' = l[1]
    BY <1>2, <1>5
  <2> QED
    BY <2>1, <2>2, <1>1 DEF RoverOn
<1> QED
  BY <1>3, <1>4, <1>5

(* A free part that is taken as it is.                                       *)
LEMMA TookWhole ==
  ASSUME Good(md, mfl, rover, mal), AllApart(md, mfl), NEW k \in 1..Len(mfl), NEW n, TakeWhole(k, n)
  PROVE  Good(md', mfl', rover', mal') /\ AllApart(md', mfl')
<1> DEFINE l == Without(mfl, k)
           L == Len(mfl)
           p == mfl[k]
           A == mal \cup {p}
           At(j) == IF j < k THEN j ELSE j + 1
<1>1. md' = md /\ mfl' = l /\ mal' = A /\ RoverAt(k, l)
  BY DEF TakeWhole, Grant
<1>2. mfl \in Seq(MDs) /\ L \in Nat /\ k \in 1..L /\ L - 1 \in Nat
  BY Fields
<1>3. /\ l \in Seq(MDs) /\ Len(l) = L - 1
      /\ \A j \in 1..(L - 1) : l[j] = IF j < k THEN mfl[j] ELSE mfl[j + 1]
  BY <1>2, WithoutOne
<1>4. \A j \in 1..(L - 1) : At(j) \in 1..L /\ At(j) # k /\ l[j] = mfl[At(j)]
  BY <1>2, <1>3
<1>5. \A i, j \in 1..(L - 1) : (i # j => At(i) # At(j)) /\ (i < j => At(i) < At(j))
  BY <1>2
<1>6. /\ \A i, j \in 1..L : i # j => mfl[i] # mfl[j]
      /\ \A i \in 1..L : mfl[i] \in MDs /\ mfl[i] \in Owned(md) /\ mfl[i] \notin mal
      /\ \A i, j \in 1..L : i < j => End(md, mfl[i]) <= md[mfl[j]].start
      /\ \A q \in MDs : /\ md[q].start \in Int /\ md[q].len \in Int
                        /\ md[q].own <=> (q \in mal \/ \E i \in 1..L : mfl[i] = q)
      /\ mal \subseteq MDs /\ md \in [MDs -> MDRec]
  BY Fields DEF Good, Linked, Sorted, Typed
<1>7. RoverOn(l, rover') /\ rover' \in MDs \cup {NoMD}
  <2>1. Len(l) >= k - 1 /\ \A j \in 1..Len(l) : j < k => l[j] = mfl[j]
    BY <1>2, <1>3
  <2> HIDE DEF l
  <2> QED
    BY <2>1, <1>1, <1>2, <1>3, RoverRight
<1>8. p \in MDs /\ p \notin mal /\ \A j \in 1..(L - 1) : l[j] # p
  <2>1. ASSUME NEW j \in 1..(L - 1) PROVE l[j] # p
    <3>1. At(j) \in 1..L /\ At(j) # k /\ l[j] = mfl[At(j)]
      BY <1>4
    <3> HIDE DEF At
    <3> QED
      BY <3>1, <1>2, <1>6
  <2> QED
    BY <2>1, <1>2, <1>6
<1>9. Linked(md, l, A)
  <2>1. ASSUME NEW i \in 1..(L - 1), NEW j \in 1..(L - 1), i # j PROVE l[i] # l[j]
    <3>1. At(i) # At(j) /\ At(i) \in 1..L /\ At(j) \in 1..L /\ l[i] = mfl[At(i)] /\ l[j] = mfl[At(j)]
      BY <2>1, <1>4, <1>5
    <3> HIDE DEF At
    <3> QED
      BY <3>1, <1>6
  <2>2. ASSUME NEW i \in 1..(L - 1) PROVE l[i] \notin A
    <3>1. At(i) \in 1..L /\ l[i] = mfl[At(i)]
      BY <1>4
    <3> HIDE DEF At
    <3> QED
      BY <3>1, <1>6, <1>8
  <2>3. ASSUME NEW q \in MDs PROVE md[q].own <=> (q \in A \/ \E i \in 1..(L - 1) : l[i] = q)
    <3>1. md[q].own <=> (q \in mal \/ \E i \in 1..L : mfl[i] = q)
      BY <1>6
    <3>2. ASSUME NEW i \in 1..L PROVE mfl[i] = p \/ \E j \in 1..(L - 1) : l[j] = mfl[i]
      <4>1. CASE i < k
        <5>1. i \in 1..(L - 1) /\ l[i] = mfl[i]
          BY <4>1, <1>2, <1>3
        <5> QED
          BY <5>1
      <4>2. CASE i = k
        BY <4>2
      <4>3. CASE i > k
        <5>1. i - 1 \in 1..(L - 1) /\ l[i - 1] = mfl[i]
          BY <4>3, <1>2, <1>3
        <5> QED
          BY <5>1
      <4> QED
        BY <4>1, <4>2, <4>3, <1>2
    <3>3. ASSUME NEW j \in 1..(L - 1) PROVE \E i \in 1..L : mfl[i] = l[j]
      BY <1>4
    <3>4. \E i \in 1..L : mfl[i] = p
      BY <1>2
    <3> HIDE DEF p, l
    <3>5. ASSUME NEW i \in 1..L, mfl[i] = q PROVE q = p \/ \E j \in 1..(L - 1) : l[j] = q
      BY <3>2, <3>5
    <3>6. ASSUME NEW j \in 1..(L - 1), l[j] = q PROVE \E i \in 1..L : mfl[i] = q
      BY <3>3, <3>6
    <3>7. (\E i \in 1..L : mfl[i] = q) <=> (q = p \/ \E j \in 1..(L - 1) : l[j] = q)
      BY <3>4, <3>5, <3>6
    <3>8. q \in A <=> q \in mal \/ q = p
      OBVIOUS
    <3> HIDE DEF A
    <3> QED
      BY <3>1, <3>7, <3>8
  <2> QED
    BY <2>1, <2>2, <2>3, <1>3 DEF Linked
<1>10. Sorted(md, l)
  <2> SUFFICES ASSUME NEW i \in 1..(L - 1), NEW j \in 1..(L - 1), i < j
               PROVE  End(md, l[i]) <= md[l[j]].start
    BY <1>3 DEF Sorted
  <2>1. At(i) < At(j) /\ At(i) \in 1..L /\ At(j) \in 1..L /\ l[i] = mfl[At(i)] /\ l[j] = mfl[At(j)]
    BY <1>4, <1>5
  <2> HIDE DEF At
  <2> QED
    BY <2>1, <1>6
<1>11. Typed(md, l, rover', A)
  BY <1>3, <1>6, <1>7, <1>8 DEF Typed
<1>12. AllApart(md, l)
  <2> SUFFICES ASSUME NEW i \in 1..(L - 2) PROVE End(md, l[i]) < md[l[i + 1]].start
    BY <1>2, <1>3 DEF AllApart, Apart
  <2>0. i \in 1..(L - 1) /\ i + 1 \in 1..(L - 1)
    BY <1>2
  <2>1. CASE i + 1 # k
    <3>1. At(i + 1) = At(i) + 1 /\ At(i) \in 1..(L - 1)
      BY <2>1, <1>2
    <3>2. l[i] = mfl[At(i)] /\ l[i + 1] = mfl[At(i) + 1]
      BY <2>0, <3>1, <1>4
    <3> HIDE DEF At
    <3>3. At(i) \in Int
      BY <3>1
    <3> QED
      BY <3>1, <3>2, <3>3 DEF AllApart, Apart
  <2>2. CASE i + 1 = k
    <3>1. l[i] = mfl[i] /\ l[i + 1] = mfl[i + 2] /\ i \in 1..L /\ i + 1 \in 1..(L - 1) /\ i + 2 \in 1..L
      BY <2>0, <2>2, <1>2, <1>3
    <3>2. End(md, mfl[i]) < md[mfl[i + 1]].start
      BY <1>2 DEF AllApart, Apart
    <3>3. End(md, mfl[i + 1]) <= md[mfl[i + 2]].start
      BY <3>1, <1>2, <1>6
    <3>4. /\ mfl[i] \in MDs /\ mfl[i + 1] \in Owned(md) /\ mfl[i + 1] \in MDs /\ mfl[i + 2] \in MDs
      BY <3>1, <1>2, <1>6
    <3>5. md[mfl[i + 1]].len > 0
      BY <3>4 DEF Good, Divided
    <3>6. /\ md[mfl[i]].start \in Int /\ md[mfl[i]].len \in Int /\ md[mfl[i + 1]].start \in Int
          /\ md[mfl[i + 1]].len \in Int /\ md[mfl[i + 2]].start \in Int
      BY <3>4, <1>6
    <3>7. End(md, mfl[i]) < md[mfl[i + 2]].start
      <4> DEFINE x == mfl[i]
                 y == mfl[i + 1]
                 z == mfl[i + 2]
      <4>1. /\ md[x].start + md[x].len < md[y].start /\ md[y].start + md[y].len <= md[z].start
            /\ md[y].len > 0
        BY <3>2, <3>3, <3>5 DEF End
      <4>2. /\ md[x].start \in Int /\ md[x].len \in Int /\ md[y].start \in Int
            /\ md[y].len \in Int /\ md[z].start \in Int
        BY <3>6
      <4> HIDE DEF x, y, z
      <4>3. md[x].start + md[x].len < md[z].start
        BY <4>1, <4>2
      <4> QED
        BY <4>3 DEF x, z, End
    <3> QED
      BY <3>1, <3>7
  <2> QED
    BY <2>1, <2>2
<1> QED
  BY <1>1, <1>7, <1>9, <1>10, <1>11, <1>12 DEF Good

(* A free part that is longer than the request: its front is granted, the    *)
(* rest takes its place in the list.                                         *)
LEMMA DidSplit ==
  ASSUME Good(md, mfl, rover, mal), AllApart(md, mfl), NEW k \in 1..Len(mfl), NEW n \in 1..Pool,
         n < md[mfl[k]].len, Spare # {}, Split(k, n)
  PROVE  /\ Good(md', mfl', rover', mal') /\ AllApart(md', mfl')
         /\ \A q \in mal : md'[q] = md[q]
         /\ md'[mfl[k]].start = md[mfl[k]].start /\ md'[mfl[k]].len = n
<1> DEFINE L == Len(mfl)
           p == mfl[k]
           p1 == xmgetblk
           rest == [start |-> md[p].start + n, len |-> md[p].len - n, own |-> TRUE]
           new == [md[p] EXCEPT !.len = n]
           f == [md EXCEPT ![p] = new]
           e == [f EXCEPT ![p1] = rest]
           l == [mfl EXCEPT ![k] = p1]
           A == mal \cup {p}
<1>1. md' = e /\ mfl' = l /\ mal' = A /\ RoverAt(k, l)
  BY DEF Split, Grant, Resized
<1>2. mfl \in Seq(MDs) /\ L \in Nat /\ k \in 1..L /\ Pool \in Int /\ n \in Int /\ n > 0
  BY Fields, DriverMemAssumption
<1>3. /\ \A i, j \in 1..L : i # j => mfl[i] # mfl[j]
      /\ \A i \in 1..L : mfl[i] \in MDs /\ mfl[i] \in Owned(md) /\ mfl[i] \notin mal
      /\ \A i, j \in 1..L : i < j => End(md, mfl[i]) <= md[mfl[j]].start
      /\ \A q \in MDs : /\ md[q].start \in Int /\ md[q].len \in Int /\ md[q].start >= 0 /\ q >= 0
                        /\ md[q].own <=> (q \in mal \/ \E i \in 1..L : mfl[i] = q)
      /\ mal \subseteq MDs /\ mal \subseteq Owned(md) /\ md \in [MDs -> MDRec]
  BY Fields DEF Good, Linked, Sorted, Typed
<1>4. p1 \in MDs /\ p1 \notin Owned(md)
  <2>1. Spare \subseteq Nat
    BY <1>3 DEF Spare, MDs
  <2>2. \E i \in Spare : \A j \in Spare : i <= j
    BY <2>1, LowestIn
  <2>3. p1 \in Spare
    BY <2>2 DEF xmgetblk
  <2> QED
    BY <2>3 DEF Spare, Owned
<1>5. p \in MDs /\ p \in Owned(md) /\ p \notin mal /\ p # p1
  BY <1>2, <1>3, <1>4
<1>6. n < md[p].len
  OBVIOUS
<1> HIDE DEF p, p1, rest, new, f, e, l
<1>7. md[p] \in MDRec /\ md[p].own /\ End(md, p) <= Pool /\ md[p].start \in Int /\ md[p].len \in Int /\ md[p].start >= 0
  BY <1>3, <1>5 DEF Owned, Good, Divided
<1>8. md[p].start + md[p].len <= Pool
  BY <1>7 DEF End
<1>9. /\ rest \in MDRec /\ rest.start = md[p].start + n /\ rest.len = md[p].len - n /\ rest.own
  <2>1. md[p].start + n \in 0..Pool
    BY <1>2, <1>6, <1>7, <1>8
  <2>2. md[p].len - n \in 0..Pool
    BY <1>2, <1>6, <1>7, <1>8
  <2> QED
    BY <2>1, <2>2 DEF rest, MDRec
<1>10. new \in MDRec /\ new.start = md[p].start /\ new.len = n /\ new.own
  <2>1. n \in 0..Pool
    BY <1>2
  <2> QED
    BY <1>7, <2>1, LenSet DEF new
<1>11. f \in [MDs -> MDRec] /\ f[p] = new /\ \A q \in MDs \ {p} : f[q] = md[q]
  BY <1>3, <1>5, <1>10 DEF f
<1>12. e \in [MDs -> MDRec] /\ e[p] = new /\ e[p1] = rest /\ \A q \in MDs \ {p, p1} : e[q] = md[q]
  BY <1>4, <1>5, <1>9, <1>11 DEF e
<1>13. Owned(e) = Owned(md) \cup {p1}
  <2>1. e[p].own /\ e[p1].own
    BY <1>9, <1>10, <1>12
  <2>2. ASSUME NEW q \in MDs PROVE q \in Owned(e) <=> q \in Owned(md) \/ q = p1
    BY <2>1, <1>4, <1>5, <1>12 DEF Owned
  <2>3. Owned(e) \subseteq MDs /\ Owned(md) \subseteq MDs
    BY DEF Owned
  <2> QED
    BY <2>2, <2>3, <1>4
<1>14. /\ End(e, p) = md[p].start + n /\ e[p].start = md[p].start /\ e[p].len = n
       /\ End(e, p1) = End(md, p) /\ e[p1].start = md[p].start + n /\ e[p1].len = md[p].len - n
       /\ End(md, p) = md[p].start + md[p].len
  BY <1>2, <1>7, <1>9, <1>10, <1>12 DEF End
<1>15. \A q \in Owned(md) \ {p} : e[q] = md[q] /\ End(e, q) = End(md, q) /\ q \in MDs
  BY <1>4, <1>12 DEF Owned, End
<1>16. /\ \A q \in Owned(md) : md[q].len > 0 /\ End(md, q) <= Pool
       /\ \A q, r \in Owned(md) : q # r => End(md, q) <= md[r].start \/ End(md, r) <= md[q].start
       /\ 0 \in Owned(md) /\ md[0].start = 0
       /\ \A q \in Owned(md) : End(md, q) \in Int /\ md[q].start \in Int
  BY <1>3 DEF Good, Divided, End, Owned
<1>17. Divided(e)
  <2>1. ASSUME NEW q \in Owned(e) PROVE e[q].len > 0 /\ End(e, q) <= Pool
    <3>1. CASE q = p
      BY <3>1, <1>2, <1>6, <1>7, <1>8, <1>14
    <3>2. CASE q = p1
      BY <3>2, <1>2, <1>6, <1>7, <1>8, <1>14
    <3>3. CASE q # p /\ q # p1
      BY <3>3, <1>13, <1>15, <1>16
    <3> QED
      BY <3>1, <3>2, <3>3
  <2>2. ASSUME NEW q \in Owned(md) \ {p}
        PROVE  /\ End(e, p) <= e[q].start \/ End(e, q) <= e[p].start
               /\ End(e, p1) <= e[q].start \/ End(e, q) <= e[p1].start
    <3>1. End(md, p) <= md[q].start \/ End(md, q) <= md[p].start
      BY <1>5, <1>16
    <3>2. /\ End(md, q) \in Int /\ md[q].start \in Int /\ e[q].start = md[q].start /\ End(e, q) = End(md, q)
      BY <1>15, <1>16
    <3> QED
      BY <3>1, <3>2, <1>2, <1>6, <1>7, <1>14
  <2>3. End(e, p) <= e[p1].start
    BY <1>2, <1>7, <1>14
  <2>4. ASSUME NEW q \in Owned(e), NEW r \in Owned(e), q # r
        PROVE  End(e, q) <= e[r].start \/ End(e, r) <= e[q].start
    <3>1. CASE q = p \/ q = p1
      BY <3>1, <2>2, <2>3, <2>4, <1>13
    <3>2. CASE r = p \/ r = p1
      BY <3>2, <2>2, <2>3, <2>4, <1>13
    <3>3. CASE q \notin {p, p1} /\ r \notin {p, p1}
      BY <3>3, <2>4, <1>13, <1>15, <1>16
    <3> QED
      BY <3>1, <3>2, <3>3
  <2>5. ASSUME NEW g \in 0..(Pool - 1)
        PROVE  \E q \in Owned(e) : e[q].start <= g /\ g < End(e, q)
    <3>1. PICK q \in Owned(md) : md[q].start <= g /\ g < End(md, q)
      BY DEF Good, Divided
    <3>2. CASE q # p
      <4>1. q \in Owned(e) /\ e[q].start = md[q].start /\ End(e, q) = End(md, q)
        BY <3>2, <1>13, <1>15
      <4> QED
        BY <3>1, <4>1
    <3>3. CASE q = p
      <4>1. p \in Owned(e) /\ p1 \in Owned(e)
        BY <1>5, <1>13
      <4>2. CASE g < md[p].start + n
        BY <3>1, <3>3, <4>1, <4>2, <1>14
      <4>3. CASE ~(g < md[p].start + n)
        <5>1. e[p1].start <= g /\ g < End(e, p1)
          BY <3>1, <3>3, <4>3, <1>2, <1>7, <1>14
        <5> QED
          BY <4>1, <5>1
      <4> QED
        BY <4>2, <4>3
    <3> QED
      BY <3>2, <3>3
  <2>6. 0 \in Owned(e) /\ e[0].start = 0
    BY <1>13, <1>14, <1>15, <1>16
  <2> QED
    BY <2>1, <2>4, <2>5, <2>6 DEF Divided
<1>18. /\ l \in Seq(MDs) /\ Len(l) = L /\ l[k] = p1
       /\ \A j \in 1..L : j # k => l[j] = mfl[j]
  BY <1>2, <1>4, ExceptSeq DEF l
<1>19. ASSUME NEW j \in 1..L, j # k
       PROVE  /\ l[j] \in Owned(md) \ {p} /\ l[j] \notin A /\ l[j] # p1
              /\ End(e, l[j]) = End(md, mfl[j]) /\ e[l[j]].start = md[mfl[j]].start
  <2>1. l[j] = mfl[j] /\ mfl[j] \in Owned(md) /\ mfl[j] # p /\ mfl[j] \notin mal
    BY <1>2, <1>3, <1>18, <1>19 DEF p
  <2> QED
    BY <2>1, <1>4, <1>15
<1>20. p1 \notin A
  BY <1>3, <1>4, <1>5
<1>21. Linked(e, l, A)
  <2>1. ASSUME NEW i \in 1..L, NEW j \in 1..L, i # j PROVE l[i] # l[j]
    <3>1. CASE i = k
      BY <2>1, <3>1, <1>18, <1>19
    <3>2. CASE j = k
      BY <2>1, <3>2, <1>18, <1>19
    <3>3. CASE i # k /\ j # k
      BY <2>1, <3>3, <1>3, <1>18
    <3> QED
      BY <3>1, <3>2, <3>3
  <2>2. ASSUME NEW i \in 1..L PROVE l[i] \notin A
    BY <1>18, <1>19, <1>20
  <2>3. ASSUME NEW q \in MDs PROVE e[q].own <=> (q \in A \/ \E i \in 1..L : l[i] = q)
    <3>1. CASE q = p1
      BY <3>1, <1>2, <1>9, <1>12, <1>18
    <3>2. CASE q = p
      BY <3>2, <1>10, <1>12
    <3>3. CASE q \notin {p, p1}
      <4>1. e[q].own <=> (q \in mal \/ \E i \in 1..L : mfl[i] = q)
        BY <3>3, <1>3, <1>12
      <4>2. ASSUME NEW i \in 1..L, mfl[i] = q PROVE \E j \in 1..L : l[j] = q
        <5>1. i # k
          BY <3>3, <4>2 DEF p
        <5> QED
          BY <4>2, <5>1, <1>18
      <4>3. ASSUME NEW j \in 1..L, l[j] = q PROVE \E i \in 1..L : mfl[i] = q
        BY <3>3, <4>3, <1>18
      <4>4. q \in A <=> q \in mal
        BY <3>3
      <4> QED
        BY <4>1, <4>2, <4>3, <4>4
    <3> QED
      BY <3>1, <3>2, <3>3
  <2> QED
    BY <2>1, <2>2, <2>3, <1>18 DEF Linked
<1>22. Sorted(e, l)
  <2> SUFFICES ASSUME NEW i \in 1..L, NEW j \in 1..L, i < j
               PROVE  End(e, l[i]) <= e[l[j]].start
    BY <1>18 DEF Sorted
  <2>1. End(md, mfl[i]) <= md[mfl[j]].start
    BY <1>3
  <2>2. End(e, l[i]) = End(md, mfl[i])
    <3>1. CASE i = k
      BY <3>1, <1>14, <1>18 DEF p
    <3> QED
      BY <3>1, <1>19
  <2>3. e[l[j]].start >= md[mfl[j]].start /\ e[l[j]].start \in Int /\ md[mfl[j]].start \in Int
    <3>1. CASE j = k
      BY <3>1, <1>2, <1>7, <1>14, <1>18 DEF p
    <3>2. CASE j # k
      BY <3>2, <1>3, <1>19
    <3> QED
      BY <3>1, <3>2
  <2>4. End(md, mfl[i]) \in Int
    BY <1>3, <1>16
  <2> QED
    BY <2>1, <2>2, <2>3, <2>4
<1>23. RoverOn(l, rover') /\ rover' \in MDs \cup {NoMD}
  <2>1. Len(l) >= k - 1 /\ \A j \in 1..Len(l) : j < k => l[j] = mfl[j]
    BY <1>2, <1>18
  <2> QED
    BY <2>1, <1>1, <1>2, <1>18, RoverRight
<1>24. Typed(e, l, rover', A)
  BY <1>3, <1>5, <1>12, <1>18, <1>23 DEF Typed
<1>25. AllApart(e, l)
  <2> SUFFICES ASSUME NEW i \in 1..(L - 1) PROVE End(e, l[i]) < e[l[i + 1]].start
    BY <1>18 DEF AllApart, Apart
  <2>0. i \in 1..L /\ i + 1 \in 1..L
    BY <1>2
  <2>1. End(md, mfl[i]) < md[mfl[i + 1]].start
    BY <1>2 DEF AllApart, Apart
  <2>2. End(e, l[i]) = End(md, mfl[i])
    <3>1. CASE i = k
      BY <3>1, <1>14, <1>18 DEF p
    <3> QED
      BY <3>1, <2>0, <1>19
  <2>3. /\ e[l[i + 1]].start >= md[mfl[i + 1]].start
        /\ e[l[i + 1]].start \in Int /\ md[mfl[i + 1]].start \in Int
    <3>1. CASE i + 1 = k
      BY <3>1, <1>2, <1>7, <1>14, <1>18 DEF p
    <3>2. CASE i + 1 # k
      BY <3>2, <2>0, <1>3, <1>19
    <3> QED
      BY <3>1, <3>2
  <2>4. End(md, mfl[i]) \in Int
    BY <2>0, <1>3, <1>16
  <2> QED
    BY <2>1, <2>2, <2>3, <2>4
<1>26. \A q \in mal : e[q] = md[q]
  BY <1>3, <1>5, <1>15
<1>27. Good(e, l, rover', A)
  BY <1>17, <1>21, <1>22, <1>23, <1>24 DEF Good
<1> QED
  BY <1>1, <1>14, <1>25, <1>26, <1>27 DEF p

-----------------------------------------------------------------------------
(* The search of ffit *)

(* What ffit's wrap to the start of the list amounts to: no wrap ...         *)
LEMMA Below == ASSUME NEW L \in Nat \ {0}, NEW r \in 0..(L - 1) PROVE r % L = r
OBVIOUS

(* ... and one.                                                              *)
LEMMA Around == ASSUME NEW L \in Nat \ {0}, NEW r \in 0..(L - 1) PROVE (r + L) % L = r
OBVIOUS

(* The search visits every free part, whatever the rover.                    *)
LEMMA Visits ==
  ASSUME Good(md, mfl, rover, mal), rover # NoMD
  PROVE  /\ \A k \in 1..Len(mfl) : Visit(k) \in 1..Len(mfl)
         /\ \A j \in 1..Len(mfl) : \E k \in 1..Len(mfl) : Visit(k) = j
<1> DEFINE L == Len(mfl)
           x == Index(rover)
<1>1. L \in Nat \ {0}
  BY Fields DEF Good, RoverOn
<1>2. x \in 1..L
  <2>1. \E i \in 1..L : mfl[i] = rover
    BY <1>1 DEF Good, RoverOn
  <2> QED
    BY <2>1 DEF Index
<1>3. \A k \in 1..L : Visit(k) = ((x + k - 1) % L) + 1
  BY DEF Visit
<1> HIDE DEF x
<1>4. ASSUME NEW k \in 1..L PROVE Visit(k) \in 1..L
  <2>1. x + k - 1 \in Nat
    BY <1>1, <1>2
  <2> DEFINE y == x + k - 1
  <2> HIDE DEF y
  <2>2. y \in Nat
    BY <2>1 DEF y
  <2>3. y % L \in 0..(L - 1)
    BY <1>1, <2>2
  <2>4. (y % L) + 1 \in 1..L
    BY <1>1, <2>3
  <2> QED
    BY <1>3, <2>4 DEF y
<1>5. ASSUME NEW j \in 1..L PROVE \E k \in 1..L : Visit(k) = j
  <2>1. CASE j > x
    <3>1. j - x \in 1..L /\ x + (j - x) - 1 = j - 1 /\ j - 1 \in 0..(L - 1)
      BY <1>1, <1>2, <2>1
    <3>2. Visit(j - x) = ((j - 1) % L) + 1
      BY <1>3, <3>1
    <3>3. (j - 1) % L = j - 1
      BY <1>1, <3>1, Below
    <3>4. Visit(j - x) = j
      BY <1>1, <3>2, <3>3
    <3> QED
      BY <3>1, <3>4
  <2>2. CASE j <= x
    <3>1. j - x + L \in 1..L /\ x + (j - x + L) - 1 = (j - 1) + L /\ j - 1 \in 0..(L - 1)
      BY <1>1, <1>2, <2>2
    <3>2. Visit(j - x + L) = (((j - 1) + L) % L) + 1
      BY <1>3, <3>1
    <3>3. ((j - 1) + L) % L = j - 1
      BY <1>1, <3>1, Around
    <3>4. Visit(j - x + L) = j
      BY <1>1, <3>2, <3>3
    <3> QED
      BY <3>1, <3>4
  <2> QED
    BY <1>1, <1>2, <2>1, <2>2
<1> QED
  BY <1>4, <1>5

(* The part that ffit settles on is free and long enough, and it finds one   *)
(* whenever there is one.                                                    *)
LEMMA Places ==
  ASSUME Good(md, mfl, rover, mal), rover # NoMD, NEW n
  PROVE  /\ Steps(n) # {} => Place(n) \in 1..Len(mfl) /\ md[mfl[Place(n)]].len >= n
         /\ Steps(n) = {} => \A j \in 1..Len(mfl) : ~(md[mfl[j]].len >= n)
<1>1. /\ \A k \in 1..Len(mfl) : Visit(k) \in 1..Len(mfl)
      /\ \A j \in 1..Len(mfl) : \E k \in 1..Len(mfl) : Visit(k) = j
  BY Visits
<1>2. ASSUME Steps(n) # {} PROVE Place(n) \in 1..Len(mfl) /\ md[mfl[Place(n)]].len >= n
  <2>1. Steps(n) \subseteq Nat
    BY DEF Steps
  <2>2. \E k \in Steps(n) : \A j \in Steps(n) : k <= j
    BY <1>2, <2>1, LowestIn
  <2>3. PICK k \in Steps(n) : Place(n) = Visit(k)
    BY <2>2 DEF Place
  <2> QED
    BY <2>3, <1>1 DEF Steps
<1>3. ASSUME Steps(n) = {}, NEW j \in 1..Len(mfl) PROVE ~(md[mfl[j]].len >= n)
  <2>1. PICK k \in 1..Len(mfl) : Visit(k) = j
    BY <1>1
  <2>2. k \notin Steps(n)
    BY <1>3
  <2> QED
    BY <2>1, <2>2 DEF Steps
<1> QED
  BY <1>2, <1>3

-----------------------------------------------------------------------------
(* The heap that callers see *)

Live(d, A) == {[start |-> d[i].start, len |-> d[i].len] : i \in A}

(* The grains that nobody holds are those of the free parts.                 *)
LEMMA UnusedAre ==
  ASSUME Good(md, mfl, rover, mal)
  PROVE  \A g \in Int : g \in Heap!Unused <=>
           \E i \in 1..Len(mfl) : md[mfl[i]].start <= g /\ g < End(md, mfl[i])
<1> SUFFICES ASSUME NEW g \in Int
             PROVE  g \in Heap!Unused <=>
                      \E i \in 1..Len(mfl) : md[mfl[i]].start <= g /\ g < End(md, mfl[i])
  OBVIOUS
<1> DEFINE In(p) == md[p].start <= g /\ g < End(md, p)
<1>1. /\ \A i \in 1..Len(mfl) : mfl[i] \in MDs /\ mfl[i] \in Owned(md) /\ mfl[i] \notin mal
      /\ \A p \in MDs : md[p].start \in Int /\ md[p].len \in Int /\ md[p].start >= 0
                        /\ (p \in Owned(md) <=> (p \in mal \/ \E i \in 1..Len(mfl) : mfl[i] = p))
      /\ mal \subseteq Owned(md) /\ Owned(md) \subseteq MDs /\ Pool \in Int
  BY Fields, DriverMemAssumption DEF Good, Linked, Owned
<1>2. g \in Heap!Unused <=> g \in 0..(Pool - 1) /\ \A p \in mal : ~In(p)
  <2>1. ASSUME NEW p \in mal
        PROVE  g \in Heap!Grains([start |-> md[p].start, len |-> md[p].len]) <=> In(p)
    <3>1. md[p].start \in Int /\ md[p].len \in Int
      BY <1>1
    <3> QED
      BY <3>1 DEF Heap!Grains, End
  <2>2. g \in UNION {Heap!Grains(b) : b \in {[start |-> md[i].start, len |-> md[i].len] : i \in mal}}
          <=> \E p \in mal : g \in Heap!Grains([start |-> md[p].start, len |-> md[p].len])
    OBVIOUS
  <2> QED
    BY <2>1, <2>2 DEF Heap!Unused
<1>3. ASSUME NEW p \in Owned(md), NEW q \in Owned(md), In(p), In(q) PROVE p = q
  <2> SUFFICES ASSUME p # q PROVE FALSE
    OBVIOUS
  <2>1. End(md, p) <= md[q].start \/ End(md, q) <= md[p].start
    BY DEF Good, Divided
  <2>2. /\ md[p].start \in Int /\ md[q].start \in Int /\ End(md, p) \in Int /\ End(md, q) \in Int
    BY <1>1 DEF End
  <2> QED
    BY <1>3, <2>1, <2>2
<1>4. ASSUME g \in 0..(Pool - 1) PROVE \E p \in Owned(md) : In(p)
  BY <1>4 DEF Good, Divided
<1>5. ASSUME NEW p \in Owned(md), In(p) PROVE g \in 0..(Pool - 1)
  <2>1. End(md, p) <= Pool
    BY DEF Good, Divided
  <2>2. md[p].start \in Int /\ md[p].start >= 0 /\ End(md, p) \in Int
    BY <1>1 DEF End
  <2> QED
    BY <1>1, <1>5, <2>1, <2>2
<1> HIDE DEF In
<1>6. ASSUME NEW i \in 1..Len(mfl), In(mfl[i]) PROVE g \in 0..(Pool - 1) /\ \A p \in mal : ~In(p)
  BY <1>1, <1>3, <1>5, <1>6
<1>7. ASSUME g \in 0..(Pool - 1), \A p \in mal : ~In(p) PROVE \E i \in 1..Len(mfl) : In(mfl[i])
  <2>1. PICK p \in Owned(md) : In(p)
    BY <1>4, <1>7
  <2>2. p \in MDs /\ p \notin mal
    BY <1>1, <1>7, <2>1
  <2>3. PICK i \in 1..Len(mfl) : mfl[i] = p
    BY <1>1, <2>2
  <2> QED
    BY <2>1, <2>3
<1> QED
  BY <1>2, <1>6, <1>7 DEF In

(* A free part has room for whatever is not longer than it.                  *)
LEMMA HasRoom ==
  ASSUME Good(md, mfl, rover, mal), NEW j \in 1..Len(mfl), NEW n \in Int, n <= md[mfl[j]].len
  PROVE  md[mfl[j]].start \in Heap!Unused /\ Heap!Room(md[mfl[j]].start, n)
<1> DEFINE p == mfl[j]
<1>1. /\ p \in MDs /\ p \in Owned(md) /\ md[p].start \in Int /\ md[p].len \in Int
  BY Fields
<1>2. md[p].len > 0
  BY <1>1 DEF Good, Divided
<1> DEFINE s == md[p].start
<1>3. \A g \in Int : s <= g /\ g < s + md[p].len => g \in Heap!Unused
  <2>1. \A g \in Int : s <= g /\ g < End(md, p) => g \in Heap!Unused
    BY UnusedAre
  <2> QED
    BY <2>1 DEF End
<1>4. s \in Heap!Unused
  BY <1>1, <1>2, <1>3
<1>5. ASSUME NEW g \in s..(s + n - 1) PROVE g \in Heap!Unused
  <2>0. n <= md[p].len
    OBVIOUS
  <2>1. g \in Int /\ s <= g /\ g < s + md[p].len
    BY <1>1, <2>0
  <2> QED
    BY <2>1, <1>3
<1> QED
  BY <1>4, <1>5 DEF Heap!Room

(* The grain behind a free part is not free: the free parts do not touch.    *)
LEMMA EndUsed ==
  ASSUME Good(md, mfl, rover, mal), AllApart(md, mfl), NEW i \in 1..Len(mfl)
  PROVE  End(md, mfl[i]) \notin Heap!Unused
<1> DEFINE L == Len(mfl)
           e == End(md, mfl[i])
<1>1. /\ L \in Nat
      /\ \A j \in 1..L : /\ mfl[j] \in MDs /\ mfl[j] \in Owned(md)
                         /\ md[mfl[j]].start \in Int /\ md[mfl[j]].len \in Int
      /\ \A x, y \in 1..L : x < y => End(md, mfl[x]) <= md[mfl[y]].start
  BY Fields DEF Good, Sorted
<1>2. \A j \in 1..L : /\ md[mfl[j]].len > 0 /\ End(md, mfl[j]) \in Int
                      /\ md[mfl[j]].start < End(md, mfl[j])
  BY <1>1 DEF Good, Divided, End
<1> SUFFICES ASSUME e \in Heap!Unused PROVE FALSE
  OBVIOUS
<1>3. PICK j \in 1..L : md[mfl[j]].start <= e /\ e < End(md, mfl[j])
  BY <1>2, UnusedAre
<1>4. CASE j < i
  <2>1. End(md, mfl[j]) <= md[mfl[i]].start
    BY <1>1, <1>4
  <2> QED
    BY <1>1, <1>2, <1>3, <2>1
<1>5. CASE j = i
  BY <1>2, <1>3, <1>5
<1>6. CASE j > i
  <2>1. i \in 1..(L - 1) /\ i \in Int /\ i + 1 \in 1..L
    BY <1>1, <1>6
  <2>2. e < md[mfl[i + 1]].start
    BY <2>1 DEF AllApart, Apart
  <2>3. md[mfl[i + 1]].start <= md[mfl[j]].start
    <3>1. CASE j = i + 1
      BY <3>1, <1>1
    <3>2. CASE j # i + 1
      <4>1. i + 1 < j
        BY <3>2, <1>1, <1>6
      <4>2. End(md, mfl[i + 1]) <= md[mfl[j]].start
        BY <4>1, <2>1, <1>1
      <4> QED
        BY <4>2, <2>1, <1>1, <1>2
    <3> QED
      BY <3>1, <3>2
  <2> QED
    BY <1>1, <1>2, <1>3, <2>1, <2>2, <2>3
<1> QED
  BY <1>1, <1>4, <1>5, <1>6

(* When every free part is too short there is no room anywhere.              *)
LEMMA NoRoom ==
  ASSUME Good(md, mfl, rover, mal), AllApart(md, mfl), NEW n \in Nat \ {0},
         \A j \in 1..Len(mfl) : ~(md[mfl[j]].len >= n)
  PROVE  \A a \in Heap!Unused : ~Heap!Room(a, n)
<1> SUFFICES ASSUME NEW a \in Heap!Unused, Heap!Room(a, n) PROVE FALSE
  OBVIOUS
<1>1. a \in Int
  BY DriverMemAssumption DEF Heap!Unused
<1>2. PICK i \in 1..Len(mfl) : md[mfl[i]].start <= a /\ a < End(md, mfl[i])
  BY <1>1, UnusedAre
<1> DEFINE e == End(md, mfl[i])
           p == mfl[i]
<1>3. md[p].start \in Int /\ md[p].len \in Int /\ e = md[p].start + md[p].len /\ md[p].len < n
  BY Fields DEF End
<1>4. md[p].start <= a /\ a < e
  BY <1>2
<1> HIDE DEF e, p
<1>5. e \in a..(a + n - 1)
  BY <1>1, <1>3, <1>4
<1>6. e \in Heap!Unused
  BY <1>5 DEF Heap!Room
<1> QED
  BY <1>6, EndUsed DEF e, p

(* When every MD is owned, the heap cannot tell apart one part more: each MD *)
(* stands for a block of its own or for a gap of its own.                    *)
LEMMA AllUsed ==
  ASSUME Good(md, mfl, rover, mal), AllApart(md, mfl), Spare = {}
  PROVE  Cardinality(Live(md, mal)) + Cardinality(Heap!Gaps) >= MaxMD
<1> DEFINE F == {mfl[k] : k \in 1..Len(mfl)}
           blk(p) == [start |-> md[p].start, len |-> md[p].len]
           T == Live(md, mal)
           f == [p \in mal |-> blk(p)]
           g == [p \in F |-> md[p].start]
<1>1. /\ \A i \in 1..Len(mfl) : mfl[i] \in MDs /\ mfl[i] \in Owned(md) /\ mfl[i] \notin mal
      /\ \A p \in MDs : md[p].start \in Int /\ md[p].len \in Int /\ md[p].own
                        /\ (p \in mal \/ \E i \in 1..Len(mfl) : mfl[i] = p)
      /\ mal \subseteq MDs
  BY Fields DEF Good, Linked, Owned, Spare
<1>2. MDs = mal \cup F /\ mal \cap F = {} /\ F \subseteq MDs /\ Owned(md) = MDs
  BY <1>1 DEF Owned
<1>3. IsFiniteSet(MDs) /\ Cardinality(MDs) = MaxMD
  <2>1. MaxMD \in Int /\ MaxMD - 1 \in Int /\ 0 \in Int /\ ~(0 > MaxMD - 1) /\ (MaxMD - 1) - 0 + 1 = MaxMD
    BY DriverMemAssumption
  <2>2. IsFiniteSet(0..(MaxMD - 1)) /\ Cardinality(0..(MaxMD - 1)) = (MaxMD - 1) - 0 + 1
    BY <2>1, FS_Interval
  <2> QED
    BY <2>1, <2>2 DEF MDs
<1>4. IsFiniteSet(mal) /\ IsFiniteSet(F) /\ Cardinality(mal) + Cardinality(F) = MaxMD
  <2>1. mal \in SUBSET MDs /\ F \in SUBSET MDs
    BY <1>1, <1>2
  <2>2. IsFiniteSet(mal) /\ IsFiniteSet(F)
    BY <1>3, <2>1, FS_Subset
  <2>3. Cardinality(mal \cup F) = Cardinality(mal) + Cardinality(F) - Cardinality(mal \cap F)
    BY <2>2, FS_Union
  <2>4. Cardinality(mal \cap F) = 0
    BY <1>2, FS_EmptySet
  <2>5. Cardinality(mal) \in Nat /\ Cardinality(F) \in Nat
    BY <2>2, FS_CardinalityType
  <2> QED
    BY <1>2, <1>3, <2>2, <2>3, <2>4, <2>5
<1>5. \A p, q \in MDs : p # q => md[p].start # md[q].start
  <2> SUFFICES ASSUME NEW p \in MDs, NEW q \in MDs, p # q, md[p].start = md[q].start PROVE FALSE
    OBVIOUS
  <2>1. End(md, p) <= md[q].start \/ End(md, q) <= md[p].start
    BY <1>2 DEF Good, Divided
  <2>2. md[p].len > 0 /\ md[q].len > 0
    BY <1>2 DEF Good, Divided
  <2>3. md[p].start \in Int /\ md[p].len \in Int /\ md[q].start \in Int /\ md[q].len \in Int
    BY <1>1
  <2> QED
    BY <2>1, <2>2, <2>3 DEF End
<1>6. Cardinality(T) = Cardinality(mal)
  <2>1. \A p \in mal : f[p] \in T
    BY DEF Live
  <2>2. \A t \in T : \E p \in mal : f[p] = t
    BY DEF Live
  <2>3. \A p, q \in mal : f[p] = f[q] => p = q
    <3> SUFFICES ASSUME NEW p \in mal, NEW q \in mal, f[p] = f[q] PROVE p = q
      OBVIOUS
    <3>1. blk(p) = blk(q)
      OBVIOUS
    <3>2. blk(p).start = md[p].start /\ blk(q).start = md[q].start
      OBVIOUS
    <3> HIDE DEF blk, f
    <3> QED
      BY <3>1, <3>2, <1>1, <1>5
  <2>4. f \in [mal -> T]
    BY <2>1
  <2> HIDE DEF f, T
  <2>5. f \in Surjection(mal, T) /\ f \in Injection(mal, T)
    BY <2>2, <2>3, <2>4 DEF Surjection, Injection, IsInjective
  <2> QED
    BY <1>4, <2>5, FS_Surjection
<1>7. Cardinality(F) <= Cardinality(Heap!Gaps) /\ IsFiniteSet(Heap!Gaps)
  <2>1. IsFiniteSet(Heap!Gaps)
    <3>1. 0 \in Int /\ Pool - 1 \in Int
      BY DriverMemAssumption
    <3>2. IsFiniteSet(0..(Pool - 1))
      BY <3>1, FS_Interval
    <3>3. Heap!Gaps \in SUBSET (0..(Pool - 1))
      BY DEF Heap!Gaps, Heap!Unused
    <3> QED
      BY <3>2, <3>3, FS_Subset
  <2>2. ASSUME NEW i \in 1..Len(mfl) PROVE md[mfl[i]].start \in Heap!Gaps
    <3> DEFINE s == md[mfl[i]].start
    <3>1. s \in Int /\ md[mfl[i]].len \in Int /\ 0 <= md[mfl[i]].len
      <4>1. mfl[i] \in Owned(md) /\ mfl[i] \in MDs
        BY <1>1
      <4>2. md[mfl[i]].len > 0
        BY <4>1 DEF Good, Divided
      <4> QED
        BY <4>1, <4>2, <1>1
    <3>2. s \in Heap!Unused
      BY <3>1, HasRoom
    <3>3. s - 1 \notin Heap!Unused
      <4> SUFFICES ASSUME s - 1 \in Heap!Unused PROVE FALSE
        OBVIOUS
      <4>1. PICK j \in 1..Len(mfl) : md[mfl[j]].start <= s - 1 /\ s - 1 < End(md, mfl[j])
        BY <3>1, UnusedAre
      <4>2. mfl[i] # mfl[j]
        BY <3>1, <4>1
      <4>3. End(md, mfl[i]) <= md[mfl[j]].start \/ End(md, mfl[j]) <= s
        BY <1>1, <4>2 DEF Good, Divided
      <4>4. md[mfl[j]].start \in Int /\ md[mfl[j]].len \in Int
        BY <1>1
      <4>5. End(md, mfl[j]) \in Int /\ End(md, mfl[i]) \in Int /\ End(md, mfl[i]) >= s
        BY <3>1, <4>4 DEF End
      <4>6. End(md, mfl[j]) = s
        BY <3>1, <4>1, <4>3, <4>4, <4>5
      <4>7. s \notin Heap!Unused
        BY <4>6, EndUsed
      <4> QED
        BY <3>2, <4>7
    <3> QED
      BY <3>2, <3>3 DEF Heap!Gaps
  <2>3. \A p \in F : g[p] \in Heap!Gaps
    BY <2>2
  <2>4. \A p, q \in F : g[p] = g[q] => p = q
    BY <1>2, <1>5
  <2>5. g \in [F -> Heap!Gaps]
    BY <2>3
  <2> HIDE DEF g, F
  <2>6. g \in Injection(F, Heap!Gaps)
    BY <2>4, <2>5 DEF Injection, IsInjective
  <2> QED
    BY <2>1, <2>6, FS_Injection
<1>8. Cardinality(mal) \in Nat /\ Cardinality(F) \in Nat /\ Cardinality(Heap!Gaps) \in Nat /\ MaxMD \in Int
  BY <1>4, <1>7, FS_CardinalityType, DriverMemAssumption
<1> QED
  BY <1>4, <1>6, <1>7, <1>8

(* Two taken parts do not start at the same address, so that the one that is *)
(* freed is the only one that driver_mem_free could mean.                    *)
LEMMA StartsDiffer ==
  ASSUME Good(md, mfl, rover, mal), NEW p \in mal, NEW q \in mal, md[p].start = md[q].start
  PROVE  p = q
<1> SUFFICES ASSUME p # q PROVE FALSE
  OBVIOUS
<1>1. p \in Owned(md) /\ q \in Owned(md) /\ p \in MDs /\ q \in MDs
  BY Fields
<1>2. md[p].start \in Int /\ md[p].len \in Int /\ md[q].start \in Int /\ md[q].len \in Int
  BY <1>1, Fields
<1>3. /\ End(md, p) <= md[q].start \/ End(md, q) <= md[p].start
      /\ md[p].len > 0 /\ md[q].len > 0
  BY <1>1 DEF Good, Divided
<1> QED
  BY <1>2, <1>3 DEF End

(* Where the parts of the pool are.                                          *)
LEMMA Inside ==
  ASSUME Good(md, mfl, rover, mal), NEW p \in Owned(md)
  PROVE  /\ md[p].start \in 0..(Pool - 1) /\ md[p].len \in 1..Pool
<1>1. p \in MDs
  BY DEF Owned
<1>2. md[p].start \in Int /\ md[p].len \in Int /\ md[p].start >= 0
  BY <1>1, Fields
<1>3. md[p].len > 0 /\ md[p].start + md[p].len <= Pool
  BY DEF Good, Divided, End
<1> QED
  BY <1>2, <1>3, DriverMemAssumption

(* The instance of Heap counts as this module does.                          *)
LEMMA SameCount == ASSUME NEW S PROVE Heap!Cardinality(S) = Cardinality(S)
BY DEF Heap!Cardinality, Cardinality

(* A refused request changes nothing, and the heap may refuse it too.        *)
LEMMA RefuseStep ==
  ASSUME IInv, NEW n \in Amounts, Refuse(n),
         (\A a \in Heap!Unused : ~Heap!Room(a, n)) \/ Spare = {}
  PROVE  Heap!RetOK' /\ Heap!Refuse(n)
<1>1. Heap!RetOK'
  <2>1. ret' = <<"alloc", n, Null>> /\ Null \in Null..(Pool - 1)
    BY DriverMemAssumption DEF Refuse, Null
  <2> QED
    BY <2>1 DEF Heap!RetOK, Null, Heap!Null
<1>2. Cardinality(Live(md, mal)) + Cardinality(Heap!Gaps) >= MaxMD \/ \A a \in Heap!Unused : ~Heap!Room(a, n)
  BY AllUsed DEF IInv
<1>3. ret' = <<"alloc", n, Null>> /\ UNCHANGED <<md, mfl, mal, rover>>
  BY DEF Refuse
<1>4. {[start |-> md'[i].start, len |-> md'[i].len] : i \in mal'}
        = {[start |-> md[i].start, len |-> md[i].len] : i \in mal}
  BY <1>3
<1>5. ret' = <<"alloc", n, Heap!Null>>
  BY <1>3 DEF Null, Heap!Null
<1> QED
  BY <1>1, <1>2, <1>4, <1>5, SameCount DEF Heap!Refuse, Live

(* A granted request takes the front of a free part that is long enough.     *)
LEMMA GrantStep ==
  ASSUME IInv, NEW n \in Amounts, NEW k \in 1..Len(mfl), n <= md[mfl[k]].len,
         ret' = <<"alloc", n, md[mfl[k]].start>>, mal' = mal \cup {mfl[k]},
         \A q \in mal : md'[q] = md[q],
         md'[mfl[k]].start = md[mfl[k]].start, md'[mfl[k]].len = n
  PROVE  Heap!RetOK' /\ Heap!Grant(n)
<1> DEFINE p == mfl[k]
           s == md[p].start
<1>1. s \in Heap!Unused /\ Heap!Room(s, n)
  <2>1. n \in Int
    BY DriverMemAssumption
  <2> QED
    BY <2>1, HasRoom DEF IInv
<1>2. s \in 0..(Pool - 1)
  BY <1>1 DEF Heap!Unused
<1>3. Heap!RetOK'
  <2>1. s \in Null..(Pool - 1)
    BY <1>2, DriverMemAssumption DEF Null
  <2> QED
    BY <2>1 DEF Heap!RetOK, Null, Heap!Null
<1>4. {[start |-> md'[i].start, len |-> md'[i].len] : i \in mal'}
        = {[start |-> md[i].start, len |-> md[i].len] : i \in mal} \cup {[start |-> s, len |-> n]}
  <2> DEFINE new(i) == [start |-> md'[i].start, len |-> md'[i].len]
             old(i) == [start |-> md[i].start, len |-> md[i].len]
  <2>1. new(p) = [start |-> s, len |-> n]
    OBVIOUS
  <2>2. \A i \in mal : new(i) = old(i)
    OBVIOUS
  <2> HIDE DEF new, old
  <2>3. mal' = mal \cup {p}
    OBVIOUS
  <2>4. {new(i) : i \in mal'} = {old(i) : i \in mal} \cup {[start |-> s, len |-> n]}
    BY <2>1, <2>2, <2>3
  <2> QED
    BY <2>4 DEF new, old
<1> QED
  BY <1>1, <1>3, <1>4 DEF Heap!Grant

(* driver_mem_alloc keeps the pool well formed and is a grant or a refusal   *)
(* of the heap.                                                              *)
LEMMA AllocStep ==
  ASSUME IInv, NEW n \in Amounts, driver_mem_alloc(n)
  PROVE  IInv' /\ (Heap!Grant(n) \/ Heap!Refuse(n))
<1>1. /\ Good(md, mfl, rover, mal) /\ AllApart(md, mfl) /\ use_count \in 1..MaxUse
      /\ n \in 1..Pool /\ n \in Nat \ {0} /\ use_count' = use_count
  BY DriverMemAssumption DEF IInv, driver_mem_alloc
<1>2. CASE Refuse(n) /\ ((\A a \in Heap!Unused : ~Heap!Room(a, n)) \/ Spare = {})
  <2>1. Heap!RetOK' /\ Heap!Refuse(n)
    BY <1>2, RefuseStep
  <2>2. Good(md', mfl', rover', mal') /\ AllApart(md', mfl')
    BY <1>1, <1>2 DEF Refuse
  <2> QED
    BY <1>1, <2>1, <2>2 DEF IInv
<1>3. CASE rover = NoMD
  <2>1. Len(mfl) = 0
    <3>1. \A i \in 1..Len(mfl) : mfl[i] # NoMD
      BY <1>1, Fields DEF NoMD
    <3> QED
      BY <1>1, <1>3, <3>1 DEF Good, RoverOn
  <2>2. \A j \in 1..Len(mfl) : ~(md[mfl[j]].len >= n)
    BY <2>1
  <2>3. \A a \in Heap!Unused : ~Heap!Room(a, n)
    BY <1>1, <2>2, NoRoom
  <2>4. Refuse(n)
    BY <1>3 DEF driver_mem_alloc
  <2> QED
    BY <1>2, <2>3, <2>4
<1>4. CASE rover # NoMD /\ Steps(n) = {}
  <2>1. \A j \in 1..Len(mfl) : ~(md[mfl[j]].len >= n)
    BY <1>1, <1>4, Places
  <2>2. \A a \in Heap!Unused : ~Heap!Room(a, n)
    BY <1>1, <2>1, NoRoom
  <2>3. Refuse(n)
    BY <1>4 DEF driver_mem_alloc
  <2> QED
    BY <1>2, <2>2, <2>3
<1>5. CASE rover # NoMD /\ Steps(n) # {}
  <2> DEFINE k == Place(n)
  <2>1. k \in 1..Len(mfl) /\ md[mfl[k]].len >= n
    BY <1>1, <1>5, Places
  <2>2. \/ md[mfl[k]].len = n /\ TakeWhole(k, n)
        \/ Spare = {} /\ Refuse(n)
        \/ md[mfl[k]].len # n /\ Spare # {} /\ Split(k, n)
    BY <1>5 DEF driver_mem_alloc
  <2> HIDE DEF k
  <2>3. mfl[k] \in MDs /\ md[mfl[k]].len \in Int
    BY <1>1, <2>1, Fields
  <2>4. CASE md[mfl[k]].len = n /\ TakeWhole(k, n)
    <3>1. Good(md', mfl', rover', mal') /\ AllApart(md', mfl')
      BY <1>1, <2>1, <2>4, TookWhole
    <3>2. md' = md /\ mal' = mal \cup {mfl[k]} /\ ret' = <<"alloc", n, md[mfl[k]].start>>
      BY <2>4 DEF TakeWhole, Grant
    <3>3. n <= md[mfl[k]].len
      BY <1>1, <2>4
    <3>4. Heap!RetOK' /\ Heap!Grant(n)
      BY <2>1, <2>4, <3>2, <3>3, GrantStep
    <3> QED
      BY <1>1, <3>1, <3>4 DEF IInv
  <2>5. CASE Spare = {} /\ Refuse(n)
    BY <1>2, <2>5
  <2>6. CASE md[mfl[k]].len # n /\ Spare # {} /\ Split(k, n)
    <3>1. n < md[mfl[k]].len
      BY <1>1, <2>1, <2>3, <2>6
    <3>2. /\ Good(md', mfl', rover', mal') /\ AllApart(md', mfl')
          /\ \A q \in mal : md'[q] = md[q]
          /\ md'[mfl[k]].start = md[mfl[k]].start /\ md'[mfl[k]].len = n
      BY <1>1, <2>1, <2>6, <3>1, DidSplit
    <3>3. mal' = mal \cup {mfl[k]} /\ ret' = <<"alloc", n, md[mfl[k]].start>>
      BY <2>6 DEF Split, Grant
    <3>4. n <= md[mfl[k]].len
      BY <1>1, <2>3, <3>1
    <3>5. Heap!RetOK' /\ Heap!Grant(n)
      BY <2>1, <3>2, <3>3, <3>4, GrantStep
    <3> QED
      BY <1>1, <3>2, <3>5 DEF IInv
  <2> QED
    BY <2>2, <2>4, <2>5, <2>6
<1> QED
  BY <1>3, <1>4, <1>5

(* driver_mem_alloc(-1) reports a length that the heap could grant.          *)
LEMMA MaxStep ==
  ASSUME IInv, driver_mem_max
  PROVE  IInv' /\ Heap!Report
<1> DEFINE lens == {md[mfl[k]].len : k \in 1..Len(mfl)}
           m == CHOOSE l \in lens : \A x \in lens : x <= l
           n == IF rover = NoMD THEN 0 ELSE m - 1
<1>1. /\ Good(md, mfl, rover, mal) /\ AllApart(md, mfl) /\ use_count \in 1..MaxUse
      /\ UNCHANGED <<md, mfl, mal, rover, use_count>> /\ ret' = <<"max", n>>
  BY DEF IInv, driver_mem_max
<1>2. n \in 0..Pool /\ (n = 0 \/ \E a \in Heap!Unused : Heap!Room(a, n))
  <2>1. CASE rover = NoMD
    BY <2>1, DriverMemAssumption
  <2>2. CASE rover # NoMD
    <3>1. Len(mfl) \in Nat \ {0} /\ \A j \in 1..Len(mfl) : mfl[j] \in Owned(md)
      BY <1>1, <2>2, Fields DEF Good, RoverOn
    <3>2. \A j \in 1..Len(mfl) : md[mfl[j]].len \in 1..Pool
      BY <1>1, <3>1, Inside
    <3>3. lens \subseteq 0..Pool /\ lens # {}
      <4>1. md[mfl[1]].len \in lens
        BY <3>1
      <4> QED
        BY <3>2, <4>1
    <3>4. m \in lens
      <4>1. \E l \in lens : \A x \in lens : x <= l
        BY <3>3, HighestIn, DriverMemAssumption
      <4> QED
        BY <4>1
    <3>5. PICK j \in 1..Len(mfl) : md[mfl[j]].len = m
      BY <3>4
    <3> HIDE DEF m, lens
    <3>6. m \in 1..Pool
      BY <3>2, <3>5
    <3>7. m - 1 \in Int /\ m - 1 <= md[mfl[j]].len /\ m - 1 \in 0..Pool
      BY <3>5, <3>6, DriverMemAssumption
    <3>8. md[mfl[j]].start \in Heap!Unused /\ Heap!Room(md[mfl[j]].start, m - 1)
      BY <1>1, <3>7, HasRoom
    <3> QED
      BY <2>2, <3>7, <3>8
  <2> QED
    BY <2>1, <2>2
<1> HIDE DEF n
<1>3. Heap!RetOK'
  BY <1>1, <1>2 DEF Heap!RetOK
<1>4. Heap!Report
  BY <1>1, <1>2 DEF Heap!Report
<1> QED
  BY <1>1, <1>3, <1>4 DEF IInv

(* driver_mem_free is a return of the heap, or the address is rejected.      *)
LEMMA FreeStep ==
  ASSUME IInv, NEW a \in 0..(Pool - 1), driver_mem_free(a)
  PROVE  IInv' /\ (Heap!Reject(a) \/ \E b \in Live(md, mal) : Heap!Return(b))
<1>1. /\ Good(md, mfl, rover, mal) /\ AllApart(md, mfl) /\ use_count \in 1..MaxUse
      /\ use_count' = use_count
  BY DEF IInv, driver_mem_free
<1> DEFINE found == {p \in mal : md[p].start = a}
<1>2. CASE found = {} /\ ret' = <<"free", Null>> /\ UNCHANGED <<md, mfl, mal, rover>>
  <2>1. Heap!RetOK'
    BY <1>2 DEF Heap!RetOK, Null, Heap!Null
  <2>2. \A b \in Live(md, mal) : b.start # a
    <3> SUFFICES ASSUME NEW p \in mal PROVE [start |-> md[p].start, len |-> md[p].len].start # a
      BY DEF Live
    <3>1. p \notin found
      BY <1>2
    <3> QED
      BY <3>1
  <2>3. Heap!Reject(a)
    BY <1>2, <2>2 DEF Heap!Reject, Live, Null, Heap!Null
  <2> QED
    BY <1>1, <1>2, <2>1, <2>3 DEF IInv
<1>3. CASE \E p \in found : freeit(p) /\ mal' = mal \ {p} /\ ret' = <<"free", 0>>
  <2>1. PICK p \in found : freeit(p) /\ mal' = mal \ {p} /\ ret' = <<"free", 0>>
    BY <1>3
  <2>2. p \in mal
    OBVIOUS
  <2>3. /\ Good(md', mfl', rover', mal \ {p}) /\ AllApart(md', mfl')
        /\ \A q \in mal \ {p} : md'[q] = md[q]
    BY <1>1, <2>1, <2>2, Freed
  <2>4. Heap!RetOK'
    BY <2>1 DEF Heap!RetOK, Null, Heap!Null
  <2> DEFINE new(i) == [start |-> md'[i].start, len |-> md'[i].len]
             old(i) == [start |-> md[i].start, len |-> md[i].len]
  <2>5. \A i \in mal \ {p} : new(i) = old(i) /\ old(i) # old(p)
    <3> SUFFICES ASSUME NEW i \in mal \ {p} PROVE new(i) = old(i) /\ old(i) # old(p)
      OBVIOUS
    <3>1. md[i].start # md[p].start
      BY <1>1, <2>2, StartsDiffer
    <3>2. old(i).start = md[i].start /\ old(p).start = md[p].start
      OBVIOUS
    <3>3. old(i) # old(p)
      <4> HIDE DEF old
      <4> QED
        BY <3>1, <3>2
    <3> QED
      BY <2>3, <3>3
  <2> HIDE DEF new, old
  <2>6. {new(i) : i \in mal'} = {old(i) : i \in mal} \ {old(p)}
    BY <2>1, <2>2, <2>5
  <2>7. Heap!Return(old(p)) /\ old(p) \in Live(md, mal)
    BY <2>1, <2>2, <2>6 DEF Heap!Return, Live, new, old
  <2>8. \E b \in Live(md, mal) : Heap!Return(b)
    BY <2>7 DEF Heap!Return
  <2>9. Good(md', mfl', rover', mal')
    BY <2>1, <2>3
  <2>10. IInv'
    BY <1>1, <2>3, <2>4, <2>9 DEF IInv
  <2> QED
    BY <2>8, <2>10
<1> QED
  BY <1>2, <1>3 DEF driver_mem_free

-----------------------------------------------------------------------------
(* The pool as driver_mem_init hands it out. *)
LEMMA InitRight == Init => IInv
<1> SUFFICES ASSUME Init PROVE IInv
  OBVIOUS
<1> DEFINE whole == [start |-> 0, len |-> Pool, own |-> TRUE]
<1>1. 0 \in MDs /\ Pool \in Nat /\ Pool > 0 /\ whole \in MDRec /\ Unowned \in MDRec
  BY DriverMemAssumption DEF MDs, MDRec, Unowned
<1>2. /\ md \in [MDs -> MDRec] /\ md[0] = whole /\ \A p \in MDs \ {0} : md[p] = Unowned
  <2>1. md = [i \in MDs |-> IF i = 0 THEN whole ELSE Unowned]
    BY DEF Init
  <2> HIDE DEF whole
  <2> QED
    BY <1>1, <2>1
<1>3. md[0].start = 0 /\ md[0].len = Pool /\ md[0].own /\ \A p \in MDs \ {0} : ~md[p].own
  BY <1>2 DEF Unowned
<1>4. Owned(md) = {0} /\ End(md, 0) = Pool
  BY <1>1, <1>3 DEF Owned, End
<1>5. mfl \in Seq(MDs) /\ Len(mfl) = 1 /\ mfl[1] = 0 /\ mal = {} /\ rover = 0 /\ use_count = 1 /\ ret = None
  BY <1>1 DEF Init
<1>6. Typed(md, mfl, rover, mal)
  BY <1>1, <1>2, <1>5 DEF Typed
<1>7. Linked(md, mfl, mal)
  <2>1. \A i \in 1..Len(mfl) : i = 1
    BY <1>5
  <2>2. ASSUME NEW p \in MDs PROVE md[p].own <=> (p \in mal \/ \E i \in 1..Len(mfl) : mfl[i] = p)
    <3>1. CASE p = 0
      <4>1. 1 \in 1..Len(mfl)
        BY <1>5
      <4> QED
        BY <3>1, <4>1, <1>3, <1>5
    <3>2. CASE p # 0
      BY <3>2, <2>1, <1>3, <1>5
    <3> QED
      BY <3>1, <3>2
  <2> QED
    BY <2>1, <2>2, <1>5 DEF Linked
<1>8. Divided(md)
  BY <1>1, <1>3, <1>4 DEF Divided
<1>9. Sorted(md, mfl) /\ RoverOn(mfl, rover) /\ AllApart(md, mfl)
  BY <1>5 DEF Sorted, RoverOn, AllApart, Apart
<1>10. use_count \in 1..MaxUse /\ Heap!RetOK
  BY <1>5, DriverMemAssumption DEF Heap!RetOK, None, Heap!None
<1> QED
  BY <1>6, <1>7, <1>8, <1>9, <1>10 DEF IInv, Good

(* A step of the allocator keeps its lists well formed, and callers see it   *)
(* as a step of the heap or not at all.                                      *)
LEMMA StepRight == IInv /\ [Next]_vars => IInv' /\ [Heap!HeapNext]_(Heap!heapVars)
<1> SUFFICES ASSUME IInv, [Next]_vars PROVE IInv' /\ [Heap!HeapNext]_(Heap!heapVars)
  OBVIOUS
<1>1. ASSUME NEW n \in Amounts, driver_mem_alloc(n) PROVE IInv' /\ Heap!HeapNext
  BY <1>1, AllocStep DEF Heap!HeapNext
<1>2. CASE driver_mem_max
  BY <1>2, MaxStep DEF Heap!HeapNext
<1>3. ASSUME NEW a \in 0..(Pool - 1), driver_mem_free(a) PROVE IInv' /\ Heap!HeapNext
  BY <1>3, FreeStep DEF Heap!HeapNext, Live
<1>4. CASE driver_mem_init \/ driver_mem_release \/ UNCHANGED vars
  <2>1. UNCHANGED <<md, mfl, mal, rover, ret>>
    BY <1>4 DEF driver_mem_init, driver_mem_release, vars
  <2>2. use_count' \in 1..MaxUse
    <3>1. use_count \in 1..MaxUse /\ MaxUse \in Int
      BY DriverMemAssumption DEF IInv
    <3> QED
      BY <1>4, <3>1 DEF driver_mem_init, driver_mem_release, vars
  <2>3. Heap!RetOK'
    BY <2>1 DEF IInv, Heap!RetOK
  <2>4. IInv'
    BY <2>1, <2>2, <2>3 DEF IInv
  <2>5. UNCHANGED Heap!heapVars
    BY <2>1 DEF Heap!heapVars
  <2> QED
    BY <2>4, <2>5
<1> QED
  BY <1>1, <1>2, <1>3, <1>4 DEF Next

(* For any pool and any sequence of calls, the MDs divide the pool without a *)
(* gap or an overlap, those of free parts are linked by address, no two of   *)
(* these touch, and the rover is one of them.                                *)
THEOREM DriverMemInvariant == Spec => []IInv
<1>1. IInv /\ [Next]_vars => IInv'
  BY StepRight
<1> QED
  BY <1>1, InitRight, PTL DEF Spec

(* The search of ffit ends, and no MD is lost or owned twice, whatever is    *)
(* taken from driver_mem_alloc and given back to driver_mem_free.            *)
THEOREM DriverMemListsRight == Spec => []ListsRight
<1>1. IInv => ListsRight
  <2> SUFFICES ASSUME IInv PROVE ListsRight
    OBVIOUS
  <2>1. /\ Typed(md, mfl, rover, mal) /\ Linked(md, mfl, mal) /\ RoverOn(mfl, rover)
        /\ use_count \in 1..MaxUse /\ Heap!RetOK
    BY DEF IInv, Good
  <2>2. TypeOK
    BY <2>1 DEF TypeOK, Typed, MDRec
  <2>3. IF mfl = <<>> THEN rover = NoMD ELSE rover \in Listed
    <3>1. CASE mfl = <<>>
      BY <2>1, <3>1 DEF RoverOn
    <3>2. CASE mfl # <<>>
      <4>1. Len(mfl) # 0
        BY <2>1, <3>2, EmptySeq DEF Typed
      <4> QED
        BY <2>1, <3>2, <4>1 DEF RoverOn, Listed
    <3> QED
      BY <3>1, <3>2
  <2>4. /\ \A i \in MDs : md[i].own <=> i \in Listed \cup mal
        /\ Listed \cap mal = {}
    BY <2>1 DEF Linked, Listed
  <2> QED
    BY <2>2, <2>3, <2>4 DEF ListsRight
<1> QED
  BY <1>1, DriverMemInvariant, PTL

(* The allocator is a Heap: with DriverMemSeparate, callers never hold the   *)
(* same byte, and a request is refused only when no gap is long enough or    *)
(* every MD is in use.                                                       *)
THEOREM DriverMemRefines == Spec => Refines
<1>1. Init => Heap!HeapInit
  BY DEF Init, Heap!HeapInit, None, Heap!None
<1>2. IInv /\ [Next]_vars => IInv' /\ [Heap!HeapNext]_(Heap!heapVars)
  BY StepRight
<1> QED
  BY <1>1, <1>2, InitRight, PTL DEF Spec, Refines, Heap!HeapSpec

-----------------------------------------------------------------------------
(* What a heap promises. *)

(* Whatever is granted and returned in whatever order, the blocks that are   *)
(* held are disjoint and inside the pool.                                    *)
THEOREM HeapSeparate == Heap!HeapSpec => []Heap!Separate
<1> DEFINE held == {[start |-> md[i].start, len |-> md[i].len] : i \in mal}
<1>1. Heap!HeapInit => Heap!Separate
  BY DEF Heap!HeapInit, Heap!Separate
<1>2. Heap!Separate /\ [Heap!HeapNext]_(Heap!heapVars) => Heap!Separate'
  <2> SUFFICES ASSUME Heap!Separate, [Heap!HeapNext]_(Heap!heapVars) PROVE Heap!Separate'
    OBVIOUS
  <2>1. ASSUME NEW n \in Amounts, Heap!Grant(n) PROVE Heap!Separate'
    <3>1. PICK a \in Heap!Unused : /\ Heap!Room(a, n)
                                   /\ held' = held \cup {[start |-> a, len |-> n]}
      BY <2>1 DEF Heap!Grant
    <3> DEFINE new == [start |-> a, len |-> n]
    <3>2. Heap!Grains(new) \subseteq Heap!Unused
      BY <3>1 DEF Heap!Grains, Heap!Room
    <3>3. Heap!Grains(new) \subseteq 0..(Pool - 1)
      BY <3>2 DEF Heap!Unused
    <3>4. \A b \in held : Heap!Grains(b) \cap Heap!Grains(new) = {}
      BY <3>2 DEF Heap!Unused
    <3>5. held' = held \cup {new}
      BY <3>1 DEF new
    <3>6. /\ \A b \in held : Heap!Grains(b) \subseteq 0..(Pool - 1)
          /\ \A b, c \in held : b # c => Heap!Grains(b) \cap Heap!Grains(c) = {}
      BY DEF Heap!Separate
    <3> HIDE DEF new, held
    <3>7. \A b \in held' : Heap!Grains(b) \subseteq 0..(Pool - 1)
      BY <3>3, <3>5, <3>6
    <3>8. \A b, c \in held' : b # c => Heap!Grains(b) \cap Heap!Grains(c) = {}
      BY <3>4, <3>5, <3>6
    <3> QED
      BY <3>7, <3>8 DEF Heap!Separate, Heap!Grains, held
  <2>2. ASSUME NEW b \in held, Heap!Return(b) PROVE Heap!Separate'
    BY <2>2 DEF Heap!Return, Heap!Separate, Heap!Grains
  <2>3. ASSUME UNCHANGED held PROVE Heap!Separate'
    BY <2>3 DEF Heap!Separate, Heap!Grains
  <2> QED
    BY <2>1, <2>2, <2>3 DEF Heap!HeapNext, Heap!Refuse, Heap!Reject, Heap!Report, Heap!heapVars
<1> QED
  BY <1>1, <1>2, PTL DEF Heap!HeapSpec

(* Two callers of driver_mem_alloc never hold the same byte, and nobody      *)
(* holds a byte outside of the pool.                                         *)
THEOREM DriverMemSeparate == Spec => []Heap!Separate
<1>1. Spec => Heap!HeapSpec
  BY DriverMemRefines DEF Refines
<1> QED
  BY <1>1, HeapSeparate, PTL
=============================================================================
