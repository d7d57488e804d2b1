---------------------------- MODULE SdCard_proofs ---------------------------
(* Proofs about SdCard, for any number of sectors, requests and failures: a  *)
(* request that succeeds has read what was asked for, has stored all chunks  *)
(* of several sectors, and never touches other sectors.                      *)
EXTENDS SdCard, TLAPS

Call == [op : {"read", "write"}, recno : 0..Sectors, count : (-Half)..(2 * Half), buf : 0..Sectors]

AllTypes ==
  /\ TypeOK
  /\ req \in Call /\ asked \in Call
  /\ reqs \in 0..MaxReqs

\* Only a SDHC card is ever addressed by sectors.
Addressed == CardType = "SD2_BLOCK" => card.kind = "SDHC"

Busy == pc \in {"transfer", "check"}

\* What is left of a request is its end, from a whole number of chunks on; of
\* one whose count is negative it is all of it.
Progress ==
  /\ asked.recno + asked.count <= Sectors
  /\ asked.count \in 0..(2 * Half - 1)
  /\ Busy => /\ req.op = asked.op
             /\ req.recno = asked.recno + req.buf
             /\ retries < max_retries
             /\ \/ /\ asked.count < Half
                   /\ req.buf + req.count = asked.count
                   /\ req.count > 0
                   /\ \E k \in Nat : req.buf = k * Chunk
                \/ /\ asked.count >= Half
                   /\ req.buf = 0
                   /\ req.count = asked.count - 2 * Half

\* The number of sectors that count as transferred.
Transferred ==
  IF Busy THEN IF pc = "check" /\ ret = "ok" THEN req.buf + count ELSE req.buf
  ELSE IF result = "E_OK" THEN Got ELSE 0

ReadSoFar ==
  asked.op = "read" /\ ~astray => \A i \in 0..(Transferred - 1) : buf[i] = disk[asked.recno + i]

Stored(i) == disk[asked.recno + i] = <<reqs, i>>
StoredSoFar ==
  asked.op = "write" /\ ~astray => \A i \in 0..(Transferred - 1) : LeftOver(i) \/ Stored(i)

IInv == AllTypes /\ Addressed /\ Progress /\ ReadSoFar /\ StoredSoFar

-----------------------------------------------------------------------------
(* Arithmetic: the address in bytes leads back to the sector. *)
LEMMA Quotient ==
  ASSUME NEW x \in Nat, NEW s \in Nat \ {0}
  PROVE  (x * s) \div s = x /\ (x * s) % s = 0
<1> QED
  OBVIOUS

(* What a uint8_t keeps of a number. *)
LEMMA Narrowed ==
  ASSUME NEW x \in Nat, NEW b \in Nat \ {0}
  PROVE  x % b \in 0..(b - 1) /\ x % b <= x /\ (x < b => x % b = x)
<1> QED
  OBVIOUS

(* The card starts in the sector that it was asked for, unless it is a SDHC  *)
(* card that is addressed in bytes.                                          *)
LEMMA StartsRight ==
  ASSUME AllTypes, Addressed
  PROVE  Start \in Nat /\ Start = IF Misaddressed THEN req.recno * Scale ELSE req.recno
<1>1. req.recno \in Nat /\ Scale \in Nat \ {0}
  BY SdAssumption DEF AllTypes, Call
<1>2. (req.recno * Scale) \div Scale = req.recno
  BY <1>1, Quotient
<1>3. req.recno * Scale \in Nat
  BY <1>1
<1> QED
  BY <1>1, <1>2, <1>3 DEF Start, Address, Addressed, Misaddressed

(* Widths and sizes. *)
LEMMA Sizes ==
  /\ Sectors \in Nat \ {0} /\ Chunk \in Nat \ {0} /\ Byte \in Nat \ {0} /\ Half \in Nat \ {0}
  /\ Chunk < Byte /\ Byte <= Half /\ MaxReqs \in Nat /\ MaxFaults \in Nat
<1> QED
  BY SdAssumption

(* A request gets no more than was asked for. *)
LEMMA GotAtMost ==
  ASSUME Progress
  PROVE  Got \in 0..asked.count
<1>1. asked.count \in Nat
  BY Sizes DEF Progress
<1>2. asked.count % Byte \in 0..(Byte - 1) /\ asked.count % Byte <= asked.count
  BY <1>1, Narrowed, Sizes
<1> HIDE DEF Progress
<1> QED
  BY <1>1, <1>2, Sizes DEF Got

(* A call of the disk functions is for at most the rest of the request; for  *)
(* a single sector only at its end, or for all that is left of a count.      *)
LEMMA CallLength ==
  ASSUME AllTypes, Progress, Busy
  PROVE  /\ count \in Nat /\ req.buf + count <= Got
         /\ asked.count < Half => /\ count = num_sectors /\ num_sectors \in 1..req.count
                                  /\ num_sectors < req.count => num_sectors = Chunk
         /\ asked.count >= Half => count = Got /\ num_sectors = asked.count
         /\ count = 1 /\ Chunk > 1 => LeftOver(req.buf)
<1>1. /\ req.buf \in Nat /\ req.count \in Int /\ asked.count \in Nat
      /\ asked.count < 2 * Half
  BY Sizes DEF AllTypes, Call, Progress
<1>2. CASE asked.count < Half
  <2>1. req.buf + req.count = asked.count /\ req.count > 0 /\ \E k \in Nat : req.buf = k * Chunk
    <3>1. ~(asked.count >= Half)
      BY <1>1, <1>2, Sizes
    <3> QED
      BY <3>1 DEF Progress
  <2>2. /\ num_sectors \in 1..req.count
        /\ num_sectors < req.count => num_sectors = Chunk
        /\ num_sectors <= Chunk
    BY <1>1, <2>1, Sizes DEF num_sectors
  <2>3. count = num_sectors
    <3>1. num_sectors \in Nat /\ num_sectors < Byte
      BY <1>1, <2>1, <2>2, Sizes
    <3> QED
      BY <3>1, Narrowed, Sizes DEF count
  <2>4. Got = asked.count
    BY <1>2 DEF Got
  <2>5. req.buf % Chunk = 0
    <3>1. PICK k \in Nat : req.buf = k * Chunk
      BY <2>1
    <3> QED
      BY <3>1, Quotient, Sizes
  <2>6. ASSUME count = 1, Chunk > 1 PROVE LeftOver(req.buf)
    <3>1. req.count = 1
      BY <1>1, <2>1, <2>2, <2>3, <2>6, Sizes
    <3>2. req.buf = Got - 1
      BY <1>1, <2>1, <2>4, <3>1
    <3> QED
      BY <1>2, <2>5, <3>2 DEF LeftOver
  <2>7. count \in Nat /\ req.buf + count <= Got
    BY <1>1, <2>1, <2>2, <2>3, <2>4
  <2> QED
    BY <1>1, <1>2, <2>2, <2>3, <2>6, <2>7, Sizes
<1>3. CASE asked.count >= Half
  <2>1. req.buf = 0 /\ req.count = asked.count - 2 * Half
    <3>1. ~(asked.count < Half)
      BY <1>1, <1>3, Sizes
    <3> QED
      BY <3>1 DEF Progress
  <2>2. num_sectors = asked.count
    BY <1>1, <2>1, Sizes DEF num_sectors
  <2>3. Got = asked.count % Byte /\ count = Got
    BY <1>1, <1>3, <2>2, Sizes DEF Got, count
  <2>4. Got \in Nat
    <3>1. asked.count % Byte \in 0..(Byte - 1)
      BY <1>1, Narrowed, Sizes
    <3> QED
      BY <2>3, <3>1, Sizes
  <2>5. 0 % Byte = 0
    BY Sizes, Narrowed
  <2>6. ~(asked.count < Half)
    BY <1>1, <1>3, Sizes
  <2>7. count = 1 => LeftOver(req.buf)
    BY <2>1, <2>3, <2>5, <2>6 DEF LeftOver
  <2> QED
    BY <2>1, <2>2, <2>3, <2>4, <2>6, <2>7
<1> QED
  BY <1>1, <1>2, <1>3, Sizes

(* disk_initialize takes only a SDHC card for one. *)
LEMMA InitializeKeeps ==
  ASSUME AllTypes, Addressed, disk_initialize
  PROVE  /\ Stat' \in {"ok", "noinit"} /\ CardType' \in Types
         /\ card' \in [kind : Kinds, ready : BOOLEAN] /\ faults' \in 0..MaxFaults
         /\ Addressed'
<1>1. card \in [kind : Kinds, ready : BOOLEAN] /\ faults \in 0..MaxFaults
  BY DEF AllTypes, TypeOK
<1>2. faults' \in 0..MaxFaults
  <2>1. Fails \/ Works
    BY DEF disk_initialize, NotDetected, DetectV2, DetectV2AsOld, DetectOld, DetectOldAsMMC
  <2> QED
    BY <1>1, <2>1, Sizes DEF Fails, Works
<1>3. ASSUME NEW type \in Types, NEW ready \in BOOLEAN, Detected(type, ready),
             type = "SD2_BLOCK" => card.kind = "SDHC"
      PROVE  /\ Stat' \in {"ok", "noinit"} /\ CardType' \in Types
             /\ card' \in [kind : Kinds, ready : BOOLEAN]
             /\ Addressed'
  BY <1>1, <1>3 DEF Detected, Addressed
<1>4. CASE NotDetected
  <2>1. Detected("none", FALSE)
    BY <1>4 DEF NotDetected
  <2> QED
    BY <1>2, <1>3, <2>1 DEF Types
<1>5. CASE DetectV2
  <2>1. PICK ready \in BOOLEAN :
          Detected(IF card.kind = "SDHC" /\ ready THEN "SD2_BLOCK" ELSE "SD2", ready)
    BY <1>5 DEF DetectV2
  <2>2. CASE card.kind = "SDHC" /\ ready
    BY <1>2, <1>3, <2>1, <2>2 DEF Types
  <2>3. CASE ~(card.kind = "SDHC" /\ ready)
    BY <1>2, <1>3, <2>1, <2>3 DEF Types
  <2> QED
    BY <2>2, <2>3
<1>6. CASE DetectV2AsOld
  <2>1. \/ card.kind = "SDHC" /\ Detected("none", FALSE)
        \/ card.kind # "SDHC" /\ Detected("SD1", TRUE)
    BY <1>6 DEF DetectV2AsOld
  <2> QED
    BY <1>2, <1>3, <2>1 DEF Types
<1>7. CASE DetectOld
  <2>1. card.kind \in {"SD1", "MMC"} /\ Detected(card.kind, TRUE)
    BY <1>7 DEF DetectOld
  <2> QED
    BY <1>2, <1>3, <2>1 DEF Types
<1>8. CASE DetectOldAsMMC
  <2>1. card.kind = "SD1" /\ (Detected("MMC", TRUE) \/ Detected("none", FALSE))
    BY <1>8 DEF DetectOldAsMMC
  <2> QED
    BY <1>2, <1>3, <2>1 DEF Types
<1> QED
  BY <1>4, <1>5, <1>6, <1>7, <1>8 DEF disk_initialize

-----------------------------------------------------------------------------
(* The two disk functions *)

(* Where the rest of a request lies. *)
LEMMA Rest ==
  ASSUME AllTypes, Progress, Busy
  PROVE  /\ req.recno \in Nat /\ req.buf \in Nat /\ asked.recno \in Nat /\ count \in Nat
         /\ Got \in Nat /\ asked.recno + Got <= Sectors /\ req.buf + count <= Got
         /\ req.recno = asked.recno + req.buf
         /\ req.op = asked.op /\ req.op \in {"read", "write"}
<1>1. /\ req.recno \in Nat /\ req.buf \in Nat /\ asked.recno \in Nat
      /\ req.op \in {"read", "write"} /\ asked.count \in Int
  BY Sizes DEF AllTypes, Call
<1>2. count \in Nat /\ req.buf + count <= Got /\ Got \in 0..asked.count
  BY CallLength, GotAtMost
<1>3. /\ asked.recno + asked.count <= Sectors /\ req.recno = asked.recno + req.buf
      /\ req.op = asked.op
  BY DEF Progress
<1> QED
  BY <1>1, <1>2, <1>3, Sizes

(* A read fills the sectors of the chunk, all of them when it succeeds.      *)
LEMMA ReadFills ==
  ASSUME IInv, pc = "transfer", req.op = "read", disk_read(count)
  PROVE  /\ disk' = disk /\ ret' \in {"ok", "error"} /\ faults' \in 0..MaxFaults
         /\ buf' \in [0..(Sectors - 1) -> Data]
         /\ \A i \in 0..(req.buf - 1) : buf'[i] = buf[i]
         /\ ret' = "ok" /\ ~Misaddressed =>
              \A i \in req.buf..(req.buf + count - 1) : buf'[i] = disk[asked.recno + i]
<1> DEFINE n == count
<1>1. AllTypes /\ Addressed /\ Progress /\ Busy
  BY DEF IInv, Busy
<1>2. /\ req.recno \in Nat /\ req.buf \in Nat /\ asked.recno \in Nat /\ n \in Nat
      /\ Got \in Nat /\ asked.recno + Got <= Sectors /\ req.buf + n <= Got
      /\ req.recno = asked.recno + req.buf
  BY <1>1, Rest
<1>3. Sectors \in Nat /\ faults \in 0..MaxFaults /\ MaxFaults \in Nat
  BY <1>1, Sizes DEF AllTypes, TypeOK
<1>4. disk \in [0..(Sectors - 1) -> Data] /\ buf \in [0..(Sectors - 1) -> Data]
  BY <1>1 DEF AllTypes, TypeOK
<1>5. Start \in Nat /\ (~Misaddressed => Start = req.recno)
  BY <1>1, StartsRight
<1> HIDE DEF n
<1>6. disk' = disk /\ ret' \in {"ok", "error"} /\ faults' \in 0..MaxFaults
  BY <1>3 DEF disk_read, Works, Fails
<1>7. CASE n = 0 \/ Stat = "noinit" \/ ~Accepted
  BY <1>4, <1>6, <1>7 DEF disk_read, n
<1>8. ASSUME NEW m \in Nat, m <= n, m <= Room, ReadBlocks(m)
      PROVE  /\ buf' \in [0..(Sectors - 1) -> Data]
             /\ \A i \in 0..(req.buf - 1) : buf'[i] = buf[i]
             /\ ~Misaddressed =>
                  \A i \in req.buf..(req.buf + m - 1) : buf'[i] = disk[asked.recno + i]
  <2> DEFINE st == Start
  <2>0. st \in Nat /\ m <= Sectors - st /\ (~Misaddressed => st = req.recno)
    BY <1>5, <1>8 DEF Room
  <2>1. buf' = [i \in 0..(Sectors - 1) |->
                  IF i \in req.buf..(req.buf + m - 1) THEN disk[st + i - req.buf] ELSE buf[i]]
    BY <1>4, <1>8 DEF ReadBlocks
  <2> HIDE DEF st
  <2>2. \A i \in req.buf..(req.buf + m - 1) :
          i \in 0..(Sectors - 1) /\ st + i - req.buf \in 0..(Sectors - 1)
    BY <1>2, <1>3, <1>8, <2>0
  <2>3. \A i \in 0..(req.buf - 1) : i \in 0..(Sectors - 1) /\ i \notin req.buf..(req.buf + m - 1)
    BY <1>2, <1>3
  <2>4. ~Misaddressed => \A i \in req.buf..(req.buf + m - 1) : st + i - req.buf = asked.recno + i
    BY <1>2, <2>0
  <2> QED
    BY <1>4, <2>1, <2>2, <2>3, <2>4
<1>9. CASE ~(n = 0 \/ Stat = "noinit" \/ ~Accepted)
  <2>0. Room \in Nat
    BY <1>3, <1>5, <1>9 DEF Room, Accepted
  <2>1. \/ n <= Room /\ ReadBlocks(n)
        \/ n > Room /\ ReadBlocks(Room) /\ ret' = "error"
        \/ \E m \in 0..(n - 1) : m <= Room /\ ReadBlocks(m) /\ ret' = "error"
    BY <1>9 DEF disk_read, n
  <2>2. CASE n <= Room /\ ReadBlocks(n)
    BY <1>2, <1>6, <1>8, <2>2 DEF n
  <2>3. CASE n > Room /\ ReadBlocks(Room) /\ ret' = "error"
    BY <1>2, <1>6, <1>8, <2>0, <2>3
  <2>4. CASE \E m \in 0..(n - 1) : m <= Room /\ ReadBlocks(m) /\ ret' = "error"
    BY <1>2, <1>6, <1>8, <2>4
  <2> QED
    BY <2>1, <2>2, <2>3, <2>4
<1> QED
  BY <1>7, <1>9

(* A write stores in the sectors of the chunk what belongs there, and        *)
(* nothing elsewhere; when it succeeds all of it, but for a single sector.   *)
LEMMA WriteStores ==
  ASSUME IInv, pc = "transfer", req.op = "write", disk_write(count)
  PROVE  /\ buf' = buf /\ ret' \in {"ok", "error"} /\ faults' \in 0..MaxFaults
         /\ disk' \in [0..(Sectors - 1) -> Data]
         /\ Misaddressed => \A s \in 0..(Sectors - 1) : disk'[s] # disk[s] =>
              s \in (req.recno * Scale)..(req.recno * Scale + count - 1)
         /\ ~Misaddressed => \A s \in 0..(Sectors - 1) :
              \/ disk'[s] = disk[s]
              \/ /\ s \in req.recno..(req.recno + count - 1)
                 /\ disk'[s] = <<reqs, s - asked.recno>>
         /\ ~Misaddressed /\ ret' = "ok" /\ count # 1 =>
              \A s \in req.recno..(req.recno + count - 1) : disk'[s] = <<reqs, s - asked.recno>>
<1> DEFINE n == count
<1>1. AllTypes /\ Addressed /\ Progress /\ Busy
  BY DEF IInv, Busy
<1>2. /\ req.recno \in Nat /\ req.buf \in Nat /\ asked.recno \in Nat /\ n \in Nat
      /\ Got \in Nat /\ asked.recno + Got <= Sectors /\ req.buf + n <= Got
      /\ req.recno = asked.recno + req.buf
  BY <1>1, Rest
<1>3. Sectors \in Nat /\ faults \in 0..MaxFaults /\ MaxFaults \in Nat /\ reqs \in 0..MaxReqs
  BY <1>1, Sizes DEF AllTypes, TypeOK
<1>4. disk \in [0..(Sectors - 1) -> Data]
  BY <1>1 DEF AllTypes, TypeOK
<1> DEFINE st == Start
<1>5. st \in Nat /\ st = IF Misaddressed THEN req.recno * Scale ELSE req.recno
  BY <1>1, StartsRight
<1> HIDE DEF n
<1>6. CASE n = 0 \/ Stat = "noinit" \/ ~Accepted
  BY <1>3, <1>4, <1>6 DEF disk_write, n, Works
<1>7. CASE ~(n = 0 \/ Stat = "noinit" \/ ~Accepted)
  <2>0. Room \in Nat /\ Room = Sectors - st /\ Room > 0
    BY <1>3, <1>5, <1>7 DEF Room, Accepted
  <2>1. \E m \in Nat : /\ m <= n /\ m <= Room
                       /\ WriteBlocks(m)
                       /\ ret' \in {"ok", "error"}
                       /\ Fails \/ Works
                       /\ ret' = "ok" /\ n # 1 => m = n
    <3>1. CASE n = 1
      <4>1. WriteSingle
        BY <1>7, <3>1 DEF disk_write, n
      <4> QED
        BY <2>0, <3>1, <4>1 DEF WriteSingle
    <3>2. CASE n # 1
      <4>1. WriteMultiple(n)
        BY <1>7, <3>2 DEF disk_write, n
      <4>2. CASE n <= Room /\ WriteBlocks(n) /\ ret' = "ok" /\ Works
        BY <1>2, <4>2
      <4>3. CASE n > Room /\ WriteBlocks(Room) /\ ret' = "error" /\ Works
        BY <1>2, <2>0, <4>3
      <4>4. CASE \E m \in 0..n : m <= Room /\ WriteBlocks(m) /\ ret' = "error" /\ Fails
        BY <1>2, <4>4
      <4> QED
        BY <4>1, <4>2, <4>3, <4>4 DEF WriteMultiple
    <3> QED
      BY <3>1, <3>2
  <2>2. PICK m \in Nat : /\ m <= n /\ m <= Room
                         /\ WriteBlocks(m)
                         /\ ret' \in {"ok", "error"}
                         /\ Fails \/ Works
                         /\ ret' = "ok" /\ n # 1 => m = n
    BY <2>1
  <2>3. buf' = buf /\ faults' \in 0..MaxFaults
    <3>1. buf' = buf
      BY DEF disk_write
    <3>2. faults' \in 0..MaxFaults
      BY <1>3, <2>2 DEF Fails, Works
    <3> QED
      BY <3>1, <3>2
  <2>4. disk' = [s \in 0..(Sectors - 1) |->
                   IF s \in st..(st + m - 1) THEN <<reqs, req.buf + s - st>> ELSE disk[s]]
    BY <1>4, <2>2 DEF WriteBlocks
  <2>13. st + m <= Sectors
    BY <1>3, <1>5, <2>0, <2>2
  <2> HIDE DEF st
  <2>5. \A s \in st..(st + m - 1) : req.buf + s - st \in 0..(Sectors - 1)
    BY <1>2, <1>3, <1>5, <2>2
  <2>6. \A s \in st..(st + m - 1) : <<reqs, req.buf + s - st>> \in Data
    BY <1>3, <2>5 DEF Data
  <2>7. disk' \in [0..(Sectors - 1) -> Data]
    BY <1>4, <2>4, <2>6
  <2>8. \A s \in st..(st + m - 1) : s \in st..(st + n - 1) /\ s \in 0..(Sectors - 1)
    BY <1>2, <1>3, <1>5, <2>2, <2>13
  <2>9. \A s \in 0..(Sectors - 1) :
          \/ disk'[s] = disk[s]
          \/ s \in st..(st + n - 1) /\ disk'[s] = <<reqs, req.buf + s - st>>
    BY <2>4, <2>8
  <2>10. ret' = "ok" /\ n # 1 => \A s \in st..(st + n - 1) : disk'[s] = <<reqs, req.buf + s - st>>
    BY <2>2, <2>4, <2>8
  <2>11. CASE Misaddressed
    <3>1. st = req.recno * Scale
      BY <1>5, <2>11
    <3> QED
      BY <2>2, <2>3, <2>7, <2>9, <2>11, <3>1 DEF n
  <2>12. CASE ~Misaddressed
    <3>1. st = req.recno
      BY <1>5, <2>12
    <3>2. \A s \in st..(st + n - 1) : req.buf + s - st = s - asked.recno
      BY <1>2, <3>1
    <3> QED
      BY <2>2, <2>3, <2>7, <2>9, <2>10, <2>12, <3>1, <3>2 DEF n
  <2> QED
    BY <2>11, <2>12
<1> QED
  BY <1>6, <1>7

-----------------------------------------------------------------------------
(* The invariant holds at first and is kept by every step.                   *)

(* Before sd_card_init no request has been made. *)
LEMMA InitIInv == Init => IInv
<1> SUFFICES ASSUME Init PROVE IInv
  OBVIOUS
<1>0. Sectors \in Nat \ {0} /\ Half \in Nat \ {0} /\ MaxReqs \in Nat /\ MaxFaults \in Nat
  BY Sizes
<1>1. AllTypes
  <2>1. NoReq \in Call
    BY <1>0 DEF NoReq, Call
  <2>2. \A s \in 0..(Sectors - 1) : <<0, s>> \in Data /\ <<0, 0>> \in Data
    BY <1>0 DEF Data
  <2>3. disk \in [0..(Sectors - 1) -> Data] /\ buf \in [0..(Sectors - 1) -> Data]
    BY <2>2 DEF Init
  <2>4. card \in [kind : Kinds, ready : BOOLEAN]
    BY DEF Init
  <2>5. astray \in BOOLEAN /\ req \in Call /\ asked \in Call
    BY <2>1 DEF Init
  <2>6. /\ Stat \in {"ok", "noinit"} /\ CardType \in Types
        /\ pc \in {"boot", "idle", "transfer", "check"} /\ ret \in {"ok", "error"}
        /\ result \in {"none", "E_OK", "ERROR"}
    BY DEF Init, Types
  <2>7. retries \in 0..max_retries /\ faults \in 0..MaxFaults /\ reqs \in 0..MaxReqs
    BY <1>0 DEF Init, max_retries
  <2> QED
    BY <2>3, <2>4, <2>5, <2>6, <2>7 DEF AllTypes, TypeOK
<1>2. Addressed /\ Progress
  <2>1. CardType = "none"
    BY DEF Init
  <2>2. asked.recno + asked.count = 0 /\ asked.count = 0
    BY DEF Init, NoReq
  <2> QED
    BY <1>0, <2>1, <2>2 DEF Init, Addressed, Progress, Busy
<1>3. Transferred = 0
  BY DEF Init, Transferred, Busy
<1>4. ReadSoFar /\ StoredSoFar
  BY <1>3 DEF ReadSoFar, StoredSoFar
<1> QED
  BY <1>1, <1>2, <1>4 DEF IInv

(* What the conversion to int16_t makes of a count. *)
LEMMA Converted ==
  ASSUME NEW x \in Int
  PROVE  /\ x \in 0..(Half - 1) => Int16(x) = x
         /\ x \in Half..(2 * Half - 1) => Int16(x) = x - 2 * Half
         /\ x = -(2 * Half) => Int16(x) = 0
<1> QED
  BY Sizes DEF Int16

(* A new request starts with nothing transferred. *)
LEMMA RequestKeeps ==
  ASSUME IInv, NEW q \in Requests, NEW r \in 0..(Sectors - 1), r + q[2] <= Sectors,
         Request(q[1], r, q[2])
  PROVE  IInv' /\ disk' = disk
<1>1. q[1] \in {"read", "write"} /\ q[2] \in 1..(2 * Half - 1)
  BY SdAssumption
<1> DEFINE i == Int16(q[2])
<1>2. /\ asked' = [op |-> q[1], recno |-> r, count |-> q[2], buf |-> 0]
      /\ req' = [asked' EXCEPT !.count = i]
      /\ pc' = "transfer" /\ disk' = disk /\ UNCHANGED drive /\ astray' = FALSE
  BY DEF Request
<1>3. /\ q[2] < Half => i = q[2]
      /\ q[2] >= Half => i = q[2] - 2 * Half
  BY <1>1, Converted, Sizes
<1> HIDE DEF i
<1>4. req' = [op |-> q[1], recno |-> r, count |-> i, buf |-> 0]
  BY <1>2
<1>5. AllTypes'
  <2>1. i \in (-Half)..(2 * Half) /\ q[2] \in (-Half)..(2 * Half)
    BY <1>1, <1>3, Sizes
  <2>2. r \in 0..Sectors /\ 0 \in 0..Sectors
    BY Sizes
  <2>3. req' \in Call /\ asked' \in Call
    BY <1>1, <1>2, <1>4, <2>1, <2>2 DEF Call
  <2>4. buf' \in [0..(Sectors - 1) -> Data]
    <3>1. <<0, 0>> \in Data
      BY Sizes DEF Data
    <3>2. buf' = [k \in DOMAIN buf |-> <<0, 0>>] /\ DOMAIN buf = 0..(Sectors - 1)
      BY DEF Request, IInv, AllTypes, TypeOK
    <3> QED
      BY <3>1, <3>2
  <2>5. reqs' \in 0..MaxReqs
    BY Sizes DEF Request, IInv, AllTypes
  <2>6. /\ UNCHANGED <<Stat, CardType, card, disk, ret, faults>>
        /\ pc' = "transfer" /\ result' = "none" /\ astray' = FALSE /\ retries' = 0
    BY DEF Request, drive
  <2>7. retries' \in 0..max_retries /\ astray' \in BOOLEAN
    <3>1. 0 \in 0..max_retries /\ FALSE \in BOOLEAN
      BY DEF max_retries
    <3> QED
      BY <2>6, <3>1, Zenon
  <2>8. TypeOK
    BY DEF IInv, AllTypes
  <2>9. TypeOK'
    BY <2>4, <2>6, <2>7, <2>8 DEF TypeOK
  <2> QED
    BY <2>3, <2>5, <2>9 DEF AllTypes
<1>6. Addressed'
  BY <1>2 DEF IInv, Addressed, drive
<1>7. Progress'
  <2>1. 0 = 0 * Chunk
    BY Sizes
  <2>2. /\ req'.op = q[1] /\ req'.recno = r /\ req'.buf = 0 /\ req'.count = i
        /\ asked'.op = q[1] /\ asked'.recno = r /\ asked'.count = q[2]
    BY <1>2, <1>4
  <2>3. retries' = 0
    BY DEF Request
  <2>4. r = r + 0 /\ 0 < max_retries /\ q[2] \in 0..(2 * Half - 1)
    BY <1>1, Sizes DEF max_retries
  <2>5. \/ q[2] < Half /\ 0 + i = q[2] /\ i > 0
        \/ q[2] >= Half /\ i = q[2] - 2 * Half
    BY <1>1, <1>3, Sizes
  <2>6. \E k \in Nat : 0 = k * Chunk
    BY <2>1
  <2> QED
    BY <2>2, <2>3, <2>4, <2>5, <2>6 DEF Progress
<1>8. Transferred' = 0
  BY <1>2, <1>4 DEF Transferred, Busy
<1>9. ReadSoFar' /\ StoredSoFar'
  BY <1>8 DEF ReadSoFar, StoredSoFar
<1> QED
  BY <1>2, <1>5, <1>6, <1>7, <1>9 DEF IInv

(* A call of a disk function adds its sectors to those transferred. *)
LEMMA TransferKeeps ==
  ASSUME IInv, Chunk > 1, Transfer
  PROVE  IInv'
<1>1. AllTypes /\ Addressed /\ Progress /\ Busy /\ pc = "transfer"
  BY DEF IInv, Busy, Transfer
<1>2. /\ UNCHANGED <<Stat, CardType, card, req, asked, retries, result, reqs>> /\ pc' = "check"
      /\ astray' = (astray \/ Misaddressed)
  BY DEF Transfer, drive
<1>3. count' = count /\ Got' = Got
  BY <1>2 DEF count, num_sectors, Got
<1>4. /\ req.recno \in Nat /\ req.buf \in Nat /\ asked.recno \in Nat /\ count \in Nat
      /\ Got \in Nat /\ asked.recno + Got <= Sectors /\ req.buf + count <= Got
      /\ req.recno = asked.recno + req.buf
      /\ req.op = asked.op /\ req.op \in {"read", "write"}
  BY <1>1, Rest
<1>5. Transferred = req.buf
  BY <1>1 DEF Transferred
<1>6. Transferred' = IF ret' = "ok" THEN req.buf + count ELSE req.buf
  BY <1>2, <1>3 DEF Transferred, Busy
<1>7. Addressed' /\ Progress'
  BY <1>1, <1>2 DEF Addressed, Progress, Busy
<1>8. \A i \in 0..(Transferred' - 1) : i \in 0..(req.buf - 1) \/
                                       (ret' = "ok" /\ i \in req.buf..(req.buf + count - 1))
  BY <1>4, <1>6
<1>9. CASE req.op = "read"
  <2>1. disk_read(count)
    BY <1>9 DEF Transfer
  <2>2. /\ disk' = disk /\ ret' \in {"ok", "error"} /\ faults' \in 0..MaxFaults
        /\ buf' \in [0..(Sectors - 1) -> Data]
        /\ \A i \in 0..(req.buf - 1) : buf'[i] = buf[i]
        /\ ret' = "ok" /\ ~Misaddressed =>
             \A i \in req.buf..(req.buf + count - 1) : buf'[i] = disk[asked.recno + i]
    BY <1>1, <1>9, <2>1, ReadFills
  <2>3. AllTypes'
    BY <1>1, <1>2, <2>2 DEF AllTypes, TypeOK
  <2>4. ~astray => \A i \in 0..(req.buf - 1) : buf[i] = disk[asked.recno + i]
    BY <1>4, <1>5, <1>9 DEF IInv, ReadSoFar
  <2>5. ~astray' => \A i \in 0..(Transferred' - 1) : buf'[i] = disk'[asked'.recno + i]
    BY <1>2, <1>8, <2>2, <2>4
  <2>6. ReadSoFar' /\ StoredSoFar'
    BY <1>2, <1>4, <1>9, <2>5 DEF ReadSoFar, StoredSoFar
  <2> QED
    BY <1>7, <2>3, <2>6 DEF IInv
<1>10. CASE req.op = "write"
  <2>1. disk_write(count)
    BY <1>10 DEF Transfer
  <2>2. /\ buf' = buf /\ ret' \in {"ok", "error"} /\ faults' \in 0..MaxFaults
        /\ disk' \in [0..(Sectors - 1) -> Data]
        /\ ~Misaddressed => \A s \in 0..(Sectors - 1) :
             \/ disk'[s] = disk[s]
             \/ /\ s \in req.recno..(req.recno + count - 1)
                /\ disk'[s] = <<reqs, s - asked.recno>>
        /\ ~Misaddressed /\ ret' = "ok" /\ count # 1 =>
             \A s \in req.recno..(req.recno + count - 1) : disk'[s] = <<reqs, s - asked.recno>>
    BY <1>1, <1>10, <2>1, WriteStores
  <2>3. AllTypes'
    BY <1>1, <1>2, <2>2 DEF AllTypes, TypeOK
  <2>4. ~astray => \A i \in 0..(req.buf - 1) : LeftOver(i) \/ Stored(i)
    BY <1>4, <1>5, <1>10 DEF IInv, StoredSoFar
  <2>5. \A i \in 0..(Got - 1) : /\ asked.recno + i \in 0..(Sectors - 1)
                                /\ (asked.recno + i) - asked.recno = i
    BY <1>4, Sizes
  <2>6. ~Misaddressed => \A i \in 0..(Got - 1) : Stored(i) => Stored(i)'
    BY <1>2, <2>2, <2>5 DEF Stored
  <2>7. ASSUME ret' = "ok", ~Misaddressed, NEW i \in req.buf..(req.buf + count - 1)
        PROVE  LeftOver(i) \/ Stored(i)'
    <3>1. i \in 0..(Got - 1) /\ asked.recno + i \in req.recno..(req.recno + count - 1)
      BY <1>4, <2>7
    <3>2. CASE count # 1
      BY <1>2, <2>2, <2>5, <2>7, <3>1, <3>2 DEF Stored
    <3>3. CASE count = 1
      <4>1. i = req.buf
        BY <1>4, <2>7, <3>3
      <4> QED
        BY <1>1, <3>3, <4>1, CallLength
    <3> QED
      BY <3>2, <3>3
  <2>8. \A i \in 0..(req.buf - 1) : i \in 0..(Got - 1)
    BY <1>4
  <2>9. ~astray /\ ~Misaddressed => \A i \in 0..(Transferred' - 1) : LeftOver(i) \/ Stored(i)'
    BY <1>8, <2>4, <2>6, <2>7, <2>8
  <2>10. \A i : LeftOver(i)' <=> LeftOver(i)
    BY <1>2, <1>3 DEF LeftOver
  <2>11. ReadSoFar' /\ StoredSoFar'
    BY <1>2, <1>4, <1>10, <2>9, <2>10 DEF ReadSoFar, StoredSoFar
  <2> QED
    BY <1>7, <2>3, <2>11 DEF IInv
<1> QED
  BY <1>4, <1>9, <1>10

(* The next chunk begins where this one ended. *)
LEMMA AdvanceKeeps ==
  ASSUME IInv, Advance
  PROVE  IInv'
<1>1. AllTypes /\ Addressed /\ Progress /\ Busy /\ pc = "check" /\ ret = "ok"
  BY DEF IInv, Busy, Advance
<1> DEFINE n == num_sectors
           c == Int16(req.count - n)
<1>2. /\ req' = [req EXCEPT !.recno = @ + n, !.buf = @ + n, !.count = Int16(@ - n)]
      /\ UNCHANGED <<Stat, CardType, card, disk, buf, asked, astray, ret, reqs, faults>>
      /\ retries' = 0
      /\ IF req'.count > 0 THEN pc' = "transfer" /\ result' = result
                           ELSE pc' = "idle" /\ result' = "E_OK"
  BY DEF Advance, drive
<1>3. /\ req.recno \in 0..Sectors /\ req.buf \in 0..Sectors /\ asked.recno \in 0..Sectors
      /\ req.op \in {"read", "write"} /\ req.count \in Int /\ req \in Call
      /\ asked.count \in 0..(2 * Half - 1) /\ asked.recno + asked.count <= Sectors
      /\ req.recno = asked.recno + req.buf /\ req.op = asked.op
  BY <1>1 DEF AllTypes, Call, Progress
<1>4. CASE asked.count < Half
  <2>1. /\ req.buf + req.count = asked.count /\ req.count > 0
        /\ \E k \in Nat : req.buf = k * Chunk
    <3>1. ~(asked.count >= Half)
      BY <1>3, <1>4, Sizes
    <3> QED
      BY <1>1, <3>1 DEF Progress
  <2>2. n \in 1..req.count /\ (n < req.count => n = Chunk) /\ count = n
    <3>1. /\ num_sectors \in 1..req.count /\ count = num_sectors
          /\ num_sectors < req.count => num_sectors = Chunk
      <4> HIDE DEF n, c
      <4> QED
        BY <1>1, <1>4, CallLength
    <3> QED
      BY <3>1 DEF n
  <2> HIDE DEF n, c
  <2>3. c = req.count - n
    <3>1. req.count - n \in 0..(Half - 1)
      BY <1>3, <1>4, <2>1, <2>2, Sizes
    <3> QED
      BY <3>1, Converted DEF c
  <2>4. /\ req.recno + n \in 0..Sectors /\ req.buf + n \in 0..Sectors
        /\ c \in (-Half)..(2 * Half)
    BY <1>3, <1>4, <2>1, <2>2, <2>3, Sizes
  <2>5. req' = [op |-> req.op, recno |-> req.recno + n, count |-> c, buf |-> req.buf + n]
    BY <1>2, <1>3 DEF Call, c
  <2>6. req' \in Call
    BY <1>3, <2>4, <2>5 DEF Call
  <2>7. /\ req'.op = req.op /\ req'.recno = req.recno + n /\ req'.buf = req.buf + n
        /\ req'.count = req.count - n
    BY <2>3, <2>5
  <2>8. AllTypes' /\ Addressed'
    BY <1>1, <1>2, <2>6 DEF AllTypes, TypeOK, Addressed, max_retries
  <2>9. Progress'
    <3>1. ASSUME req'.count > 0 PROVE \E k \in Nat : req'.buf = k * Chunk
      <4>1. n = Chunk
        <5>1. req.count - n > 0
          BY <2>7, <3>1
        <5>2. n < req.count
          BY <1>3, <2>2, <5>1
        <5> QED
          BY <2>2, <5>2
      <4>2. PICK k \in Nat : req.buf = k * Chunk
        BY <2>1
      <4>3. k + 1 \in Nat /\ (k + 1) * Chunk = req.buf + Chunk
        BY <4>2, Sizes
      <4> QED
        BY <2>7, <4>1, <4>3
    <3>2. /\ req'.recno = asked.recno + req'.buf /\ req'.buf + req'.count = asked.count
          /\ req'.op = asked.op
      BY <1>3, <2>1, <2>2, <2>7
    <3>3. Busy' => req'.count > 0
      BY <1>2 DEF Busy
    <3>4. retries' < max_retries
      BY <1>2 DEF max_retries
    <3> QED
      BY <1>2, <1>3, <1>4, <3>1, <3>2, <3>3, <3>4 DEF Progress
  <2>10. Transferred' = Transferred /\ Got' = Got
    <3>1. Got = asked.count /\ Got' = Got
      BY <1>2, <1>4 DEF Got
    <3>2. Transferred = req.buf + n
      BY <1>1, <2>2 DEF Transferred
    <3>3. CASE req'.count > 0
      BY <1>2, <2>7, <3>2, <3>1, <3>3 DEF Transferred, Busy
    <3>4. CASE ~(req'.count > 0)
      <4>1. req.buf + n = Got
        BY <1>3, <2>1, <2>2, <2>7, <3>1, <3>4
      <4> QED
        BY <1>2, <3>1, <3>2, <3>4, <4>1 DEF Transferred, Busy
    <3> QED
      BY <3>1, <3>3, <3>4
  <2> QED
    BY <1>2, <2>8, <2>9, <2>10 DEF IInv, ReadSoFar, StoredSoFar, Stored, LeftOver
<1>5. CASE asked.count >= Half
  <2>1. req.buf = 0 /\ req.count = asked.count - 2 * Half
    <3>1. ~(asked.count < Half)
      BY <1>3, <1>5, Sizes
    <3> QED
      BY <1>1, <3>1 DEF Progress
  <2>2. n = asked.count /\ count = Got
    BY <1>1, <1>5, CallLength
  <2> HIDE DEF n, c
  <2>3. c = 0
    <3>1. req.count - n = -(2 * Half)
      BY <1>3, <2>1, <2>2, Sizes
    <3> QED
      BY <3>1, Converted, Sizes DEF c
  <2>4. req.recno + n \in 0..Sectors /\ req.buf + n \in 0..Sectors /\ 0 \in (-Half)..(2 * Half)
    BY <1>3, <2>1, <2>2, Sizes
  <2>5. req' = [op |-> req.op, recno |-> req.recno + n, count |-> 0, buf |-> req.buf + n]
    BY <1>2, <1>3, <2>3 DEF Call, c
  <2>6. req' \in Call
    BY <1>3, <2>4, <2>5 DEF Call
  <2>7. pc' = "idle" /\ result' = "E_OK"
    <3>1. req'.count = 0
      BY <2>5
    <3>2. ~(req'.count > 0)
      BY <3>1
    <3> QED
      BY <1>2, <3>2
  <2>8. AllTypes' /\ Addressed'
    BY <1>1, <1>2, <2>6, <2>7 DEF AllTypes, TypeOK, Addressed, max_retries
  <2>9. Progress'
    BY <1>2, <1>3, <2>7 DEF Progress, Busy
  <2>10. Transferred' = Transferred /\ Got' = Got
    <3>1. Got' = Got
      BY <1>2 DEF Got
    <3>2. Got \in Nat
      BY <1>1, Rest
    <3> QED
      BY <1>1, <2>1, <2>2, <2>7, <3>1, <3>2 DEF Transferred, Busy
  <2> QED
    BY <1>2, <2>8, <2>9, <2>10 DEF IInv, ReadSoFar, StoredSoFar, Stored, LeftOver
<1> QED
  BY <1>3, <1>4, <1>5, Sizes

(* A chunk that failed is tried again from its start, or the request ends. *)
LEMMA RetryKeeps ==
  ASSUME IInv, Retry
  PROVE  IInv' /\ disk' = disk
<1>1. AllTypes /\ Addressed /\ Progress /\ Busy /\ pc = "check" /\ ret = "error"
  BY DEF IInv, Busy, Retry
<1>2. /\ UNCHANGED <<disk, buf, req, asked, astray, ret, reqs>> /\ retries' = retries + 1
      /\ IF retries' < max_retries THEN pc' = "transfer" /\ result' = result
                                   ELSE pc' = "idle" /\ result' = "ERROR"
  BY DEF Retry
<1>3. disk_initialize
  BY DEF Retry
<1>4. /\ Stat' \in {"ok", "noinit"} /\ CardType' \in Types
      /\ card' \in [kind : Kinds, ready : BOOLEAN] /\ faults' \in 0..MaxFaults
      /\ Addressed'
  BY <1>1, <1>3, InitializeKeeps
<1>5. retries \in 0..2 /\ retries' \in 0..3
  BY <1>1, <1>2 DEF AllTypes, TypeOK, Progress, max_retries
<1>6. AllTypes'
  BY <1>1, <1>2, <1>4, <1>5 DEF AllTypes, TypeOK, max_retries
<1>7. Progress'
  BY <1>1, <1>2, <1>5 DEF Progress, Busy
<1>8. Transferred = req.buf /\ (Transferred' = req.buf \/ Transferred' = 0) /\ req.buf \in Nat
  BY <1>1, <1>2 DEF Transferred, Busy, AllTypes, Call
<1>9. \A i \in 0..(Transferred' - 1) : i \in 0..(Transferred - 1)
  BY <1>8
<1>10. ReadSoFar' /\ StoredSoFar'
  BY <1>2, <1>9 DEF IInv, ReadSoFar, StoredSoFar, Stored, LeftOver, Got
<1> QED
  BY <1>2, <1>4, <1>6, <1>7, <1>10 DEF IInv

(* sd_card_init. *)
LEMMA BootKeeps ==
  ASSUME IInv, Boot
  PROVE  IInv' /\ disk' = disk
<1>1. AllTypes /\ Addressed /\ Progress /\ pc = "boot" /\ disk_initialize
  BY DEF IInv, Boot
<1>2. UNCHANGED <<disk, buf, req, asked, astray, retries, ret, result, reqs>> /\ pc' = "idle"
  BY DEF Boot
<1>3. /\ Stat' \in {"ok", "noinit"} /\ CardType' \in Types
      /\ card' \in [kind : Kinds, ready : BOOLEAN] /\ faults' \in 0..MaxFaults
      /\ Addressed'
  BY <1>1, InitializeKeeps
<1>4. AllTypes'
  BY <1>1, <1>2, <1>3 DEF AllTypes, TypeOK
<1>5. Progress'
  BY <1>1, <1>2 DEF Progress, Busy
<1>6. Transferred' = Transferred
  BY <1>1, <1>2 DEF Transferred, Busy, Got
<1>7. ReadSoFar' /\ StoredSoFar'
  BY <1>2, <1>6 DEF IInv, ReadSoFar, StoredSoFar, Stored, LeftOver, Got
<1> QED
  BY <1>2, <1>3, <1>4, <1>5, <1>7 DEF IInv

(* A card that is ready at last changes nothing of the request. *)
LEMMA WarmKeeps ==
  ASSUME IInv, Warm
  PROVE  IInv' /\ disk' = disk
<1>1. /\ card' = [card EXCEPT !.ready = TRUE] /\ ~card.ready /\ CardType # "none"
      /\ UNCHANGED <<Stat, CardType, disk, buf, req, asked, astray, retries, pc, ret, result, reqs,
                     faults>>
  BY DEF Warm
<1>2. AllTypes /\ Addressed
  BY DEF IInv
<1>3. card' \in [kind : Kinds, ready : BOOLEAN] /\ card'.kind = card.kind
  BY <1>1, <1>2 DEF AllTypes, TypeOK
<1>4. AllTypes'
  BY <1>1, <1>2, <1>3 DEF AllTypes, TypeOK
<1>5. Addressed'
  BY <1>1, <1>2, <1>3 DEF Addressed
<1>6. Progress'
  BY <1>1 DEF IInv, Progress, Busy
<1>7. Transferred' = Transferred
  BY <1>1 DEF Transferred, Busy, count, num_sectors, Got
<1>8. ReadSoFar' /\ StoredSoFar'
  BY <1>1, <1>7 DEF IInv, ReadSoFar, StoredSoFar, Stored, LeftOver, Got
<1> QED
  BY <1>1, <1>4, <1>5, <1>6, <1>8 DEF IInv

(* What a write may change. *)
Spared(s) ==
  /\ asked.op = "write"
  /\ \/ s \in asked.recno..(asked.recno + Got - 1)
     \/ Misaddressed /\ s \in (req.recno * Scale)..(req.recno * Scale + count - 1)

(* A step writes only the sectors that its caller wants written, or those    *)
(* that a misaddressed card takes for them.                                  *)
LEMMA TransferSpares ==
  ASSUME IInv, Transfer, NEW s \in 0..(Sectors - 1), disk'[s] # disk[s]
  PROVE  Spared(s)
<1>1. AllTypes /\ Progress /\ Busy /\ pc = "transfer"
  BY DEF IInv, Busy, Transfer
<1>2. /\ req.op \in {"read", "write"} /\ req.op = asked.op /\ req.recno = asked.recno + req.buf
      /\ req.buf \in Nat /\ asked.recno \in Nat /\ count \in Nat /\ Got \in Nat
      /\ req.buf + count <= Got
  BY <1>1, Rest
<1>3. req.op = "write" /\ disk_write(count)
  BY <1>1, <1>2, ReadFills DEF Transfer
<1>4. \/ Misaddressed /\ s \in (req.recno * Scale)..(req.recno * Scale + count - 1)
      \/ s \in req.recno..(req.recno + count - 1)
  BY <1>1, <1>3, WriteStores
<1>5. s \in req.recno..(req.recno + count - 1) => s \in asked.recno..(asked.recno + Got - 1)
  BY <1>2
<1> QED
  BY <1>2, <1>3, <1>4, <1>5 DEF Spared

(* Every step keeps the invariant, *)
LEMMA NextIInv ==
  ASSUME Chunk > 1, IInv, [Next]_vars
  PROVE  IInv'
<1>1. CASE UNCHANGED vars
  <2> USE <1>1 DEF vars, IInv
  <2>1. AllTypes' /\ Addressed'
    BY DEF AllTypes, TypeOK, Addressed
  <2>2. Progress'
    BY DEF Progress, Busy
  <2>3. Transferred' = Transferred
    BY DEF Transferred, Busy, count, num_sectors, Got
  <2>4. ReadSoFar'
    BY <2>3 DEF ReadSoFar
  <2>5. StoredSoFar'
    BY <2>3 DEF StoredSoFar, Stored, LeftOver, Got
  <2> QED
    BY <2>1, <2>2, <2>4, <2>5
<1> QED
  BY <1>1, RequestKeeps, BootKeeps, TransferKeeps, AdvanceKeeps, RetryKeeps, WarmKeeps
     DEF Next, Step

(* and spares the sectors that nobody wants written. *)
LEMMA NextSpares ==
  ASSUME IInv, [Next]_vars, NEW s \in DOMAIN disk, disk'[s] # disk[s]
  PROVE  Spared(s)
<1>1. s \in 0..(Sectors - 1)
  BY DEF IInv, AllTypes, TypeOK
<1>2. CASE Transfer
  BY <1>1, <1>2, TransferSpares
<1>3. CASE UNCHANGED vars
  BY <1>3 DEF vars
<1>4. Advance => disk' = disk
  BY DEF Advance
<1> QED
  BY <1>2, <1>3, <1>4, RequestKeeps, BootKeeps, RetryKeeps, WarmKeeps DEF Next, Step

(* The invariant holds in every reachable state, if chunks have more than    *)
(* one sector.                                                               *)
THEOREM SdInvariant ==
  ASSUME Chunk > 1
  PROVE  Spec => []IInv
<1>1. IInv /\ [Next]_vars => IInv'
  BY NextIInv
<1> QED
  BY <1>1, InitIInv, PTL DEF Spec

(* A read that reports success has filled the buffer with the sectors that   *)
(* were asked for, whatever failed and was retried in between: of a count    *)
(* from 2^15 on those that the uint8_t leaves, and unless the card is a SDHC *)
(* card that was taken for a byte addressed one.                             *)
THEOREM SdReadWhole ==
  ASSUME Chunk > 1
  PROVE  Spec => []ReadWhole
<1>1. IInv => ReadWhole
  BY DEF IInv, AllTypes, ReadWhole, Done, ReadSoFar, Transferred, Busy
<1> QED
  BY <1>1, SdInvariant, PTL

(* With the same two exceptions, a write that reports success has stored all *)
(* sectors but for a single last one.                                        *)
THEOREM SdChunksWhole ==
  ASSUME Chunk > 1
  PROVE  Spec => []ChunksWhole
<1>1. IInv => ChunksWhole
  BY DEF IInv, ChunksWhole, Done, StoredSoFar, Stored, Transferred, Busy
<1> QED
  BY <1>1, SdInvariant, PTL

(* No request changes a sector it was not asked to write, even when the card *)
(* is initialised again, or taken for another kind, in its middle; those     *)
(* that a misaddressed SDHC card takes for them are named.                   *)
THEOREM SdBystanders ==
  ASSUME Chunk > 1
  PROVE  Spec => Bystanders
<1> DEFINE A == \A s \in DOMAIN disk : disk'[s] # disk[s] => Spared(s)
<1>1. IInv /\ [Next]_vars => A
  BY NextSpares
<1>2. Spec => [][A]_vars
  BY <1>1, SdInvariant, PTL DEF Spec
<1> QED
  BY <1>2 DEF Bystanders, Spared
=============================================================================
