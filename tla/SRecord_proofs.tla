--------------------------- MODULE SRecord_proofs ---------------------------
(* Proofs about SRecord, for every size of memory, every set of files and    *)
(* any number of loads and of read errors: the inductive invariant IInv, and *)
(* from it what a started program can rely on.                               *)
EXTENDS SRecord, TLAPS

(* Copying and comparing keep to the memory: the effect of one line on the   *)
(* variables that read_srecords changes.                                     *)
LEMMA ProcessType ==
  ASSUME TypeOK, NEW r \in Record, Process(r)
  PROVE  /\ ok' \in BOOLEAN /\ header' \in BOOLEAN
         /\ mem' \in [Addr -> Byte] /\ start' \in Addr
         /\ verified' \subseteq Record
<1> USE DEF TypeOK
<1>0. r.addr \in Addr /\ r.sound \in BOOLEAN /\ r.data \in Seq(Byte)
  BY DEF Record
<1>1. CASE Header(r)
  BY <1>0, <1>1 DEF Header
<1>2. CASE Data(r)
  <2>1. \A a \in Cells(r) : a - r.addr + 1 \in 1..Len(r.data)
    <3>1. r.addr \in Int /\ Len(r.data) \in Nat
      BY <1>0 DEF Addr
    <3> QED
      BY <3>1 DEF Cells
  <2>2. Copied(r) \in [Addr -> Byte]
    BY <1>0, <2>1 DEF Copied
  <2>3. Verify(r) \subseteq BOOLEAN
    BY DEF Verify, Agrees
  <2> QED
    BY <1>2, <2>2, <2>3 DEF Data
<1>3. CASE End(r)
  BY <1>0, <1>3 DEF End
<1>4. CASE Other(r)
  BY <1>4 DEF Other
<1> QED
  BY <1>1, <1>2, <1>3, <1>4 DEF Process

(* What comparing a record with memory says when it says OK. *)
LEMMA VerifySound ==
  ASSUME NEW r \in Record, TRUE \in Verify(r)
  PROVE  Agrees(mem, r)
<1>1. CASE r.data = <<>>
  <2>1. r.addr \in Int /\ Len(r.data) = 0
    BY <1>1, SRecordAssumption DEF Record, Addr
  <2>2. Cells(r) = {}
    BY <2>1 DEF Cells
  <2> QED
    BY <2>2 DEF Agrees
<1>2. CASE r.data # <<>>
  BY <1>2 DEF Verify
<1> QED
  BY <1>1, <1>2

(* A copied record agrees with memory, and a copy leaves alone what other    *)
(* records have put elsewhere.                                               *)
LEMMA CopySound ==
  ASSUME NEW r \in Record, r.addr + Len(r.data) <= Top + 1, mem' = Copied(r)
  PROVE  /\ Agrees(mem', r)
         /\ \A s \in Record : /\ s.addr + Len(s.data) <= Top + 1
                              /\ Cells(s) \cap Cells(r) = {}
                              /\ Agrees(mem, s)
                              => Agrees(mem', s)
<1>1. \A s \in Record : s.addr + Len(s.data) <= Top + 1 => Cells(s) \subseteq Addr
  BY SRecordAssumption DEF Record, Cells, Addr
<1>2. \A a \in Cells(r) : mem'[a] = r.data[a - r.addr + 1]
  BY <1>1 DEF Copied
<1>3. \A a \in Addr : a \notin Cells(r) => mem'[a] = mem[a]
  BY DEF Copied
<1>4. Agrees(mem', r)
  BY <1>2 DEF Agrees
<1>5. ASSUME NEW s \in Record, s.addr + Len(s.data) <= Top + 1,
             Cells(s) \cap Cells(r) = {}, Agrees(mem, s)
      PROVE  Agrees(mem', s)
  <2> SUFFICES ASSUME NEW a \in Cells(s) PROVE mem'[a] = s.data[a - s.addr + 1]
    BY DEF Agrees
  <2>1. a \in Addr /\ a \notin Cells(r)
    BY <1>1, <1>5
  <2> QED
    BY <1>3, <1>5, <2>1 DEF Agrees
<1> QED
  BY <1>4, <1>5

-----------------------------------------------------------------------------
(* The invariant holds when nothing has been loaded. *)
LEMMA InitInv == Init => IInv
<1> SUFFICES ASSUME Init PROVE IInv
  OBVIOUS
<1>1. <<>> \in Seq(Record) /\ Len(<<>>) = 0
  OBVIOUS
<1>2. 0 \in Addr /\ 0 \in 0..MaxLoads /\ 0 \in 0..MaxFaults
  BY SRecordAssumption DEF Addr
<1>3. TypeOK
  BY <1>1, <1>2 DEF Init, TypeOK
<1>4. outcome = "none"
  BY DEF Init
<1>5. FitsInv
  BY <1>1 DEF Init, FitsInv
<1> QED
  BY <1>3, <1>4, <1>5 DEF IInv, StartedInv, VerifiedInv, HeaderInv, CleanInv, DataInv, StartInv, Live

(* A line that is read. *)
LEMMA ReadLineInv ==
  ASSUME IInv, ReadLine PROVE IInv'
<1> DEFINE r == file[line]
<1> USE DEF IInv
<1>1. /\ file \in Seq(Record) /\ Len(file) \in Nat /\ line \in DOMAIN file
      /\ r \in Record /\ line \in 1..Len(file)
      /\ DOMAIN file = 1..Len(file)
  BY DEF TypeOK, ReadLine, Reading
<1>2. /\ Process(r) /\ line' = line + 1 /\ ok /\ outcome = "loading" /\ Live
      /\ file' = file /\ pass' = pass /\ outcome' = outcome /\ loads' = loads
      /\ faults' = faults
  BY DEF ReadLine, Reading, callers, Live
<1>3. faults \in Nat /\ pass \in {"check", "copy", "verify"}
  BY SRecordAssumption DEF TypeOK
<1>4. r.addr + Len(r.data) <= Top + 1
  BY <1>1 DEF FitsInv
<1> HIDE DEF r
<1>5. TypeOK'
  BY <1>1, <1>2, ProcessType DEF TypeOK
<1>6. StartedInv'
  BY <1>2 DEF StartedInv
<1>7. FitsInv'
  BY <1>2 DEF FitsInv
<1>8. Live' => /\ Clean(r)
               /\ pass = "verify" /\ r.kind = "data" => Agrees(mem, r)
  <2> SUFFICES ASSUME Live'
               PROVE  /\ Clean(r)
                      /\ pass = "verify" /\ r.kind = "data" => Agrees(mem, r)
    OBVIOUS
  <2>1. ok' = TRUE
    BY <1>5 DEF Live, TypeOK
  <2>2. Clean(r)
    BY <1>2, <2>1 DEF Process, Header, Data, End, Other, Clean
  <2>3. pass = "verify" /\ r.kind = "data" => TRUE \in Verify(r)
    BY <1>2, <2>1 DEF Process, Header, Data, End, Other
  <2> QED
    BY <1>1, <2>2, <2>3, VerifySound
<1>9. pass # "copy" => mem' = mem
  BY <1>2 DEF Process, Header, Data, End, Other
<1>10. mem' = mem \/ (r.kind = "data" /\ mem' = Copied(r))
  BY <1>2 DEF Process, Header, Data, End, Other
<1>11. VerifiedInv'
  <2> SUFFICES ASSUME Live', pass = "verify" PROVE \A s \in verified' : Agrees(mem', s)
    BY <1>2 DEF VerifiedInv
  <2>1. verified' = verified \/ (r.kind = "data" /\ verified' = verified \cup {r})
    BY <1>2 DEF Process, Header, Data, End, Other
  <2>2. mem' = mem
    BY <1>9
  <2> QED
    <3>1. \A s \in verified : Agrees(mem, s)
      BY <1>2 DEF VerifiedInv
    <3>2. r.kind = "data" => Agrees(mem, r)
      BY <1>8
    <3> QED
      BY <2>1, <2>2, <3>1, <3>2
<1>12. HeaderInv'
  <2> SUFFICES ASSUME HeaderFirst(file), line + 1 <= Len(file) PROVE header'
    BY <1>2 DEF HeaderInv
  <2>1. CASE line = 1
    <3>1. r.kind = "header"
      BY <2>1 DEF HeaderFirst, r
    <3> QED
      BY <1>2, <3>1 DEF Process, Header, Data, End, Other
  <2>2. CASE line # 1
    <3>1. header
      BY <1>1, <1>2, <2>2 DEF HeaderInv
    <3> QED
      BY <1>2, <3>1 DEF Process, Header, Data, End, Other
  <2> QED
    BY <2>1, <2>2
<1>13. CleanInv'
  <2> SUFFICES ASSUME Live', faults <= 1
               PROVE  /\ pass = "verify" \/ (pass = "copy" /\ faults = 0) => CleanTo(Len(file) + 1)'
                      /\ pass = "copy" \/ faults = 0 => CleanTo(line)'
    BY <1>2 DEF CleanInv, CleanTo
  <2>1. CleanTo(line) => CleanTo(line)'
    <3>1. Clean(r)
      BY <1>8
    <3>2. \A k \in DOMAIN file : k < line + 1 => k < line \/ k = line
      BY <1>1
    <3> QED
      BY <1>2, <3>1, <3>2 DEF CleanTo, r
  <2>2. CleanTo(Len(file) + 1) => CleanTo(Len(file) + 1)'
    BY <1>2 DEF CleanTo
  <2> QED
    BY <1>2, <2>1, <2>2 DEF CleanInv
<1>14. DataInv'
  <2> SUFFICES ASSUME Live', faults <= 1, Disjoint(file)
               PROVE  /\ pass = "verify" /\ faults = 0 => DataTo(Len(file) + 1)'
                      /\ (pass = "verify" /\ faults = 1) \/ (pass = "copy" /\ faults = 0)
                           => DataTo(line)'
    BY <1>2 DEF DataInv, Disjoint, DataOf, DataTo, Cells
  <2>1. ASSUME pass = "verify" PROVE mem' = mem
    BY <1>9, <2>1
  <2>2. ASSUME pass = "verify", faults = 0 PROVE DataTo(Len(file) + 1)'
    BY <1>2, <2>1, <2>2 DEF DataInv, DataTo, DataOf, Agrees
  <2>3. ASSUME pass = "verify", faults = 1 PROVE DataTo(line)'
    <3>1. DataTo(line)
      BY <1>2, <2>3 DEF DataInv
    <3> SUFFICES ASSUME NEW k \in DataOf(file), k < line + 1 PROVE Agrees(mem, file[k])
      BY <1>2, <2>1, <2>3 DEF DataTo, DataOf, Agrees
    <3>2. k \in 1..Len(file) /\ file[k].kind = "data"
      BY <1>1 DEF DataOf
    <3>3. CASE k = line
      <4>1. r.kind = "data" /\ file[k] = r
        BY <3>2, <3>3 DEF r
      <4> QED
        BY <1>8, <2>3, <4>1
    <3>4. CASE k # line
      BY <1>1, <3>1, <3>2, <3>4 DEF DataTo
    <3> QED
      BY <3>3, <3>4
  <2>4. ASSUME pass = "copy", faults = 0 PROVE DataTo(line)'
    <3>1. DataTo(line)
      BY <1>2, <2>4 DEF DataInv
    <3> SUFFICES ASSUME NEW k \in DataOf(file), k < line + 1 PROVE Agrees(mem', file[k])
      BY <1>2 DEF DataTo, DataOf, Agrees
    <3>2. k \in 1..Len(file) /\ file[k].kind = "data"
      BY <1>1 DEF DataOf
    <3>3. CASE k = line
      <4>1. r.kind = "data" /\ file[k] = r
        BY <3>2, <3>3 DEF r
      <4>2. mem' = Copied(r)
        BY <1>2, <2>4, <4>1 DEF Process, Header, Data, End, Other
      <4> QED
        BY <1>1, <1>4, <4>1, <4>2, CopySound
    <3>4. CASE k # line
      <4>1. Agrees(mem, file[k])
        BY <1>1, <3>1, <3>2, <3>4 DEF DataTo
      <4>2. CASE mem' = mem
        BY <4>1, <4>2 DEF Agrees
      <4>3. CASE r.kind = "data" /\ mem' = Copied(r)
        <5>1. line \in DataOf(file)
          BY <1>1, <4>3 DEF DataOf, r
        <5>2. Cells(file[k]) \cap Cells(r) = {}
          BY <3>4, <5>1 DEF Disjoint, r
        <5>3. file[k] \in Record /\ file[k].addr + Len(file[k].data) <= Top + 1
          BY <1>1, <3>2 DEF FitsInv
        <5> QED
          BY <1>1, <1>4, <4>1, <4>3, <5>2, <5>3, CopySound
      <4> QED
        BY <1>10, <4>2, <4>3
    <3> QED
      BY <3>3, <3>4
  <2> QED
    BY <2>2, <2>3, <2>4
<1>15. StartInv'
  <2> SUFFICES ASSUME Live', faults <= 1, HeaderFirst(file), OneEnd(file)
               PROVE  \/ StartSet'
                      \/ pass = "check" /\ faults = 1
                      \/ /\ pass = "check" \/ (pass = "copy" /\ faults = 1)
                         /\ \A e \in Ends(file) : line + 1 <= e
    BY <1>2 DEF StartInv, HeaderFirst, OneEnd, Ends
  <2>1. PICK e \in Ends(file) : Ends(file) = {e}
    BY DEF OneEnd
  <2>2. e \in 1..Len(file) /\ file[e].kind = "end"
    BY <1>1 DEF Ends
  <2>3. e # 1
    BY <2>2 DEF HeaderFirst
  <2>4. CASE line = e
    <3>1. header
      BY <1>1, <1>2, <2>2, <2>3, <2>4 DEF HeaderInv
    <3>2. r.kind = "end"
      BY <2>2, <2>4 DEF r
    <3>3. start' = file[e].addr
      BY <1>2, <2>4, <3>1, <3>2 DEF Process, Header, Data, End, Other, r
    <3> QED
      BY <1>2, <2>1, <3>3 DEF StartSet, Ends
  <2>5. CASE line # e
    <3>1. r.kind # "end"
      BY <1>1, <2>1, <2>5 DEF Ends, r
    <3>2. start' = start
      BY <1>2, <3>1 DEF Process, Header, Data, End, Other
    <3>3. StartSet => StartSet'
      BY <1>2, <3>2 DEF StartSet, Ends
    <3>4. line <= e => line + 1 <= e
      BY <1>1, <2>2, <2>5
    <3> QED
      BY <1>2, <2>1, <3>3, <3>4 DEF StartInv
  <2> QED
    BY <2>4, <2>5
<1> QED
  BY <1>5, <1>6, <1>7, <1>11, <1>12, <1>13, <1>14, <1>15

(* A read error: what is left of the line is damaged, so it ends the pass or *)
(* is a data record; and the pass ends as if the file did.                   *)
LEMMA ReadErrorInv ==
  ASSUME IInv, ReadError PROVE IInv'
<1> USE DEF IInv
<1>1. /\ file \in Seq(Record) /\ Len(file) \in Nat /\ line \in 1..Len(file)
      /\ DOMAIN file = 1..Len(file) /\ faults \in Nat
  BY SRecordAssumption DEF TypeOK, ReadError, Reading
<1>2. /\ ok /\ outcome = "loading" /\ Live
      /\ line' = Len(file) + 1 /\ faults' = faults + 1 /\ faults < MaxFaults
      /\ file' = file /\ pass' = pass /\ outcome' = outcome /\ loads' = loads
  BY DEF ReadError, Reading, callers, Live
<1>3. \/ UNCHANGED <<ok, header, mem, start, verified>>
      \/ \E r \in CutRecords : Process(r)
  BY DEF ReadError
<1>4. TypeOK'
  <2>1. /\ ok' \in BOOLEAN /\ header' \in BOOLEAN /\ mem' \in [Addr -> Byte]
        /\ start' \in Addr /\ verified' \subseteq Record
    <3>1. CASE UNCHANGED <<ok, header, mem, start, verified>>
      BY <3>1 DEF TypeOK
    <3>2. CASE \E r \in CutRecords : Process(r)
      BY <3>2, ProcessType, SRecordAssumption
    <3> QED
      BY <1>3, <3>1, <3>2
  <2>2. faults + 1 \in 0..MaxFaults
    BY <1>1, <1>2, SRecordAssumption
  <2>3. Len(file) + 1 \in 1..(Len(file) + 1)
    BY <1>1
  <2> QED
    BY <1>2, <2>1, <2>2, <2>3 DEF TypeOK
<1>5. StartedInv' /\ FitsInv'
  BY <1>2 DEF StartedInv, FitsInv
<1>6. ASSUME ok'
      PROVE  /\ start' = start /\ (pass # "copy" => mem' = mem)
             /\ \A s \in verified' : s \in verified \/ (pass = "verify" /\ Agrees(mem, s))
  <2>1. CASE UNCHANGED <<ok, header, mem, start, verified>>
    BY <2>1
  <2>2. CASE \E r \in CutRecords : Process(r)
    <3>1. PICK r \in CutRecords : Process(r)
      BY <2>2
    <3>2. r \in Record /\ ~r.sound
      BY SRecordAssumption
    <3>3. Data(r)
      BY <1>6, <3>1, <3>2 DEF Process, Header, End, Other
    <3>4. ok' = TRUE
      BY <1>4, <1>6 DEF TypeOK
    <3>5. pass = "verify" => TRUE \in Verify(r)
      BY <3>3, <3>4 DEF Data
    <3>6. pass = "verify" => Agrees(mem, r)
      BY <3>2, <3>5, VerifySound
    <3>7. /\ start' = start /\ (pass # "copy" => mem' = mem)
          /\ verified' = verified \/ (pass = "verify" /\ verified' = verified \cup {r})
      BY <3>3 DEF Data
    <3> QED
      BY <3>6, <3>7
  <2> QED
    BY <1>3, <2>1, <2>2
<1>7. Live' => ok'
  BY DEF Live
<1>8. VerifiedInv'
  <2> SUFFICES ASSUME Live', pass = "verify", NEW s \in verified' PROVE Agrees(mem', s)
    BY <1>2 DEF VerifiedInv
  <2>1. mem' = mem
    BY <1>6, <1>7
  <2>2. Agrees(mem, s)
    BY <1>2, <1>6, <1>7 DEF VerifiedInv
  <2> QED
    BY <2>1, <2>2
<1>9. HeaderInv'
  BY <1>1, <1>2 DEF HeaderInv
<1>10. faults' <= 1 => faults = 0 /\ faults' = 1
  BY <1>1, <1>2
<1>11. CleanInv'
  <2> SUFFICES ASSUME Live', faults = 0, pass # "check"
               PROVE  CleanTo(Len(file) + 1)'
    BY <1>2, <1>4, <1>10 DEF CleanInv, CleanTo, TypeOK
  <2>1. CleanTo(Len(file) + 1)
    BY <1>2 DEF CleanInv, TypeOK
  <2> QED
    BY <1>2, <2>1 DEF CleanTo
<1>12. DataInv'
  <2> SUFFICES ASSUME Live', faults = 0, Disjoint(file), pass = "verify"
               PROVE  DataTo(Len(file) + 1)'
    BY <1>2, <1>10 DEF DataInv, DataTo, DataOf, Disjoint, Cells
  <2>1. DataTo(Len(file) + 1)
    BY <1>2 DEF DataInv
  <2>2. mem' = mem
    BY <1>6, <1>7
  <2> QED
    BY <1>2, <2>1, <2>2 DEF DataTo, DataOf, Agrees
<1>13. StartInv'
  <2> SUFFICES ASSUME Live', faults = 0, HeaderFirst(file), OneEnd(file), pass # "check"
               PROVE  StartSet'
    BY <1>2, <1>10 DEF StartInv, StartSet, HeaderFirst, OneEnd, Ends
  <2>1. StartSet
    BY <1>2 DEF StartInv
  <2>2. start' = start
    BY <1>6, <1>7
  <2> QED
    BY <1>2, <2>1, <2>2 DEF StartSet, Ends
<1> QED
  BY <1>4, <1>5, <1>8, <1>9, <1>11, <1>12, <1>13

(* The end of a pass: what the next one can build on. *)
LEMMA EndPassInv ==
  ASSUME IInv, EndPass PROVE IInv'
<1> USE DEF IInv
<1>1. /\ file \in Seq(Record) /\ Len(file) \in Nat /\ line \in 1..(Len(file) + 1)
      /\ DOMAIN file = 1..Len(file) /\ faults \in Nat /\ ok \in BOOLEAN
      /\ pass \in {"check", "copy", "verify"}
  BY SRecordAssumption DEF TypeOK
<1>2. file' = file /\ mem' = mem /\ start' = start /\ loads' = loads /\ faults' = faults
  BY DEF EndPass
<1>3. CASE ~ok
  <2>1. outcome' = "failed" /\ UNCHANGED <<pass, line, ok, header, verified>>
    BY <1>3 DEF EndPass
  <2>2. TypeOK'
    BY <1>2, <2>1 DEF TypeOK
  <2>3. ~Live'
    BY <2>1 DEF Live
  <2> QED
    BY <1>2, <2>1, <2>2, <2>3
    DEF StartedInv, FitsInv, VerifiedInv, HeaderInv, CleanInv, DataInv, StartInv
<1>4. CASE ok /\ pass = "verify"
  <2>1. /\ outcome' = "started" /\ UNCHANGED <<pass, line, ok, header, verified>>
        /\ outcome = "loading" /\ line > Len(file)
    BY <1>4 DEF EndPass
  <2>2. TypeOK'
    BY <1>2, <2>1 DEF TypeOK
  <2>3. Live /\ (Live' <=> Live)
    BY <1>4, <2>1 DEF Live
  <2>4. StartedInv' /\ FitsInv' /\ VerifiedInv' /\ HeaderInv'
    BY <1>2, <1>4, <2>1, <2>3
    DEF StartedInv, FitsInv, VerifiedInv, HeaderInv, HeaderFirst, Agrees
  <2>5. CleanInv' /\ DataInv' /\ StartInv'
    BY <1>2, <1>4, <2>1, <2>3
    DEF CleanInv, DataInv, StartInv, CleanTo, DataTo, DataOf, StartSet, Agrees,
        HeaderFirst, OneEnd, Ends, Disjoint, Cells
  <2> QED
    BY <2>2, <2>4, <2>5
<1>5. CASE ok /\ pass # "verify"
  <2>1. /\ outcome = "loading" /\ outcome' = outcome /\ line > Len(file) /\ Live
        /\ pass' = NextPass(pass) /\ line' = 1 /\ ok' = TRUE /\ header' = FALSE
        /\ verified' = {}
    BY <1>5 DEF EndPass, Begin, Live
  <2>2. \/ pass = "check" /\ pass' = "copy"
        \/ pass = "copy" /\ pass' = "verify"
    BY <1>1, <1>5, <2>1 DEF NextPass
  <2>3. line = Len(file) + 1
    BY <1>1, <2>1
  <2>4. TypeOK'
    <3>1. 1 \in 1..(Len(file) + 1)
      BY <1>1
    <3>2. pass' \in {"check", "copy", "verify"}
      BY <2>2
    <3> QED
      BY <1>2, <2>1, <3>1, <3>2 DEF TypeOK
  <2>5. StartedInv' /\ FitsInv' /\ VerifiedInv' /\ HeaderInv'
    BY <1>2, <2>1 DEF StartedInv, FitsInv, VerifiedInv, HeaderInv
  <2>6. CleanInv'
    <3> SUFFICES ASSUME faults <= 1
                 PROVE  /\ pass' = "verify" \/ (pass' = "copy" /\ faults = 0)
                             => CleanTo(Len(file) + 1)'
                        /\ CleanTo(line)'
      BY <1>2 DEF CleanInv
    <3>1. CleanTo(line)'
      BY <1>1, <1>2, <2>1 DEF CleanTo
    <3>2. pass' = "verify" \/ (pass' = "copy" /\ faults = 0) => CleanTo(line)
      BY <2>1, <2>2 DEF CleanInv
    <3> QED
      BY <1>2, <2>3, <3>1, <3>2 DEF CleanTo
  <2>7. DataInv'
    <3> SUFFICES ASSUME faults <= 1, Disjoint(file)
                 PROVE  /\ pass' = "verify" /\ faults = 0 => DataTo(Len(file) + 1)'
                        /\ DataTo(line)'
      BY <1>2 DEF DataInv, Disjoint, DataOf, Cells
    <3>1. DataTo(line)'
      BY <1>1, <1>2, <2>1 DEF DataTo, DataOf
    <3>2. pass' = "verify" /\ faults = 0 => DataTo(line)
      BY <2>1, <2>2 DEF DataInv
    <3> QED
      BY <1>2, <2>3, <3>1, <3>2 DEF DataTo, DataOf, Agrees
  <2>8. StartInv'
    <3> SUFFICES ASSUME faults <= 1, HeaderFirst(file), OneEnd(file)
                 PROVE  \/ StartSet
                        \/ pass' = "copy" /\ faults = 1 /\ \A e \in Ends(file) : 1 <= e
      BY <1>2, <2>1 DEF StartInv, StartSet, Ends, HeaderFirst, OneEnd
    <3>1. PICK e \in Ends(file) : Ends(file) = {e}
      BY DEF OneEnd
    <3>2. e \in 1..Len(file)
      BY <1>1 DEF Ends
    <3>3. ~(\A x \in Ends(file) : line <= x)
      BY <2>3, <3>1, <3>2
    <3>4. \A x \in Ends(file) : 1 <= x
      BY <3>1, <3>2
    <3> QED
      BY <2>1, <2>2, <3>3, <3>4 DEF StartInv
  <2> QED
    BY <2>4, <2>5, <2>6, <2>7, <2>8
<1> QED
  BY <1>1, <1>3, <1>4, <1>5

(* A new file, a file that cannot be opened again and the return of a        *)
(* program: nothing is claimed of what the passes have done.                 *)
LEMMA LoadInv ==
  ASSUME IInv, NEW f \in Files, Load(f) PROVE IInv'
<1> USE DEF IInv
<1>1. /\ f \in Seq(Record) /\ Len(f) \in Nat /\ DOMAIN f = 1..Len(f)
      /\ \A k \in DOMAIN f : f[k].addr + Len(f[k].data) <= Top + 1
  BY SRecordAssumption
<1>2. /\ file' = f /\ pass' = "check" /\ outcome' = "loading" /\ start' \in Addr
      /\ loads' = loads + 1 /\ loads < MaxLoads /\ faults' = 0 /\ mem' = mem
      /\ line' = 1 /\ ok' = TRUE /\ header' = FALSE /\ verified' = {}
  BY DEF Load, Begin
<1>3. TypeOK'
  <2>1. 1 \in 1..(Len(f) + 1)
    BY <1>1
  <2>2. loads + 1 \in 0..MaxLoads /\ 0 \in 0..MaxFaults
    BY <1>2, SRecordAssumption DEF TypeOK
  <2> QED
    BY <1>1, <1>2, <2>1, <2>2 DEF TypeOK
<1>4. StartedInv' /\ FitsInv' /\ VerifiedInv' /\ HeaderInv'
  BY <1>1, <1>2 DEF StartedInv, FitsInv, VerifiedInv, HeaderInv
<1>5. CleanInv' /\ DataInv'
  BY <1>1, <1>2 DEF CleanInv, DataInv, CleanTo
<1>6. StartInv'
  BY <1>1, <1>2 DEF StartInv, Ends
<1> QED
  BY <1>3, <1>4, <1>5, <1>6

LEMMA GivenUpInv ==
  ASSUME IInv, OpenError \/ Return PROVE IInv'
<1> USE DEF IInv
<1>1. /\ file' = file /\ line' = line /\ loads' = loads /\ pass' = pass
      /\ ok' = ok /\ header' = header /\ start' = start /\ verified' = verified
      /\ outcome' \in {"failed", "returned"}
  BY DEF OpenError, Return
<1>2. mem' \in [Addr -> Byte]
  BY DEF OpenError, Return, TypeOK
<1>3. faults' \in 0..MaxFaults
  BY SRecordAssumption DEF OpenError, Return, TypeOK
<1>4. TypeOK'
  BY <1>1, <1>2, <1>3 DEF TypeOK
<1>5. outcome' # "started" /\ ~Live'
  BY <1>1 DEF Live
<1> QED
  BY <1>1, <1>4, <1>5
  DEF StartedInv, FitsInv, VerifiedInv, HeaderInv, CleanInv, DataInv, StartInv

LEMMA StutterInv ==
  ASSUME IInv, UNCHANGED vars PROVE IInv'
<1> USE DEF vars, Live
<1>1. TypeOK' /\ StartedInv' /\ FitsInv'
  BY DEF IInv, TypeOK, StartedInv, FitsInv
<1>2. VerifiedInv' /\ HeaderInv' /\ CleanInv'
  BY DEF IInv, VerifiedInv, HeaderInv, CleanInv, CleanTo, HeaderFirst, Agrees
<1>3. DataInv'
  BY DEF IInv, DataInv, DataTo, DataOf, Disjoint, Agrees
<1>4. StartInv'
  BY DEF IInv, StartInv, StartSet, HeaderFirst, OneEnd, Ends
<1> QED
  BY <1>1, <1>2, <1>3, <1>4 DEF IInv

LEMMA StepInv == IInv /\ [Next]_vars => IInv'
<1> SUFFICES ASSUME IInv, [Next]_vars PROVE IInv'
  OBVIOUS
<1>1. CASE \E f \in Files : Load(f)
  BY <1>1, LoadInv
<1> QED
  BY <1>1, ReadLineInv, ReadErrorInv, EndPassInv, GivenUpInv, StutterInv DEF Next, Loader

LEMMA AlwaysInv == Spec => []IInv
BY InitInv, StepInv, PTL DEF Spec

-----------------------------------------------------------------------------
(* No copy of a record writes outside of the memory that the records         *)
(* describe, and all variables keep their types.                             *)
THEOREM SRecordTypes == Spec => []TypeOK
<1>1. IInv => TypeOK
  BY DEF IInv
<1> QED
  BY <1>1, AlwaysInv, PTL

(* When a program is started, memory holds every data record that the        *)
(* verifying pass has seen.                                                  *)
THEOREM SRecordVerified == Spec => []VerifiedHolds
<1>1. IInv => VerifiedHolds
  BY DEF IInv, StartedInv, VerifiedInv, VerifiedHolds, Live
<1> QED
  BY <1>1, AlwaysInv, PTL

(* A file that is started with at most one read error on the way has no      *)
(* damaged header or end record and no line of another kind.                 *)
THEOREM SRecordDamage == Spec => []DamageStops
<1>1. IInv => DamageStops
  <2> SUFFICES ASSUME IInv, outcome = "started", faults <= 1, NEW k \in DOMAIN file
               PROVE  Clean(file[k])
    BY DEF DamageStops
  <2>1. Live /\ pass = "verify"
    BY DEF IInv, StartedInv, Live
  <2>2. CleanTo(Len(file) + 1)
    BY <2>1 DEF IInv, CleanInv
  <2>3. k < Len(file) + 1
    BY DEF IInv, TypeOK
  <2> QED
    BY <2>2, <2>3 DEF CleanTo
<1> QED
  BY <1>1, AlwaysInv, PTL

(* With at most one read error in the three passes, a program that is        *)
(* started is complete in memory, and is started where its end record says.  *)
THEOREM SRecordComplete == Spec => []OneFaultComplete
<1>1. IInv => OneFaultComplete
  <2> SUFFICES ASSUME IInv, outcome = "started", faults <= 1,
                      HeaderFirst(file), OneEnd(file), Disjoint(file)
               PROVE  /\ \A k \in DataOf(file) : Agrees(mem, file[k])
                      /\ \A e \in Ends(file) : start = file[e].addr
    BY DEF OneFaultComplete
  <2>1. Live /\ pass = "verify" /\ line > Len(file)
    BY DEF IInv, StartedInv, Live
  <2>2. faults \in Nat /\ Len(file) \in Nat /\ line = Len(file) + 1 /\ DOMAIN file = 1..Len(file)
    BY <2>1, SRecordAssumption DEF IInv, TypeOK
  <2>3. faults = 0 \/ faults = 1
    BY <2>2
  <2>4. DataTo(Len(file) + 1)
    BY <2>1, <2>2, <2>3 DEF IInv, DataInv
  <2>5. \A k \in DataOf(file) : k < Len(file) + 1
    BY <2>2 DEF DataOf
  <2>6. StartSet
    BY <2>1 DEF IInv, StartInv
  <2> QED
    BY <2>4, <2>5, <2>6 DEF DataTo, StartSet
<1> QED
  BY <1>1, AlwaysInv, PTL
=============================================================================
