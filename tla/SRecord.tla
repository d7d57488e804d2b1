------------------------------ MODULE SRecord -------------------------------
(* Loading of programs from S-record files: read_srecords and srec_execute   *)
(* of flash/s19reader.c, and srec_load of exe/basflash.c, which does the     *)
(* same for every file of a directory. A file is read three times: to check  *)
(* it, to copy it to memory and to compare it with memory; then the program  *)
(* is started.                                                               *)
(*                                                                           *)
(* A record keeps its kind, whether its checksum is right, the address and   *)
(* the data. S2 and S3 are "data", S7 and S8 are "end"; "other" stands for   *)
(* all other types and for lines that do not start with an S.                *)
EXTENDS Integers, Sequences, SequencesExt

CONSTANTS
  Top,         \* the highest address of memory
  Byte,        \* values of a byte
  Files,       \* the files on the card
  CutRecords,  \* what a line can read as that a read error has cut short
  MaxFaults,   \* bound on read errors while a file is loaded
  MaxLoads     \* bound on files that are loaded

Addr == 0..Top
Kinds == {"header", "data", "end", "other"}
Record == [kind : Kinds, sound : BOOLEAN, addr : Addr, data : Seq(Byte)]

ASSUME SRecordAssumption ==
  /\ Top \in Nat /\ MaxFaults \in Nat /\ MaxLoads \in Nat
  /\ Files \subseteq Seq(Record)
  /\ CutRecords \subseteq Record
  /\ \A r \in CutRecords : ~r.sound
  /\ \A f \in Files : \A k \in DOMAIN f : f[k].addr + Len(f[k].data) <= Top + 1
  /\ \A r \in CutRecords : r.addr + Len(r.data) <= Top + 1

VARIABLES
  file,      \* the file that is loaded
  pass,      \* which of the three passes over it
  line,      \* the line that f_gets reads next
  ok,        \* read_srecords: ret is OK
  header,    \* read_srecords: found_block_header
  mem,       \* memory
  start,     \* start_address of the caller
  outcome,   \* of the load
  loads,     \* how many there were
  faults,    \* history: read errors of this load
  verified   \* history: data records that the last pass has compared

vars == <<file, pass, line, ok, header, mem, start, outcome, loads, faults, verified>>
callers == <<file, pass, outcome, loads>>

Init ==
  /\ file = <<>> /\ pass = "check" /\ line = 1 /\ ok = TRUE /\ header = FALSE
  /\ mem \in [Addr -> Byte]
  /\ start = 0
  /\ outcome = "none" /\ loads = 0 /\ faults = 0
  /\ verified = {}

-----------------------------------------------------------------------------
(* The callbacks *)

Cells(r) == r.addr..(r.addr + Len(r.data) - 1)

(* srec_memcpy *)
Copied(r) == [a \in Addr |-> IF a \in Cells(r) THEN r.data[a - r.addr + 1] ELSE mem[a]]

Agrees(m, r) == \A a \in Cells(r) : m[a] = r.data[a - r.addr + 1]

(* Mutant: the loop ends after one byte. *)
VerifyFirst(r) == {Len(r.data) > 0 => mem[r.addr] = r.data[1]}

(* verify, whose loop compares a first byte even when there is none: then it *)
(* is the checksum that is compared.                                         *)
Verify(r) == IF r.data = <<>> THEN BOOLEAN ELSE {Agrees(mem, r)}

-----------------------------------------------------------------------------
(* What read_srecords does with one line *)

(* Mutant: a damaged header is as good as any. *)
HeaderAlways(r) ==
  /\ r.kind = "header"
  /\ header' = TRUE
  /\ UNCHANGED <<ok, mem, start, verified>>

(* found_block_data and found_block_end are never set: a header is accepted  *)
(* anywhere.                                                                 *)
Header(r) ==
  /\ r.kind = "header"
  /\ header' = TRUE
  /\ ok' = r.sound
  /\ UNCHANGED <<mem, start, verified>>

(* The result of the callback replaces that of the checks of the checksum    *)
(* and of the order.                                                         *)
Data(r) ==
  /\ r.kind = "data"
  /\ \/ /\ pass = "check"
        /\ ok' = TRUE
        /\ UNCHANGED <<mem, verified>>
     \/ /\ pass = "copy"
        /\ ok' = TRUE
        /\ mem' = Copied(r)
        /\ UNCHANGED verified
     \/ /\ pass = "verify"
        /\ ok' \in Verify(r)
        /\ verified' = verified \cup {r}
        /\ UNCHANGED mem
  /\ UNCHANGED <<header, start>>

(* An end record before the header has no effect but to fail when damaged.   *)
End(r) ==
  /\ r.kind = "end"
  /\ start' = IF header THEN r.addr ELSE start
  /\ ok' = r.sound
  /\ UNCHANGED <<header, mem, verified>>

Other(r) ==
  /\ r.kind = "other"
  /\ ok' = FALSE
  /\ UNCHANGED <<header, mem, start, verified>>

Process(r) == Header(r) \/ Data(r) \/ End(r) \/ Other(r)

-----------------------------------------------------------------------------
Reading == outcome = "loading" /\ ok /\ line <= Len(file)

ReadLine ==
  /\ Reading
  /\ Process(file[line])
  /\ line' = line + 1
  /\ UNCHANGED <<callers, faults>>

(* A read error ends f_gets. It returns what it had of the line, and nothing *)
(* afterwards, which read_srecords takes for the end of the file.            *)
ReadError ==
  /\ Reading /\ faults < MaxFaults
  /\ \/ \E r \in CutRecords : Process(r)
     \/ UNCHANGED <<ok, header, mem, start, verified>>
  /\ line' = Len(file) + 1
  /\ faults' = faults + 1
  /\ UNCHANGED callers

Begin ==
  /\ line' = 1 /\ ok' = TRUE /\ header' = FALSE /\ verified' = {}

(* srec_load on the next file. start_address is not initialised. *)
Load(f) ==
  /\ outcome \in {"none", "failed", "returned"} /\ loads < MaxLoads
  /\ Begin
  /\ file' = f /\ pass' = "check" /\ outcome' = "loading"
  /\ start' \in Addr
  /\ loads' = loads + 1 /\ faults' = 0
  /\ UNCHANGED mem

(* The file cannot be opened again for a pass. *)
OpenError ==
  /\ outcome = "loading" /\ line = 1 /\ ok /\ faults < MaxFaults
  /\ outcome' = "failed"
  /\ faults' = faults + 1
  /\ UNCHANGED <<file, pass, line, ok, header, mem, start, loads, verified>>

(* Mutant: the copy is made over and over. *)
CopyAgain(p) == "copy"

NextPass(p) == IF p = "check" THEN "copy" ELSE "verify"

(* The end of a pass: the next one, the start of the program or a message. *)
EndPass ==
  /\ outcome = "loading" /\ (~ok \/ line > Len(file))
  /\ \/ /\ ~ok
        /\ outcome' = "failed"
        /\ UNCHANGED <<pass, line, ok, header, verified>>
     \/ /\ ok /\ pass # "verify"
        /\ pass' = NextPass(pass)
        /\ Begin
        /\ UNCHANGED outcome
     \/ /\ ok /\ pass = "verify"
        /\ outcome' = "started"
        /\ UNCHANGED <<pass, line, ok, header, verified>>
  /\ UNCHANGED <<file, mem, start, loads, faults>>

(* The program may return, and has used memory as it liked. *)
Return ==
  /\ outcome = "started"
  /\ outcome' = "returned"
  /\ mem' \in [Addr -> Byte]
  /\ UNCHANGED <<file, pass, line, ok, header, start, loads, faults, verified>>

Loader == ReadLine \/ EndPass

Next == Loader \/ ReadError \/ OpenError \/ Return \/ \E f \in Files : Load(f)

(* The loader is never interrupted: it goes on until the program starts. *)
Spec == Init /\ [][Next]_vars /\ WF_vars(Loader)

-----------------------------------------------------------------------------
(* The types of all variables: no copy leaves the memory of the records. *)
TypeOK ==
  /\ file \in Seq(Record)
  /\ pass \in {"check", "copy", "verify"}
  /\ line \in 1..(Len(file) + 1)
  /\ ok \in BOOLEAN /\ header \in BOOLEAN
  /\ mem \in [Addr -> Byte] /\ start \in Addr
  /\ outcome \in {"none", "loading", "failed", "started", "returned"}
  /\ loads \in 0..MaxLoads /\ faults \in 0..MaxFaults
  /\ verified \subseteq Record

(* When a program is started, memory holds every data record that the        *)
(* verifying pass has seen, whatever was in memory before, however records   *)
(* overlap, and whatever read errors cut the passes short.                   *)
VerifiedHolds == outcome = "started" => \A r \in verified : Agrees(mem, r)

HeaderFirst(f) == f # <<>> /\ f[1].kind = "header"
Ends(f) == {k \in DOMAIN f : f[k].kind = "end"}
OneEnd(f) == \E e \in Ends(f) : Ends(f) = {e}
DataOf(f) == {k \in DOMAIN f : f[k].kind = "data"}
Disjoint(f) == \A j, k \in DataOf(f) : j # k => Cells(f[j]) \cap Cells(f[k]) = {}

(* A read error looks like the end of the file, and a data record with a     *)
(* wrong checksum is copied. Still, one read error in any of the passes does *)
(* not start an incomplete program or start it at a wrong address: some      *)
(* other pass sees the rest. (Two errors can; so can a file without an end   *)
(* record or with several, and one whose records overlap.)                   *)
OneFaultComplete ==
  outcome = "started" /\ faults <= 1 /\ HeaderFirst(file) /\ OneEnd(file) /\ Disjoint(file) =>
    /\ \A k \in DataOf(file) : Agrees(mem, file[k])
    /\ \A e \in Ends(file) : start = file[e].addr

Clean(r) == r.kind # "other" /\ (r.sound \/ r.kind = "data")

(* A file with a damaged header or end record, or with a line of another     *)
(* kind, is not started, even when a read error hides it from one pass.      *)
DamageStops ==
  outcome = "started" /\ faults <= 1 =>
    \A k \in DOMAIN file : Clean(file[k])

-----------------------------------------------------------------------------
(* The inductive invariant behind these: what the passes have established    *)
(* when no read error, or one, has happened so far.                          *)
Live == outcome \in {"loading", "started"} /\ ok

CleanTo(n) == \A k \in DOMAIN file : k < n => Clean(file[k])
DataTo(n) == \A k \in DataOf(file) : k < n => Agrees(mem, file[k])
StartSet == \A e \in Ends(file) : start = file[e].addr

StartedInv == outcome = "started" => ok /\ pass = "verify" /\ line > Len(file)

FitsInv == \A k \in DOMAIN file : file[k].addr + Len(file[k].data) <= Top + 1

VerifiedInv == Live /\ pass = "verify" => \A r \in verified : Agrees(mem, r)

HeaderInv == Live /\ HeaderFirst(file) /\ 1 < line /\ line <= Len(file) => header

CleanInv ==
  Live /\ faults <= 1 =>
    /\ pass = "verify" \/ (pass = "copy" /\ faults = 0) => CleanTo(Len(file) + 1)
    /\ pass = "copy" \/ faults = 0 => CleanTo(line)

DataInv ==
  Live /\ faults <= 1 /\ Disjoint(file) =>
    /\ pass = "verify" /\ faults = 0 => DataTo(Len(file) + 1)
    /\ (pass = "verify" /\ faults = 1) \/ (pass = "copy" /\ faults = 0) => DataTo(line)

StartInv ==
  Live /\ faults <= 1 /\ HeaderFirst(file) /\ OneEnd(file) =>
    \/ StartSet
    \/ pass = "check" /\ faults = 1
    \/ /\ pass = "check" \/ (pass = "copy" /\ faults = 1)
       /\ \A e \in Ends(file) : line <= e

IInv ==
  /\ TypeOK /\ StartedInv /\ FitsInv /\ VerifiedInv
  /\ HeaderInv /\ CleanInv /\ DataInv /\ StartInv

-----------------------------------------------------------------------------
Good(f) ==
  /\ HeaderFirst(f) /\ Ends(f) # {} /\ Disjoint(f)
  /\ \A k \in DOMAIN f : f[k].sound /\ f[k].kind # "other"
  /\ \A k \in DataOf(f) : f[k].data # <<>>

(* A file without faults is loaded and started, wherever its records lie. *)
GoodStarts ==
  (outcome = "loading" /\ Good(file)) ~> (outcome = "started" \/ faults > 0)

(* "first pass: parse and check for inconsistencies": a file that passes it  *)
(* without a read error has no damaged record.                               *)
IntegrityChecked ==
  outcome = "loading" /\ pass # "check" /\ faults = 0 =>
    \A k \in DOMAIN file : file[k].sound
=============================================================================
