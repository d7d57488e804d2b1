-------------------------------- MODULE Mmu ---------------------------------
(* The MMU of BaS: sys/mmu.c. The hardware has a data TLB and an             *)
(* instruction TLB of few entries, which the handler of TLB misses fills     *)
(* from the page descriptors pages[] and the table translation[]; drivers    *)
(* lock and unlock data pages through the interface of if/driver_vec.c.      *)
(*                                                                           *)
(* A TLB is the sequence of its entries, least recently used first. Addresses*)
(* count units of which Grain make a page, and wrap at the end of the        *)
(* address space. Of an entry's fields the page, the cache mode and the lock *)
(* bit are kept.                                                             *)
EXTENDS Integers, Sequences, FiniteSets, SequencesExt

CONSTANTS
  Grain,         \* units in a page
  NumPages,      \* NUM_PAGES: pages of SDRAM that have a descriptor
  Space,         \* pages of the whole address space
  Translated,    \* the pages for which translation[] has an entry
  PciPages,      \* the pages of the PCI memory window
  CacheMode,     \* cache_mode of each descriptor, as mmu_init sets it
  InitMaps,      \* the locked mappings of mmu_init, as <<page, cache mode>>
  DEntries,      \* entries of the data TLB
  IEntries,      \* entries of the instruction TLB
  Instructions,  \* what the processor executes: the page of the opword, the
                 \* page of the extension words, and the data pages in order
  Ranges,        \* <<address, length>> that drivers lock and unlock
  MaxCalls       \* bound on these calls

Descriptors == 0..(NumPages - 1)
Pages == 0..(Space - 1)
Modes == {"cached", "nocache"}
PageOf(a) == a \div Grain

(* mmu_init maps no page twice, and lets no code run on the pages whose mode *)
(* it makes differ from their descriptor's.                                  *)
ASSUME MmuAssumption ==
  /\ Grain \in Nat \ {0} /\ NumPages \in Nat \ {0} /\ Space \in Nat
  /\ NumPages <= Space
  /\ Translated \subseteq Descriptors
  /\ PciPages \subseteq Pages \ Descriptors
  /\ CacheMode \in [Descriptors -> Modes]
  /\ InitMaps \in Seq(Translated \X Modes)
  /\ \A i, j \in DOMAIN InitMaps : i # j => InitMaps[i][1] # InitMaps[j][1]
  /\ DEntries \in Nat /\ IEntries \in Nat
  /\ Len(InitMaps) <= DEntries /\ Len(InitMaps) <= IEntries
  /\ Instructions \subseteq [pc : Pages, ext : Pages, data : Seq(Pages)]
  /\ \A i \in Instructions, m \in DOMAIN InitMaps :
       InitMaps[m][1] = i.pc => InitMaps[m][2] = CacheMode[i.pc]
  /\ Ranges \subseteq (0..(NumPages * Grain - 1)) \X Nat
  /\ MaxCalls \in Nat

VARIABLES
  dtlb, itlb,
  locked,   \* the pages whose descriptor has its bit `locked` set
  instr,    \* the instruction that is being executed, or Idle
  call,     \* the call of a driver that is under way
  regs,     \* MMUAR and the entry in MMUTR and MMUDR, while a call uses them
  calls,    \* how many there were
  held,     \* history: pages a lock call mapped and no unlock call named since
  asked,    \* history: pages that were named in any call
  exposed,  \* history: held pages that were missed in the middle of an unlock call
  doubled,  \* history: pages that were missed in the middle of their lock call
  crammed   \* history: an entry was needed when all of the data TLB were locked

vars == <<dtlb, itlb, locked, instr, call, regs, calls, held, asked, exposed, doubled, crammed>>
tlbs == <<dtlb, itlb>>

Entry == [page : Pages, mode : Modes, lk : BOOLEAN]
Idle == [pc |-> -1, ext |-> -1, data |-> <<>>]
NoCall == [op |-> "none", index |-> 0, virt |-> 0, size |-> 0]
NoRegs == [ar |-> -1, hit |-> {}]

Holds(tlb, p) == \E i \in DOMAIN tlb : tlb[i].page = p

-----------------------------------------------------------------------------
(* The hardware *)

(* The entries that an instruction hits become the most recently used; apart *)
(* from that the order stays.                                                *)
Touch(tlb, ps) ==
  LET hit == {i \in DOMAIN tlb : \E k \in DOMAIN ps : ps[k] = tlb[i].page}
      older(i) == IF i \in hit THEN {j \in DOMAIN tlb : j \in hit => j < i}
                  ELSE {j \in 1..(i - 1) : j \notin hit}
  IN  [k \in DOMAIN tlb |->
         tlb[CHOOSE i \in DOMAIN tlb : Cardinality(older(i)) = k - 1]]

(* Mutant: replacement does not look at the lock bits. *)
FillOldest(tlb, size, e) ==
  {Append(IF Len(tlb) < size THEN tlb ELSE Tail(tlb), e)}

(* The least recently used entry without a lock bit is replaced; when all    *)
(* are locked, the one replaced is unspecified.                              *)
Fill(tlb, size, e) ==
  LET victims == {i \in DOMAIN tlb : ~tlb[i].lk /\ \A j \in 1..(i - 1) : tlb[j].lk}
  IN  IF Len(tlb) < size THEN {Append(tlb, e)}
      ELSE {Append(RemoveAt(tlb, i), e) : i \in IF victims = {} THEN DOMAIN tlb ELSE victims}

(* No entry of the data TLB is left for another page. *)
AllLocked == Len(dtlb) = DEntries /\ \A i \in DOMAIN dtlb : dtlb[i].lk

-----------------------------------------------------------------------------
(* mmu_map_page puts each mapping in both TLBs. *)
MapPages(maps) ==
  [i \in DOMAIN maps |-> [page |-> maps[i][1], mode |-> maps[i][2], lk |-> TRUE]]

(* mmu_init, on TLBs that are cleared. *)
Init ==
  /\ dtlb = MapPages(InitMaps)
  /\ itlb = MapPages(InitMaps)
  /\ locked = {}
  /\ instr = Idle
  /\ call = NoCall
  /\ regs = NoRegs
  /\ calls = 0
  /\ held = {}
  /\ asked = {}
  /\ exposed = {} /\ doubled = {} /\ crammed = FALSE

(* The entry that mmu_map_data_page writes; none when it returns 0. *)
DataEntry(p, lks) ==
  IF p \in Translated THEN {[page |-> p, mode |-> CacheMode[p], lk |-> p \in lks]}
  ELSE IF p \in PciPages THEN {[page |-> p, mode |-> "nocache", lk |-> FALSE]}
  ELSE {}

(* mmu_map_instruction_page looks at translation[] only. *)
InstructionEntry(p, lks) ==
  IF p \in Translated THEN {[page |-> p, mode |-> CacheMode[p], lk |-> p \in lks]}
  ELSE {}

(* A miss sets MMUAR, and its handler leaves the entry it wrote in MMUTR and *)
(* MMUDR. An unlock call that is interrupted between its steps goes on with  *)
(* these.                                                                    *)
Disturb(p, es) ==
  IF regs = NoRegs THEN UNCHANGED <<regs, exposed>>
  ELSE /\ regs' = [ar |-> p, hit |-> IF regs.hit = {} THEN {} ELSE es]
       /\ exposed' = exposed \cup (held \cap {p})

BusError ==
  /\ instr' = Idle
  /\ UNCHANGED tlbs

-----------------------------------------------------------------------------
(* The processor executes an instruction, and starts it again after each     *)
(* miss that the handler has dealt with. Interrupt handlers are instructions *)
(* too: they run between the steps of a call.                                *)

Fetch(i) ==
  /\ instr = Idle
  /\ instr' = i
  /\ UNCHANGED <<tlbs, locked, call, regs, calls, held, asked, exposed, doubled, crammed>>

(* The first data access that misses, if there is one. *)
FirstMiss(ds) ==
  {k \in DOMAIN ds : ~Holds(dtlb, ds[k]) /\ \A j \in 1..(k - 1) : Holds(dtlb, ds[j])}

Execute ==
  /\ instr # Idle
  /\ Holds(itlb, instr.pc) /\ Holds(itlb, instr.ext)
  /\ FirstMiss(instr.data) = {}
  /\ itlb' = Touch(itlb, <<instr.pc, instr.ext>>)
  /\ dtlb' = Touch(dtlb, instr.data)
  /\ instr' = Idle
  /\ UNCHANGED <<locked, call, regs, calls, held, asked, exposed, doubled, crammed>>

(* mmutr_miss on the fetch of an opword or an extension word: both map the   *)
(* page of the program counter, which is that of the opword.                 *)
MissFetch ==
  /\ instr # Idle
  /\ ~(Holds(itlb, instr.pc) /\ Holds(itlb, instr.ext))
  /\ \/ \E e \in InstructionEntry(instr.pc, locked) :
          /\ itlb' \in Fill(itlb, IEntries, e)
          /\ Disturb(instr.pc, {e})
          /\ UNCHANGED <<instr, dtlb>>
     \/ InstructionEntry(instr.pc, locked) = {} /\ BusError /\ Disturb(instr.pc, regs.hit)
  /\ UNCHANGED <<locked, call, calls, held, asked, doubled, crammed>>

(* Mutant: the page of the program counter is mapped for data too. *)
FaultPc(k) == instr.pc

(* The page that mmutr_miss maps after a miss on a data access. *)
FaultPage(k) == instr.data[k]

(* The page that a lock call has marked as locked and is about to map. *)
Pending == IF call.op = "map" THEN {PageOf(call.virt)} ELSE {}

(* mmutr_miss on a data access: the page of the fault address is mapped. *)
MissData ==
  /\ instr # Idle
  /\ Holds(itlb, instr.pc) /\ Holds(itlb, instr.ext)
  /\ \E k \in FirstMiss(instr.data) :
       \/ \E e \in DataEntry(FaultPage(k), locked) :
            \E hit \in {Touch(dtlb, SubSeq(instr.data, 1, k - 1))} :
              /\ dtlb' \in Fill(hit, DEntries, e)
              /\ Disturb(instr.data[k], {e})
              /\ doubled' = doubled \cup (Pending \cap {instr.data[k]})
              /\ crammed' = (crammed \/ AllLocked)
              /\ UNCHANGED <<instr, itlb>>
       \/ /\ DataEntry(FaultPage(k), locked) = {}
          /\ BusError
          /\ Disturb(instr.data[k], regs.hit)
          /\ UNCHANGED <<doubled, crammed>>
  /\ UNCHANGED <<locked, call, calls, held, asked>>

-----------------------------------------------------------------------------
(* Locking and unlocking *)

CallLock(r) ==
  /\ call = NoCall /\ calls < MaxCalls
  /\ call' = [op |-> "lock", index |-> PageOf(r[1]), virt |-> r[1], size |-> r[2]]
  /\ calls' = calls + 1
  /\ asked' = asked \cup {PageOf(r[1])}
  /\ UNCHANGED <<tlbs, locked, instr, regs, held, exposed, doubled, crammed>>

(* Mutant: the loop does not move on. *)
StaySame(a) == a

(* What the loop of mmu_map_data_page_locked advances by a page: the address *)
(* that its end is computed from, and never the page index.                  *)
Advance(a) == (a + Grain) % (Space * Grain)

(* Mutant: the descriptor is not asked whether it is locked already. *)
LockAgain(c) == locked' = locked \cup {c.index} /\ call' = [c EXCEPT !.op = "map"]

(* One page that mmu_map_data_page_locked visits: a descriptor that is not   *)
(* locked is marked as such, and interrupts are let in until                 *)
(* mmu_map_data_page shuts them out.                                         *)
LockPage(c) ==
  \/ /\ c.index \in locked
     /\ call' = [c EXCEPT !.virt = Advance(c.virt)]
     /\ UNCHANGED locked
  \/ /\ c.index \notin locked
     /\ locked' = locked \cup {c.index}
     /\ call' = [c EXCEPT !.op = "map"]

LockStep ==
  /\ call.op = "lock"
  /\ \/ /\ call.index * Grain < (call.virt + call.size) % (Space * Grain)
        /\ LockPage(call)
     \/ /\ call.index * Grain >= (call.virt + call.size) % (Space * Grain)
        /\ call' = NoCall
        /\ UNCHANGED locked
  /\ UNCHANGED <<tlbs, instr, regs, calls, held, asked, exposed, doubled, crammed>>

(* Then the page of the address is mapped, also when it has been missed, and *)
(* with that mapped, in between.                                             *)
MapLocked ==
  /\ call.op = "map"
  /\ \/ \E e \in DataEntry(PageOf(call.virt), locked) :
          /\ dtlb' \in Fill(dtlb, DEntries, e)
          /\ crammed' = (crammed \/ AllLocked)
          /\ held' = held \cup {PageOf(call.virt)}
     \/ DataEntry(PageOf(call.virt), locked) = {} /\ UNCHANGED <<dtlb, crammed, held>>
  /\ call' = [call EXCEPT !.op = "lock", !.virt = Advance(call.virt)]
  /\ UNCHANGED <<itlb, locked, instr, regs, calls, asked, exposed, doubled>>

CallUnlock(r) ==
  /\ call = NoCall /\ calls < MaxCalls
  /\ call' = [op |-> "unlock", index |-> PageOf(r[1]), virt |-> r[1], size |-> r[2]]
  /\ calls' = calls + 1
  /\ asked' = asked \cup {PageOf(r[1])}
  /\ held' = held \ {PageOf(r[1])}
  /\ UNCHANGED <<tlbs, locked, instr, regs, exposed, doubled, crammed>>

(* mmu_unlock_data_page: the page index advances and the address that is     *)
(* searched for does not. It sets MMUAR,                                     *)
UnlockAddress ==
  /\ call.op = "unlock" /\ regs = NoRegs
  /\ \/ /\ call.index * Grain < call.virt + call.size
        /\ regs' = [NoRegs EXCEPT !.ar = PageOf(call.virt)]
        /\ UNCHANGED call
     \/ /\ call.index * Grain >= call.virt + call.size
        /\ call' = NoCall
        /\ UNCHANGED regs
  /\ UNCHANGED <<tlbs, locked, instr, calls, held, asked, exposed, doubled, crammed>>

(* searches the data TLB, which leaves the entry in the registers,           *)
UnlockSearch ==
  /\ call.op = "unlock" /\ regs.ar # -1 /\ regs.hit = {}
  /\ \/ \E i \in {i \in DOMAIN dtlb : dtlb[i].page = regs.ar} :
          /\ regs' = [regs EXCEPT !.hit = {dtlb[i]}]
          /\ UNCHANGED call
     \/ /\ ~Holds(dtlb, regs.ar)
        /\ call' = [call EXCEPT !.index = @ + 1]
        /\ regs' = NoRegs
  /\ UNCHANGED <<tlbs, locked, instr, calls, held, asked, exposed, doubled, crammed>>

(* Mutant: all entries are unlocked, as if each had been searched for. *)
WriteAll(e) == {[i \in DOMAIN dtlb |-> [dtlb[i] EXCEPT !.lk = FALSE]]}

(* What the write does. It asks for the allocation address to be updated:    *)
(* either the entry found is written or one that is to be replaced.          *)
WriteBack(e) ==
  LET found == {i \in DOMAIN dtlb : dtlb[i].page = e.page}
  IN  {[dtlb EXCEPT ![i] = e] : i \in found} \cup Fill(dtlb, DEntries, e)

(* and writes it back without its lock bit. The bit `locked` of the          *)
(* descriptor stays. Nothing keeps interrupts out between these steps.       *)
UnlockWrite ==
  /\ call.op = "unlock"
  /\ \E e \in regs.hit :
       \E u \in {[e EXCEPT !.lk = FALSE]} :
         /\ dtlb' \in WriteBack(u)
         /\ crammed' = (crammed \/ (AllLocked /\ dtlb' \in Fill(dtlb, DEntries, u)))
  /\ call' = [call EXCEPT !.index = @ + 1]
  /\ regs' = NoRegs
  /\ UNCHANGED <<itlb, locked, instr, calls, held, asked, exposed, doubled>>

Cpu == Execute \/ MissFetch \/ MissData
Driver == LockStep \/ MapLocked \/ UnlockAddress \/ UnlockSearch \/ UnlockWrite

Next ==
  \/ \E i \in Instructions : Fetch(i)
  \/ Cpu
  \/ \E r \in Ranges : CallLock(r) \/ CallUnlock(r)
  \/ Driver

(* The processor goes on with the instruction it has, and code that has been *)
(* called goes on when it is not interrupted for ever.                       *)
Spec == Init /\ [][Next]_vars /\ WF_vars(Cpu) /\ WF_vars(Driver)

-----------------------------------------------------------------------------
(* The types of all variables; no TLB has more entries than the hardware. *)
TypeOK ==
  /\ dtlb \in Seq(Entry) /\ Len(dtlb) <= DEntries
  /\ itlb \in Seq(Entry) /\ Len(itlb) <= IEntries
  /\ locked \subseteq Descriptors
  /\ instr \in Instructions \cup {Idle}
  /\ call \in [op : {"none", "lock", "map", "unlock"}, index : Nat,
               virt : 0..(Space * Grain - 1), size : Nat]
  /\ regs \in [ar : Pages \cup {-1}, hit : SUBSET Entry] /\ Cardinality(regs.hit) <= 1
  /\ calls \in 0..MaxCalls
  /\ held \subseteq Descriptors /\ asked \subseteq Descriptors
  /\ exposed \subseteq Descriptors /\ doubled \subseteq locked /\ crammed \in BOOLEAN

(* A page that mmu_map_data_page_locked has mapped stays in the data TLB,    *)
(* locked, through all misses and calls for other pages, until               *)
(* mmu_unlock_data_page is called for it - unless an interrupt handler       *)
(* missed that page between two steps of an unlock call, which then unlocks  *)
(* it in place of its own, or all entries were locked when one was needed    *)
(* (the FIXME above mmu_map_data_page_locked: nothing limits their number).  *)
LockedStays ==
  ~crammed => \A p \in held \ exposed : \E i \in DOMAIN dtlb : dtlb[i].page = p /\ dtlb[i].lk

(* What the comments of the two functions promise: a locked page stays until *)
(* it is unlocked, without these exceptions.                                   *)
LockedUntilUnlocked ==
  \A p \in held : \E i \in DOMAIN dtlb : dtlb[i].page = p /\ dtlb[i].lk

(* Locking, unlocking, eviction and mapping again never cost more than one   *)
(* locked entry for a page that a driver has named, or two if it was missed  *)
(* in the middle of its lock call, so that mmu_map_page's demand of enough   *)
(* unlocked entries can be met by limiting the pages, not the calls. Both    *)
(* TLBs stay within their size.                                              *)
OneLockEach ==
  /\ TypeOK
  /\ Cardinality({i \in DOMAIN dtlb : dtlb[i].lk}) <=
       Len(InitMaps) + Cardinality(locked) + Cardinality(doubled)

(* The mappings of mmu_init differ in their cache mode from the page         *)
(* descriptors: the driver buffers are uncached by the locked entry only. No *)
(* run of misses brings in the mapping of the descriptor as long as no       *)
(* driver names that page, and some entry is not locked.                     *)
DriverUncached ==
  ~crammed =>
    \A m \in DOMAIN InitMaps :
      LET p == InitMaps[m][1] IN
      p \notin asked =>
        \A i \in DOMAIN dtlb : dtlb[i].page = p => dtlb[i].mode = InitMaps[m][2]

(* Every instruction whose words are on one page comes to its end: its       *)
(* misses never evict each other's pages for ever, unless locked pages have  *)
(* used up the TLB. (An instruction across two pages does not, when the      *)
(* second is not mapped: the handler maps the first again.)                  *)
InstructionEnds ==
  (instr # Idle /\ instr.pc = instr.ext) ~> (instr = Idle \/ crammed)

(* Calls that lock and unlock return: mmu_map_data_page_locked leaves its    *)
(* loop when the address has wrapped at the end of the address space.        *)
CallReturns == call # NoCall ~> call = NoCall
=============================================================================
