-------------------------------- MODULE Pci ---------------------------------
(* The PCI BIOS of BaS: pci/pci.c, with the interrupt handlers that use it   *)
(* in sys/interrupts.c. At start the bus is scanned: every function gets a   *)
(* handle, and windows for its base address registers. Later drivers of the  *)
(* operating system change command registers by configuration accesses and   *)
(* hook interrupts, in steps that a PCI interrupt may divide. A function is  *)
(* named by its handle, 8 * device + function; addresses count in units.     *)
EXTENDS Integers, Sequences, FiniteSets, FiniteSetsExt

CONSTANTS
  Buses,         \* the buses to choose from, a sequence of functions from
                 \* handles to Cards
  Boards,        \* the board each of them is on
  NumCards,      \* NUM_CARDS
  MaxInterrupts, \* MAX_INTERRUPTS
  MemStart,      \* PCI_MEMORY_OFFSET
  IoStart        \* PCI_IO_OFFSET

Spaces == {"mem", "io", "rom"}
Request == [space : Spaces, size : Nat]

\* What a function answers: ghosts are the copies of function 0 that a card
\* shows at every function number it does not decode.
Cards == [kind : {"card", "bridge"}, multi : BOOLEAN, ghost : BOOLEAN,
          driven : BOOLEAN, requests : Seq(Request)]

\* Of the command register: does the function answer to its windows (the bits
\* for memory and for I/O taken as one), is its interrupt disabled.
Bits == {"decode", "intoff"}
End == -1                         \* the mark behind the last handle
NotFound == -4

Function(h) == h % 8
Header(h) == h - Function(h)

(* Mutant: the header of function 0 is not asked. *)
FoundAll(b) == DOMAIN b

\* The functions pci_find_device sees: 1 to 7 only where the header of
\* function 0 announces several.
Found(b) == {h \in DOMAIN b : \/ Function(h) = 0
                              \/ (Header(h) \in DOMAIN b /\ b[Header(h)].multi)}

ASSUME PciAssumption ==
  /\ NumCards \in Nat \ {0} /\ MaxInterrupts \in Nat \ {0}
  /\ MemStart \in Nat /\ IoStart \in Nat
  /\ Boards \in [DOMAIN Buses -> {"FIREBEE", "LITE"}]
  /\ \A n \in DOMAIN Buses :
       /\ DOMAIN Buses[n] \subseteq 80..247
       /\ \A h \in DOMAIN Buses[n] :
            /\ Buses[n][h] \in Cards /\ (Buses[n][h].driven => Buses[n][h].kind = "card")
            /\ Len(Buses[n][h].requests) <= 7   \* six registers and the ROM
       /\ Cardinality(Found(Buses[n])) \in 1..(NumCards - 1)

\* What the theorem about the list of handles assumes: a card shows copies of
\* itself at the functions that its header does not announce, and only there.
GhostsUnannounced ==
  \A n \in DOMAIN Buses : \A h \in DOMAIN Buses[n] :
    Buses[n][h].ghost <=> /\ Function(h) # 0
                          /\ ~(Header(h) \in DOMAIN Buses[n] /\ Buses[n][Header(h)].multi)

\* What the theorem about the windows assumes of the registers, which ask for
\* powers of two: of two sizes one divides the other, and each divides the
\* addresses that windows begin at.
SizesOf(card) == {card.requests[k].size : k \in DOMAIN card.requests} \ {0}
Sizes == UNION {UNION {SizesOf(Buses[n][h]) : h \in DOMAIN Buses[n]} : n \in DOMAIN Buses}
PowersOfTwo ==
  /\ \A a, b \in Sizes : a <= b => b % a = 0
  /\ \A a \in Sizes : MemStart % a = 0 /\ IoStart % a = 0

VARIABLES
  bus,           \* which of them, fixed
  phase,         \* "scan" while init_pci runs, then "run"
  index,         \* the next index pci_scan looks for
  handles, descriptors,        \* the tables of pci.c
  memAddress, ioAddress,       \* where the next window may start
  command,       \* the command register of each function
  car,           \* PCICAR: the enable bit and the function it names
  fg,            \* the configuration access or hooking of the foreground
  hooks,         \* interrupts[]
  driver,        \* how far the driver of each function is
  asserting,     \* the functions with an interrupt in their status register
  flag,          \* the flag of the edge port (LITE) or of the FPGA (FIREBEE)
  isr,           \* the interrupt handler
  spoiled,       \* history: functions of which an access was diverted
  dropped        \* history: a request was cleared that nobody had looked at

scanned == <<index, handles, descriptors, memAddress, ioAddress>>
fixed == <<bus, phase, scanned>>
vars == <<fixed, command, car, fg, hooks, driver, asserting, flag, isr, spoiled, dropped>>

Card == Buses[bus]
board == Boards[bus]
Handles == DOMAIN Card
Slots == 1..MaxInterrupts
Empty == [handle |-> 0, handler |-> 0]
Resting == [op |-> "none", pc |-> "idle", h |-> 0, on |-> FALSE, value |-> {},
            slot |-> 1]
Quiet == [pc |-> "idle", i |-> 0, h |-> 0]
DrivenOn(b) == {h \in DOMAIN b : b[h].driven}
Driven == DrivenOn(Card)

Init ==
  /\ bus \in DOMAIN Buses
  /\ phase = "scan" /\ index = 0
  /\ handles = [i \in 0..(NumCards - 1) |-> 0]
  /\ descriptors = [i \in 0..(NumCards - 1) |-> <<>>]
  /\ memAddress = MemStart /\ ioAddress = IoStart
  /\ command = [h \in Handles |-> {}]
  /\ car = [e |-> FALSE, h |-> 0]
  /\ fg = Resting /\ isr = Quiet
  /\ hooks = [s \in Slots |-> Empty]
  /\ driver = [h \in Driven |-> "off"]
  /\ asserting = {} /\ flag = FALSE
  /\ spoiled = {} /\ dropped = FALSE

-----------------------------------------------------------------------------
(* The scan. No interrupt is let through yet.                               *)

\* pci_find_device with a vendor of -1: the i'th function on the bus.
FindDevice(i) ==
  LET at == {h \in Found(Card) : Cardinality({g \in Found(Card) : g < h}) = i}
  IN  IF at = {} THEN NotFound ELSE CHOOSE h \in at : TRUE

Align(a, size) == ((a + size - 1) \div size) * size

\* The window for a request, behind those placed so far; a request of size 0 is
\* a register that is not in use. What alignment skips is not counted.
Assign(w, r) ==
  LET start == Align(IF r.space = "io" THEN w.io ELSE w.mem, r.size)
  IN  IF r.size = 0 THEN w
      ELSE [mem |-> IF r.space = "io" THEN w.mem ELSE w.mem + r.size,
            io  |-> IF r.space = "io" THEN w.io + r.size ELSE w.io,
            placed |-> Append(w.placed, [space |-> r.space, start |-> start,
                                         size |-> r.size])]

\* The windows for the requests of a function, from two addresses on.
Place(requests, mem, io) ==
  LET W[n \in 0..Len(requests)] ==
        IF n = 0 THEN [mem |-> mem, io |-> io, placed |-> <<>>]
        ELSE Assign(W[n - 1], requests[n])
  IN  W[Len(requests)]

(* Mutant: the addresses are not kept from one function to the next. *)
WindowsAnew(requests) == Place(requests, MemStart, IoStart)

Windows(requests) == Place(requests, memAddress, ioAddress)

\* pci_device_config: windows, descriptors, and the command register with the
\* spaces in use enabled and the interrupt disabled.
DeviceConfig(i, h) ==
  LET w == Windows(Card[h].requests)
  IN  /\ descriptors' = [descriptors EXCEPT ![i] = w.placed]
      /\ memAddress' = w.mem /\ ioAddress' = w.io
      /\ command' = [command EXCEPT ![h] =
           {"intoff"} \cup (IF w.placed # <<>> THEN {"decode"} ELSE {})]

\* pci_bridge_config: no windows of its own, and only function 0.
BridgeConfig(h) ==
  /\ command' = IF Function(h) = 0 THEN [command EXCEPT ![h] = {"decode"}] ELSE command
  /\ UNCHANGED <<descriptors, memAddress, ioAddress>>

\* One round of pci_scan: the next function gets a handle and is configured.
ScanNext ==
  LET h == FindDevice(index)
  IN  /\ phase = "scan" /\ h # NotFound
      /\ handles' = [handles EXCEPT ![index] = h, ![index + 1] = End]
      /\ IF Card[h].kind = "bridge" THEN BridgeConfig(h) ELSE DeviceConfig(index, h)
      /\ index' = index + 1
      /\ car' = [e |-> FALSE, h |-> h]
      /\ UNCHANGED <<bus, phase, fg, hooks, driver, asserting, flag, isr, spoiled, dropped>>

ScanEnd ==
  /\ phase = "scan" /\ FindDevice(index) = NotFound
  /\ phase' = "run"
  /\ UNCHANGED <<bus, scanned, command, car, fg, hooks, driver, asserting, flag, isr,
                 spoiled, dropped>>

-----------------------------------------------------------------------------
(* The hardware. The request line is shared; it falls when the first        *)
(* function pulls it, and only a falling line raises the flag.              *)

Pulling(a, c) == {h \in a : "intoff" \notin c[h]}
Raised(a, c) == flag \/ (Pulling(asserting, command) = {} /\ Pulling(a, c) # {})

\* A function that its driver has started asks for an interrupt.
Pull(h) ==
  /\ phase = "run" /\ driver[h] # "off" /\ h \notin asserting
  /\ asserting' = asserting \cup {h}
  /\ flag' = Raised(asserting \cup {h}, command)
  /\ UNCHANGED <<fixed, command, car, fg, hooks, driver, isr, spoiled, dropped>>

-----------------------------------------------------------------------------
(* The foreground: a driver hooks its interrupt, then enables it; later it   *)
(* disables it and unhooks. It runs only while no handler does.              *)

Foreground == phase = "run" /\ isr.pc = "idle"

\* pci_find_classcode: a driver finds its function among the handles.
Listed == {handles[i] : i \in DOMAIN handles}

\* pci_hook_interrupt takes the first free slot: the handle first ...
HookHandle(h) ==
  LET free == {s \in Slots : hooks[s].handle = 0}
  IN  /\ Foreground /\ fg.pc = "idle" /\ h \in Listed /\ driver[h] = "off"
      /\ free # {}
      /\ hooks' = [hooks EXCEPT ![Min(free)] = [handle |-> h, handler |-> @.handler]]
      /\ fg' = [Resting EXCEPT !.op = "hook", !.pc = "handler", !.h = h,
                            !.slot = Min(free)]
      /\ UNCHANGED <<fixed, command, car, driver, asserting, flag, isr, spoiled, dropped>>

\* ... then the handler.
HookHandler ==
  /\ Foreground /\ fg.op = "hook"
  /\ hooks' = [hooks EXCEPT ![fg.slot] = [handle |-> @.handle, handler |-> fg.h]]
  /\ driver' = [driver EXCEPT ![fg.h] = "hooked"]
  /\ fg' = Resting
  /\ UNCHANGED <<fixed, command, car, asserting, flag, isr, spoiled, dropped>>

(* Mutant: only the handler is cleared. *)
UnhookHandler(h) ==
  LET slot == Min({s \in Slots : hooks[s].handle = h})
  IN  /\ Foreground /\ fg.pc = "idle" /\ driver[h] = "hooked"
      /\ hooks' = [hooks EXCEPT ![slot] = [handle |-> h, handler |-> 0]]
      /\ driver' = [driver EXCEPT ![h] = "off"]
      /\ UNCHANGED <<fixed, command, car, fg, asserting, flag, isr, spoiled, dropped>>

\* pci_unhook_interrupt clears the first slot of the handle.
Unhook(h) ==
  LET slot == Min({s \in Slots : hooks[s].handle = h})
  IN  /\ Foreground /\ fg.pc = "idle" /\ driver[h] = "hooked"
      /\ hooks' = [hooks EXCEPT ![slot] = Empty]
      /\ driver' = [driver EXCEPT ![h] = "off"]
      /\ UNCHANGED <<fixed, command, car, fg, asserting, flag, isr, spoiled, dropped>>

\* A driver enables or disables its interrupt: it reads the command register
\* and writes it back with the bit changed.
Update(h, on) ==
  /\ Foreground /\ fg.pc = "idle" /\ driver[h] = (IF on THEN "hooked" ELSE "on")
  /\ fg' = [Resting EXCEPT !.op = "read", !.pc = "car", !.h = h, !.on = on]
  /\ UNCHANGED <<fixed, command, car, hooks, driver, asserting, flag, isr, spoiled, dropped>>

\* Each access of pci_read_config_* and pci_write_config_*: PCICAR is set,
SetCar ==
  /\ Foreground /\ fg.pc = "car"
  /\ car' = [e |-> TRUE, h |-> fg.h]
  /\ fg' = [fg EXCEPT !.pc = "access"]
  /\ UNCHANGED <<fixed, command, hooks, driver, asserting, flag, isr, spoiled, dropped>>

\* the access goes to the function PCICAR names, or to the I/O space if the
\* enable bit is no longer set: then a read returns anything
ReadWord ==
  /\ Foreground /\ fg.pc = "access" /\ fg.op = "read"
  /\ \E v \in IF car.e THEN {command[car.h]} ELSE SUBSET Bits :
       fg' = [fg EXCEPT !.pc = "clear", !.value = IF fg.on THEN v \ {"intoff"}
                                                          ELSE v \cup {"intoff"}]
  /\ spoiled' = IF car.e THEN spoiled ELSE spoiled \cup {fg.h}
  /\ UNCHANGED <<fixed, command, car, hooks, driver, asserting, flag, isr, dropped>>

\* and a write is lost,
WriteWord ==
  LET written == IF car.e THEN [command EXCEPT ![car.h] = fg.value] ELSE command
  IN  /\ Foreground /\ fg.pc = "access" /\ fg.op = "write"
      /\ command' = written
      /\ flag' = Raised(asserting, written)
      /\ fg' = [fg EXCEPT !.pc = "clear"]
      /\ spoiled' = IF car.e THEN spoiled ELSE spoiled \cup {fg.h}
      /\ UNCHANGED <<fixed, car, hooks, driver, asserting, isr, dropped>>

\* and the enable bit is cleared.
ClearCar ==
  /\ Foreground /\ fg.pc = "clear"
  /\ car' = [car EXCEPT !.e = FALSE]
  /\ IF fg.op = "read"
     THEN fg' = [fg EXCEPT !.op = "write", !.pc = "car"] /\ UNCHANGED driver
     ELSE /\ fg' = Resting
          /\ driver' = [driver EXCEPT ![fg.h] = IF fg.on THEN "on" ELSE "hooked"]
  /\ UNCHANGED <<fixed, command, hooks, asserting, flag, isr, spoiled, dropped>>

-----------------------------------------------------------------------------
(* The interrupt handler: irq7_handler of the LITE, irq5_handler of the      *)
(* FIREBEE, both at a priority that keeps the foreground out.                *)

\* irq7_handler clears the flag of the edge port as it begins.
Irq ==
  /\ phase = "run" /\ isr.pc = "idle" /\ flag
  /\ isr' = [pc |-> "cause", i |-> 0, h |-> 0]
  /\ flag' = (board = "FIREBEE")
  /\ UNCHANGED <<fixed, command, car, fg, hooks, driver, asserting, spoiled, dropped>>

(* Mutant: what the comparison yields on every board. *)
PassedOne(h) == 1

\* irq5_handler assigns the comparison, which is 1, not the handle.
Passed(h) == IF board = "FIREBEE" THEN 1 ELSE h

(* Mutant: the configuration access is not closed. *)
CauseOpen ==
  LET h == handles[isr.i]
  IN  /\ isr.pc = "cause" /\ h # End
      /\ car' = [e |-> TRUE, h |-> h]
      /\ isr' = IF h \in Pulling(asserting, command)
                THEN [pc |-> "call", i |-> 0, h |-> Passed(h)]
                ELSE [isr EXCEPT !.i = @ + 1]
      /\ UNCHANGED <<fixed, command, fg, hooks, driver, asserting, flag, spoiled, dropped>>

\* pci_get_interrupt_cause reads the command and the status word of the next
\* handle, each by a configuration access.
Cause ==
  LET h == handles[isr.i]
  IN  /\ isr.pc = "cause" /\ h # End
      /\ car' = [e |-> FALSE, h |-> h]
      /\ isr' = IF h \in Pulling(asserting, command)
                THEN [pc |-> "call", i |-> 0, h |-> Passed(h)]
                ELSE [isr EXCEPT !.i = @ + 1]
      /\ UNCHANGED <<fixed, command, fg, hooks, driver, asserting, flag, spoiled, dropped>>

NoCause ==
  /\ isr.pc = "cause" /\ handles[isr.i] = End
  /\ isr' = [Quiet EXCEPT !.pc = "end"]
  /\ UNCHANGED <<fixed, command, car, fg, hooks, driver, asserting, flag, spoiled, dropped>>

\* pci_call_interrupt_chain calls the handler in the first slot of the handle;
\* it answers its device. A slot without a handler is a jump to address 0.
CallChain ==
  LET mine == {s \in Slots : hooks[s].handle = isr.h}
      handler == IF mine = {} THEN 0 ELSE hooks[Min(mine)].handler
  IN  /\ isr.pc = "call"
      /\ asserting' = asserting \ {handler}
      /\ isr' = IF mine # {} /\ handler = 0 THEN [isr EXCEPT !.pc = "lost"]
                ELSE [Quiet EXCEPT !.pc = "end"]
      /\ UNCHANGED <<fixed, command, car, fg, hooks, driver, flag, spoiled, dropped>>

\* The handler clears the flag, as it stands by now. The FPGA may raise it
\* again for a line that is still low; the edge port does not.
IrqEnd ==
  /\ isr.pc = "end"
  /\ flag' \in IF board = "FIREBEE" THEN {FALSE, Pulling(asserting, command) # {}} ELSE {FALSE}
  /\ dropped' = (dropped \/ (board = "LITE" /\ flag))
  /\ isr' = Quiet
  /\ UNCHANGED <<fixed, command, car, fg, hooks, driver, asserting, spoiled>>

-----------------------------------------------------------------------------
Handler == Irq \/ Cause \/ NoCause \/ CallChain \/ IrqEnd

Next ==
  \/ ScanNext \/ ScanEnd
  \/ \E h \in Driven : Pull(h) \/ HookHandle(h) \/ Unhook(h)
  \/ \E h \in Driven, on \in BOOLEAN : Update(h, on)
  \/ HookHandler \/ SetCar \/ ReadWord \/ WriteWord \/ ClearCar
  \/ Handler

Spec == Init /\ [][Next]_vars

\* The processor goes on with a handler once it has begun, and takes a request
\* that stays pending.
FairSpec == Spec /\ WF_vars(Handler)

-----------------------------------------------------------------------------
Window == [space : Spaces, start : Nat, size : Nat]

\* Every variable has its type.
TypeOK ==
  /\ bus \in DOMAIN Buses
  /\ phase \in {"scan", "run"} /\ index \in 0..(NumCards - 1)
  /\ handles \in [0..(NumCards - 1) -> Handles \cup {0, End}]
  /\ DOMAIN descriptors = 0..(NumCards - 1)
  /\ \A i \in DOMAIN descriptors : descriptors[i] \in Seq(Window)
  /\ memAddress \in Nat /\ ioAddress \in Nat
  /\ command \in [Handles -> SUBSET Bits]
  /\ car \in [e : BOOLEAN, h : Handles \cup {0}]
  /\ fg \in [op : {"none", "hook", "read", "write"}, h : Driven \cup {0}, on : BOOLEAN,
             pc : {"idle", "handler", "car", "access", "clear"}, value : SUBSET Bits,
             slot : Slots]
  /\ hooks \in [Slots -> [handle : Driven \cup {0}, handler : Driven \cup {0}]]
  /\ driver \in [Driven -> {"off", "hooked", "on"}]
  /\ asserting \subseteq Driven /\ flag \in BOOLEAN
  /\ isr \in [pc : {"idle", "cause", "call", "end", "lost"}, i : 0..(NumCards - 1),
              h : Handles \cup {0, 1}]
  /\ spoiled \subseteq Driven /\ dropped \in BOOLEAN

\* pci_scan gives every function of the bus one handle, takes no copy of a
\* function for another, and leaves the list with its end mark.
ScanComplete ==
  phase = "run" =>
    LET last == CHOOSE i \in DOMAIN handles : handles[i] = End
    IN  /\ \E i \in DOMAIN handles : handles[i] = End
        /\ {handles[i] : i \in 0..(last - 1)} = {h \in Handles : ~Card[h].ghost}
        /\ last = Cardinality({h \in Handles : ~Card[h].ghost})

Placed == {p \in (DOMAIN descriptors) \X (1..7) : p[2] \in DOMAIN descriptors[p[1]]}
WindowAt(p) == descriptors[p[1]][p[2]]
SameSpace(v, w) == (v.space = "io") <=> (w.space = "io")
Before(p, q) == p[1] < q[1] \/ (p[1] = q[1] /\ p[2] < q[2])
NeverGrowUpTo(q) ==
  \A a, b \in Placed :
    (Before(a, b) /\ ~Before(q, b) /\ SameSpace(WindowAt(a), WindowAt(b))
       /\ SameSpace(WindowAt(a), WindowAt(q))) => WindowAt(a).size >= WindowAt(b).size

\* pci_device_config: every window is aligned to its size, and two windows of a
\* space lie apart if the sizes that were asked for in it up to then never grow.
WindowsApart ==
  phase = "scan" =>
  /\ \A p \in Placed : WindowAt(p).start % WindowAt(p).size = 0
  /\ \A p, q \in Placed :
       (Before(p, q) /\ SameSpace(WindowAt(p), WindowAt(q)) /\ NeverGrowUpTo(q))
         => WindowAt(p).start + WindowAt(p).size <= WindowAt(q).start

\* A configuration access, whatever interrupts it, never changes a register of
\* another function than the one its caller named.
ConfigIsolated ==
  [][\A h \in DOMAIN command : command'[h] # command[h] =>
       (phase = "scan" /\ h = FindDevice(index)) \/ fg.h = h]_vars

\* pci_call_interrupt_chain never jumps to address 0 for a driver that hooks
\* before it enables and disables before it unhooks, as long as none of its
\* configuration accesses was diverted.
CallSafe == isr.pc = "lost" => isr.h \in spoiled

Alone(h) ==
  /\ board = "LITE" /\ h \in Driven /\ driver[h] = "on" /\ h \notin spoiled /\ ~dropped
  /\ isr.pc # "lost" /\ "intoff" \notin command[h]
  /\ \A g \in Driven \ {h} : "intoff" \in command[g]

\* irq7_handler: a driver that is the only one with its interrupt enabled has
\* every request that reached the edge port answered, unless the handler clears
\* one that arrived while it ran.
Served ==
  \A h \in UNION {DrivenOn(Buses[n]) : n \in DOMAIN Buses} :
    (Alone(h) /\ h \in asserting /\ flag) ~> (h \notin asserting \/ ~Alone(h))
=============================================================================
