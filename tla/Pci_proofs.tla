----------------------------- MODULE Pci_proofs -----------------------------
(* Proofs about Pci, for every bus, any number of interrupt slots and any    *)
(* interleaving of drivers and interrupts: configuration accesses never      *)
(* reach a wrong function, and the interrupt chain never jumps to address 0. *)
(* And about the scan: every function is listed once, and windows of sizes   *)
(* that do not grow lie apart.                                               *)
EXTENDS Pci, FiniteSetTheorems, WellFoundedInduction, TLAPS

Updating(h) == fg.op \in {"read", "write"} /\ fg.h = h

\* What the variables are, as far as the proofs need it.
Types ==
  /\ bus \in DOMAIN Buses /\ phase \in {"scan", "run"}
  /\ command \in [Handles -> SUBSET Bits]
  /\ car = [e |-> car.e, h |-> car.h] /\ car.e \in BOOLEAN
  /\ fg \in [op : {"none", "hook", "read", "write"}, h : Driven \cup {0}, on : BOOLEAN,
             pc : {"idle", "handler", "car", "access", "clear"}, value : SUBSET Bits,
             slot : Slots]
  /\ hooks \in [Slots -> [handle : Driven \cup {0}, handler : Driven \cup {0}]]
  /\ driver \in [Driven -> {"off", "hooked", "on"}]
  /\ asserting \subseteq Driven
  /\ isr \in [pc : {"idle", "cause", "call", "end", "lost"}, i : Nat,
              h : Handles \cup {0, 1}]

\* Nothing runs before the scan is over.
ScanFirst ==
  phase = "scan" => fg = Resting /\ isr = Quiet /\ \A h \in Driven : driver[h] = "off"

\* While PCICAR is enabled it names the function of the access under way.
CarOwned == car.e => fg.op \in {"read", "write"} /\ fg.pc \in {"access", "clear"} /\ car.h = fg.h

\* What the foreground is doing.
FgSound ==
  /\ fg.pc = "idle" <=> fg.op = "none"
  /\ fg.pc = "handler" <=> fg.op = "hook"
  /\ fg.op = "hook" => /\ fg.h \in Driven /\ driver[fg.h] = "off" /\ fg.h \in Listed
                       /\ hooks[fg.slot].handle = fg.h
  /\ fg.op \in {"read", "write"} => /\ fg.h \in Driven
                                    /\ driver[fg.h] = IF fg.on THEN "hooked" ELSE "on"
  /\ fg.op = "write" \/ (fg.op = "read" /\ fg.pc = "clear")
       => ("intoff" \in fg.value <=> ~fg.on)

\* A slot has the handler of its handle, but for the one that is being filled.
HooksSound ==
  \A s \in Slots :
    \/ hooks[s].handle = 0
    \/ hooks[s].handler = hooks[s].handle
    \/ fg.op = "hook" /\ fg.slot = s /\ fg.h = hooks[s].handle

\* A function whose driver has not enabled its interrupt has it disabled.
Disabled ==
  \A h \in (Driven \cap Listed) \ spoiled :
    /\ driver[h] # "on" /\ ~(Updating(h) /\ fg.on) => "intoff" \in command[h]
    /\ Updating(h) /\ ~fg.on /\ fg.op = "write" /\ fg.pc = "clear" => "intoff" \in command[h]

DriversListed == \A h \in Driven : driver[h] # "off" => h \in Listed

\* The function found to be the cause has its interrupt enabled.
CauseEnabled ==
  isr.pc = "call" => isr.h = 1 \/ (isr.h \in Driven /\ "intoff" \notin command[isr.h])

IInv == /\ Types /\ ScanFirst /\ CarOwned /\ FgSound /\ HooksSound /\ Disabled
        /\ DriversListed /\ CauseEnabled /\ CallSafe

-----------------------------------------------------------------------------
(* A set of slots that is not empty has a first one. *)
LEMMA MinIn ==
  ASSUME NEW S \in SUBSET Slots, S # {}
  PROVE  Min(S) \in S
<1>1. S \subseteq Nat
  BY PciAssumption DEF Slots
<1>2. PICK x \in S : \A y \in S : ~(<<y, x>> \in OpToRel(<, Nat))
  BY <1>1, WFMin, NatLessThanWellFounded
<1>3. \A y \in S : ~(y < x)
  BY <1>1, <1>2, Zenon DEF OpToRel
<1>4. \A y \in S : x <= y
  BY <1>1, <1>3
<1> QED
  BY <1>4 DEF Min

(* Handles of drivers are handles of functions, above 79. *)
LEMMA HandleRange ==
  ASSUME bus \in DOMAIN Buses
  PROVE  /\ Driven \subseteq Handles
         /\ \A h \in Handles : h \in 80..247
<1> QED
  BY PciAssumption DEF Driven, DrivenOn, Handles, Card

(* What pci_find_device finds is a function of the bus. *)
LEMMA FoundHandle ==
  ASSUME NEW i, FindDevice(i) # NotFound
  PROVE  FindDevice(i) \in Handles
<1> QED
  BY DEF FindDevice, Found, Handles

(* The invariant holds before the scan. *)
LEMMA InitIInv == Init => IInv
<1> SUFFICES ASSUME Init PROVE IInv
  OBVIOUS
<1> USE DEF Init
<1>1. 1 \in Slots /\ {} \in SUBSET Bits
  BY PciAssumption DEF Slots
<1>2. Types
  BY <1>1 DEF Types, Resting, Quiet, Empty, Handles, Driven, DrivenOn
<1>3. ScanFirst /\ CarOwned /\ FgSound /\ HooksSound /\ DriversListed /\ CauseEnabled /\ CallSafe
  BY <1>2 DEF ScanFirst, CarOwned, FgSound, HooksSound, DriversListed, CauseEnabled, CallSafe,
     Resting, Quiet, Empty, Slots
<1>4. ASSUME NEW h \in Driven \cap Listed PROVE FALSE
  <2>1. h = 0
    BY <1>4 DEF Listed
  <2>2. h \in 80..247
    BY <1>2, <1>4, HandleRange DEF Types
  <2> QED
    BY <2>1, <2>2
<1> QED
  BY <1>2, <1>3, <1>4 DEF IInv, Disabled

(* One round of the scan: the function it configures has its interrupt       *)
(* disabled, and the list gets no other function.                            *)
LEMMA ScanIInv ==
  ASSUME IInv, ScanNext
  PROVE  IInv'
<1> DEFINE h == FindDevice(index)
<1> USE DEF IInv
<1>1. h \in Handles /\ phase = "scan" /\ h # NotFound
  BY FoundHandle DEF ScanNext
<1>2. Handles' = Handles /\ Driven' = Driven /\ Card' = Card
  BY DEF ScanNext, Handles, Driven, DrivenOn, Card
<1>3. command' \in [Handles -> SUBSET Bits]
  <2>1. \A c \in SUBSET Bits : [command EXCEPT ![h] = c] \in [Handles -> SUBSET Bits]
    BY DEF Types
  <2>2. CASE Card[h].kind = "bridge"
    BY <2>1, <2>2 DEF ScanNext, BridgeConfig, Bits, Types
  <2>3. CASE Card[h].kind # "bridge"
    <3>1. \E c \in SUBSET Bits : command' = [command EXCEPT ![h] = c]
      <4>1. DeviceConfig(index, h)
        BY <2>3 DEF ScanNext
      <4>2. \A b \in BOOLEAN : ({"intoff"} \cup (IF b THEN {"decode"} ELSE {})) \in SUBSET Bits
        BY DEF Bits
      <4> QED
        BY <4>1, <4>2 DEF DeviceConfig
    <3> QED
      BY <2>1, <3>1
  <2> QED
    BY <2>2, <2>3
<1>4. Listed' \subseteq Listed \cup {h, End}
  BY <1>1 DEF Listed, ScanNext
<1>5. \A g \in Handles : g # h => command'[g] = command[g]
  BY DEF ScanNext, BridgeConfig, DeviceConfig, Types
<1>6. h \in Driven => "intoff" \in command'[h]
  <2> SUFFICES ASSUME h \in Driven PROVE "intoff" \in command'[h]
    OBVIOUS
  <2>1. Card[h].kind = "card"
    BY PciAssumption DEF Driven, DrivenOn, Card, Types
  <2> QED
    BY <1>1, <2>1 DEF ScanNext, DeviceConfig, Types
<1> HIDE DEF h
<1>7. /\ UNCHANGED <<bus, phase, fg, hooks, driver, asserting, isr, spoiled>>
      /\ car' = [e |-> FALSE, h |-> h]
  BY DEF ScanNext, h
<1>8. Types'
  BY <1>2, <1>3, <1>7 DEF Types, Slots
<1>9. Disabled'
  <2> SUFFICES ASSUME NEW g \in (Driven \cap Listed') \ spoiled PROVE "intoff" \in command'[g]
    BY <1>1, <1>2, <1>7 DEF Disabled, ScanFirst, Updating, Resting
  <2>1. g \in Handles /\ g # End
    BY HandleRange DEF Types, End
  <2>2. CASE g = h
    BY <1>6, <2>2
  <2>3. CASE g # h
    <3>1. g \in Listed
      BY <1>4, <2>1, <2>3
    <3>2. driver[g] # "on" /\ ~Updating(g)
      BY <1>1 DEF ScanFirst, Updating, Resting
    <3> QED
      BY <1>5, <2>1, <2>3, <3>1, <3>2 DEF Disabled
  <2> QED
    BY <2>2, <2>3
<1> QED
  BY <1>1, <1>2, <1>7, <1>8, <1>9 DEF ScanFirst, CarOwned, FgSound, HooksSound, DriversListed,
     CauseEnabled, CallSafe, Resting, Quiet, Slots

(* Each step of the foreground keeps the invariant: the first half of a      *)
(* pci_hook_interrupt, which fills in the handle,                            *)
LEMMA HookIInv ==
  ASSUME IInv, NEW h \in Driven, HookHandle(h)
  PROVE  IInv'
<1> DEFINE free == {s \in Slots : hooks[s].handle = 0}
<1> USE DEF IInv
<1>1. Min(free) \in free
  BY MinIn DEF HookHandle
<1> DEFINE slot == Min(free)
<1>2. slot \in Slots /\ hooks[slot].handle = 0
  BY <1>1
<1>3. hooks' = [hooks EXCEPT ![slot] = [handle |-> h, handler |-> @.handler]]
  BY DEF HookHandle
<1>4. fg' = [Resting EXCEPT !.op = "hook", !.pc = "handler", !.h = h, !.slot = slot]
  BY DEF HookHandle
<1> HIDE DEF slot, free
<1>5. /\ UNCHANGED <<fixed, command, car, driver, asserting, isr, spoiled>>
      /\ Foreground /\ fg.pc = "idle" /\ h \in Listed /\ driver[h] = "off"
  BY DEF HookHandle
<1>6. UNCHANGED <<Handles, Driven, Listed, Slots>>
  BY <1>5 DEF Handles, Driven, DrivenOn, Card, Listed, fixed, scanned, Slots
<1>7. /\ fg'.op = "hook" /\ fg'.pc = "handler" /\ fg'.h = h /\ fg'.slot = slot
      /\ fg'.on = FALSE /\ fg'.value = {}
  BY <1>4 DEF Resting
<1>8. Types'
  BY <1>2, <1>3, <1>4, <1>5, <1>6 DEF Types, Resting, fixed
<1>9. HooksSound'
  BY <1>2, <1>3, <1>5, <1>6, <1>7 DEF HooksSound, Types, FgSound
<1>10. CarOwned' /\ FgSound' /\ ScanFirst'
  <2>1. hooks'[slot].handle = h
    BY <1>2, <1>3 DEF Types
  <2> QED
    BY <1>5, <1>6, <1>7, <2>1 DEF CarOwned, FgSound, ScanFirst, Foreground, fixed
<1>11. Disabled' /\ DriversListed' /\ CauseEnabled' /\ CallSafe'
  BY <1>5, <1>6, <1>7 DEF Disabled, DriversListed, CauseEnabled, CallSafe, Foreground, fixed, Updating,
     FgSound, Types
<1> QED
  BY <1>8, <1>9, <1>10, <1>11

(* the second half, which fills in the handler,                              *)
LEMMA HookedIInv ==
  ASSUME IInv, HookHandler
  PROVE  IInv'
<1> USE DEF IInv
<1>1. /\ UNCHANGED <<fixed, command, car, asserting, isr, spoiled>>
      /\ Foreground /\ fg.op = "hook" /\ fg' = Resting
      /\ hooks' = [hooks EXCEPT ![fg.slot] = [handle |-> @.handle, handler |-> fg.h]]
      /\ driver' = [driver EXCEPT ![fg.h] = "hooked"]
  BY DEF HookHandler
<1>2. UNCHANGED <<Handles, Driven, Listed, Slots>>
  BY <1>1 DEF Handles, Driven, DrivenOn, Card, Listed, fixed, scanned, Slots
<1>3. fg.h \in Driven /\ fg.slot \in Slots /\ fg.h \in Listed
  BY <1>1 DEF FgSound, Types
<1>4. Types'
  <2>1. 1 \in Slots
    BY PciAssumption DEF Slots
  <2> QED
    BY <1>1, <1>2, <1>3, <2>1 DEF Types, Resting, fixed
<1>5. HooksSound'
  <2>1. hooks[fg.slot].handle = fg.h
    BY <1>1 DEF FgSound
  <2> QED
    BY <1>1, <1>2, <1>3, <2>1 DEF HooksSound, Types
<1>6. fg'.op = "none" /\ fg'.pc = "idle"
  BY <1>1 DEF Resting
<1>7. CarOwned' /\ FgSound' /\ ScanFirst'
  BY <1>1, <1>2, <1>6 DEF CarOwned, FgSound, ScanFirst, Foreground, fixed
<1>8. Disabled' /\ DriversListed' /\ CauseEnabled' /\ CallSafe'
  BY <1>1, <1>2, <1>3, <1>6 DEF Disabled, DriversListed, CauseEnabled, CallSafe, Foreground, fixed,
     Updating, FgSound, Types
<1> QED
  BY <1>4, <1>5, <1>7, <1>8

(* pci_unhook_interrupt,                                                     *)
LEMMA UnhookIInv ==
  ASSUME IInv, NEW h \in Driven, Unhook(h)
  PROVE  IInv'
<1> USE DEF IInv
<1>1. /\ UNCHANGED <<fixed, command, car, fg, asserting, isr, spoiled>>
      /\ Foreground /\ fg.pc = "idle" /\ driver[h] = "hooked"
      /\ driver' = [driver EXCEPT ![h] = "off"]
  BY DEF Unhook
<1>2. PICK slot : hooks' = [hooks EXCEPT ![slot] = Empty]
  BY DEF Unhook
<1>3. UNCHANGED <<Handles, Driven, Listed, Slots>>
  BY <1>1 DEF Handles, Driven, DrivenOn, Card, Listed, fixed, scanned, Slots
<1>4. Types'
  BY <1>1, <1>2, <1>3 DEF Types, Empty, fixed
<1>5. HooksSound'
  BY <1>1, <1>2, <1>3 DEF HooksSound, Types, Empty, FgSound
<1>6. CarOwned' /\ FgSound' /\ ScanFirst'
  BY <1>1, <1>3 DEF CarOwned, FgSound, ScanFirst, Foreground, fixed
<1>7. Disabled' /\ DriversListed' /\ CauseEnabled' /\ CallSafe'
  BY <1>1, <1>3 DEF Disabled, DriversListed, CauseEnabled, CallSafe, Foreground, fixed, Updating,
     FgSound, Types
<1> QED
  BY <1>4, <1>5, <1>6, <1>7

(* the begin of a change to a command register,                              *)
LEMMA UpdateIInv ==
  ASSUME IInv, NEW h \in Driven, NEW on \in BOOLEAN, Update(h, on)
  PROVE  IInv'
<1> USE DEF IInv
<1>1. /\ UNCHANGED <<fixed, command, car, hooks, driver, asserting, isr, spoiled>>
      /\ Foreground /\ fg.pc = "idle" /\ driver[h] = (IF on THEN "hooked" ELSE "on")
      /\ fg' = [Resting EXCEPT !.op = "read", !.pc = "car", !.h = h, !.on = on]
  BY DEF Update
<1>2. UNCHANGED <<Handles, Driven, Listed, Slots>>
  BY <1>1 DEF Handles, Driven, DrivenOn, Card, Listed, fixed, scanned, Slots
<1>3. fg'.op = "read" /\ fg'.pc = "car" /\ fg'.h = h /\ fg'.on = on
  BY <1>1 DEF Resting
<1>4. Types'
  <2>1. 1 \in Slots
    BY PciAssumption DEF Slots
  <2> QED
    BY <1>1, <1>2, <2>1 DEF Types, Resting, fixed
<1>5. HooksSound' /\ CarOwned' /\ FgSound' /\ ScanFirst'
  BY <1>1, <1>2, <1>3 DEF HooksSound, CarOwned, FgSound, ScanFirst, Foreground, fixed, Types
<1>6. Disabled' /\ DriversListed' /\ CauseEnabled' /\ CallSafe'
  BY <1>1, <1>2, <1>3 DEF Disabled, DriversListed, CauseEnabled, CallSafe, Foreground, fixed, Updating,
     FgSound, Types
<1> QED
  BY <1>4, <1>5, <1>6

(* the three parts of a configuration access: naming the function,           *)
LEMMA SetCarIInv ==
  ASSUME IInv, SetCar
  PROVE  IInv'
<1> USE DEF IInv
<1>1. /\ UNCHANGED <<fixed, command, hooks, driver, asserting, isr, spoiled>>
      /\ Foreground /\ fg.pc = "car"
      /\ car' = [e |-> TRUE, h |-> fg.h] /\ fg' = [fg EXCEPT !.pc = "access"]
  BY DEF SetCar
<1>2. UNCHANGED <<Handles, Driven, Listed, Slots>>
  BY <1>1 DEF Handles, Driven, DrivenOn, Card, Listed, fixed, scanned, Slots
<1>3. fg.op \in {"read", "write"}
  BY <1>1 DEF FgSound, Types
<1>4. Types' /\ HooksSound' /\ ScanFirst' /\ CarOwned'
  BY <1>1, <1>2, <1>3 DEF Types, HooksSound, ScanFirst, CarOwned, Foreground, fixed
<1>5. FgSound' /\ Disabled' /\ DriversListed' /\ CauseEnabled' /\ CallSafe'
  BY <1>1, <1>2, <1>3 DEF FgSound, Disabled, DriversListed, CauseEnabled, CallSafe, Foreground, fixed,
     Updating, Types
<1> QED
  BY <1>4, <1>5

(* reading its command register,                                             *)
LEMMA ReadIInv ==
  ASSUME IInv, ReadWord
  PROVE  IInv'
<1> USE DEF IInv
<1>1. /\ UNCHANGED <<fixed, command, car, hooks, driver, asserting, isr>>
      /\ Foreground /\ fg.pc = "access" /\ fg.op = "read" /\ spoiled \subseteq spoiled'
  BY DEF ReadWord
<1>2. UNCHANGED <<Handles, Driven, Listed, Slots>>
  BY <1>1 DEF Handles, Driven, DrivenOn, Card, Listed, fixed, scanned, Slots
<1>3. PICK v \in SUBSET Bits :
        fg' = [fg EXCEPT !.pc = "clear", !.value = IF fg.on THEN v \ {"intoff"}
                                                            ELSE v \cup {"intoff"}]
  <2>1. car.e => car.h \in Handles
    BY <1>1, HandleRange DEF CarOwned, FgSound, Types
  <2>2. (IF car.e THEN {command[car.h]} ELSE SUBSET Bits) \subseteq SUBSET Bits
    BY <2>1 DEF Types
  <2> QED
    BY <2>2 DEF ReadWord
<1>4. /\ fg'.op = "read" /\ fg'.h = fg.h /\ fg'.on = fg.on /\ fg'.slot = fg.slot
      /\ fg'.pc = "clear" /\ fg'.value \in SUBSET Bits
      /\ "intoff" \in fg'.value <=> ~fg.on
      /\ fg' = [fg EXCEPT !.pc = "clear", !.value = fg'.value]
  BY <1>1, <1>3 DEF Types, Bits
<1>5. Types'
  BY <1>1, <1>2, <1>4 DEF Types, fixed
<1>6. HooksSound' /\ ScanFirst' /\ CarOwned' /\ FgSound'
  BY <1>1, <1>2, <1>4 DEF HooksSound, ScanFirst, CarOwned, FgSound, Foreground, fixed
<1>7. Disabled' /\ DriversListed' /\ CauseEnabled' /\ CallSafe'
  BY <1>1, <1>2, <1>4 DEF Disabled, DriversListed, CauseEnabled, CallSafe, Foreground, fixed,
     Updating, Types
<1> QED
  BY <1>5, <1>6, <1>7

(* or writing it, which disables the interrupt unless it was diverted,       *)
LEMMA WriteIInv ==
  ASSUME IInv, WriteWord
  PROVE  IInv'
<1> USE DEF IInv
<1>1. /\ UNCHANGED <<fixed, car, hooks, driver, asserting, isr>>
      /\ Foreground /\ fg.pc = "access" /\ fg.op = "write"
      /\ fg' = [fg EXCEPT !.pc = "clear"]
      /\ command' = IF car.e THEN [command EXCEPT ![car.h] = fg.value] ELSE command
      /\ spoiled' = IF car.e THEN spoiled ELSE spoiled \cup {fg.h}
  BY DEF WriteWord
<1>2. UNCHANGED <<Handles, Driven, Listed, Slots>>
  BY <1>1 DEF Handles, Driven, DrivenOn, Card, Listed, fixed, scanned, Slots
<1>3. /\ fg.h \in Handles /\ fg.h \in Driven /\ fg.value \in SUBSET Bits
      /\ "intoff" \in fg.value <=> ~fg.on
      /\ driver[fg.h] = IF fg.on THEN "hooked" ELSE "on"
  BY <1>1, HandleRange DEF FgSound, Types
<1>4. car.e => car.h = fg.h
  BY DEF CarOwned
<1>5. Types'
  BY <1>1, <1>2, <1>3, <1>4 DEF Types, fixed
<1>6. HooksSound' /\ ScanFirst' /\ CarOwned' /\ FgSound'
  BY <1>1, <1>2 DEF HooksSound, ScanFirst, CarOwned, FgSound, Foreground, fixed, Types
<1>7. Disabled'
  <2> SUFFICES ASSUME NEW h \in (Driven \cap Listed) \ spoiled'
               PROVE  Disabled!(h)'
    BY <1>2 DEF Disabled
  <2> QED
    BY <1>1, <1>2, <1>3, <1>4, HandleRange DEF Disabled, Updating, Types
<1>8. DriversListed' /\ CauseEnabled' /\ CallSafe'
  BY <1>1, <1>2 DEF DriversListed, CauseEnabled, CallSafe, Foreground, fixed
<1> QED
  BY <1>5, <1>6, <1>7, <1>8

(* and clearing the enable bit.                                              *)
LEMMA ClearIInv ==
  ASSUME IInv, ClearCar
  PROVE  IInv'
<1> USE DEF IInv
<1>1. /\ UNCHANGED <<fixed, command, hooks, asserting, isr, spoiled>>
      /\ Foreground /\ fg.pc = "clear" /\ car' = [car EXCEPT !.e = FALSE]
  BY DEF ClearCar
<1>2. UNCHANGED <<Handles, Driven, Listed, Slots>>
  BY <1>1 DEF Handles, Driven, DrivenOn, Card, Listed, fixed, scanned, Slots
<1>3. CASE fg.op = "read"
  <2>1. fg' = [fg EXCEPT !.op = "write", !.pc = "car"] /\ UNCHANGED driver
    BY <1>3 DEF ClearCar
  <2>2. /\ fg'.op = "write" /\ fg'.pc = "car" /\ fg'.h = fg.h /\ fg'.on = fg.on
        /\ fg'.value = fg.value /\ fg'.slot = fg.slot
    BY <2>1 DEF Types
  <2>3. Types' /\ HooksSound' /\ ScanFirst' /\ CarOwned'
    BY <1>1, <1>2, <1>3, <2>1, <2>2 DEF Types, HooksSound, ScanFirst, CarOwned, Foreground, fixed
  <2>4. FgSound' /\ Disabled' /\ DriversListed' /\ CauseEnabled' /\ CallSafe'
    BY <1>1, <1>2, <1>3, <2>1, <2>2 DEF FgSound, Disabled, DriversListed, CauseEnabled, CallSafe,
       Foreground, fixed, Updating
  <2> QED
    BY <2>3, <2>4
<1>4. CASE fg.op # "read"
  <2>1. /\ fg' = Resting
        /\ driver' = [driver EXCEPT ![fg.h] = IF fg.on THEN "on" ELSE "hooked"]
    BY <1>4 DEF ClearCar
  <2>2. fg.op = "write" /\ fg.h \in Driven /\ fg'.op = "none" /\ fg'.pc = "idle"
    BY <1>1, <1>4, <2>1 DEF FgSound, Types, Resting
  <2>3. Types' /\ HooksSound' /\ ScanFirst' /\ CarOwned'
    <3>1. 1 \in Slots
      BY PciAssumption DEF Slots
    <3> QED
      BY <1>1, <1>2, <2>1, <2>2, <3>1 DEF Types, HooksSound, ScanFirst, CarOwned, Foreground, fixed,
         Resting
  <2>4. FgSound' /\ DriversListed' /\ CauseEnabled' /\ CallSafe'
    BY <1>1, <1>2, <2>1, <2>2 DEF FgSound, DriversListed, CauseEnabled, CallSafe, Foreground, fixed,
       Types
  <2>5. Disabled'
    BY <1>1, <1>2, <2>1, <2>2 DEF Disabled, Updating, FgSound, Types
  <2> QED
    BY <2>3, <2>4, <2>5
<1> QED
  BY <1>3, <1>4

(* A function that pulls the request line keeps the invariant.               *)
LEMMA PullIInv ==
  ASSUME IInv, NEW h \in Driven, Pull(h)
  PROVE  IInv'
<1> USE DEF IInv
<1>1. /\ UNCHANGED <<fixed, command, car, fg, hooks, driver, isr, spoiled>>
      /\ asserting' = asserting \cup {h}
  BY DEF Pull
<1>2. UNCHANGED <<Handles, Driven, Listed, Slots>>
  BY <1>1 DEF Handles, Driven, DrivenOn, Card, Listed, fixed, scanned, Slots
<1>3. Types'
  BY <1>1, <1>2 DEF Types, fixed
<1> QED
  BY <1>1, <1>2, <1>3 DEF ScanFirst, CarOwned, FgSound, HooksSound, Disabled, DriversListed,
     CauseEnabled, CallSafe, Updating, fixed

(* So does each step of the interrupt handler but the call.                  *)
LEMMA HandlerIInv ==
  ASSUME IInv, ScanEnd \/ Irq \/ Cause \/ NoCause \/ IrqEnd
  PROVE  IInv'
<1> USE DEF IInv
<1>1. /\ UNCHANGED <<bus, scanned, command, fg, hooks, driver, asserting, spoiled>>
      /\ phase' \in {phase, "run"}
      /\ car' = car \/ \E x : car' = [e |-> FALSE, h |-> x]
  <2>1. CASE ScanEnd \/ Irq \/ NoCause \/ IrqEnd
    BY <2>1 DEF ScanEnd, Irq, NoCause, IrqEnd, fixed
  <2>2. CASE Cause
    BY <2>2, Zenon DEF Cause, fixed
  <2> QED
    BY <2>1, <2>2
<1>2. UNCHANGED <<Handles, Driven, Listed, Slots>>
  BY <1>1 DEF Handles, Driven, DrivenOn, Card, Listed, scanned, Slots
<1>3. /\ isr' \in [pc : {"idle", "cause", "call", "end", "lost"}, i : Nat,
                   h : Handles \cup {0, 1}]
      /\ isr'.pc = "call" => isr'.h = 1 \/ (isr'.h \in Driven /\ "intoff" \notin command[isr'.h])
      /\ isr'.pc = "lost" => isr.pc = "lost" /\ isr'.h = isr.h
      /\ phase' = "scan" => phase = "scan" /\ isr' = isr
  <2>1. CASE ScanEnd
    BY <2>1 DEF ScanEnd, Types, CauseEnabled
  <2>3. CASE Irq
    BY <2>3 DEF Irq, fixed
  <2>4. CASE NoCause
    <3>1. isr' = [pc |-> "end", i |-> 0, h |-> 0] /\ phase' = phase /\ isr.pc = "cause"
      BY <2>4 DEF NoCause, Quiet, fixed
    <3> QED
      BY <3>1 DEF ScanFirst, Quiet
  <2>5. CASE IrqEnd
    BY <2>5 DEF IrqEnd, Quiet, ScanFirst, fixed
  <2>2. CASE Cause
    <3> DEFINE h == handles[isr.i]
    <3>1. isr.pc = "cause" /\ phase = "run" /\ phase' = phase
      BY <2>2 DEF Cause, ScanFirst, Quiet, Types, fixed
    <3>2. CASE h \in Pulling(asserting, command)
      <4>1. h \in Driven /\ h \in Handles /\ "intoff" \notin command[h]
        BY <3>2, HandleRange DEF Pulling, Types
      <4>2. isr' = [pc |-> "call", i |-> 0, h |-> Passed(h)]
        BY <2>2, <3>2 DEF Cause
      <4>3. Passed(h) = 1 \/ Passed(h) = h
        BY DEF Passed
      <4> QED
        BY <3>1, <4>1, <4>2, <4>3
    <3>3. CASE h \notin Pulling(asserting, command)
      <4>1. isr' = [isr EXCEPT !.i = @ + 1]
        BY <2>2, <3>3 DEF Cause
      <4>2. isr.i + 1 \in Nat
        BY DEF Types
      <4> QED
        BY <3>1, <4>1, <4>2 DEF Types
    <3> QED
      BY <3>2, <3>3
  <2> QED
    BY <2>1, <2>2, <2>3, <2>4, <2>5
<1>4. Types'
  <2>1. car' = [e |-> car'.e, h |-> car'.h] /\ car'.e \in BOOLEAN
    <3>1. CASE car' = car
      BY <3>1 DEF Types
    <3>2. ASSUME NEW x, car' = [e |-> FALSE, h |-> x]
          PROVE  car' = [e |-> car'.e, h |-> car'.h] /\ car'.e \in BOOLEAN
      <4>1. car'.e = FALSE /\ car'.h = x
        BY <3>2
      <4> QED
        BY <3>2, <4>1
    <3> QED
      BY <1>1, <3>1, <3>2
  <2> QED
    BY <1>1, <1>2, <1>3, <2>1 DEF Types
<1>5. CarOwned' /\ FgSound' /\ HooksSound' /\ Disabled' /\ DriversListed'
  BY <1>1, <1>2 DEF CarOwned, FgSound, HooksSound, Disabled, DriversListed, Updating
<1>6. ScanFirst' /\ CauseEnabled' /\ CallSafe'
  BY <1>1, <1>2, <1>3 DEF ScanFirst, CauseEnabled, CallSafe
<1> QED
  BY <1>4, <1>5, <1>6

(* The call: a slot of the cause that has no handler yet belongs to a driver *)
(* that has not enabled its interrupt, which only a diverted write explains. *)
LEMMA CallIInv ==
  ASSUME IInv, CallChain
  PROVE  IInv'
<1> USE DEF IInv
<1>1. /\ UNCHANGED <<fixed, command, car, fg, hooks, driver, spoiled>>
      /\ isr.pc = "call" /\ asserting' \subseteq asserting
  BY DEF CallChain
<1>2. UNCHANGED <<Handles, Driven, Listed, Slots>>
  BY <1>1 DEF Handles, Driven, DrivenOn, Card, Listed, fixed, scanned, Slots
<1> DEFINE mine == {s \in Slots : hooks[s].handle = isr.h}
<1>3. \/ isr' = [Quiet EXCEPT !.pc = "end"]
      \/ /\ isr' = [isr EXCEPT !.pc = "lost"]
         /\ mine # {} /\ hooks[Min(mine)].handler = 0
  BY DEF CallChain
<1>4. ASSUME mine # {}, hooks[Min(mine)].handler = 0
      PROVE  isr.h \in spoiled
  <2>1. Min(mine) \in mine
    BY <1>4, MinIn
  <2>2. PICK s \in Slots : hooks[s].handle = isr.h /\ hooks[s].handler = 0
    BY <1>4, <2>1
  <2>3. isr.h \in Driven /\ "intoff" \notin command[isr.h] /\ isr.h # 0
    <3>1. hooks[s].handle \in Driven \cup {0}
      BY <2>2 DEF Types
    <3>2. \A h \in Driven : h \in 80..247
      BY HandleRange DEF Types
    <3> QED
      BY <1>1, <2>2, <3>1, <3>2 DEF CauseEnabled
  <2>4. fg.op = "hook" /\ fg.h = isr.h
    BY <2>2, <2>3 DEF HooksSound
  <2>5. driver[isr.h] = "off" /\ isr.h \in Listed
    BY <2>4 DEF FgSound
  <2> QED
    BY <2>3, <2>4, <2>5 DEF Disabled, Updating
<1> HIDE DEF mine
<1>5. /\ isr' \in [pc : {"idle", "cause", "call", "end", "lost"}, i : Nat,
                   h : Handles \cup {0, 1}]
      /\ isr'.pc # "call" /\ (isr'.pc = "lost" => isr'.h \in spoiled)
  BY <1>3, <1>4 DEF Types, Quiet
<1>6. Types'
  BY <1>1, <1>2, <1>5 DEF Types, fixed
<1>7. phase = "run"
  BY <1>1 DEF ScanFirst, Quiet, Types
<1> QED
  BY <1>1, <1>2, <1>5, <1>6, <1>7 DEF ScanFirst, CarOwned, FgSound, HooksSound, Disabled, DriversListed,
     CauseEnabled, CallSafe, Updating, fixed

(* The invariant is inductive. *)
THEOREM PciInvariant == Spec => []IInv
<1>1. IInv /\ [Next]_vars => IInv'
  <2> SUFFICES ASSUME IInv, [Next]_vars PROVE IInv'
    OBVIOUS
  <2>1. CASE Next
    BY <2>1, ScanIInv, HookIInv, HookedIInv, UnhookIInv, UpdateIInv, SetCarIInv, ReadIInv, WriteIInv,
       ClearIInv, PullIInv, HandlerIInv, CallIInv DEF Next, Handler
  <2>2. CASE UNCHANGED vars
    <3>1. UNCHANGED <<Handles, Driven, Listed, Slots>>
      BY <2>2 DEF vars, fixed, scanned, Handles, Driven, DrivenOn, Card, Listed, Slots
    <3> QED
      BY <2>2, <3>1 DEF IInv, vars, fixed, scanned, Types, ScanFirst, CarOwned, FgSound, HooksSound,
         Disabled, DriversListed, CauseEnabled, CallSafe, Updating
  <2> QED
    BY <2>1, <2>2
<1> QED
  BY InitIInv, <1>1, PTL DEF Spec

(* pci_call_interrupt_chain, on every bus: no jump to address 0 for a driver *)
(* that keeps to the order, unless one of its accesses was diverted.         *)
THEOREM PciCallSafe == Spec => []CallSafe
<1>1. IInv => CallSafe
  BY DEF IInv
<1> QED
  BY <1>1, PciInvariant, PTL

(* Configuration accesses, on every bus: whatever interrupts an access, no   *)
(* register changes but of the function that its caller named.               *)
THEOREM PciIsolated == Spec => ConfigIsolated
<1> DEFINE Isolated == \A h \in DOMAIN command : command'[h] # command[h] =>
                         (phase = "scan" /\ h = FindDevice(index)) \/ fg.h = h
<1>1. IInv /\ [Next]_vars => [Isolated]_vars
  <2> SUFFICES ASSUME IInv, Next, NEW h \in DOMAIN command, command'[h] # command[h]
               PROVE  (phase = "scan" /\ h = FindDevice(index)) \/ fg.h = h
    OBVIOUS
  <2>1. ScanNext \/ WriteWord
    BY DEF Next, Handler, ScanEnd, Pull, HookHandle, Unhook, Update, HookHandler, SetCar, ReadWord,
       ClearCar, Irq, Cause, NoCause, CallChain, IrqEnd
  <2>2. CASE ScanNext
    BY <2>2 DEF ScanNext, BridgeConfig, DeviceConfig, IInv, Types
  <2>3. CASE WriteWord
    BY <2>3 DEF WriteWord, IInv, CarOwned, Types
  <2> QED
    BY <2>1, <2>2, <2>3
<1> QED
  BY <1>1, PciInvariant, PTL DEF Spec, ConfigIsolated

-----------------------------------------------------------------------------
(* The list of handles. The rank of a function counts those before it; the   *)
(* scan has listed those of a rank below its index.                          *)

Rank(h) == Cardinality({g \in Found(Card) : g < h})
Ranked(i) == {h \in Found(Card) : Rank(h) < i}

ListRight ==
  /\ bus \in DOMAIN Buses
  /\ index \in Nat /\ Cardinality(Ranked(index)) = index
  /\ handles \in [0..(NumCards - 1) -> Int]
  /\ {handles[j] : j \in 0..(index - 1)} = Ranked(index)
  /\ index > 0 => handles[index] = End
  /\ \A j \in 0..(NumCards - 1) : j > index => handles[j] = 0
  /\ phase = "run" => \A h \in Found(Card) : Rank(h) # index

(* There are finitely many functions, and fewer than the list has entries.   *)
LEMMA FoundFinite ==
  ASSUME bus \in DOMAIN Buses
  PROVE  /\ Found(Card) \subseteq 80..247 /\ IsFiniteSet(Found(Card))
         /\ Cardinality(Found(Card)) \in 1..(NumCards - 1)
<1>1. Found(Card) \subseteq 80..247
  BY PciAssumption DEF Found, Card
<1>2. \A a, b \in Int : IsFiniteSet(a..b)
  BY FS_Interval
<1>3. IsFiniteSet(80..247)
  <2>1. 80 \in Int /\ 247 \in Int
    OBVIOUS
  <2> QED
    BY <1>2, <2>1, Zenon
<1>4. IsFiniteSet(Found(Card))
  BY <1>1, <1>3, FS_Subset
<1>5. Cardinality(Found(Card)) \in 1..(NumCards - 1)
  BY PciAssumption DEF Card
<1> QED
  BY <1>1, <1>4, <1>5

(* A function behind another has a higher rank,                              *)
LEMMA RankGrows ==
  ASSUME bus \in DOMAIN Buses, NEW g \in Found(Card), NEW h \in Found(Card)
  PROVE  /\ Rank(h) \in Nat
         /\ g < h => Rank(g) < Rank(h)
         /\ Rank(g) = Rank(h) => g = h
<1> DEFINE Below(x) == {y \in Found(Card) : y < x}
<1>1. \A x : IsFiniteSet(Below(x)) /\ Rank(x) = Cardinality(Below(x)) /\ Rank(x) \in Nat
  BY FoundFinite, FS_Subset, FS_CardinalityType DEF Rank
<1> HIDE DEF Below
<1>2. ASSUME NEW x \in Found(Card), NEW y \in Found(Card), x < y PROVE Rank(x) < Rank(y)
  <2>1. x \in Int /\ y \in Int /\ \A z \in Found(Card) : z \in Int
    BY FoundFinite
  <2>2. Below(x) \subseteq Below(y) /\ x \in Below(y) /\ x \notin Below(x)
    <3>1. \A z \in Found(Card) : z < x => z < y
      BY <1>2, <2>1
    <3>2. ~(x < x)
      BY <2>1
    <3> QED
      BY <1>2, <3>1, <3>2 DEF Below
  <2>3. Cardinality(Below(x)) <= Cardinality(Below(y)) /\ Cardinality(Below(x)) # Cardinality(Below(y))
    BY <1>1, <2>2, FS_Subset
  <2> QED
    BY <1>1, <2>3
<1>3. g \in Int /\ h \in Int
  BY FoundFinite
<1> HIDE DEF Below
<1> QED
  BY <1>1, <1>2, <1>3

(* the ranks stay below the number of entries,                               *)
LEMMA RankBelow ==
  ASSUME bus \in DOMAIN Buses, NEW h \in Found(Card)
  PROVE  Rank(h) \in 0..(NumCards - 1)
<1> DEFINE Below == {y \in Found(Card) : y < h}
<1>1. Cardinality(Below) <= Cardinality(Found(Card))
  BY FoundFinite, FS_Subset
<1>2. Rank(h) = Cardinality(Below) /\ Rank(h) \in Nat
  BY RankGrows DEF Rank
<1>3. Cardinality(Found(Card)) \in 1..(NumCards - 1)
  BY FoundFinite
<1> QED
  BY <1>1, <1>2, <1>3, PciAssumption

(* and pci_find_device finds the function of a rank, if there is one.        *)
LEMMA FindsRank ==
  ASSUME bus \in DOMAIN Buses, NEW i
  PROVE  /\ FindDevice(i) # NotFound => FindDevice(i) \in Found(Card) /\ Rank(FindDevice(i)) = i
         /\ FindDevice(i) = NotFound => \A h \in Found(Card) : Rank(h) # i
<1> DEFINE at == {h \in Found(Card) : Rank(h) = i}
<1>1. FindDevice(i) = IF at = {} THEN NotFound ELSE CHOOSE h \in at : TRUE
  BY DEF FindDevice, Rank
<1>2. \A h \in at : h # NotFound
  BY FoundFinite DEF NotFound
<1>3. at # {} => FindDevice(i) \in at
  BY <1>1
<1> QED
  BY <1>1, <1>2, <1>3

(* When no function has the rank of the index, all are listed: the first one *)
(* of a higher rank would have it.                                           *)
LEMMA AllRanked ==
  ASSUME bus \in DOMAIN Buses, NEW i \in Nat, Cardinality(Ranked(i)) = i,
         \A h \in Found(Card) : Rank(h) # i
  PROVE  Ranked(i) = Found(Card)
<1> DEFINE Rest == Found(Card) \ Ranked(i)
<1> SUFFICES ASSUME Rest # {} PROVE FALSE
  BY DEF Ranked
<1>1. Found(Card) \subseteq Nat /\ \A h \in Found(Card) : Rank(h) \in Nat
  BY FoundFinite, RankGrows
<1>2. PICK h \in Rest : \A g \in Rest : ~(<<g, h>> \in OpToRel(<, Nat))
  BY <1>1, WFMin, NatLessThanWellFounded, Rest \subseteq Nat
<1>3. \A g \in Rest : ~(g < h)
  BY <1>1, <1>2, Zenon DEF OpToRel
<1>4. h \in Found(Card) /\ Rank(h) >= i
  BY <1>1 DEF Ranked
<1>5. {g \in Found(Card) : g < h} = Ranked(i)
  <2>1. \A g \in Found(Card) : g < h => g \in Ranked(i)
    BY <1>3
  <2>2. ASSUME NEW g \in Ranked(i) PROVE g < h
    <3>1. g \in Found(Card) /\ Rank(g) < Rank(h) /\ g \in Nat /\ h \in Nat
      BY <1>1, <1>4 DEF Ranked
    <3>2. ~(h < g) /\ h # g
      BY <1>1, <1>4, <3>1, RankGrows
    <3> QED
      BY <3>1, <3>2
  <2> QED
    BY <2>1, <2>2 DEF Ranked
<1> QED
  BY <1>4, <1>5 DEF Rank

(* One round of the scan appends the next function to the list.              *)
LEMMA ScanListRight ==
  ASSUME ListRight, ScanNext
  PROVE  ListRight'
<1> DEFINE h == FindDevice(index)
<1>1. /\ h # NotFound /\ phase = "scan" /\ phase' = phase /\ bus' = bus /\ index' = index + 1
      /\ handles' = [handles EXCEPT ![index] = h, ![index + 1] = End]
  BY DEF ScanNext
<1>2. h \in Found(Card) /\ Rank(h) = index /\ h \in Int
  <2>1. bus \in DOMAIN Buses
    BY DEF ListRight
  <2>2. FindDevice(index) \in Found(Card) /\ Rank(FindDevice(index)) = index
    BY <1>1, <2>1, FindsRank
  <2>3. Found(Card) \subseteq 80..247
    BY <2>1, FoundFinite
  <2> QED
    BY <2>2, <2>3
<1> HIDE DEF h
<1>3. Found(Card)' = Found(Card) /\ (\A g : Rank(g)' = Rank(g)) /\ \A i : Ranked(i)' = Ranked(i)
  BY <1>1 DEF Card, Rank, Ranked
<1>4. Ranked(index + 1) = Ranked(index) \cup {h} /\ h \notin Ranked(index)
  <2>1. \A g \in Found(Card) : Rank(g) \in Nat /\ (Rank(g) = index => g = h)
    BY <1>2, RankGrows DEF ListRight
  <2>2. index \in Nat
    BY DEF ListRight
  <2>3. \A g \in Found(Card) : Rank(g) < index + 1 <=> (Rank(g) < index \/ g = h)
    BY <1>2, <2>1, <2>2
  <2>4. \A g : g \in Ranked(index + 1) <=> g \in Ranked(index) \cup {h}
    BY <1>2, <2>3 DEF Ranked
  <2>5. ~(Rank(h) < index)
    BY <1>2, <2>2
  <2> QED
    BY <2>4, <2>5 DEF Ranked
<1>5. IsFiniteSet(Ranked(index)) /\ Ranked(index + 1) \subseteq Found(Card)
  BY FoundFinite, FS_Subset DEF ListRight, Ranked
<1>6. Cardinality(Ranked(index + 1)) = index + 1
  BY <1>4, <1>5, FS_AddElement DEF ListRight
<1>7. index + 1 \in 0..(NumCards - 1)
  <2>1. index + 1 <= Cardinality(Found(Card))
    BY <1>5, <1>6, FoundFinite, FS_Subset DEF ListRight
  <2> QED
    BY <2>1, FoundFinite, PciAssumption DEF ListRight
<1>8. /\ handles' \in [0..(NumCards - 1) -> Int]
      /\ handles'[index] = h /\ handles'[index + 1] = End
      /\ \A j \in 0..(NumCards - 1) : j # index /\ j # index + 1 => handles'[j] = handles[j]
  <2>1. /\ handles \in [0..(NumCards - 1) -> Int] /\ index # index + 1
        /\ index \in 0..(NumCards - 1) /\ End \in Int
    BY <1>7, PciAssumption DEF ListRight, End
  <2> QED
    BY <1>1, <1>2, <1>7, <2>1
<1>9. {handles'[j] : j \in 0..(index' - 1)} = Ranked(index + 1)
  <2>1. 0..(index' - 1) = 0..(index - 1) \cup {index}
    BY <1>1, <1>7 DEF ListRight
  <2>2. \A j \in 0..(index - 1) : handles'[j] = handles[j]
    BY <1>7, <1>8, PciAssumption DEF ListRight
  <2>3. {handles'[j] : j \in 0..(index' - 1)} = {handles[j] : j \in 0..(index - 1)} \cup {h}
    BY <1>8, <2>1, <2>2
  <2> QED
    BY <1>4, <2>3 DEF ListRight
<1>10. \A j \in 0..(NumCards - 1) : j > index' => handles'[j] = 0
  BY <1>1, <1>7, <1>8, PciAssumption DEF ListRight
<1>11. index' \in Nat /\ (index' > 0 => handles'[index'] = End)
  BY <1>1, <1>7, <1>8, PciAssumption DEF ListRight
<1>12. Cardinality(Ranked(index))' = index' /\ Ranked(index)' = Ranked(index + 1)
  BY <1>1, <1>3, <1>6
<1> QED
  BY <1>1, <1>8, <1>9, <1>10, <1>11, <1>12 DEF ListRight

(* So the list is right in every state.                                      *)
LEMMA ListInvariant == Spec => []ListRight
<1>1. Init => ListRight
  <2> SUFFICES ASSUME Init PROVE ListRight
    OBVIOUS
  <2>1. Ranked(0) = {} /\ 0..(0 - 1) = {}
    <3>1. \A h \in Found(Card) : Rank(h) \in Nat
      BY RankGrows DEF Init
    <3> QED
      BY <3>1 DEF Ranked
  <2>2. NumCards \in Nat \ {0} /\ 0 \in 0..(NumCards - 1)
    BY PciAssumption
  <2>3. {handles[j] : j \in 0..(0 - 1)} = {} /\ Cardinality(Ranked(0)) = 0
    BY <2>1, FS_EmptySet
  <2> QED
    BY <2>1, <2>2, <2>3 DEF Init, ListRight
<1>2. ListRight /\ [Next]_vars => ListRight'
  <2> SUFFICES ASSUME ListRight, [Next]_vars PROVE ListRight'
    OBVIOUS
  <2>1. CASE ScanNext
    BY <2>1, ScanListRight
  <2>2. CASE UNCHANGED <<bus, scanned>> /\ (phase' # phase => FindDevice(index) = NotFound)
    <3>1. Found(Card)' = Found(Card) /\ (\A g : Rank(g)' = Rank(g)) /\ \A i : Ranked(i)' = Ranked(i)
      BY <2>2 DEF Card, Rank, Ranked
    <3>2. phase' # phase => \A h \in Found(Card) : Rank(h) # index
      BY <2>2, FindsRank DEF ListRight
    <3>3. UNCHANGED <<bus, index, handles>>
      BY <2>2 DEF scanned
    <3> QED
      BY <3>1, <3>2, <3>3 DEF ListRight
  <2>3. [Next]_vars => ScanNext \/ (UNCHANGED <<bus, scanned>> /\ (phase' # phase => FindDevice(index) = NotFound))
    BY DEF Next, Handler, ScanEnd, Pull, HookHandle, Unhook, Update, HookHandler, SetCar, ReadWord,
       WriteWord, ClearCar, Irq, Cause, NoCause, CallChain, IrqEnd, vars, fixed
  <2> QED
    BY <2>1, <2>2, <2>3
<1> QED
  BY <1>1, <1>2, PTL DEF Spec

(* pci_scan, on every bus with fewer functions than the list has entries,    *)
(* where cards show copies of themselves only at functions that they do not  *)
(* announce: the list holds every function once, no copy, and its end mark.  *)
THEOREM PciScanComplete ==
  ASSUME GhostsUnannounced
  PROVE  Spec => []ScanComplete
<1>1. ListRight => ScanComplete
  <2> DEFINE last == CHOOSE i \in DOMAIN handles : handles[i] = End
  <2> SUFFICES ASSUME ListRight, phase = "run"
               PROVE  /\ \E i \in DOMAIN handles : handles[i] = End
                      /\ {handles[i] : i \in 0..(last - 1)} = {h \in Handles : ~Card[h].ghost}
                      /\ last = Cardinality({h \in Handles : ~Card[h].ghost})
    BY DEF ScanComplete
  <2>1. Ranked(index) = Found(Card)
    BY AllRanked DEF ListRight
  <2>2. Found(Card) = {h \in Handles : ~Card[h].ghost}
    BY GhostsUnannounced DEF GhostsUnannounced, Card, Handles, ListRight, Found
  <2>3. index \in 1..(NumCards - 1) /\ DOMAIN handles = 0..(NumCards - 1) /\ handles[index] = End
    BY <2>1, FoundFinite DEF ListRight
  <2>4. ASSUME NEW i \in DOMAIN handles, handles[i] = End PROVE i = index
    <3>1. CASE i < index
      <4>1. handles[i] \in {handles[j] : j \in 0..(index - 1)}
        BY <2>3, <3>1
      <4>2. handles[i] \in 80..247
        BY <2>1, <4>1, FoundFinite DEF ListRight
      <4> QED
        BY <2>4, <4>2 DEF End
    <3>2. CASE i > index
      BY <2>3, <2>4, <3>2 DEF ListRight, End
    <3> QED
      BY <2>3, <3>1, <3>2
  <2>5. last = index
    BY <2>3, <2>4
  <2>6. {handles[j] : j \in 0..(index - 1)} = Found(Card) /\ index = Cardinality(Found(Card))
    BY <2>1 DEF ListRight
  <2> HIDE DEF last
  <2> QED
    BY <2>2, <2>3, <2>5, <2>6
<1> QED
  BY <1>1, ListInvariant, PTL

-----------------------------------------------------------------------------
(* The windows. First what division does: a number is quotient times divisor *)
(* and remainder,                                                            *)
LEMMA DivMod ==
  ASSUME NEW a \in Nat, NEW s \in Nat, s # 0
  PROVE /\ a \div s \in Nat /\ a % s \in Nat /\ a % s < s
        /\ a = (a \div s) * s + (a % s)
OBVIOUS
(* a multiple leaves no remainder,                                           *)
LEMMA ModOf ==
  ASSUME NEW q \in Nat, NEW s \in Nat, s # 0
  PROVE (q * s) % s = 0 /\ (q*s) \div s = q
OBVIOUS
(* nor does the sum of two numbers that leave none,                          *)
LEMMA SumDivides ==
  ASSUME NEW a \in Nat, NEW b \in Nat, NEW s \in Nat, s # 0, a % s = 0, b % s = 0
  PROVE (a + b) % s = 0
<1>1. a \div s \in Nat /\ b \div s \in Nat /\ a = (a \div s) * s /\ b = (b \div s) * s
  BY DivMod
<1>2. PICK m \in Nat : a = m * s
  BY <1>1
<1>3. PICK n \in Nat : b = n * s
  BY <1>1
<1>4. a + b = (m + n) * s
  BY <1>2, <1>3
<1> QED
  BY <1>4, ModOf, m + n \in Nat
(* and aligning rounds up, to the number itself if it is aligned.            *)
LEMMA AlignRight ==
  ASSUME NEW a \in Nat, NEW s \in Nat, s # 0
  PROVE Align(a, s) \in Nat /\ Align(a,s) % s = 0 /\ a <= Align(a,s) /\ (a % s = 0 => Align(a,s) = a)
<1> DEFINE c == a + s - 1
<1>1. c \in Nat
  OBVIOUS
<1>2. c \div s \in Nat /\ c % s \in Nat /\ c % s < s /\ c = (c \div s) * s + (c % s)
  BY <1>1, DivMod
<1>3. PICK q \in Nat : q = c \div s
  BY <1>2
<1>4. Align(a, s) = q * s
  BY <1>3 DEF Align
<1>5. q * s \in Nat /\ (q * s) % s = 0
  BY <1>3, ModOf
<1>6. c = q * s + (c % s)
  BY <1>2, <1>3
<1>7. a <= q * s
  BY <1>2, <1>6
<1>8. ASSUME a % s = 0 PROVE q * s = a
  <2>1. PICK n \in Nat : a = n * s
    <3>1. a \div s \in Nat /\ a = (a \div s) * s
      BY <1>8, DivMod
    <3> QED
      BY <3>1
  <2>2. q * s - n * s < s /\ n * s <= q * s
    BY <2>1, <1>6, <1>2, <1>7
  <2>3. (q - n) * s < s
    BY <2>2
  <2>4. q - n < 1
    BY <2>3
  <2>5. q <= n
    BY <2>4
  <2>6. q * s <= n * s
    BY <2>5
  <2> QED
    BY <2>1, <2>2, <2>6
<1> QED
  BY <1>4, <1>5, <1>7, <1>8

(* Sizes that are asked for are positive numbers.                            *)
LEMMA SizesPositive == \A s \in Sizes : s \in Nat /\ s # 0
<1> SUFFICES ASSUME NEW n \in DOMAIN Buses, NEW h \in DOMAIN Buses[n],
                    NEW s \in SizesOf(Buses[n][h])
             PROVE  s \in Nat /\ s # 0
  BY DEF Sizes
<1>1. Buses[n][h] \in Cards
  BY PciAssumption
<1>2. Buses[n][h].requests \in Seq(Request)
  BY <1>1 DEF Cards
<1>3. PICK k \in DOMAIN Buses[n][h].requests : s = Buses[n][h].requests[k].size
  BY DEF SizesOf
<1>4. Buses[n][h].requests[k] \in Request
  BY <1>2
<1> QED
  BY <1>3, <1>4 DEF Request, SizesOf

\* The windows in a table of descriptors, as Placed, WindowAt and NeverGrowUpTo.
PlacedIn(D) == {p \in (DOMAIN D) \X (1..7) : p[2] \in DOMAIN D[p[1]]}
In(D, p) == D[p[1]][p[2]]
Falls(D, q) ==
  \A a, b \in PlacedIn(D) :
    (Before(a, b) /\ ~Before(q, b) /\ SameSpace(In(D, a), In(D, b))
       /\ SameSpace(In(D, a), In(D, q))) => In(D, a).size >= In(D, b).size

\* Where the next window of a space may start.
Free(s, mem, io) == IF s = "io" THEN io ELSE mem

\* A table that is filled up to entry i.
TableTo(D, i) ==
  /\ D \in [0..(NumCards - 1) -> Seq(Window)]
  /\ \A j \in 0..(NumCards - 1) : Len(D[j]) <= 7 /\ (j > i => D[j] = <<>>)
  /\ \A p \in PlacedIn(D) : In(D, p).size \in Sizes

Aligned(D) == \A p \in PlacedIn(D) : In(D, p).start % In(D, p).size = 0

\* What divides the sizes of all windows of a space divides the next address,
Divided(D, mem, io) ==
  \A s \in Spaces, d \in Sizes :
    (\A p \in PlacedIn(D) : (In(D, p).space = "io" <=> s = "io") => In(D, p).size % d = 0)
      => Free(s, mem, io) % d = 0

\* and that address lies behind the windows up to which the sizes never grow.
Behind(D, mem, io) ==
  \A p \in PlacedIn(D) :
    Falls(D, p) => In(D, p).start + In(D, p).size <= Free(In(D, p).space, mem, io)

Separate(D) ==
  \A p, q \in PlacedIn(D) :
    (Before(p, q) /\ SameSpace(In(D, p), In(D, q)) /\ Falls(D, q))
      => In(D, p).start + In(D, p).size <= In(D, q).start

Laid(D, i, mem, io) ==
  /\ mem \in Nat /\ io \in Nat
  /\ TableTo(D, i) /\ Aligned(D) /\ Divided(D, mem, io) /\ Behind(D, mem, io) /\ Separate(D)

(* A window more is the last one of the table.                               *)
LEMMA OneMore ==
  ASSUME NEW i \in 0..(NumCards - 1), NEW D, TableTo(D, i), Len(D[i]) < 7,
         NEW v \in Window
  PROVE  LET E == [D EXCEPT ![i] = Append(D[i], v)]
             q == <<i, Len(D[i]) + 1>>
         IN  /\ E \in [0..(NumCards - 1) -> Seq(Window)]
             /\ E[i] = Append(D[i], v) /\ \A j \in 0..(NumCards - 1) : j # i => E[j] = D[j]
             /\ PlacedIn(E) = PlacedIn(D) \cup {q} /\ In(E, q) = v
             /\ \A p \in PlacedIn(D) : In(E, p) = In(D, p) /\ Before(p, q) /\ ~Before(q, p)
             /\ ~Before(q, q) /\ \A p \in PlacedIn(D) : In(D, p) \in Window
<1> DEFINE E == [D EXCEPT ![i] = Append(D[i], v)]
           q == <<i, Len(D[i]) + 1>>
<1>1. /\ D \in [0..(NumCards - 1) -> Seq(Window)] /\ i \in Int /\ NumCards \in Nat
      /\ D[i] \in Seq(Window) /\ Len(D[i]) \in Nat /\ DOMAIN D[i] = 1..Len(D[i])
  BY PciAssumption DEF TableTo
<1>2. Append(D[i], v) \in Seq(Window) /\ DOMAIN Append(D[i], v) = 1..(Len(D[i]) + 1)
      /\ Append(D[i], v)[Len(D[i]) + 1] = v /\ \A k \in 1..Len(D[i]) : Append(D[i], v)[k] = D[i][k]
  BY <1>1
<1>3. /\ E \in [0..(NumCards - 1) -> Seq(Window)] /\ DOMAIN E = 0..(NumCards - 1)
      /\ E[i] = Append(D[i], v) /\ \A j \in 0..(NumCards - 1) : j # i => E[j] = D[j]
  BY <1>1, <1>2
<1> HIDE DEF E
<1>4. ASSUME NEW p \in PlacedIn(D)
      PROVE  /\ p[1] \in 0..(NumCards - 1) /\ p[2] \in 1..7 /\ p[2] \in DOMAIN D[p[1]]
             /\ p = <<p[1], p[2]>> /\ p[1] <= i /\ (p[1] = i => p[2] <= Len(D[i]))
             /\ In(D, p) \in Window
  <2>1. p \in (0..(NumCards - 1)) \X (1..7) /\ p[2] \in DOMAIN D[p[1]]
    BY <1>1 DEF PlacedIn
  <2>2. D[p[1]] # <<>> /\ D[p[1]] \in Seq(Window)
    BY <1>1, <2>1
  <2>3. p[1] <= i
    BY <1>1, <2>1, <2>2 DEF TableTo
  <2>4. D[p[1]][p[2]] \in Window
    BY <2>1, <2>2
  <2> QED
    BY <1>1, <2>1, <2>3, <2>4 DEF In
<1>5. PlacedIn(E) = PlacedIn(D) \cup {q}
  <2>1. ASSUME NEW a \in 0..(NumCards - 1), NEW b \in 1..7
        PROVE  b \in DOMAIN E[a] <=> b \in DOMAIN D[a] \/ <<a, b>> = q
    <3>1. CASE a = i
      <4>1. DOMAIN E[a] = 1..(Len(D[i]) + 1) /\ DOMAIN D[a] = 1..Len(D[i])
        BY <1>1, <1>2, <1>3, <3>1
      <4>2. b \in 1..(Len(D[i]) + 1) <=> b \in 1..Len(D[i]) \/ b = Len(D[i]) + 1
        BY <1>1
      <4> QED
        BY <3>1, <4>1, <4>2
    <3>2. CASE a # i
      BY <1>3, <3>2
    <3> QED
      BY <3>1, <3>2
  <2>2. q \in (0..(NumCards - 1)) \X (1..7)
    <3>1. Len(D[i]) + 1 \in Int /\ 1 <= Len(D[i]) + 1 /\ Len(D[i]) + 1 <= 7
      BY <1>1
    <3>2. Len(D[i]) + 1 \in 1..7
      BY <3>1
    <3> QED
      BY <3>2
  <2>3. \A p \in (0..(NumCards - 1)) \X (1..7) : p[2] \in DOMAIN E[p[1]] <=> p[2] \in DOMAIN D[p[1]] \/ p = q
    BY <2>1
  <2> HIDE DEF q
  <2> QED
    BY <1>1, <1>3, <2>2, <2>3 DEF PlacedIn
<1>6. In(E, q) = v
  BY <1>2, <1>3 DEF In
<1>7. ASSUME NEW p \in PlacedIn(D) PROVE In(E, p) = In(D, p)
  <2>1. p[1] \in 0..(NumCards - 1) /\ (p[1] = i => p[2] \in 1..Len(D[i]))
    BY <1>1, <1>4
  <2>2. CASE p[1] = i
    BY <1>2, <1>3, <2>1, <2>2 DEF In
  <2>3. CASE p[1] # i
    BY <1>3, <2>1, <2>3 DEF In
  <2> QED
    BY <2>2, <2>3
<1>8. ASSUME NEW p \in PlacedIn(D) PROVE Before(p, q) /\ ~Before(q, p)
  BY <1>1, <1>4 DEF Before
<1>9. ~Before(q, q)
  BY <1>1 DEF Before
<1> HIDE DEF q
<1> QED
  BY <1>3, <1>4, <1>5, <1>6, <1>7, <1>8, <1>9 DEF E, q

(* A request keeps the table as it should be. If the sizes have never grown,  *)
(* the new one divides the next address, so that alignment skips nothing.    *)
LEMMA AssignLaid ==
  ASSUME PowersOfTwo, NEW i \in 0..(NumCards - 1), NEW D, NEW mem, NEW io, Laid(D, i, mem, io),
         Len(D[i]) < 7, NEW r \in Request, r.size \in Sizes \cup {0},
         NEW w, w = Assign([mem |-> mem, io |-> io, placed |-> D[i]], r)
  PROVE  /\ Laid([D EXCEPT ![i] = w.placed], i, w.mem, w.io)
         /\ Len(w.placed) <= Len(D[i]) + 1
         /\ w = [mem |-> w.mem, io |-> w.io, placed |-> w.placed]
<1>1. CASE r.size = 0
  <2>1. w = [mem |-> mem, io |-> io, placed |-> D[i]]
    BY <1>1 DEF Assign
  <2>2. [D EXCEPT ![i] = w.placed] = D
    BY <2>1 DEF Laid, TableTo
  <2>3. Len(D[i]) \in Nat
    BY DEF Laid, TableTo
  <2> QED
    BY <2>1, <2>2, <2>3
<1>2. CASE r.size # 0
  <2> DEFINE next == Free(r.space, mem, io)
             v == [space |-> r.space, start |-> Align(next, r.size), size |-> r.size]
             q == <<i, Len(D[i]) + 1>>
             E == [D EXCEPT ![i] = Append(D[i], v)]
  <2>1. /\ r.size \in Sizes /\ r.size \in Nat /\ r.size # 0 /\ r.space \in Spaces
        /\ mem \in Nat /\ io \in Nat /\ next \in Nat
    BY <1>2, SizesPositive DEF Request, Laid, Free
  <2>2. /\ Align(next, r.size) \in Nat /\ Align(next, r.size) % r.size = 0
        /\ next <= Align(next, r.size) /\ (next % r.size = 0 => Align(next, r.size) = next)
    BY <2>1, AlignRight
  <2>3. /\ w.mem = (IF r.space = "io" THEN mem ELSE mem + r.size)
        /\ w.io = (IF r.space = "io" THEN io + r.size ELSE io)
        /\ w.placed = Append(D[i], v)
        /\ w = [mem |-> w.mem, io |-> w.io, placed |-> w.placed]
    BY <1>2 DEF Assign, Free
  <2>4. v \in Window /\ v.space = r.space /\ v.start = Align(next, r.size) /\ v.size = r.size
    BY <2>1, <2>2 DEF Window
  <2>5. TableTo(D, i) /\ Aligned(D) /\ Divided(D, mem, io) /\ Behind(D, mem, io) /\ Separate(D)
    BY DEF Laid
  <2> HIDE DEF v, next
  <2>6. /\ E \in [0..(NumCards - 1) -> Seq(Window)]
        /\ E[i] = Append(D[i], v) /\ \A j \in 0..(NumCards - 1) : j # i => E[j] = D[j]
        /\ PlacedIn(E) = PlacedIn(D) \cup {q} /\ In(E, q) = v
        /\ \A p \in PlacedIn(D) : In(E, p) = In(D, p) /\ Before(p, q) /\ ~Before(q, p)
        /\ ~Before(q, q) /\ \A p \in PlacedIn(D) : In(D, p) \in Window
    BY <2>4, <2>5, OneMore
  <2>7. E = [D EXCEPT ![i] = w.placed]
    BY <2>3
  <2> HIDE DEF E, q
  <2>8. TableTo(E, i) /\ Len(w.placed) <= Len(D[i]) + 1
    <3>1. D[i] \in Seq(Window) /\ Len(D[i]) \in Nat
      BY <2>5 DEF TableTo
    <3>2. Len(Append(D[i], v)) = Len(D[i]) + 1
      BY <2>4, <3>1
    <3>3. \A j \in 0..(NumCards - 1) : Len(E[j]) <= 7 /\ (j > i => E[j] = <<>>)
      <4>1. Len(E[i]) <= 7 /\ ~(i > i)
        BY <2>6, <3>1, <3>2
      <4> QED
        BY <2>5, <2>6, <4>1 DEF TableTo
    <3>4. \A p \in PlacedIn(E) : In(E, p).size \in Sizes
      BY <2>1, <2>4, <2>5, <2>6 DEF TableTo
    <3> QED
      BY <2>3, <2>6, <3>1, <3>2, <3>3, <3>4 DEF TableTo
  <2>9. Aligned(E)
    BY <2>2, <2>4, <2>5, <2>6 DEF Aligned
  <2>10. ASSUME NEW s \in Spaces
         PROVE  /\ Free(s, w.mem, w.io) \in Nat /\ Free(s, mem, io) \in Nat
                /\ Free(s, w.mem, w.io) = IF s = "io" <=> r.space = "io" THEN Free(s, mem, io) + r.size
                                                                         ELSE Free(s, mem, io)
                /\ (s = "io" <=> r.space = "io") => Free(s, mem, io) = next
    BY <2>1, <2>3 DEF Free, next
  <2>11. Divided(E, w.mem, w.io)
    <3> SUFFICES ASSUME NEW s \in Spaces, NEW d \in Sizes,
                        \A p \in PlacedIn(E) : (In(E, p).space = "io" <=> s = "io") => In(E, p).size % d = 0
                 PROVE  Free(s, w.mem, w.io) % d = 0
      BY DEF Divided
    <3>1. Free(s, mem, io) % d = 0
      <4>1. \A p \in PlacedIn(D) : (In(D, p).space = "io" <=> s = "io") => In(D, p).size % d = 0
        BY <2>6
      <4> QED
        BY <2>5, <4>1 DEF Divided
    <3>2. d \in Nat /\ d # 0
      BY SizesPositive
    <3>3. CASE s = "io" <=> r.space = "io"
      <4>1. r.size % d = 0
        BY <2>4, <2>6, <3>3
      <4>2. Free(s, w.mem, w.io) = Free(s, mem, io) + r.size
        BY <2>10, <3>3
      <4> QED
        BY <2>1, <2>10, <3>1, <3>2, <4>1, <4>2, SumDivides
    <3>4. CASE ~(s = "io" <=> r.space = "io")
      BY <2>10, <3>1, <3>4
    <3> QED
      BY <3>3, <3>4
  <2>12. ASSUME NEW p \in PlacedIn(D), Falls(E, p) PROVE Falls(D, p)
    <3>1. \A a \in PlacedIn(D) : a \in PlacedIn(E) /\ In(E, a) = In(D, a)
      BY <2>6
    <3> QED
      BY <2>12, <3>1 DEF Falls
  <2>13. ASSUME Falls(E, q)
         PROVE  /\ Align(next, r.size) = next
                /\ \A p \in PlacedIn(D) : (In(D, p).space = "io" <=> r.space = "io") => Falls(D, p)
    <3>1. \A p \in PlacedIn(D) : (In(D, p).space = "io" <=> r.space = "io") => In(D, p).size >= r.size
      <4> SUFFICES ASSUME NEW p \in PlacedIn(D), In(D, p).space = "io" <=> r.space = "io"
                   PROVE  In(D, p).size >= r.size
        OBVIOUS
      <4>1. /\ p \in PlacedIn(E) /\ q \in PlacedIn(E) /\ Before(p, q) /\ ~Before(q, q)
            /\ In(E, p) = In(D, p) /\ In(E, q) = v
        BY <2>6
      <4>2. SameSpace(In(E, p), In(E, q))
        BY <2>4, <4>1 DEF SameSpace
      <4> QED
        BY <2>4, <2>13, <4>1, <4>2 DEF Falls
    <3>2. \A p \in PlacedIn(D) : (In(D, p).space = "io" <=> r.space = "io") => In(D, p).size % r.size = 0
      <4>1. \A p \in PlacedIn(D) : In(D, p).size \in Sizes /\ In(D, p).size \in Nat
        BY <2>5, SizesPositive DEF TableTo
      <4>2. \A p \in PlacedIn(D) : In(D, p).size >= r.size => r.size <= In(D, p).size
        BY <2>1, <4>1
      <4> QED
        BY <2>1, <3>1, <4>1, <4>2 DEF PowersOfTwo
    <3>3. next % r.size = 0
      BY <2>1, <2>5, <3>2 DEF Divided, next
    <3>4. ASSUME NEW p \in PlacedIn(D), In(D, p).space = "io" <=> r.space = "io"
          PROVE  Falls(D, p)
      <4> SUFFICES ASSUME NEW a \in PlacedIn(D), NEW b \in PlacedIn(D), Before(a, b), ~Before(p, b),
                          SameSpace(In(D, a), In(D, b)), SameSpace(In(D, a), In(D, p))
                   PROVE  In(D, a).size >= In(D, b).size
        BY DEF Falls
      <4>1. /\ a \in PlacedIn(E) /\ b \in PlacedIn(E) /\ ~Before(q, b)
            /\ In(E, a) = In(D, a) /\ In(E, b) = In(D, b) /\ In(E, q) = v
        BY <2>6
      <4>2. SameSpace(In(E, a), In(E, b)) /\ SameSpace(In(E, a), In(E, q))
        BY <2>4, <3>4, <4>1 DEF SameSpace
      <4> QED
        BY <2>13, <4>1, <4>2 DEF Falls
    <3> QED
      BY <2>2, <3>3, <3>4
  <2>14. \A p \in PlacedIn(D) : In(D, p).space \in Spaces /\ In(D, p).start \in Nat /\ In(D, p).size \in Nat
    BY <2>6 DEF Window
  <2>15. Behind(E, w.mem, w.io)
    <3> SUFFICES ASSUME NEW p \in PlacedIn(E), Falls(E, p)
                 PROVE  In(E, p).start + In(E, p).size <= Free(In(E, p).space, w.mem, w.io)
      BY DEF Behind
    <3>1. CASE p \in PlacedIn(D)
      <4>1. In(D, p).start + In(D, p).size <= Free(In(D, p).space, mem, io)
        BY <2>5, <2>12, <3>1 DEF Behind
      <4>2. Free(In(D, p).space, mem, io) <= Free(In(D, p).space, w.mem, w.io)
        BY <2>1, <2>10, <2>14, <3>1
      <4>3. In(E, p) = In(D, p)
        BY <2>6, <3>1
      <4> QED
        BY <2>10, <2>14, <3>1, <4>1, <4>2, <4>3
    <3>2. CASE p = q
      BY <2>1, <2>4, <2>6, <2>10, <2>13, <3>2
    <3> QED
      BY <2>6, <3>1, <3>2
  <2>16. Separate(E)
    <3> SUFFICES ASSUME NEW a \in PlacedIn(E), NEW b \in PlacedIn(E), Before(a, b),
                        SameSpace(In(E, a), In(E, b)), Falls(E, b)
                 PROVE  In(E, a).start + In(E, a).size <= In(E, b).start
      BY DEF Separate
    <3>1. a \in PlacedIn(D) /\ In(E, a) = In(D, a)
      BY <2>6
    <3>2. CASE b \in PlacedIn(D)
      <4>1. In(E, b) = In(D, b) /\ Falls(D, b)
        BY <2>6, <2>12, <3>2
      <4> QED
        BY <2>5, <3>1, <3>2, <4>1 DEF Separate
    <3>3. CASE b = q
      <4>1. In(D, a).space = "io" <=> r.space = "io"
        BY <2>4, <2>6, <3>1, <3>3 DEF SameSpace
      <4>2. Falls(D, a) /\ Align(next, r.size) = next
        BY <2>13, <3>1, <3>3, <4>1
      <4>3. In(D, a).start + In(D, a).size <= Free(In(D, a).space, mem, io)
        BY <2>5, <3>1, <4>2 DEF Behind
      <4>4. Free(In(D, a).space, mem, io) = next
        BY <2>10, <2>14, <3>1, <4>1
      <4> QED
        BY <2>4, <2>6, <3>1, <3>3, <4>2, <4>3, <4>4
    <3> QED
      BY <2>6, <3>2, <3>3
  <2>17. w.mem \in Nat /\ w.io \in Nat
    BY <2>1, <2>3
  <2> QED
    BY <2>3, <2>7, <2>8, <2>9, <2>11, <2>15, <2>16, <2>17 DEF Laid
<1> QED
  BY <1>1, <1>2

(* The function that Place defines by recursion exists: a length without one *)
(* would have a predecessor without one.                                     *)
LEMMA PlaceSteps ==
  ASSUME NEW requests, Len(requests) \in Nat, NEW mem, NEW io
  PROVE  \E W : /\ W[0] = [mem |-> mem, io |-> io, placed |-> <<>>]
                /\ \A n \in 1..Len(requests) : W[n] = Assign(W[n - 1], requests[n])
                /\ Place(requests, mem, io) = W[Len(requests)]
<1> DEFINE base == [mem |-> mem, io |-> io, placed |-> <<>>]
           Steps(W, n) == W = [k \in 0..n |-> IF k = 0 THEN base ELSE Assign(W[k - 1], requests[k])]
           Without == {n \in Nat : ~\E W : Steps(W, n)}
<1>1. Without = {}
  <2> SUFFICES ASSUME Without # {} PROVE FALSE
    OBVIOUS
  <2>1. PICK n \in Without : \A k \in Without : ~(<<k, n>> \in OpToRel(<, Nat))
    BY WFMin, NatLessThanWellFounded, Without \subseteq Nat
  <2>2. \A k \in Without : ~(k < n)
    BY <2>1, Zenon DEF OpToRel
  <2>3. n \in Nat /\ ~\E W : Steps(W, n)
    BY <2>1
  <2>4. CASE n = 0
    <3> DEFINE W == [k \in 0..0 |-> base]
    <3>1. \A k \in 0..0 : k = 0
      OBVIOUS
    <3>2. Steps(W, 0)
      BY <3>1
    <3> HIDE DEF W, Steps
    <3> QED
      BY <2>3, <2>4, <3>2
  <2>5. CASE n # 0
    <3>1. n - 1 \in Nat /\ n - 1 < n
      BY <2>3, <2>5
    <3>2. n - 1 \notin Without
      BY <2>2, <3>1
    <3>3. PICK G : Steps(G, n - 1)
      BY <3>1, <3>2
    <3> DEFINE W == [k \in 0..n |-> IF k = n THEN Assign(G[n - 1], requests[n]) ELSE G[k]]
    <3>4. \A k \in 0..(n - 1) : G[k] = IF k = 0 THEN base ELSE Assign(G[k - 1], requests[k])
      BY <3>3
    <3>5. \A k \in 0..n : W[k] = IF k = 0 THEN base ELSE Assign(W[k - 1], requests[k])
      <4> SUFFICES ASSUME NEW k \in 0..n
                   PROVE  W[k] = IF k = 0 THEN base ELSE Assign(W[k - 1], requests[k])
        OBVIOUS
      <4>1. k # 0 => k - 1 \in 0..n /\ k - 1 # n
        BY <2>3
      <4>2. k # 0 => W[k - 1] = G[k - 1]
        BY <4>1
      <4>3. CASE k = n
        BY <2>5, <4>2, <4>3
      <4>4. CASE k # n
        <5>1. k \in 0..(n - 1)
          BY <2>3, <4>4
        <5> QED
          BY <3>4, <4>2, <4>4, <5>1
      <4> QED
        BY <4>3, <4>4
    <3>6. Steps(W, n)
      <4>1. W = [k \in 0..n |-> W[k]]
        OBVIOUS
      <4> HIDE DEF W, base
      <4> QED
        BY <3>5, <4>1
    <3> HIDE DEF W, Steps
    <3> QED
      BY <2>3, <3>6
  <2> QED
    BY <2>4, <2>5
<1> DEFINE W == CHOOSE G : Steps(G, Len(requests))
<1>2. Steps(W, Len(requests))
  <2>1. \E G : Steps(G, Len(requests))
    BY <1>1
  <2> QED
    BY <2>1
<1>3. Place(requests, mem, io) = W[Len(requests)]
  BY DEF Place
<1> HIDE DEF W
<1>4. \A k \in 0..Len(requests) : W[k] = IF k = 0 THEN base ELSE Assign(W[k - 1], requests[k])
  BY <1>2
<1>5. W[0] = base /\ \A n \in 1..Len(requests) : W[n] = Assign(W[n - 1], requests[n])
  <2>1. \A n \in 1..Len(requests) : n \in 0..Len(requests) /\ n # 0
    OBVIOUS
  <2>2. 0 \in 0..Len(requests)
    OBVIOUS
  <2> QED
    BY <1>4, <2>1, <2>2
<1> QED
  BY <1>3, <1>5

(* All windows of a function: after each of its requests the table is as it  *)
(* should be.                                                                *)
LEMMA PlaceLaid ==
  ASSUME PowersOfTwo, NEW i \in 0..(NumCards - 1), NEW D, NEW mem, NEW io, Laid(D, i, mem, io),
         D[i] = <<>>, NEW requests \in Seq(Request), Len(requests) <= 7,
         \A n \in 1..Len(requests) : requests[n].size \in Sizes \cup {0},
         NEW w, w = Place(requests, mem, io)
  PROVE  Laid([D EXCEPT ![i] = w.placed], i, w.mem, w.io)
<1>1. Len(requests) \in Nat
  OBVIOUS
<1>2. PICK W : /\ W[0] = [mem |-> mem, io |-> io, placed |-> <<>>]
               /\ \A n \in 1..Len(requests) : W[n] = Assign(W[n - 1], requests[n])
               /\ w = W[Len(requests)]
  BY <1>1, PlaceSteps
<1> DEFINE At(n) == [D EXCEPT ![i] = W[n].placed]
           Fits(n) == /\ Laid(At(n), i, W[n].mem, W[n].io) /\ Len(W[n].placed) <= n
                      /\ W[n] = [mem |-> W[n].mem, io |-> W[n].io, placed |-> W[n].placed]
<1>3. i \in DOMAIN D
  BY DEF Laid, TableTo
<1>4. Fits(0)
  <2>1. At(0) = D
    BY <1>2, <1>3 DEF Laid, TableTo
  <2> QED
    BY <1>2, <2>1
<1>5. ASSUME NEW n \in 1..Len(requests), Fits(n - 1) PROVE Fits(n)
  <2>1. At(n - 1)[i] = W[n - 1].placed /\ [At(n - 1) EXCEPT ![i] = W[n].placed] = At(n)
    BY <1>3
  <2>2. W[n] = Assign([mem |-> W[n - 1].mem, io |-> W[n - 1].io, placed |-> At(n - 1)[i]], requests[n])
    BY <1>2, <1>5, <2>1
  <2>3. requests[n] \in Request /\ requests[n].size \in Sizes \cup {0}
    BY <1>1
  <2>4. Len(At(n - 1)[i]) \in Nat
    BY <1>5 DEF Laid, TableTo
  <2>5. Len(At(n - 1)[i]) <= n - 1 /\ Len(At(n - 1)[i]) < 7
    BY <1>1, <1>5, <2>1, <2>4
  <2> HIDE DEF At
  <2>6. /\ Laid([At(n - 1) EXCEPT ![i] = W[n].placed], i, W[n].mem, W[n].io)
        /\ Len(W[n].placed) <= Len(At(n - 1)[i]) + 1
        /\ W[n] = [mem |-> W[n].mem, io |-> W[n].io, placed |-> W[n].placed]
    <3> DEFINE E == At(n - 1)
    <3>1. Laid(E, i, W[n - 1].mem, W[n - 1].io)
      BY <1>5
    <3>2. /\ W[n] = Assign([mem |-> W[n - 1].mem, io |-> W[n - 1].io, placed |-> E[i]], requests[n])
          /\ Len(E[i]) < 7
      BY <2>2, <2>5
    <3> HIDE DEF E
    <3>3. /\ Laid([E EXCEPT ![i] = W[n].placed], i, W[n].mem, W[n].io)
          /\ Len(W[n].placed) <= Len(E[i]) + 1
          /\ W[n] = [mem |-> W[n].mem, io |-> W[n].io, placed |-> W[n].placed]
      BY <2>3, <3>1, <3>2, AssignLaid
    <3> QED
      BY <3>3 DEF E
  <2>7. Laid(At(n), i, W[n].mem, W[n].io)
    BY <2>1, <2>6
  <2>8. Len(W[n].placed) \in Nat
    BY <1>3, <2>7 DEF Laid, TableTo, At
  <2> QED
    BY <1>1, <2>4, <2>5, <2>6, <2>7, <2>8
<1> HIDE DEF Fits
<1>6. \A n \in 0..Len(requests) : Fits(n)
  <2> DEFINE Bad == {n \in 0..Len(requests) : ~Fits(n)}
  <2> SUFFICES ASSUME Bad # {} PROVE FALSE
    OBVIOUS
  <2>1. Bad \subseteq Nat
    BY <1>1
  <2>2. PICK n \in Bad : \A k \in Bad : ~(<<k, n>> \in OpToRel(<, Nat))
    BY <2>1, WFMin, NatLessThanWellFounded
  <2>3. \A k \in Bad : ~(k < n)
    BY <2>1, <2>2, Zenon DEF OpToRel
  <2>4. n \in 0..Len(requests) /\ ~Fits(n) /\ n # 0
    BY <1>4
  <2>5. n \in 1..Len(requests) /\ n - 1 \in 0..Len(requests) /\ n - 1 < n
    BY <1>1, <2>4
  <2>6. Fits(n - 1)
    BY <2>3, <2>5
  <2> QED
    BY <1>5, <2>4, <2>5, <2>6
<1>7. Fits(Len(requests))
  BY <1>1, <1>6
<1> QED
  BY <1>2, <1>7 DEF Fits

-----------------------------------------------------------------------------
\* The table is as it should be up to the last function of the scan.
TableRight ==
  /\ Laid(descriptors, index, memAddress, ioAddress)
  /\ \A j \in 0..(NumCards - 1) : j >= index => descriptors[j] = <<>>

(* A round of the scan keeps that, whatever function it configures.          *)
LEMMA ScanTableRight ==
  ASSUME PowersOfTwo, ListRight, TableRight, ScanNext, ListRight'
  PROVE  TableRight'
<1> DEFINE h == FindDevice(index)
<1>1. /\ h # NotFound /\ index' = index + 1 /\ index \in Nat /\ bus \in DOMAIN Buses
      /\ Card[h].kind = "bridge" => UNCHANGED <<descriptors, memAddress, ioAddress>>
      /\ Card[h].kind # "bridge" => DeviceConfig(index, h)
  BY DEF ScanNext, BridgeConfig, ListRight
<1>2. h \in DOMAIN Buses[bus] /\ Card = Buses[bus]
  BY <1>1, FindsRank DEF Found, Card
<1>3. index \in 0..(NumCards - 1)
  <2>1. h \in Found(Card) /\ Rank(h) = index
    BY <1>1, FindsRank
  <2> QED
    BY <1>1, <2>1, RankBelow
<1> HIDE DEF h
<1>4. Laid(descriptors', index, memAddress', ioAddress')
  <2>1. CASE Card[h].kind = "bridge"
    BY <1>1, <2>1 DEF TableRight
  <2>2. CASE Card[h].kind # "bridge"
    <3> DEFINE requests == Card[h].requests
               w == Place(requests, memAddress, ioAddress)
    <3>1. requests \in Seq(Request) /\ Len(requests) <= 7
      BY <1>1, <1>2, PciAssumption DEF Cards
    <3>2. \A n \in 1..Len(requests) : requests[n].size \in Sizes \cup {0}
      <4>1. DOMAIN requests = 1..Len(requests)
        BY <3>1
      <4>2. \A n \in 1..Len(requests) : requests[n].size \in SizesOf(Buses[bus][h]) \cup {0}
        BY <1>2, <4>1 DEF SizesOf
      <4>3. SizesOf(Buses[bus][h]) \subseteq Sizes
        BY <1>1, <1>2 DEF Sizes
      <4> QED
        BY <4>2, <4>3
    <3>3. /\ descriptors' = [descriptors EXCEPT ![index] = w.placed]
          /\ memAddress' = w.mem /\ ioAddress' = w.io
      BY <1>1, <2>2 DEF DeviceConfig, Windows
    <3>4. Laid(descriptors, index, memAddress, ioAddress) /\ descriptors[index] = <<>>
      BY <1>1, <1>3 DEF TableRight
    <3> HIDE DEF requests
    <3>5. Laid([descriptors EXCEPT ![index] = w.placed], index, w.mem, w.io)
      BY <1>3, <3>1, <3>2, <3>4, PlaceLaid
    <3> HIDE DEF w
    <3> QED
      BY <3>3, <3>5
  <2> QED
    BY <2>1, <2>2
<1>5. \A j \in 0..(NumCards - 1) : j > index => descriptors'[j] = <<>>
  BY <1>4 DEF Laid, TableTo
<1>6. TableTo(descriptors', index')
  <2>1. \A j \in 0..(NumCards - 1) : j > index' => j > index
    BY <1>1
  <2> QED
    BY <1>4, <1>5, <2>1 DEF Laid, TableTo
<1>7. Laid(descriptors', index', memAddress', ioAddress')
  BY <1>4, <1>6 DEF Laid
<1>8. \A j \in 0..(NumCards - 1) : j >= index' => descriptors'[j] = <<>>
  BY <1>1, <1>5
<1> QED
  BY <1>7, <1>8 DEF TableRight

(* The windows, for every bus whose registers ask for powers of two: each is *)
(* aligned to its size, and two of a space lie apart as long as the sizes    *)
(* that were asked for in it have not grown.                                 *)
THEOREM PciWindowsApart ==
  ASSUME PowersOfTwo
  PROVE  Spec => []WindowsApart
<1>1. Init => TableRight
  <2> SUFFICES ASSUME Init PROVE TableRight
    OBVIOUS
  <2> USE DEF Init
  <2>1. /\ descriptors \in [0..(NumCards - 1) -> Seq(Window)]
        /\ \A j \in 0..(NumCards - 1) : descriptors[j] = <<>> /\ Len(descriptors[j]) = 0
    OBVIOUS
  <2>2. PlacedIn(descriptors) = {}
    BY <2>1 DEF PlacedIn
  <2>3. Divided(descriptors, memAddress, ioAddress)
    BY DEF Divided, PowersOfTwo, Free
  <2> QED
    BY <2>1, <2>2, <2>3, PciAssumption DEF TableRight, Laid, TableTo, Aligned, Behind, Separate
<1>2. ListRight /\ ListRight' /\ TableRight /\ [Next]_vars => TableRight'
  <2> SUFFICES ASSUME ListRight, ListRight', TableRight, [Next]_vars PROVE TableRight'
    OBVIOUS
  <2>1. CASE ScanNext
    BY <2>1, ScanTableRight
  <2>2. CASE UNCHANGED scanned
    BY <2>2 DEF scanned, TableRight
  <2>3. [Next]_vars => ScanNext \/ UNCHANGED scanned
    BY DEF Next, Handler, ScanEnd, Pull, HookHandle, Unhook, Update, HookHandler, SetCar, ReadWord,
       WriteWord, ClearCar, Irq, Cause, NoCause, CallChain, IrqEnd, vars, fixed
  <2> QED
    BY <2>1, <2>2, <2>3
<1>3. TableRight => WindowsApart
  <2> SUFFICES ASSUME TableRight PROVE WindowsApart
    OBVIOUS
  <2>1. Placed = PlacedIn(descriptors) /\ (\A p : WindowAt(p) = In(descriptors, p))
    BY DEF Placed, PlacedIn, WindowAt, In
  <2>2. \A q : NeverGrowUpTo(q) <=> Falls(descriptors, q)
    BY <2>1 DEF NeverGrowUpTo, Falls
  <2> QED
    BY <2>1, <2>2 DEF WindowsApart, TableRight, Laid, Aligned, Separate
<1> QED
  BY <1>1, <1>2, <1>3, ListInvariant, PTL DEF Spec

=============================================================================
