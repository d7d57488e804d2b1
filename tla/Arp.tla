--------------------------------- MODULE Arp ---------------------------------
(***************************************************************************)
(* How BaS_gcc finds the hardware address of an IP packet: ip_send and     *)
(* ip_resolve_route (net/ip.c), the ARP table and its protocol (net/arp.c) *)
(* and the network timer (net/net_timer.c).                                *)
(*                                                                         *)
(* ip_send runs in the foreground and, for the answers tftp_handler sends, *)
(* in the receive interrupt.  arp_handler runs in the receive interrupt    *)
(* and is one step.  While the interrupt handler is at work the priority   *)
(* is 7: the foreground, the timer interrupt and the reception of further  *)
(* frames all wait.  arp_resolve returns a pointer into the table, which   *)
(* is read when the frame is made, in a later step.                        *)
(*                                                                         *)
(* An IP address is the set of its one bits, so that "&" is intersection;  *)
(* a hardware address is named by the IP address of its owner.             *)
(***************************************************************************)
EXTENDS Integers

CONSTANTS MAX_ARP_ENTRY,   \* slots of the table (10 in arp.h)
          Hosts,           \* the IP addresses that are on the local network
          Dests,           \* where ip_send sends
          MyIp, Netmask, Gateway,
          ARP_TRIES        \* rounds of arp_resolve (3 in arp.c)

ASSUME ArpAssumption ==
  /\ MAX_ARP_ENTRY \in Nat \ {0} /\ ARP_TRIES \in Nat \ {0}
  /\ Gateway \in Hosts

Slots == 1..MAX_ARP_ENTRY
Ctx == {"main", "isr"}
Longevity == {"ARP_ENTRY_EMPTY", "ARP_ENTRY_PERM", "ARP_ENTRY_TEMP"}

VARIABLES
  table,      \* the ARP table
  reference,  \* the timer has been set and has not expired
  ctx         \* where ip_send is in each context; "perm" is history: the entry
              \* was permanent when arp_resolve found it

vars == <<table, reference, ctx>>

Empty == [longevity |-> "ARP_ENTRY_EMPTY", pa |-> {}, hwa |-> {}]
Idle == [pc |-> "idle", dest |-> {}, hop |-> {}, slot |-> 1, tries |-> 0, perm |-> FALSE]

\* arp_init and timer_init
Init ==
  /\ table = [i \in Slots |-> Empty]
  /\ reference = FALSE
  /\ ctx = [c \in Ctx |-> Idle]

-----------------------------------------------------------------------------
(* The table                                                               *)

Used(i) == table[i].longevity # "ARP_ENTRY_EMPTY"
Matches(pa) == {i \in Slots : Used(i) /\ table[i].pa = pa}
Temps == {i \in Slots : table[i].longevity = "ARP_ENTRY_TEMP"}
First(S) == CHOOSE i \in S : \A j \in S : i <= j

\* mutant: the table is not searched for an entry to update
FreshVictim(pa) ==
  LET free == {i \in Slots : ~Used(i)}
  IN IF free # {} THEN First(free)
     ELSE IF Temps # {} THEN First(Temps) ELSE MAX_ARP_ENTRY

\* mutant: a temporary entry is given up while there are empty slots
TempFirst(pa) ==
  LET free == {i \in Slots : ~Used(i)}
  IN IF Matches(pa) # {} THEN First(Matches(pa))
     ELSE IF Temps # {} THEN First(Temps)
     ELSE IF free # {} THEN First(free) ELSE MAX_ARP_ENTRY

\* the slot arp_merge writes: an empty one, or else a temporary one, or else
\* the last
Victim(pa) ==
  LET free == {i \in Slots : ~Used(i)}
  IN IF Matches(pa) # {} THEN First(Matches(pa))
     ELSE IF free # {} THEN First(free)
     ELSE IF Temps # {} THEN First(Temps) ELSE MAX_ARP_ENTRY

\* an entry that is there keeps its longevity
arp_merge(pa, longevity) ==
  table' = [table EXCEPT ![Victim(pa)] =
              [longevity |-> IF Matches(pa) # {} THEN table[Victim(pa)].longevity
                             ELSE longevity,
               pa |-> pa, hwa |-> pa]]

\* an ARP packet from host h: it is remembered whoever it was sent to
arp_handler ==
  /\ ctx["isr"].pc = "idle"
  /\ \E h \in Hosts, to_me \in BOOLEAN :
       arp_merge(h, IF to_me THEN "ARP_ENTRY_PERM" ELSE "ARP_ENTRY_TEMP")
  /\ UNCHANGED <<reference, ctx>>

\* the timer interrupt
timer_default_isr ==
  /\ ctx["isr"].pc = "idle" /\ reference
  /\ reference' = FALSE
  /\ UNCHANGED <<table, ctx>>

\* other code of the foreground waits for the same timer
timer_set_secs ==
  /\ \A c \in Ctx : ctx[c].pc = "idle"
  /\ reference' = TRUE
  /\ UNCHANGED <<table, ctx>>

-----------------------------------------------------------------------------
(* ip_send                                                                 *)

Runs(c) == c = "isr" \/ ctx["isr"].pc = "idle"
At(c, pc) == Runs(c) /\ ctx[c].pc = pc
Step(c, rec) == ctx' = [ctx EXCEPT ![c] = rec]

\* the test of ip_resolve_route: are the bits of my network all in dest
Local(dest) == (MyIp \cap Netmask) \cap dest = MyIp \cap Netmask

ip_resolve_route(dest) == IF Local(dest) THEN dest ELSE Gateway

\* arp_resolve looks at the table once before it asks
Begin(c) ==
  /\ At(c, "idle")
  /\ \E d \in Dests :
       Step(c, [pc |-> "scan", dest |-> d, hop |-> ip_resolve_route(d), slot |-> 1, tries |-> 0,
                perm |-> FALSE])
  /\ UNCHANGED <<table, reference>>

\* arp_find_pair, one slot after the other
ScanHit(c) ==
  /\ At(c, "scan")
  /\ ctx[c].slot \in Matches(ctx[c].hop)
  /\ Step(c, [ctx[c] EXCEPT !.pc = "copy",
                            !.perm = table[ctx[c].slot].longevity = "ARP_ENTRY_PERM"])
  /\ UNCHANGED <<table, reference>>

ScanMiss(c) ==
  /\ At(c, "scan")
  /\ ctx[c].slot \notin Matches(ctx[c].hop)
  /\ Step(c, IF ctx[c].slot < MAX_ARP_ENTRY THEN [ctx[c] EXCEPT !.slot = ctx[c].slot + 1]
             ELSE [ctx[c] EXCEPT !.pc = IF ctx[c].tries = 0 THEN "request" ELSE "wait"])
  /\ UNCHANGED <<table, reference>>

\* arp_request and timer_set_secs; who answers, and when, is up to the hosts
Request(c) ==
  /\ At(c, "request")
  /\ reference' = TRUE
  /\ Step(c, [ctx[c] EXCEPT !.pc = "wait", !.tries = ctx[c].tries + 1])
  /\ UNCHANGED table

\* while the timer runs the table is searched again; then the next round, or
\* ip_send fails
Wait(c) ==
  /\ At(c, "wait")
  /\ Step(c, IF reference THEN [ctx[c] EXCEPT !.pc = "scan", !.slot = 1]
             ELSE IF ctx[c].tries < ARP_TRIES THEN [ctx[c] EXCEPT !.pc = "request"]
             ELSE Idle)
  /\ UNCHANGED <<table, reference>>

\* nif->send copies the hardware address the pointer leads to
Copy(c) ==
  /\ At(c, "copy")
  /\ Step(c, Idle)
  /\ UNCHANGED <<table, reference>>

ip_send(c) == Begin(c) \/ ScanHit(c) \/ ScanMiss(c) \/ Request(c) \/ Wait(c) \/ Copy(c)

Next == \/ arp_handler \/ timer_default_isr \/ timer_set_secs
        \/ \E c \in Ctx : ip_send(c)

Spec == Init /\ [][Next]_vars

-----------------------------------------------------------------------------
TypeOK ==
  /\ table \in [Slots -> [longevity: Longevity, pa: Hosts \cup {{}}, hwa: Hosts \cup {{}}]]
  /\ reference \in BOOLEAN
  /\ ctx \in [Ctx -> [pc: {"idle", "scan", "request", "wait", "copy"},
                      dest: {{}} \cup Dests, hop: {{}, Gateway} \cup Dests,
                      slot: Slots, tries: 0..ARP_TRIES, perm: BOOLEAN]]

(* An address is in the table once, with the hardware address of its       *)
(* owner: merging finds the entry that is there, and takes over a slot     *)
(* entirely when it displaces another (arp_merge).                         *)
TableRight ==
  /\ \A i, j \in Slots : Used(i) /\ Used(j) /\ table[i].pa = table[j].pa => i = j
  /\ \A i \in Slots : table[i].hwa = table[i].pa

\* the slot that c has found may have been given up: there was no empty slot,
\* and the entry was a temporary one, or the one in the last slot
Displaceable(c) ==
  /\ \A i \in Slots : Used(i)
  /\ ~ctx[c].perm \/ ctx[c].slot = MAX_ARP_ENTRY

(* The hardware address copied into the frame is that of the next hop      *)
(* ("Determine the hardware address of the recipient", ip.c 164), although *)
(* the table may change after arp_resolve has returned a pointer into it:  *)
(* with ARP packets from any hosts in between, a permanent entry stays     *)
(* what it was unless it is in the last slot (arp.c 141), and any entry    *)
(* does while there are empty slots.                                       *)
SentToOwner ==
  [][\A c \in Ctx : Copy(c) => table[ctx[c].slot].hwa = ctx[c].hop \/ Displaceable(c)]_vars
=============================================================================
