--------------------------------- MODULE Udp ---------------------------------
(***************************************************************************)
(* The clients of IP: the port table of net/udp.c, and the calls of        *)
(* net/tftp.c and net/bootp.c that bind a port, send through Arp's ip_send *)
(* and wait for the network timer. A transfer keeps its port from one call *)
(* to the next, so that BOOTP can come in between. Datagrams are looked up *)
(* in the table and handled in the receive interrupt, between any two      *)
(* steps of the foreground.                                                *)
(*                                                                         *)
(* Of a transfer only its port and what tftp_handler says of the           *)
(* connection is kept; blocks are the subject of Tftp. nif->send does not  *)
(* fail: fec_send refuses long frames only.                                *)
(***************************************************************************)
EXTENDS Arp

CONSTANTS UDP_MAX_PORTS,   \* entries of the port table (5 in udp.c)
          SEND_TRIES,      \* tries of each packet (3 in tftp_rwrq, tftp_ack)
          ROUNDS,          \* requests that tftp_read makes (3)
          MaxLeaks         \* bound on transfers that keep their port

ASSUME UdpAssumption ==
  /\ UDP_MAX_PORTS \in Nat \ {0} /\ SEND_TRIES \in Nat \ {0} /\ ROUNDS \in Nat \ {0}
  /\ MaxLeaks \in Nat

Entries == 1..UDP_MAX_PORTS
Handlers == {"none", "tftp_handler", "bootp_handler"}
Ports == {"zero", "tftp", "bootp"}   \* all transfers use one port
Calls == {"none", "open", "ack", "end", "bootp_request"}

VARIABLES
  ports,     \* udp_port_table; port "zero" marks a free entry
  fg,        \* the foreground's call
  answer,    \* tcxn: nothing yet, open or error
  session,   \* tftp_read has returned with the connection open
  leaks      \* transfers that returned without freeing their port

udp == <<ports, fg, answer, session, leaks>>
udpvars == <<vars, udp>>

NoCall == [call |-> "none", pc |-> "idle", entry |-> 1, sends |-> 0, rounds |-> 0]
PortOf(call) == IF call = "bootp_request" THEN "bootp" ELSE "tftp"
HandlerOf(port) ==
  CASE port = "tftp" -> "tftp_handler" [] port = "bootp" -> "bootp_handler" [] OTHER -> "none"

\* udp_init
UdpInit ==
  /\ Init
  /\ ports = [i \in Entries |-> [port |-> "zero", handler |-> "none"]]
  /\ fg = NoCall /\ answer = "none" /\ session = FALSE /\ leaks = 0

Bound(port) == {i \in Entries : ports[i].port = port}

\* udp_port_handler
LookUp(port) == IF Bound(port) = {} THEN "none" ELSE ports[First(Bound(port))].handler

Foreground(pc) == fg.pc = pc /\ Runs("main")
Goto(pc) == fg' = [fg EXCEPT !.pc = pc]
Return == fg' = NoCall

-----------------------------------------------------------------------------
(* The calls                                                               *)

\* tftp_read, up to udp_bind_port; tftp_write does the same
Open ==
  /\ Foreground("idle") /\ ~session
  /\ answer' = "none"
  /\ fg' = [NoCall EXCEPT !.call = "open", !.pc = "bind"]
  /\ UNCHANGED <<vars, ports, session, leaks>>

\* an acknowledgement of tftp_in_char, or a block that tftp_write sends (all of
\* whose steps are one call: that BOOTP never comes between them is left open)
Acknowledge ==
  /\ Foreground("idle") /\ session
  /\ fg' = [NoCall EXCEPT !.call = "ack", !.pc = "send"]
  /\ UNCHANGED <<vars, ports, answer, session, leaks>>

\* tftp_end: with an error packet, or without
End ==
  /\ Foreground("idle") /\ session
  /\ \E pc \in {"send", "free"} : fg' = [NoCall EXCEPT !.call = "end", !.pc = pc]
  /\ session' = FALSE
  /\ UNCHANGED <<vars, ports, answer, leaks>>

\* tftp_write returns when no buffer is left
Leak ==
  /\ Foreground("idle") /\ session /\ leaks < MaxLeaks
  /\ session' = FALSE /\ leaks' = leaks + 1
  /\ UNCHANGED <<vars, ports, fg, answer>>

bootp_request ==
  /\ Foreground("idle")
  /\ fg' = [NoCall EXCEPT !.call = "bootp_request", !.pc = "bind"]
  /\ UNCHANGED <<vars, ports, answer, session, leaks>>

\* udp_bind_port stores the port in a free entry, if there is one,
BindPort ==
  /\ Foreground("bind")
  /\ \/ /\ Bound("zero") = {}
        /\ Goto("send") /\ UNCHANGED ports
     \/ /\ Bound("zero") # {}
        /\ ports' = [ports EXCEPT ![First(Bound("zero"))].port = PortOf(fg.call)]
        /\ fg' = [fg EXCEPT !.pc = "handler", !.entry = First(Bound("zero"))]
  /\ UNCHANGED <<vars, answer, session, leaks>>

\* mutant: a handler that is there is kept
BindHandlerOnce ==
  /\ Foreground("handler")
  /\ ports' = [ports EXCEPT ![fg.entry].handler =
                 IF @ = "none" THEN HandlerOf(PortOf(fg.call)) ELSE @]
  /\ Goto("send")
  /\ UNCHANGED <<vars, answer, session, leaks>>

\* and then the handler
BindHandler ==
  /\ Foreground("handler")
  /\ ports' = [ports EXCEPT ![fg.entry].handler = HandlerOf(PortOf(fg.call))]
  /\ Goto("send")
  /\ UNCHANGED <<vars, answer, session, leaks>>

\* mutant: the first entry in use is freed
FreeFirst ==
  /\ Foreground("free")
  /\ \E used \in {Entries \ Bound("zero")} :
       ports' = IF used = {} THEN ports ELSE [ports EXCEPT ![First(used)].port = "zero"]
  /\ Return
  /\ UNCHANGED <<vars, answer, session, leaks>>

\* udp_free_port: the first entry with the port; its handler stays
FreePort ==
  /\ Foreground("free")
  /\ \E mine \in {Bound(PortOf(fg.call))} :
       ports' = IF mine = {} THEN ports ELSE [ports EXCEPT ![First(mine)].port = "zero"]
  /\ Return
  /\ UNCHANGED <<vars, answer, session, leaks>>

-----------------------------------------------------------------------------
(* Sending and waiting                                                     *)

\* a broadcast needs no address
Broadcast ==
  /\ Foreground("send") /\ fg.call = "bootp_request"
  /\ Goto("free")
  /\ UNCHANGED <<vars, ports, answer, session, leaks>>

\* udp_send to the server
Send ==
  /\ Foreground("send") /\ fg.call # "bootp_request"
  /\ Begin("main")
  /\ Goto("sending")
  /\ UNCHANGED <<ports, answer, session, leaks>>

Resolve ==
  /\ fg.pc = "sending"
  /\ \/ ScanHit("main") \/ ScanMiss("main") \/ Request("main")
     \/ Wait("main") /\ ctx'["main"].pc # "idle"
  /\ UNCHANGED udp

\* what follows when the packet is sent
AfterSend ==
  CASE fg.call = "open" -> Goto("timer")
    [] fg.call = "end" -> Goto("free")
    [] OTHER -> Return

Sent ==
  /\ fg.pc = "sending"
  /\ Copy("main") /\ AfterSend
  /\ UNCHANGED <<ports, answer, session, leaks>>

\* mutant: the tries are not counted
UnsentAgain ==
  /\ fg.pc = "sending"
  /\ Wait("main") /\ ctx'["main"].pc = "idle"
  /\ Goto("send")
  /\ UNCHANGED <<ports, answer, session, leaks>>

\* no answer to the ARP requests: another try, or the call fails
Unsent ==
  /\ fg.pc = "sending"
  /\ Wait("main") /\ ctx'["main"].pc = "idle"
  /\ IF fg.sends + 1 < SEND_TRIES THEN fg' = [fg EXCEPT !.pc = "send", !.sends = @ + 1]
     ELSE IF fg.call = "ack" THEN Return ELSE Goto("free")
  /\ UNCHANGED <<ports, answer, session, leaks>>

StartTimer ==
  /\ Foreground("timer") /\ timer_set_secs
  /\ Goto("wait")
  /\ UNCHANGED <<ports, answer, session, leaks>>

\* the connection is open: tftp_read returns
Answered ==
  /\ Foreground("wait") /\ answer = "open"
  /\ session' = TRUE
  /\ Return
  /\ UNCHANGED <<vars, ports, answer, leaks>>

\* the timer has expired: the next request, or the call fails
TimedOut ==
  /\ Foreground("wait") /\ ~reference /\ answer # "open"
  /\ fg' = IF answer = "none" /\ fg.rounds + 1 < ROUNDS
           THEN [fg EXCEPT !.pc = "send", !.sends = 0, !.rounds = @ + 1]
           ELSE [fg EXCEPT !.pc = "free"]
  /\ UNCHANGED <<vars, ports, answer, session, leaks>>

-----------------------------------------------------------------------------
(* The receive interrupt                                                   *)

\* udp_handler calls tftp_handler, which notes what the packet says and may
\* answer it; bootp_handler and a port without a handler change nothing here
Datagram(port) ==
  /\ ctx["isr"].pc = "idle"
  /\ LookUp(port) = "tftp_handler"
  /\ \/ answer' \in {"open", "error"} /\ UNCHANGED vars
     \/ Begin("isr") /\ UNCHANGED answer
  /\ UNCHANGED <<ports, fg, session, leaks>>

Answering ==
  /\ ScanHit("isr") \/ ScanMiss("isr") \/ Request("isr") \/ Wait("isr") \/ Copy("isr")
  /\ UNCHANGED udp

Call == Open \/ Acknowledge \/ End \/ Leak \/ bootp_request
InCall == BindPort \/ BindHandler \/ FreePort \/ Broadcast \/ Send \/ Resolve \/ Sent \/ Unsent
            \/ StartTimer \/ Answered \/ TimedOut
Arrives == arp_handler /\ UNCHANGED udp
Tick == timer_default_isr /\ UNCHANGED udp

UdpNext ==
  \/ Call \/ InCall \/ Answering \/ Arrives \/ Tick
  \/ \E port \in Ports : Datagram(port)

UdpSpec == UdpInit /\ [][UdpNext]_udpvars

(* The handler goes on, a call goes on although interrupts come again and  *)
(* again, and the timer interrupt is taken when the priority lets it. No   *)
(* host has to answer.                                                     *)
UdpFairSpec ==
  UdpSpec /\ WF_udpvars(Answering) /\ SF_udpvars(InCall) /\ SF_udpvars(Tick)

-----------------------------------------------------------------------------
(* The types of all variables, those of Arp included. *)
UdpTypeOK ==
  /\ TypeOK
  /\ ports \in [Entries -> [port: Ports, handler: Handlers]]
  /\ fg \in [call: Calls, entry: Entries, sends: 0..(SEND_TRIES - 1), rounds: 0..(ROUNDS - 1),
             pc: {"idle", "bind", "handler", "send", "sending", "timer", "wait", "free"}]
  /\ answer \in {"none", "open", "error"}
  /\ session \in BOOLEAN /\ leaks \in 0..MaxLeaks

(* udp_port_handler: a datagram is never handed to the handler of another  *)
(* port, although entries are used again and keep their old handlers - but *)
(* for the moment between the two stores of udp_bind_port, and for port 0, *)
(* which is found in the free entries.                                     *)
LookupRight ==
  \A port \in Ports \ {"zero"} :
    \/ LookUp(port) \in {"none", HandlerOf(port)}
    \/ fg.pc = "handler" /\ PortOf(fg.call) = port

Waiting == session \/ (fg.call \in {"open", "ack", "end"} /\ fg.pc \notin {"bind", "handler"})

(* A transfer is reachable from udp_bind_port to udp_free_port, whatever   *)
(* BOOTP binds and frees meanwhile, and even when transfers that kept      *)
(* their ports have filled the table: they kept the same port. A BOOTP     *)
(* request has its handler unless the table is full of such entries.       *)
Reachable ==
  /\ Waiting => LookUp("tftp") = "tftp_handler"
  /\ fg.call = "bootp_request" /\ fg.pc \in {"send", "free"} =>
       LookUp("bootp") = "bootp_handler" \/ Bound("tftp") = Entries

(* The interrupt handler waits for the timer, which cannot interrupt it. *)
Stuck == ctx["isr"].pc = "wait"

(* tftp_read, tftp_end, bootp_request and the sending of each packet come  *)
(* to an end, with or without an answer: each round of arp_resolve and of  *)
(* tftp_read is ended by the timer ("a timeout indicator", net_timer.c 3). *)
(* Only an answer sent in the receive interrupt to a host that is not in   *)
(* the ARP table hangs, and the call it interrupts with it.                *)
CallEnds == fg.pc # "idle" ~> (fg.pc = "idle" \/ Stuck)
=============================================================================
