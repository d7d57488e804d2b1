--------------------------------- MODULE Tftp ---------------------------------
(***************************************************************************)
(* The TFTP client of BaS_gcc (net/tftp.c), over a network that loses,     *)
(* duplicates, delays and reorders, with the servers it talks to.          *)
(*                                                                         *)
(* Two contexts share the one connection record tcxn.  The foreground runs *)
(* tftp_read, tftp_in_char and tftp_end, or tftp_write; pc says where it   *)
(* is.  tftp_handler runs in the receive interrupt, between any two steps  *)
(* of the foreground, and is one step.  Sending a packet adds it to the    *)
(* network; a send that fails (no buffer, no route) is not told apart from *)
(* one whose packet is lost, except where the code looks at the result.    *)
(***************************************************************************)
EXTENDS Integers, Sequences, FiniteSets

CONSTANTS Files,         \* what can be transferred
          NBLK,          \* blocks of a file; the last one is short
          TFTP_PKTSIZE,  \* characters of a full block (512 in tftp.h)
          LastSize,      \* characters of the last block of each file
          Tids,          \* transfers a server will open, by its UDP port
          Dirs,          \* the directions used: "read", "write"
          MaxTransfers,  \* bound: calls of tftp_read and tftp_write (below the 5 of
                         \* UDP_MAX_PORTS, so udp_bind_port finds a slot)
          TRIES,         \* rounds of the retry loops (retries = 4 makes 3)
          FusedRemove    \* q->head = oldest->next is one instruction

TFTP_PORT == 0           \* the well-known server port, no transfer's

ASSUME TftpAssumption ==
  /\ Files # {}
  /\ NBLK \in Nat \ {0} /\ TFTP_PKTSIZE \in Nat \ {0} /\ TRIES \in Nat \ {0}
  /\ LastSize \in [Files -> 0..(TFTP_PKTSIZE - 1)]
  /\ IsFiniteSet(Tids) /\ Tids \subseteq Nat \ {TFTP_PORT}
  /\ Dirs \subseteq {"read", "write"} /\ MaxTransfers \in 0..4 /\ FusedRemove \in BOOLEAN

\* What the theorems about a file as a whole assume: the packets of a transfer
\* before can be taken for those of this one, as all use the same port.
OneTransfer == MaxTransfers = 1

VARIABLES
  tcxn,       \* the one connection
  pc,         \* the foreground
  retries,    \* rounds left of the retry loop it is in
  blocknum,   \* tftp_write: the block being sent
  next,       \* queue_remove: the link read from the oldest node
  file,       \* what the foreground asked for
  out,        \* the characters tftp_in_char has returned
  bound,      \* slots of udp_port_table that bind tftp_handler to my_port
  calls,      \* calls of tftp_read and tftp_write so far
  net,        \* packets on their way
  srv         \* the transfers of the server

tftpVars == <<tcxn, pc, retries, blocknum, next, file, out, bound, calls, net, srv>>
main == <<pc, retries, blocknum, next, file, out, bound, calls>>

Size(f, b) == IF b < NBLK THEN TFTP_PKTSIZE ELSE LastSize[f]
Char(f, b, i) == [file |-> f, blk |-> b, char |-> i]

\* packets: the server side of each is the port tid
ToServer(op, tid, arg) == [to |-> "server", op |-> op, tid |-> tid, arg |-> arg]
ToClient(op, tid, arg) == [to |-> "client", op |-> op, tid |-> tid, arg |-> arg]

NoTransfer == [st |-> "none", file |-> CHOOSE f \in Files : TRUE, blk |-> 0]

TftpInit ==
  /\ tcxn = [dir |-> "read", open |-> FALSE, error |-> FALSE, exp_blocknum |-> 0,
             last_ack |-> 0, server_port |-> TFTP_PORT, queue |-> <<>>, rem_bytes |-> 0]
  /\ pc = "idle" /\ retries = 0 /\ blocknum = 0 /\ next = 0
  /\ file = CHOOSE f \in Files : TRUE
  /\ out = <<>> /\ bound = 0 /\ calls = 0
  /\ net = {} /\ srv = [t \in Tids |-> NoTransfer]

-----------------------------------------------------------------------------
(* tftp_handler                                                            *)

\* the packet goes or stays behind as a duplicate; sent is what answers it
Take(m, sent) == \E rest \in {net, net \ {m}} : net' = rest \cup sent

Ack(blk) == {ToServer("ack", tcxn.server_port, blk)}
Error(tid) == {ToServer("error", tid, 0)}

\* mutant: a duplicate is taken for the next block
ExpectedOrOld(m) == m.arg.blk <= tcxn.exp_blocknum

Expected(m) == m.arg.blk = tcxn.exp_blocknum

Enqueue(m, c) == [c EXCEPT !.queue = Append(c.queue, m.arg), !.exp_blocknum = c.exp_blocknum + 1]

HandleData(m) ==
  /\ m.op = "data"
  /\ \/ /\ Expected(m) /\ m.arg.blk = 1
        /\ tcxn' = Enqueue(m, [tcxn EXCEPT !.server_port = m.tid, !.open = TRUE])
        /\ Take(m, {})
     \/ /\ Expected(m) /\ m.arg.blk # 1 /\ m.tid = tcxn.server_port
        /\ tcxn' = Enqueue(m, tcxn)
        /\ Take(m, {})
     \/ /\ Expected(m) /\ m.arg.blk # 1 /\ m.tid # tcxn.server_port
        /\ Take(m, Error(m.tid))
        /\ UNCHANGED tcxn
     \/ /\ ~Expected(m)
        /\ Take(m, IF m.arg.blk < tcxn.exp_blocknum THEN Ack(m.arg.blk) ELSE {})
        /\ UNCHANGED tcxn

HandleError(m) ==
  /\ m.op = "error"
  /\ tcxn' = [tcxn EXCEPT !.error = TRUE]
  /\ Take(m, {})

\* mutant: any acknowledgement counts
HandleAnyAck(m) ==
  /\ m.op = "ack"
  /\ tcxn' = [tcxn EXCEPT !.server_port = m.tid, !.open = TRUE,
                          !.exp_blocknum = tcxn.exp_blocknum + 1]
  /\ Take(m, {})

HandleAck(m) ==
  /\ m.op = "ack"
  /\ \/ /\ m.arg = tcxn.exp_blocknum /\ m.arg = 0
        /\ tcxn' = [tcxn EXCEPT !.server_port = m.tid, !.open = TRUE, !.exp_blocknum = 1]
        /\ Take(m, {})
     \/ /\ m.arg = tcxn.exp_blocknum /\ m.arg # 0 /\ m.tid = tcxn.server_port
        /\ tcxn' = [tcxn EXCEPT !.exp_blocknum = tcxn.exp_blocknum + 1]
        /\ Take(m, {})
     \/ /\ m.arg = tcxn.exp_blocknum /\ m.arg # 0 /\ m.tid # tcxn.server_port
        /\ Take(m, Error(m.tid))
        /\ UNCHANGED tcxn
     \/ /\ m.arg # tcxn.exp_blocknum
        /\ Take(m, {})
        /\ UNCHANGED tcxn

\* udp_handler finds tftp_handler while my_port is bound
tftp_handler ==
  /\ bound > 0
  /\ \E m \in net : m.to = "client" /\ (HandleData(m) \/ HandleError(m) \/ HandleAck(m))
  /\ UNCHANGED <<main, srv>>

-----------------------------------------------------------------------------
(* tftp_read and tftp_write up to the open connection.  udp_prime_port     *)
(* makes my_port the same number each time, so a packet carries no         *)
(* client port.                                                            *)

BeginCall(dir) ==
  /\ pc = "idle" /\ calls < MaxTransfers /\ calls' = calls + 1
  /\ \E f \in Files : file' = f
  /\ tcxn' = [tcxn EXCEPT !.dir = dir, !.open = FALSE, !.error = FALSE,
                !.server_port = TFTP_PORT,
                !.exp_blocknum = IF dir = "read" THEN 1 ELSE 0,
                !.last_ack = IF dir = "read" THEN 0 ELSE tcxn.last_ack,
                !.rem_bytes = IF dir = "read" THEN 0 ELSE tcxn.rem_bytes,
                !.queue = IF dir = "read" THEN <<>> ELSE tcxn.queue]
  /\ bound' = bound + 1 /\ out' = <<>>
  /\ retries' = TRIES /\ pc' = "request"
  /\ UNCHANGED <<blocknum, next, net, srv>>

\* give up: the port is freed and 0 is returned
GiveUp ==
  /\ pc' = "idle" /\ bound' = bound - 1

\* tftp_rwrq; a request that cannot be sent ends the call
tftp_rwrq ==
  /\ pc = "request"
  /\ \/ /\ net' = net \cup {ToServer(tcxn.dir, tcxn.server_port, file)}
        /\ pc' = "connect" /\ UNCHANGED bound
     \/ GiveUp /\ UNCHANGED net
  /\ UNCHANGED <<tcxn, retries, blocknum, next, file, out, calls, srv>>

\* what follows the retry loop when it was left with a break
Connected ==
  IF tcxn.error THEN GiveUp /\ UNCHANGED <<blocknum, retries>>
  ELSE /\ UNCHANGED bound
       /\ IF tcxn.dir = "read"
            THEN pc' = "char" /\ UNCHANGED <<blocknum, retries>>
            ELSE pc' = "send" /\ blocknum' = 1 /\ retries' = TRIES

\* the wait for the first answer sees the connection open
ConnectOpen ==
  /\ pc = "connect" /\ tcxn.open
  /\ Connected
  /\ UNCHANGED <<tcxn, next, file, out, calls, net, srv>>

\* ... or the timer runs out first; tftp_read looks at open once more,
\* tftp_write only at what its wait has seen
ConnectTimeout ==
  /\ pc = "connect"
  /\ IF tcxn.error \/ (tcxn.dir = "read" /\ tcxn.open)
       THEN Connected
       ELSE /\ retries' = retries - 1
            /\ IF retries = 1 THEN GiveUp ELSE pc' = "request" /\ UNCHANGED bound
            /\ UNCHANGED blocknum
  /\ UNCHANGED <<tcxn, next, file, out, calls, net, srv>>

-----------------------------------------------------------------------------
(* tftp_in_char, which the caller of tftp_read calls until it returns -1   *)

\* return the next character of the oldest block, and remove it when it is used up
NextChar(c, pos) ==
  /\ out' = Append(out, Char(Head(c.queue).file, Head(c.queue).blk, pos))
  /\ pc' = IF c.rem_bytes = 1 THEN "remove" ELSE "char"
  /\ tcxn' = [c EXCEPT !.rem_bytes = c.rem_bytes - 1]

InCharNext ==
  /\ pc = "char" /\ tcxn.rem_bytes > 0
  /\ NextChar(tcxn, Head(tcxn.queue).size - tcxn.rem_bytes + 1)
  /\ UNCHANGED <<retries, blocknum, next, file, bound, calls, net, srv>>

InCharEof ==
  /\ pc = "char" /\ tcxn.rem_bytes = 0 /\ ~tcxn.open
  /\ pc' = "eof"
  /\ UNCHANGED <<tcxn, retries, blocknum, next, file, out, bound, calls, net, srv>>

\* start on the oldest block: acknowledge it, and return its first character;
\* an empty one is removed first
InCharBlock ==
  /\ \/ pc = "char" /\ tcxn.rem_bytes = 0 /\ tcxn.open
     \/ pc = "await"
  /\ tcxn.queue # <<>>
  /\ LET b == Head(tcxn.queue)
         c == [tcxn EXCEPT !.rem_bytes = b.size, !.last_ack = b.blk + 1,
                           !.open = b.size >= TFTP_PKTSIZE /\ tcxn.open]
     IN IF b.size = 0 THEN pc' = "remove" /\ tcxn' = c /\ UNCHANGED out
        ELSE NextChar(c, 1)
  /\ net' = IF Head(tcxn.queue).size = 0 THEN net ELSE net \cup Ack(Head(tcxn.queue).blk)
  /\ UNCHANGED <<retries, blocknum, next, file, bound, calls, srv>>

InCharAwait ==
  /\ pc = "char" /\ tcxn.rem_bytes = 0 /\ tcxn.open /\ tcxn.queue = <<>>
  /\ pc' = "await" /\ retries' = TRIES
  /\ UNCHANGED <<tcxn, blocknum, next, file, out, bound, calls, net, srv>>

\* mutant: the block it waits for is acknowledged, not the last one
InCharTimeoutAhead ==
  /\ pc = "await"
  /\ net' = net \cup Ack(tcxn.last_ack)
  /\ retries' = retries - 1
  /\ IF retries = 1
       THEN pc' = "eof" /\ tcxn' = [tcxn EXCEPT !.open = FALSE, !.error = TRUE]
       ELSE UNCHANGED <<pc, tcxn>>
  /\ UNCHANGED <<blocknum, next, file, out, bound, calls, srv>>

\* mutant: the end of the rounds is not an error
InCharTimeoutQuiet ==
  /\ pc = "await"
  /\ net' = net \cup Ack(tcxn.last_ack - 1)
  /\ retries' = retries - 1
  /\ IF retries = 1
       THEN pc' = "eof" /\ tcxn' = [tcxn EXCEPT !.open = FALSE]
       ELSE UNCHANGED <<pc, tcxn>>
  /\ UNCHANGED <<blocknum, next, file, out, bound, calls, srv>>

\* mutant: the rounds are not counted
InCharTimeoutForever ==
  /\ pc = "await"
  /\ net' = net \cup Ack(tcxn.last_ack - 1)
  /\ UNCHANGED <<tcxn, pc, retries, blocknum, next, file, out, bound, calls, srv>>

\* nothing came: acknowledge the last block again, three times
InCharTimeout ==
  /\ pc = "await"
  /\ net' = net \cup Ack(tcxn.last_ack - 1)
  /\ retries' = retries - 1
  /\ IF retries = 1
       THEN pc' = "eof" /\ tcxn' = [tcxn EXCEPT !.open = FALSE, !.error = TRUE]
       ELSE UNCHANGED <<pc, tcxn>>
  /\ UNCHANGED <<blocknum, next, file, out, bound, calls, srv>>

(* queue_remove of the used-up block, with interrupts enabled: the link of *)
(* the oldest node is read (the number of nodes behind it stands for it),  *)
(* then written to the head.  A node added in between is behind a head     *)
(* that is overwritten.  A compiler that makes one instruction of both     *)
(* leaves no room for the interrupt.                                       *)
RemoveLoad ==
  /\ pc = "remove" /\ ~FusedRemove
  /\ next' = Len(tcxn.queue) - 1 /\ pc' = "unlink"
  /\ UNCHANGED <<tcxn, retries, blocknum, file, out, bound, calls, net, srv>>

RemoveStore ==
  /\ pc = "unlink" \/ (pc = "remove" /\ FusedRemove)
  /\ tcxn' = [tcxn EXCEPT !.queue = IF pc = "unlink" /\ next = 0 THEN <<>> ELSE Tail(@)]
  /\ IF Head(tcxn.queue).size = 0
       THEN pc' = "eof" /\ net' = net \cup Ack(Head(tcxn.queue).blk)
       ELSE pc' = "char" /\ UNCHANGED net
  /\ next' = 0
  /\ UNCHANGED <<retries, blocknum, file, out, bound, calls, srv>>

tftp_in_char == InCharNext \/ InCharEof \/ InCharBlock \/ InCharAwait \/ InCharTimeout
                \/ RemoveLoad \/ RemoveStore

(* tftp_end: "completed" is reported when the caller is content, the       *)
(* connection is closed and there was no error; otherwise the server gets  *)
(* an ERROR.  The caller may end the transfer between any two characters.  *)
Completed == pc = "eof" /\ ~tcxn.error /\ ~tcxn.open

EndReport ==
  /\ pc \in {"eof", "char"}
  /\ \/ Completed /\ UNCHANGED net
     \/ net' = net \cup Error(tcxn.server_port)
  /\ pc' = "drain"
  /\ UNCHANGED <<tcxn, retries, blocknum, next, file, out, bound, calls, srv>>

EndDrain ==
  /\ pc = "drain"
  /\ tcxn' = [tcxn EXCEPT !.queue = <<>>]
  /\ pc' = "free_port"
  /\ UNCHANGED <<retries, blocknum, next, file, out, bound, calls, net, srv>>

EndFreePort ==
  /\ pc = "free_port"
  /\ bound' = bound - 1 /\ pc' = "idle"
  /\ UNCHANGED <<tcxn, retries, blocknum, next, file, out, calls, net, srv>>

tftp_end == EndReport \/ EndDrain \/ EndFreePort

-----------------------------------------------------------------------------
(* tftp_write with the connection open                                     *)

\* without a buffer it returns at once, with my_port still bound
WriteSend ==
  /\ pc = "send"
  /\ \/ /\ net' = net \cup {ToServer("data", tcxn.server_port, blocknum)}
        /\ pc' = "wait"
     \/ pc' = "idle" /\ UNCHANGED net
  /\ UNCHANGED <<tcxn, retries, blocknum, next, file, out, bound, calls, srv>>

Acked == tcxn.exp_blocknum - 1 = blocknum

\* the end of the loop: success, unless the server reported an error
WriteEnd == bound' = bound - 1 /\ pc' = IF tcxn.error THEN "idle" ELSE "uploaded"

WriteAcked ==
  /\ pc = "wait" /\ Acked
  /\ IF Size(file, blocknum) < TFTP_PKTSIZE \/ tcxn.error
       THEN WriteEnd /\ UNCHANGED <<blocknum, retries>>
       ELSE /\ blocknum' = blocknum + 1 /\ retries' = TRIES /\ pc' = "send"
            /\ UNCHANGED bound
  /\ UNCHANGED <<tcxn, next, file, out, calls, net, srv>>

\* when the rounds are used up the loop ends as it does after the last block
WriteTimeout ==
  /\ pc = "wait"
  /\ IF tcxn.error \/ retries = 1
       THEN WriteEnd /\ UNCHANGED retries
       ELSE retries' = retries - 1 /\ pc' = "send" /\ UNCHANGED bound
  /\ UNCHANGED <<tcxn, blocknum, next, file, out, calls, net, srv>>

WriteReturn ==
  /\ pc = "uploaded"
  /\ pc' = "idle"
  /\ UNCHANGED <<tcxn, retries, bound, blocknum, next, file, out, calls, net, srv>>

Connect == tftp_rwrq \/ ConnectOpen \/ ConnectTimeout
tftp_read == BeginCall("read") \/ tftp_in_char \/ tftp_end
tftp_write == BeginCall("write") \/ WriteSend \/ WriteAcked \/ WriteTimeout \/ WriteReturn

-----------------------------------------------------------------------------
(* The network and the servers (external).                                 *)

Lose == \E m \in net : net' = net \ {m} /\ UNCHANGED <<tcxn, main, srv>>

\* a request opens a transfer under a port of its own
ServerAccept ==
  \E m \in net, t \in Tids :
    /\ m.to = "server" /\ m.op \in {"read", "write"} /\ m.tid = TFTP_PORT
    /\ srv[t].st = "none"
    /\ srv' = [srv EXCEPT ![t] = [st |-> m.op, file |-> m.arg,
                                  blk |-> IF m.op = "read" THEN 1 ELSE 0]]
    /\ Take(m, {})
    /\ UNCHANGED <<tcxn, main>>

\* (re)transmission of the block, or of the acknowledgement, it is at
ServerSend ==
  \E t \in Tids :
    /\ \/ /\ srv[t].st = "read"
          /\ net' = net \cup {ToClient("data", t,
                       [blk |-> srv[t].blk, file |-> srv[t].file,
                        size |-> Size(srv[t].file, srv[t].blk)])}
       \/ /\ srv[t].st = "write"
          /\ net' = net \cup {ToClient("ack", t, srv[t].blk)}
    /\ UNCHANGED <<tcxn, main, srv>>

ServerGetsAck ==
  \E m \in net :
    /\ m.to = "server" /\ m.op = "ack" /\ m.tid \in Tids
    /\ srv[m.tid].st = "read" /\ srv[m.tid].blk = m.arg
    /\ srv' = [srv EXCEPT ![m.tid] = [@ EXCEPT !.blk = m.arg + 1,
                                        !.st = IF m.arg = NBLK THEN "done" ELSE "read"]]
    /\ Take(m, {})
    /\ UNCHANGED <<tcxn, main>>

ServerGetsData ==
  \E m \in net :
    /\ m.to = "server" /\ m.op = "data" /\ m.tid \in Tids
    /\ srv[m.tid].st = "write" /\ m.arg = srv[m.tid].blk + 1
    /\ srv' = [srv EXCEPT ![m.tid] = [@ EXCEPT !.blk = m.arg]]
    /\ Take(m, {})
    /\ UNCHANGED <<tcxn, main>>

\* a server stops when it is told to, or by itself with an error
ServerStops ==
  \E t \in Tids :
    /\ srv[t].st \in {"read", "write"}
    /\ srv' = [srv EXCEPT ![t] = [@ EXCEPT !.st = "done"]]
    /\ \/ net' = net \cup {ToClient("error", t, 0)}
       \/ ToServer("error", t, 0) \in net /\ UNCHANGED net
    /\ UNCHANGED <<tcxn, main>>

Network == Lose \/ ServerAccept \/ ServerSend \/ ServerGetsAck \/ ServerGetsData \/ ServerStops

Main == Connect \/ ("read" \in Dirs /\ tftp_read) \/ ("write" \in Dirs /\ tftp_write)
TftpNext == Main \/ tftp_handler \/ Network

(* The foreground runs when it can: its waits end when the timer does.     *)
(* Nothing is assumed of the network or the servers, and nobody has to     *)
(* begin another transfer.                                                 *)
TftpSpec == TftpInit /\ [][TftpNext]_tftpVars
FairSpec == TftpSpec /\ WF_tftpVars(Main)

-----------------------------------------------------------------------------
Block == [blk: 1..NBLK, file: Files, size: 0..TFTP_PKTSIZE]

Connection ==
  [dir : {"read", "write"}, open : BOOLEAN, error : BOOLEAN,
   exp_blocknum : 0..(NBLK + 1), last_ack : 0..(NBLK + 1),
   server_port : Tids \cup {TFTP_PORT}, queue : Seq(Block), rem_bytes : 0..TFTP_PKTSIZE]

Pcs == {"idle", "request", "connect", "char", "await", "remove", "unlink", "eof",
        "drain", "free_port", "send", "wait", "uploaded"}

TftpTypeOK ==
  /\ tcxn \in Connection /\ pc \in Pcs /\ file \in Files
  /\ retries \in 0..TRIES /\ blocknum \in 0..NBLK /\ next \in 0..NBLK
  /\ bound \in 0..MaxTransfers /\ calls \in 0..MaxTransfers
  /\ srv \in [Tids -> [st : {"none", "read", "write", "done"}, file : Files, blk : 0..(NBLK + 1)]]

FileLen(f) == (NBLK - 1) * TFTP_PKTSIZE + LastSize[f]
CharAt(f, k) == Char(f, ((k - 1) \div TFTP_PKTSIZE) + 1, ((k - 1) % TFTP_PKTSIZE) + 1)

(* tftp_in_char returns the characters of the file in order, each once,    *)
(* whatever the network does to the packets (tftp.c 4: "reading a file     *)
(* from a remote host"), and no counter leaves its range.                  *)
InOrder == /\ TftpTypeOK
           /\ Len(out) <= FileLen(file)
           /\ \A k \in DOMAIN out : out[k] = CharAt(file, k)

(* A transfer reported as completed has delivered the whole file           *)
(* (tftp_end 274-282): the end of the retries is never taken for it.       *)
CompletedWhole == Completed => Len(out) = FileLen(file)

(* No block is acknowledged before tftp_handler has queued it: the server  *)
(* never moves past the block the client expects.                          *)
AckedAreReceived ==
  tcxn.dir = "read" => \A t \in Tids : srv[t].blk <= tcxn.exp_blocknum

(* Every call comes to an end: each of the waits for an answer is bounded  *)
(* by the timer and by the number of rounds.                               *)
TransferEnds == pc # "idle" ~> pc = "idle"

(* A block tftp_write takes for acknowledged is stored at the server, and  *)
(* it goes on to the next block for no other reason.                       *)
UploadStored ==
  tcxn.dir = "write" /\ tcxn.server_port \in Tids =>
    /\ srv[tcxn.server_port].blk >= tcxn.exp_blocknum - 1
    /\ pc \in {"send", "wait"} => tcxn.exp_blocknum \in {blocknum, blocknum + 1}

(* "TFTP upload successful" (tftp.c 466): the server has the file.         *)
UploadWhole == pc = "uploaded" => srv[tcxn.server_port].blk = NBLK
=============================================================================
