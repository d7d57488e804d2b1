----------------------------- MODULE Net_proofs -----------------------------
(* Proofs about the network stack above IP.  Tftp, for any files, block      *)
(* size, servers and number of tries: what is acknowledged has been          *)
(* received, and in one transfer the characters come in order and whole.     *)
(* Arp and Udp, for every number of table slots and of ports, any hosts and  *)
(* destinations, and any numbers of tries: the ARP table is right, datagrams *)
(* are handed to the right handler, and the clients of UDP use ip_send as    *)
(* Arp says.                                                                 *)
EXTENDS Tftp, Udp, WellFoundedInduction, FiniteSetTheorems, TLAPS

-----------------------------------------------------------------------------
(* Tftp: where the foreground is *)

ReadPcs == {"char", "await", "remove", "unlink", "eof", "drain", "free_port"}
WritePcs == {"send", "wait", "uploaded"}

\* Before the first call.
Fresh ==
  /\ pc = "idle" /\ bound = 0 /\ net = {} /\ out = <<>> /\ blocknum = 0 /\ next = 0
  /\ tcxn.dir = "read" /\ tcxn.exp_blocknum = 0 /\ tcxn.queue = <<>> /\ tcxn.last_ack = 0
  /\ ~tcxn.open /\ tcxn.server_port = TFTP_PORT
  /\ \A t \in Tids : srv[t] = NoTransfer

\* Where the foreground is, and what that says of its call.
Phase ==
  /\ calls = 0 => Fresh
  /\ pc \notin {"idle", "uploaded"} => bound = 1
  /\ pc \in ReadPcs => tcxn.dir = "read"
  /\ pc \in WritePcs => tcxn.dir = "write"
  /\ pc \in {"request", "connect", "await", "send", "wait"} => retries >= 1
  /\ pc \in {"request", "connect"} => blocknum = 0
  /\ pc \in {"send", "wait"} => blocknum >= 1

\* What is on its way belongs to the call: the client acknowledges what it has
\* received, the servers what they have.
Fine(m) ==
  /\ m.to = "server" /\ m.op \in {"read", "write"} => m.op = tcxn.dir /\ m.arg = file
  /\ m.to = "server" /\ m.op = "ack" => m.arg \in Int /\ m.arg < tcxn.exp_blocknum
  /\ m.to = "server" /\ m.op = "data" => m.arg \in Int /\ m.arg <= blocknum
  /\ m.to = "client" => m.tid \in Tids
  /\ m.to = "client" /\ m.op = "data" =>
       /\ tcxn.dir = "read" /\ m.arg \in Block /\ m.arg.file = file
       /\ m.arg.size = Size(file, m.arg.blk)
  /\ m.to = "client" /\ m.op = "ack" =>
       tcxn.dir = "write" /\ m.arg \in Nat /\ m.arg <= srv[m.tid].blk

\* ... all of it.
Packets == \A m \in net : Fine(m)

\* The servers serve the call, and are not ahead of it.
Serves(t) ==
  /\ srv[t].st = "none" => srv[t].blk = 0
  /\ srv[t].st = "read" => tcxn.dir = "read" /\ srv[t].file = file /\ srv[t].blk \in 1..NBLK
  /\ srv[t].st = "write" => tcxn.dir = "write"
  /\ tcxn.dir = "read" => srv[t].blk <= tcxn.exp_blocknum
  /\ tcxn.dir = "write" => srv[t].blk <= blocknum

\* ... all of them.
Servers == \A t \in Tids : Serves(t)

\* What is in the queue has been received.
Queued ==
  /\ \A i \in DOMAIN tcxn.queue : tcxn.queue[i].blk < tcxn.exp_blocknum
  /\ tcxn.queue # <<>> => Len(tcxn.queue) < tcxn.exp_blocknum
  /\ tcxn.last_ack <= tcxn.exp_blocknum
  /\ pc \in {"remove", "unlink"} => tcxn.queue # <<>> /\ tcxn.rem_bytes = 0
  /\ pc = "char" /\ tcxn.rem_bytes > 0 => tcxn.queue # <<>>
  /\ pc \in {"request", "connect"} /\ tcxn.dir = "read" => tcxn.rem_bytes = 0
  /\ tcxn.dir = "read" /\ calls = 1 => tcxn.exp_blocknum >= 1

\* What has been acknowledged is stored.
Uploading ==
  tcxn.dir = "write" =>
    /\ tcxn.queue = <<>>
    /\ IF tcxn.server_port \in Tids
         THEN srv[tcxn.server_port].blk >= tcxn.exp_blocknum - 1
         ELSE tcxn.exp_blocknum = 0
    /\ pc \in {"request", "connect"} =>
         tcxn.exp_blocknum <= 1 /\ (tcxn.open => tcxn.exp_blocknum = 1)
    /\ pc \in {"send", "wait"} => tcxn.exp_blocknum \in {blocknum, blocknum + 1}

\* What holds in both directions, whatever queue_remove is compiled to.
Base == TftpTypeOK /\ Phase /\ Packets /\ Servers /\ Queued /\ Uploading

-----------------------------------------------------------------------------
\* The block the foreground is at, and the characters before it.
Current == tcxn.exp_blocknum - Len(tcxn.queue)
Before(f, b) == IF b > NBLK THEN FileLen(f) ELSE (b - 1) * TFTP_PKTSIZE

\* The queue holds the blocks up to the expected one, each once and in order.
Consecutive ==
  \A i \in DOMAIN tcxn.queue :
    /\ tcxn.queue[i].blk = Current + i - 1 /\ tcxn.queue[i].file = file
    /\ tcxn.queue[i].size = Size(file, Current + i - 1)

\* What has been returned is the file up to the character that is next.
Returned ==
  /\ Len(out) <= FileLen(file)
  /\ \A k \in DOMAIN out : out[k] = CharAt(file, k)

\* The last block has been begun.
Closed == ~tcxn.open /\ ~tcxn.error

\* Where in the file each step of tftp_in_char is.
Progress ==
  /\ pc \in {"request", "connect"} /\ tcxn.dir = "read" =>
       out = <<>> /\ Current = 1 /\ tcxn.rem_bytes = 0
  /\ pc = "await" \/ (pc = "char" /\ tcxn.rem_bytes = 0) =>
       /\ Len(out) = Before(file, Current) /\ tcxn.rem_bytes = 0
       /\ Closed => Current = NBLK + 1
  /\ pc = "remove" \/ (pc = "char" /\ tcxn.rem_bytes > 0) =>
       /\ tcxn.rem_bytes <= Size(file, Current)
       /\ Len(out) = Before(file, Current) + Size(file, Current) - tcxn.rem_bytes
       /\ Closed => Current = NBLK
       /\ Size(file, Current) = 0 => Current = NBLK
  /\ pc = "eof" /\ Closed => Len(out) = FileLen(file)

\* What out is made of, and the invariant of a transfer that is read.
Characters == [file : Files, blk : Nat, char : Nat]

Reading ==
  /\ Base /\ pc # "unlink" /\ out \in Seq(Characters)
  /\ Consecutive /\ Returned /\ Progress

-----------------------------------------------------------------------------
(* What every step needs *)

(* The sizes of blocks: only the last is short. *)
LEMMA SizeIs ==
  ASSUME NEW f \in Files, NEW b \in Int
  PROVE  /\ Size(f, b) \in 0..TFTP_PKTSIZE
         /\ Size(f, b) < TFTP_PKTSIZE <=> b >= NBLK
  BY TftpAssumption DEF Size

(* Counters and blocks only go on while a call lasts. *)
Later ==
  /\ tcxn'.dir = tcxn.dir /\ file' = file
  /\ tcxn.exp_blocknum <= tcxn'.exp_blocknum /\ blocknum <= blocknum'
  /\ \A t \in Tids : srv[t].blk <= srv'[t].blk

(* So what is on its way stays fine. *)
LEMMA FineStays ==
  ASSUME TftpTypeOK, TftpTypeOK', Later, NEW m, Fine(m)
  PROVE  Fine(m)'
<1>1. /\ tcxn.exp_blocknum \in Int /\ tcxn'.exp_blocknum \in Int
      /\ blocknum \in Int /\ blocknum' \in Int
  BY TftpAssumption DEF TftpTypeOK, Connection
<1>2. \A t \in Tids : srv[t].blk \in Int
  BY DEF TftpTypeOK
<1>3. \A t \in Tids : srv'[t].blk \in Int
  BY DEF TftpTypeOK
<1> QED
  BY <1>1, <1>2, <1>3 DEF Fine, Later

(* All of it, when nothing is sent. *)
LEMMA PacketsStay ==
  ASSUME TftpTypeOK, TftpTypeOK', Packets, Later, net' \subseteq net
  PROVE  Packets'
<1>1. ASSUME NEW m \in net' PROVE Fine(m)'
  BY <1>1, FineStays DEF Packets
<1> QED
  BY <1>1 DEF Packets

(* And when a packet is sent. *)
LEMMA PacketsMore ==
  ASSUME TftpTypeOK, TftpTypeOK', Packets, Later, NEW m, net' \subseteq net \cup {m}, Fine(m)'
  PROVE  Packets'
<1>1. ASSUME NEW n \in net' PROVE Fine(n)'
  <2>1. CASE n \in net
    BY <2>1, FineStays DEF Packets
  <2>2. CASE n = m
    BY <2>2
  <2> QED
    BY <1>1, <2>1, <2>2
<1> QED
  BY <1>1 DEF Packets

(* And the servers stay behind, if they do nothing. *)
LEMMA ServersStay ==
  ASSUME TftpTypeOK, TftpTypeOK', Servers, Later, UNCHANGED srv
  PROVE  Servers'
<1>1. /\ tcxn.exp_blocknum \in Int /\ tcxn'.exp_blocknum \in Int
      /\ blocknum \in Int /\ blocknum' \in Int
      /\ \A t \in Tids : srv[t].blk \in Int
  BY TftpAssumption DEF TftpTypeOK, Connection
<1>2. ASSUME NEW t \in Tids PROVE Serves(t)'
  <2>1. Serves(t)
    BY DEF Servers
  <2> QED
    BY <1>1, <2>1 DEF Serves, Later
<1> QED
  BY <1>2 DEF Servers

(* A packet that is taken adds what answers it. *)
LEMMA Taken ==
  ASSUME NEW m, NEW sent, Take(m, sent)
  PROVE  net' \subseteq net \cup sent
  BY DEF Take

-----------------------------------------------------------------------------
(* The network and the servers *)

(* These steps leave the client alone. *)
LEMMA NetworkStays ==
  ASSUME OneTransfer, Base, UNCHANGED <<tcxn, main>>,
         TftpTypeOK', Packets', Servers', calls # 0,
         \A t \in Tids : srv[t].blk <= srv'[t].blk
  PROVE  Base'
<1>1. Phase'
  BY DEF Base, Phase, main
<1>2. Queued'
  BY DEF Base, Queued, main
<1>3. Uploading'
  <2>1. \A t \in Tids : srv[t].blk \in Int /\ srv'[t].blk \in Int
    BY DEF Base, TftpTypeOK
  <2>2. tcxn.exp_blocknum \in Int
    BY DEF Base, TftpTypeOK, Connection
  <2> QED
    BY <2>1, <2>2 DEF Base, Uploading, main
<1> QED
  BY <1>1, <1>2, <1>3 DEF Base

(* A packet is lost. *)
LEMMA LoseBase == ASSUME OneTransfer, Base, Lose PROVE Base'
<1>1. UNCHANGED <<tcxn, main, srv>> /\ net' \subseteq net /\ net # {}
  BY DEF Lose
<1>2. TftpTypeOK'
  BY <1>1 DEF Base, TftpTypeOK, main
<1>3. Later
  BY <1>1 DEF Later, Base, TftpTypeOK, Connection, main
<1>4. Packets' /\ Servers'
  BY <1>1, <1>2, <1>3, PacketsStay, ServersStay DEF Base
<1>5. calls # 0
  BY <1>1 DEF Base, Phase, Fresh
<1> QED
  BY <1>1, <1>2, <1>3, <1>4, <1>5, NetworkStays DEF Later

(* A request opens a transfer of the file that the call is about. *)
LEMMA ServerAcceptBase == ASSUME OneTransfer, Base, ServerAccept PROVE Base'
<1>1. PICK m \in net, t \in Tids :
        /\ m.to = "server" /\ m.op \in {"read", "write"}
        /\ srv[t].st = "none"
        /\ srv' = [srv EXCEPT ![t] = [st |-> m.op, file |-> m.arg,
                                      blk |-> IF m.op = "read" THEN 1 ELSE 0]]
        /\ Take(m, {})
        /\ UNCHANGED <<tcxn, main>>
  BY DEF ServerAccept
<1>2. m.op = tcxn.dir /\ m.arg = file /\ net' \subseteq net
  BY <1>1, Taken DEF Base, Packets, Fine
<1>3. TftpTypeOK /\ file \in Files /\ NBLK \in Nat /\ NBLK >= 1 /\ calls # 0 /\ calls \in 0..1
  BY <1>1, TftpAssumption DEF Base, TftpTypeOK, Phase, Fresh, OneTransfer
<1>4. srv' \in [Tids -> [st : {"none", "read", "write", "done"}, file : Files, blk : 0..(NBLK + 1)]]
  BY <1>1, <1>2, <1>3 DEF TftpTypeOK
<1>5. TftpTypeOK'
  BY <1>1, <1>3, <1>4 DEF TftpTypeOK, main
<1>6. /\ \A u \in Tids \ {t} : srv'[u] = srv[u]
      /\ srv'[t].st = m.op /\ srv'[t].file = file /\ srv'[t].blk = IF m.op = "read" THEN 1 ELSE 0
      /\ srv[t].blk = 0
  BY <1>1, <1>2, <1>3 DEF TftpTypeOK, Base, Servers, Serves
<1>7. Later
  BY <1>1, <1>3, <1>6 DEF Later, TftpTypeOK, Connection, main
<1>8. Packets'
  BY <1>2, <1>5, <1>7, PacketsStay DEF Base
<1>9. tcxn.dir = "read" => tcxn.exp_blocknum >= 1
  BY <1>3 DEF Base, Queued
<1>10. Servers'
  <2>1. \A u \in Tids \ {t} : Serves(u)'
    BY <1>1, <1>6 DEF Base, Servers, Serves, main
  <2>2. Serves(t)'
    BY <1>1, <1>2, <1>3, <1>6, <1>9 DEF Serves, TftpTypeOK, Connection, main
  <2> QED
    BY <2>1, <2>2 DEF Servers
<1> QED
  BY <1>1, <1>3, <1>5, <1>7, <1>8, <1>10, NetworkStays DEF Later

(* A server sends the block, or the acknowledgement, that it is at. *)
LEMMA ServerSendBase == ASSUME OneTransfer, Base, ServerSend PROVE Base'
<1>1. PICK t \in Tids :
        /\ \/ /\ srv[t].st = "read"
              /\ net' = net \cup {ToClient("data", t,
                           [blk |-> srv[t].blk, file |-> srv[t].file,
                            size |-> Size(srv[t].file, srv[t].blk)])}
           \/ /\ srv[t].st = "write"
              /\ net' = net \cup {ToClient("ack", t, srv[t].blk)}
        /\ UNCHANGED <<tcxn, main, srv>>
  BY DEF ServerSend
<1>2. TftpTypeOK /\ Serves(t) /\ srv[t].blk \in Nat /\ srv[t].file \in Files
  BY DEF Base, TftpTypeOK, Servers
<1>3. TftpTypeOK'
  BY <1>1, <1>2 DEF TftpTypeOK, main
<1>4. Later
  BY <1>1, <1>2 DEF Later, TftpTypeOK, Connection, main
<1>5. Packets'
  <2>1. CASE /\ srv[t].st = "read"
             /\ net' = net \cup {ToClient("data", t,
                           [blk |-> srv[t].blk, file |-> srv[t].file,
                            size |-> Size(srv[t].file, srv[t].blk)])}
    <3>1. PICK b \in {[blk |-> srv[t].blk, file |-> srv[t].file,
                      size |-> Size(srv[t].file, srv[t].blk)]} : TRUE
      OBVIOUS
    <3>2. b \in Block /\ b.file = file /\ b.size = Size(file, b.blk) /\ tcxn.dir = "read"
      BY <1>2, <2>1, <3>1, SizeIs DEF Serves, Block
    <3>3. PICK m \in {ToClient("data", t, b)} : TRUE
      OBVIOUS
    <3>4. m.to = "client" /\ m.op = "data" /\ m.tid = t /\ m.arg = b
      BY <3>3 DEF ToClient
    <3>5. Fine(m)'
      BY <1>1, <3>2, <3>4 DEF Fine, main
    <3>6. net' \subseteq net \cup {m}
      BY <2>1, <3>1, <3>3
    <3> QED
      BY <1>2, <1>3, <1>4, <3>5, <3>6, PacketsMore DEF Base
  <2>2. CASE srv[t].st = "write" /\ net' = net \cup {ToClient("ack", t, srv[t].blk)}
    <3>1. PICK m \in {ToClient("ack", t, srv[t].blk)} : TRUE
      OBVIOUS
    <3>2. m.to = "client" /\ m.op = "ack" /\ m.tid = t /\ m.arg = srv[t].blk
      BY <3>1 DEF ToClient
    <3>3. Fine(m)'
      BY <1>1, <1>2, <2>2, <3>2 DEF Fine, Serves, main
    <3> QED
      BY <1>2, <1>3, <1>4, <2>2, <3>1, <3>3, PacketsMore DEF Base
  <2> QED
    BY <1>1, <2>1, <2>2
<1>6. Servers'
  BY <1>1, <1>3, <1>4, ServersStay DEF Base
<1>7. calls # 0
  <2>1. NoTransfer.st = "none"
    BY DEF NoTransfer
  <2> QED
    BY <1>1, <2>1 DEF Base, Phase, Fresh
<1> QED
  BY <1>1, <1>3, <1>4, <1>5, <1>6, <1>7, NetworkStays DEF Later

(* One server's step, behind what the client expects or has sent. *)
LEMMA ServerStepBase ==
  ASSUME OneTransfer, Base, UNCHANGED <<tcxn, main>>, NEW t \in Tids, NEW r,
         srv' = [srv EXCEPT ![t] = r],
         r \in [st : {"read", "write", "done"}, file : Files, blk : 0..(NBLK + 1)],
         r.blk >= srv[t].blk,
         r.st = "read" => tcxn.dir = "read" /\ r.file = file /\ r.blk \in 1..NBLK,
         r.st = "write" => tcxn.dir = "write",
         tcxn.dir = "read" => r.blk <= tcxn.exp_blocknum,
         tcxn.dir = "write" => r.blk <= blocknum,
         calls # 0,
         net' \subseteq net \/ net' \subseteq net \cup {ToClient("error", t, 0)}
  PROVE  Base'
<1>1. TftpTypeOK /\ \A u \in Tids : srv[u].blk \in Int
  BY DEF Base, TftpTypeOK
<1>2. srv'[t] = r /\ \A u \in Tids \ {t} : srv'[u] = srv[u]
  BY <1>1 DEF TftpTypeOK
<1>3. srv' \in [Tids -> [st : {"none", "read", "write", "done"}, file : Files, blk : 0..(NBLK + 1)]]
  BY <1>1 DEF TftpTypeOK
<1>4. TftpTypeOK'
  BY <1>1, <1>3 DEF TftpTypeOK, main
<1>5. \A u \in Tids : srv[u].blk <= srv'[u].blk
  BY <1>1, <1>2
<1>6. Later
  BY <1>1, <1>5 DEF Later, TftpTypeOK, Connection, main
<1>7. Packets'
  <2>1. CASE net' \subseteq net
    BY <1>1, <1>4, <1>6, <2>1, PacketsStay DEF Base
  <2>2. CASE net' \subseteq net \cup {ToClient("error", t, 0)}
    <3>1. PICK m \in {ToClient("error", t, 0)} : TRUE
      OBVIOUS
    <3>2. m.to = "client" /\ m.op = "error" /\ m.tid = t
      BY <3>1 DEF ToClient
    <3>3. Fine(m)'
      BY <3>2 DEF Fine
    <3> QED
      BY <1>1, <1>4, <1>6, <2>2, <3>1, <3>3, PacketsMore DEF Base
  <2> QED
    BY <2>1, <2>2
<1>8. Servers'
  <2>1. \A u \in Tids \ {t} : Serves(u)'
    BY <1>2 DEF Base, Servers, Serves, main
  <2>2. Serves(t)'
    BY <1>2 DEF Serves, main
  <2> QED
    BY <2>1, <2>2 DEF Servers
<1> QED
  BY <1>4, <1>5, <1>7, <1>8, NetworkStays

(* An acknowledgement takes a server to the next block. *)
LEMMA ServerGetsAckBase == ASSUME OneTransfer, Base, ServerGetsAck PROVE Base'
<1>1. PICK m \in net :
        /\ m.to = "server" /\ m.op = "ack" /\ m.tid \in Tids
        /\ srv[m.tid].st = "read" /\ srv[m.tid].blk = m.arg
        /\ srv' = [srv EXCEPT ![m.tid] = [@ EXCEPT !.blk = m.arg + 1,
                                            !.st = IF m.arg = NBLK THEN "done" ELSE "read"]]
        /\ Take(m, {})
        /\ UNCHANGED <<tcxn, main>>
  BY DEF ServerGetsAck
<1>2. PICK r \in {[srv[m.tid] EXCEPT !.blk = m.arg + 1,
                                     !.st = IF m.arg = NBLK THEN "done" ELSE "read"]} : TRUE
  OBVIOUS
<1>3. Serves(m.tid) /\ Fine(m) /\ NBLK \in Nat /\ tcxn.exp_blocknum \in Int
  BY <1>1, TftpAssumption DEF Base, Servers, Packets, TftpTypeOK, Connection
<1>4. srv[m.tid] \in [st : {"none", "read", "write", "done"}, file : Files, blk : 0..(NBLK + 1)]
  BY <1>1 DEF Base, TftpTypeOK
<1>5. m.arg \in 1..NBLK /\ m.arg < tcxn.exp_blocknum /\ tcxn.dir = "read" /\ srv[m.tid].file = file
  BY <1>1, <1>3 DEF Serves, Fine
<1>6. /\ r.blk = m.arg + 1 /\ r.file = file
      /\ r.st = IF m.arg = NBLK THEN "done" ELSE "read"
      /\ r \in [st : {"read", "write", "done"}, file : Files, blk : 0..(NBLK + 1)]
  <2> DEFINE s == IF m.arg = NBLK THEN "done" ELSE "read"
  <2>1. s \in {"done", "read"} /\ m.arg + 1 \in 0..(NBLK + 1)
    BY <1>3, <1>5
  <2>2. r = [srv[m.tid] EXCEPT !.blk = m.arg + 1, !.st = s]
    BY <1>2
  <2>3. r.st = s
    BY <1>4, <2>2
  <2> HIDE DEF s
  <2>4. r.blk = m.arg + 1 /\ r.file = srv[m.tid].file
    BY <1>4, <2>2
  <2>5. r \in [st : {"read", "write", "done"}, file : Files, blk : 0..(NBLK + 1)]
    BY <1>4, <2>1, <2>2
  <2> QED
    BY <1>5, <2>3, <2>4, <2>5 DEF s
<1>7. net' \subseteq net /\ net # {}
  BY <1>1, Taken
<1>8. calls # 0
  BY <1>7 DEF Base, Phase, Fresh
<1>9. srv' = [srv EXCEPT ![m.tid] = r]
  BY <1>1, <1>2
<1>10. /\ r.blk >= srv[m.tid].blk /\ r.blk <= tcxn.exp_blocknum
       /\ r.st = "read" => r.blk \in 1..NBLK
  BY <1>1, <1>3, <1>5, <1>6
<1> QED
  BY <1>1, <1>5, <1>6, <1>7, <1>8, <1>9, <1>10, ServerStepBase

(* A block that arrives in its turn is stored. *)
LEMMA ServerGetsDataBase == ASSUME OneTransfer, Base, ServerGetsData PROVE Base'
<1>1. PICK m \in net :
        /\ m.to = "server" /\ m.op = "data" /\ m.tid \in Tids
        /\ srv[m.tid].st = "write" /\ m.arg = srv[m.tid].blk + 1
        /\ srv' = [srv EXCEPT ![m.tid] = [@ EXCEPT !.blk = m.arg]]
        /\ Take(m, {})
        /\ UNCHANGED <<tcxn, main>>
  BY DEF ServerGetsData
<1>2. PICK r \in {[srv[m.tid] EXCEPT !.blk = m.arg]} : TRUE
  OBVIOUS
<1>3. Serves(m.tid) /\ Fine(m) /\ NBLK \in Nat /\ blocknum \in 0..NBLK
  BY <1>1, TftpAssumption DEF Base, Servers, Packets, TftpTypeOK
<1>4. srv[m.tid] \in [st : {"none", "read", "write", "done"}, file : Files, blk : 0..(NBLK + 1)]
  BY <1>1 DEF Base, TftpTypeOK
<1>5. m.arg \in 0..(NBLK + 1) /\ m.arg <= blocknum /\ tcxn.dir = "write"
  BY <1>1, <1>3, <1>4 DEF Serves, Fine
<1>6. /\ r.blk = m.arg /\ r.st = "write"
      /\ r \in [st : {"read", "write", "done"}, file : Files, blk : 0..(NBLK + 1)]
  BY <1>1, <1>2, <1>3, <1>4, <1>5
<1>7. net' \subseteq net /\ net # {}
  BY <1>1, Taken
<1>8. calls # 0
  BY <1>7 DEF Base, Phase, Fresh
<1>9. srv' = [srv EXCEPT ![m.tid] = r]
  BY <1>1, <1>2
<1>10. r.blk >= srv[m.tid].blk /\ r.blk <= blocknum
  BY <1>1, <1>4, <1>5, <1>6
<1> QED
  BY <1>1, <1>5, <1>6, <1>7, <1>8, <1>9, <1>10, ServerStepBase

(* A server stops. *)
LEMMA ServerStopsBase == ASSUME OneTransfer, Base, ServerStops PROVE Base'
<1>1. PICK t \in Tids :
        /\ srv[t].st \in {"read", "write"}
        /\ srv' = [srv EXCEPT ![t] = [@ EXCEPT !.st = "done"]]
        /\ \/ net' = net \cup {ToClient("error", t, 0)}
           \/ ToServer("error", t, 0) \in net /\ UNCHANGED net
        /\ UNCHANGED <<tcxn, main>>
  BY DEF ServerStops
<1>2. PICK r \in {[srv[t] EXCEPT !.st = "done"]} : TRUE
  OBVIOUS
<1>3. /\ Serves(t)
      /\ srv[t] \in [st : {"none", "read", "write", "done"}, file : Files, blk : 0..(NBLK + 1)]
  BY <1>1 DEF Base, Servers, TftpTypeOK
<1>4. /\ r.blk = srv[t].blk /\ r.st = "done"
      /\ r \in [st : {"read", "write", "done"}, file : Files, blk : 0..(NBLK + 1)]
  BY <1>2, <1>3
<1>5. calls # 0
  <2>1. NoTransfer.st = "none"
    BY DEF NoTransfer
  <2> QED
    BY <1>1, <2>1 DEF Base, Phase, Fresh
<1>6. srv' = [srv EXCEPT ![t] = r]
  BY <1>1, <1>2
<1>7. net' \subseteq net \/ net' \subseteq net \cup {ToClient("error", t, 0)}
  BY <1>1
<1>8. /\ r.blk >= srv[t].blk
      /\ tcxn.dir = "read" => r.blk <= tcxn.exp_blocknum
      /\ tcxn.dir = "write" => r.blk <= blocknum
  BY <1>3, <1>4 DEF Serves
<1> QED
  BY <1>1, <1>4, <1>5, <1>6, <1>7, <1>8, ServerStepBase

(* All steps of the network and the servers. *)
LEMMA NetworkBase == ASSUME OneTransfer, Base, Network PROVE Base'
  BY LoseBase, ServerAcceptBase, ServerSendBase, ServerGetsAckBase, ServerGetsDataBase,
     ServerStopsBase DEF Network

-----------------------------------------------------------------------------
(* tftp_handler *)

(* It leaves the foreground and the servers alone. *)
LEMMA HandlerStays ==
  ASSUME OneTransfer, Base, UNCHANGED <<main, srv>>, net # {},
         tcxn' \in Connection, tcxn'.dir = tcxn.dir, tcxn.exp_blocknum <= tcxn'.exp_blocknum
  PROVE  TftpTypeOK' /\ Phase' /\ Later /\ Servers'
<1>1. TftpTypeOK'
  BY DEF Base, TftpTypeOK, main
<1>2. Phase'
  BY DEF Base, Phase, Fresh, main
<1>3. Later
  BY DEF Base, TftpTypeOK, Later, main
<1>4. Servers'
  BY <1>1, <1>3, ServersStay DEF Base
<1> QED
  BY <1>1, <1>2, <1>3, <1>4

(* A packet that is dropped without an answer. *)
LEMMA QuietBase ==
  ASSUME OneTransfer, Base, UNCHANGED <<tcxn, main, srv>>, net # {}, net' \subseteq net
  PROVE  Base'
<1>1. TftpTypeOK' /\ Phase' /\ Later /\ Servers'
  BY HandlerStays DEF Base, TftpTypeOK, Connection
<1>2. Packets'
  BY <1>1, PacketsStay DEF Base
<1>3. Queued' /\ Uploading'
  BY DEF Base, Queued, Uploading, main
<1> QED
  BY <1>1, <1>2, <1>3 DEF Base

(* Answers to packets that were not expected. *)
LEMMA AnswerBase ==
  ASSUME OneTransfer, Base, UNCHANGED <<tcxn, main, srv>>, net # {}, NEW m,
         net' \subseteq net \cup {m}, m.to = "server",
         m.op = "error" \/ (m.op = "ack" /\ m.arg \in Int /\ m.arg < tcxn.exp_blocknum)
  PROVE  Base'
<1>1. TftpTypeOK' /\ Phase' /\ Later /\ Servers'
  BY HandlerStays DEF Base, TftpTypeOK, Connection
<1>2. Fine(m)'
  BY DEF Fine
<1>3. Packets'
  BY <1>1, <1>2, PacketsMore DEF Base
<1>4. Queued' /\ Uploading'
  BY DEF Base, Queued, Uploading, main
<1> QED
  BY <1>1, <1>3, <1>4 DEF Base

(* A block that is expected is appended to the queue. *)
LEMMA EnqueueBase ==
  ASSUME OneTransfer, Base, UNCHANGED <<main, srv>>,
         NEW m \in net, m.to = "client", m.op = "data", Expected(m), net' \subseteq net,
         tcxn' \in Connection, tcxn'.dir = tcxn.dir, tcxn'.rem_bytes = tcxn.rem_bytes,
         tcxn'.last_ack = tcxn.last_ack, tcxn'.queue = Append(tcxn.queue, m.arg),
         tcxn'.exp_blocknum = tcxn.exp_blocknum + 1
  PROVE  Base'
<1>1. /\ tcxn.dir = "read" /\ m.arg \in Block /\ m.arg.blk = tcxn.exp_blocknum
      /\ tcxn.queue \in Seq(Block) /\ tcxn.exp_blocknum \in Int /\ tcxn.exp_blocknum >= 1
      /\ tcxn.last_ack \in Int
  <2>1. Fine(m) /\ TftpTypeOK /\ NBLK \in Nat
    BY TftpAssumption DEF Base, Packets
  <2>2. tcxn.dir = "read" /\ m.arg \in Block /\ m.arg.blk = tcxn.exp_blocknum
    BY <2>1 DEF Fine, Expected
  <2>3. m.arg.blk \in 1..NBLK
    BY <2>2 DEF Block
  <2>4. tcxn.queue \in Seq(Block) /\ tcxn.last_ack \in Int
    BY <2>1 DEF TftpTypeOK, Connection
  <2> QED
    BY <2>1, <2>2, <2>3, <2>4
<1>2. TftpTypeOK' /\ Phase' /\ Later /\ Servers'
  BY <1>1, HandlerStays
<1>3. Packets'
  BY <1>2, PacketsStay DEF Base
<1>4. /\ Len(tcxn'.queue) = Len(tcxn.queue) + 1 /\ Len(tcxn.queue) \in Nat
      /\ DOMAIN tcxn'.queue = 1..(Len(tcxn.queue) + 1) /\ DOMAIN tcxn.queue = 1..Len(tcxn.queue)
      /\ \A i \in 1..Len(tcxn.queue) : tcxn'.queue[i] = tcxn.queue[i]
      /\ tcxn'.queue[Len(tcxn.queue) + 1] = m.arg
  BY <1>1
<1>5. \A i \in 1..Len(tcxn.queue) : tcxn.queue[i] \in Block /\ tcxn.queue[i].blk < tcxn.exp_blocknum
  BY <1>1, <1>4 DEF Base, Queued
<1>6. \A i \in DOMAIN tcxn'.queue : tcxn'.queue[i].blk < tcxn'.exp_blocknum
  <2> SUFFICES ASSUME NEW i \in DOMAIN tcxn'.queue
               PROVE  tcxn'.queue[i].blk < tcxn.exp_blocknum + 1
    OBVIOUS
  <2>1. CASE i \in 1..Len(tcxn.queue)
    <3>1. tcxn.queue[i].blk \in Int
      BY <1>5, <2>1 DEF Block
    <3> QED
      BY <1>1, <1>4, <1>5, <2>1, <3>1
  <2>2. CASE i = Len(tcxn.queue) + 1
    BY <1>1, <1>4, <2>2
  <2> QED
    BY <1>4, <2>1, <2>2
<1>7. tcxn'.queue # <<>> /\ Len(tcxn'.queue) < tcxn'.exp_blocknum
  <2>1. CASE tcxn.queue = <<>>
    <3>1. Len(tcxn.queue) = 0
      BY <2>1
    <3>2. tcxn'.queue # <<>>
      BY <1>1
    <3> QED
      BY <1>1, <1>4, <3>1, <3>2
  <2>2. CASE tcxn.queue # <<>>
    <3>1. Len(tcxn.queue) < tcxn.exp_blocknum
      BY <2>2 DEF Base, Queued
    <3>2. tcxn'.queue # <<>>
      BY <1>1
    <3> QED
      BY <1>1, <1>4, <3>1, <3>2
  <2> QED
    BY <2>1, <2>2
<1>8. Queued'
  BY <1>1, <1>6, <1>7 DEF Base, Queued, main
<1>9. Uploading'
  BY <1>1 DEF Uploading
<1> QED
  BY <1>2, <1>3, <1>8, <1>9 DEF Base

(* What else becomes of the connection then. *)
LEMMA Enqueued ==
  ASSUME Base, NEW m \in net, m.to = "client", m.op = "data", Expected(m),
         \/ tcxn' = Enqueue(m, [tcxn EXCEPT !.server_port = m.tid, !.open = TRUE])
         \/ tcxn' = Enqueue(m, tcxn)
  PROVE  /\ tcxn' \in Connection /\ tcxn'.dir = tcxn.dir /\ tcxn'.rem_bytes = tcxn.rem_bytes
         /\ tcxn'.last_ack = tcxn.last_ack /\ tcxn'.queue = Append(tcxn.queue, m.arg)
         /\ tcxn'.exp_blocknum = tcxn.exp_blocknum + 1
         /\ tcxn'.error = tcxn.error /\ (tcxn.open => tcxn'.open)
<1>1. Fine(m) /\ TftpTypeOK /\ NBLK \in Nat
  BY TftpAssumption DEF Base, Packets
<1>2. m.arg \in Block /\ m.tid \in Tids /\ tcxn \in Connection
  BY <1>1 DEF Fine, TftpTypeOK
<1>3. Append(tcxn.queue, m.arg) \in Seq(Block)
  BY <1>2 DEF Connection
<1>4. m.arg.blk \in 1..NBLK
  BY <1>2 DEF Block
<1>5. tcxn.exp_blocknum + 1 \in 0..(NBLK + 1)
  BY <1>1, <1>4 DEF Expected
<1>6. CASE tcxn' = Enqueue(m, [tcxn EXCEPT !.server_port = m.tid, !.open = TRUE])
  <2>1. tcxn' = [tcxn EXCEPT !.server_port = m.tid, !.open = TRUE,
                   !.queue = Append(tcxn.queue, m.arg), !.exp_blocknum = tcxn.exp_blocknum + 1]
    BY <1>2, <1>6 DEF Enqueue, Connection
  <2> QED
    BY <1>2, <1>3, <1>5, <2>1 DEF Connection
<1>7. CASE tcxn' = Enqueue(m, tcxn)
  <2>1. tcxn' = [tcxn EXCEPT !.queue = Append(tcxn.queue, m.arg),
                             !.exp_blocknum = tcxn.exp_blocknum + 1]
    BY <1>7 DEF Enqueue
  <2> QED
    BY <1>2, <1>3, <1>5, <2>1 DEF Connection
<1> QED
  BY <1>6, <1>7

(* DATA *)
LEMMA HandleDataBase ==
  ASSUME OneTransfer, Base, UNCHANGED <<main, srv>>,
         NEW m \in net, m.to = "client", HandleData(m)
  PROVE  Base'
<1>1. m.op = "data" /\ Fine(m) /\ TftpTypeOK
  BY DEF HandleData, Base, Packets
<1>2. m.arg.blk \in Int
  BY <1>1 DEF Fine, Block
<1>3. CASE /\ Expected(m) /\ Take(m, {})
           /\ \/ tcxn' = Enqueue(m, [tcxn EXCEPT !.server_port = m.tid, !.open = TRUE])
              \/ tcxn' = Enqueue(m, tcxn)
  <2>1. net' \subseteq net
    BY <1>3, Taken
  <2> QED
    BY <1>1, <1>3, <2>1, Enqueued, EnqueueBase
<1>5. CASE Take(m, Error(m.tid)) /\ UNCHANGED tcxn
  <2>1. PICK a \in Error(m.tid) : net' \subseteq net \cup {a}
    BY <1>5, Taken DEF Error
  <2>2. a.to = "server" /\ a.op = "error"
    BY DEF Error, ToServer
  <2> QED
    BY <1>5, <2>1, <2>2, AnswerBase
<1>6. CASE /\ UNCHANGED tcxn
           /\ Take(m, IF m.arg.blk < tcxn.exp_blocknum THEN Ack(m.arg.blk) ELSE {})
  <2>1. PICK a \in Ack(m.arg.blk) :
          net' \subseteq net \/ (m.arg.blk < tcxn.exp_blocknum /\ net' \subseteq net \cup {a})
    BY <1>6, Taken DEF Ack
  <2>2. a.to = "server" /\ a.op = "ack" /\ a.arg = m.arg.blk
    BY DEF Ack, ToServer
  <2>3. CASE net' \subseteq net
    BY <1>6, <2>3, QuietBase
  <2>4. CASE m.arg.blk < tcxn.exp_blocknum /\ net' \subseteq net \cup {a}
    BY <1>2, <1>6, <2>2, <2>4, AnswerBase
  <2> QED
    BY <2>1, <2>3, <2>4
<1> QED
  BY <1>3, <1>5, <1>6 DEF HandleData

(* ERROR *)
LEMMA HandleErrorBase ==
  ASSUME OneTransfer, Base, UNCHANGED <<main, srv>>, NEW m \in net, HandleError(m)
  PROVE  Base'
<1>1. tcxn' = [tcxn EXCEPT !.error = TRUE] /\ net' \subseteq net
  BY Taken DEF HandleError
<1>2. TftpTypeOK /\ tcxn \in Connection /\ tcxn.exp_blocknum \in Int
  BY TftpAssumption DEF Base, TftpTypeOK, Connection
<1>3. /\ tcxn' \in Connection /\ tcxn'.dir = tcxn.dir /\ tcxn'.open = tcxn.open
      /\ tcxn'.exp_blocknum = tcxn.exp_blocknum /\ tcxn'.last_ack = tcxn.last_ack
      /\ tcxn'.server_port = tcxn.server_port /\ tcxn'.queue = tcxn.queue
      /\ tcxn'.rem_bytes = tcxn.rem_bytes
  BY <1>1, <1>2 DEF Connection
<1>4. TftpTypeOK' /\ Phase' /\ Later /\ Servers'
  BY <1>2, <1>3, HandlerStays
<1>5. Packets'
  BY <1>1, <1>4, PacketsStay DEF Base
<1>6. Queued' /\ Uploading'
  BY <1>3 DEF Base, Queued, Uploading, main
<1> QED
  BY <1>4, <1>5, <1>6 DEF Base

(* An acknowledgement that is expected: a server has the block, and the     *)
(* block has been sent.                                                     *)
LEMMA AckedBase ==
  ASSUME OneTransfer, Base, UNCHANGED <<main, srv>>, NEW m \in net, m.to = "client",
         m.op = "ack", m.arg = tcxn.exp_blocknum, net' \subseteq net,
         m.tid = tcxn.server_port \/ m.arg = 0,
         tcxn' = [tcxn EXCEPT !.server_port = m.tid, !.open = (m.arg = 0 \/ tcxn.open),
                              !.exp_blocknum = tcxn.exp_blocknum + 1]
  PROVE  Base'
<1>1. TftpTypeOK /\ Fine(m) /\ m.tid \in Tids /\ NBLK \in Nat /\ NBLK >= 1
  BY TftpAssumption DEF Base, Packets, Fine
<1>2. Serves(m.tid) /\ srv[m.tid].blk \in Int /\ blocknum \in 0..NBLK
  BY <1>1 DEF Base, Servers, TftpTypeOK
<1>3. /\ tcxn.dir = "write" /\ m.arg \in Nat /\ tcxn.exp_blocknum <= srv[m.tid].blk
      /\ srv[m.tid].blk <= blocknum
  BY <1>1, <1>2 DEF Fine, Serves
<1>4. tcxn.exp_blocknum + 1 \in 0..(NBLK + 1)
  BY <1>1, <1>2, <1>3
<1>5. (m.arg = 0 \/ tcxn.open) \in BOOLEAN
  OBVIOUS
<1>6. /\ tcxn' \in Connection /\ tcxn'.dir = tcxn.dir
      /\ tcxn'.exp_blocknum = tcxn.exp_blocknum + 1 /\ tcxn'.last_ack = tcxn.last_ack
      /\ tcxn'.server_port = m.tid /\ tcxn'.queue = tcxn.queue
      /\ tcxn'.rem_bytes = tcxn.rem_bytes
  BY <1>1, <1>4, <1>5 DEF TftpTypeOK, Connection
<1>7. TftpTypeOK' /\ Phase' /\ Later /\ Servers'
  BY <1>1, <1>3, <1>6, HandlerStays
<1>8. Packets'
  BY <1>7, PacketsStay DEF Base
<1>9. tcxn.queue = <<>> /\ tcxn.last_ack <= tcxn.exp_blocknum /\ tcxn.last_ack \in Int
  BY <1>1, <1>3 DEF Base, Uploading, Queued, TftpTypeOK, Connection
<1>10. pc \notin ReadPcs
  BY <1>3 DEF Base, Phase
<1>11. Queued'
  <2>1. tcxn'.queue = <<>> /\ DOMAIN tcxn'.queue = {} /\ pc' = pc
    BY <1>6, <1>9 DEF main
  <2> QED
    BY <1>3, <1>6, <1>9, <1>10, <2>1 DEF Queued, ReadPcs
<1>12. Uploading'
  <2>1. pc \in {"request", "connect"} => m.arg = 0
    BY <1>1, <1>2, <1>3 DEF Base, Phase
  <2>2. pc \in {"send", "wait"} => tcxn.exp_blocknum = blocknum
    BY <1>2, <1>3 DEF Base, Phase, Uploading
  <2>3. tcxn'.queue = <<>> /\ srv' = srv /\ pc' = pc /\ blocknum' = blocknum
    BY <1>6, <1>9 DEF main
  <2> QED
    BY <1>1, <1>2, <1>3, <1>6, <2>1, <2>2, <2>3 DEF Uploading
<1> QED
  BY <1>7, <1>8, <1>11, <1>12 DEF Base

(* ACK *)
LEMMA HandleAckBase ==
  ASSUME OneTransfer, Base, UNCHANGED <<main, srv>>, NEW m \in net, m.to = "client",
         HandleAck(m)
  PROVE  Base'
<1>1. m.op = "ack" /\ tcxn \in Connection /\ tcxn.exp_blocknum \in Int
  BY TftpAssumption DEF HandleAck, Base, TftpTypeOK, Connection
<1>2. CASE /\ m.arg = tcxn.exp_blocknum /\ m.arg = 0
           /\ tcxn' = [tcxn EXCEPT !.server_port = m.tid, !.open = TRUE, !.exp_blocknum = 1]
           /\ Take(m, {})
  <2>1. tcxn.exp_blocknum + 1 = 1 /\ (m.arg = 0 \/ tcxn.open) = TRUE
    BY <1>2
  <2>2. tcxn' = [tcxn EXCEPT !.server_port = m.tid, !.open = (m.arg = 0 \/ tcxn.open),
                             !.exp_blocknum = tcxn.exp_blocknum + 1]
    BY <1>2, <2>1
  <2>3. net' \subseteq net
    BY <1>2, Taken
  <2> QED
    BY <1>1, <1>2, <2>2, <2>3, AckedBase
<1>3. CASE /\ m.arg = tcxn.exp_blocknum /\ m.arg # 0 /\ m.tid = tcxn.server_port
           /\ tcxn' = [tcxn EXCEPT !.exp_blocknum = tcxn.exp_blocknum + 1]
           /\ Take(m, {})
  <2>1. (m.arg = 0 \/ tcxn.open) = tcxn.open
    BY <1>1, <1>3 DEF Connection
  <2>2. tcxn' = [tcxn EXCEPT !.server_port = m.tid, !.open = (m.arg = 0 \/ tcxn.open),
                             !.exp_blocknum = tcxn.exp_blocknum + 1]
    BY <1>1, <1>3, <2>1 DEF Connection
  <2>3. net' \subseteq net
    BY <1>3, Taken
  <2> QED
    BY <1>1, <1>3, <2>2, <2>3, AckedBase
<1>4. CASE Take(m, Error(m.tid)) /\ UNCHANGED tcxn
  <2>1. PICK a \in Error(m.tid) : net' \subseteq net \cup {a}
    BY <1>4, Taken DEF Error
  <2>2. a.to = "server" /\ a.op = "error"
    BY DEF Error, ToServer
  <2> QED
    BY <1>4, <2>1, <2>2, AnswerBase
<1>5. CASE Take(m, {}) /\ UNCHANGED tcxn
  BY <1>5, Taken, QuietBase
<1> QED
  BY <1>2, <1>3, <1>4, <1>5 DEF HandleAck

(* The whole handler. *)
LEMMA HandlerBase == ASSUME OneTransfer, Base, tftp_handler PROVE Base'
  BY HandleDataBase, HandleErrorBase, HandleAckBase DEF tftp_handler

-----------------------------------------------------------------------------
(* The foreground *)

\* What the foreground may send.
May(m) ==
  /\ m.to = "server"
  /\ \/ m.op = "error"
     \/ m.op \in {"read", "write"} /\ m.op = tcxn.dir /\ m.arg = file
     \/ m.op = "ack" /\ m.arg \in Int /\ m.arg < tcxn.exp_blocknum
     \/ m.op = "data" /\ m.arg \in Int /\ m.arg <= blocknum

SendsFine == net' \subseteq net \/ \E m : May(m) /\ net' \subseteq net \cup {m}

(* A step within a call. *)
LEMMA WithinBase ==
  ASSUME OneTransfer, Base, pc # "idle", UNCHANGED <<file, calls, srv>>,
         tcxn' \in Connection, tcxn'.dir = tcxn.dir, tcxn'.exp_blocknum = tcxn.exp_blocknum,
         blocknum' \in 0..NBLK, blocknum <= blocknum', SendsFine,
         pc' \in Pcs, retries' \in 0..TRIES, next' \in 0..NBLK, bound' \in 0..1,
         pc' \notin {"idle", "uploaded"} => bound' = 1,
         pc' \in ReadPcs => tcxn.dir = "read",
         pc' \in WritePcs => tcxn.dir = "write",
         pc' \in {"request", "connect", "await", "send", "wait"} => retries' >= 1,
         pc' \in {"request", "connect"} => blocknum' = 0,
         pc' \in {"send", "wait"} => blocknum' >= 1,
         Queued', Uploading'
  PROVE  Base'
<1>1. TftpTypeOK /\ calls # 0 /\ MaxTransfers = 1
  BY DEF Base, Phase, Fresh, OneTransfer
<1>2. TftpTypeOK'
  BY <1>1 DEF TftpTypeOK
<1>3. Phase'
  BY <1>1 DEF Phase
<1>4. Later
  BY <1>1 DEF Later, TftpTypeOK, Connection
<1>5. Packets'
  <2>1. CASE net' \subseteq net
    BY <1>1, <1>2, <1>4, <2>1, PacketsStay DEF Base
  <2>2. CASE \E m : May(m) /\ net' \subseteq net \cup {m}
    <3>1. PICK m : May(m) /\ net' \subseteq net \cup {m}
      BY <2>2
    <3>2. Fine(m)
      BY <3>1 DEF May, Fine
    <3>3. Fine(m)'
      BY <1>1, <1>2, <1>4, <3>2, FineStays
    <3> QED
      BY <1>1, <1>2, <1>4, <3>1, <3>3, PacketsMore DEF Base
  <2> QED
    BY <2>1, <2>2 DEF SendsFine
<1>6. Servers'
  BY <1>1, <1>2, <1>4, ServersStay DEF Base
<1> QED
  BY <1>2, <1>3, <1>5, <1>6 DEF Base

(* The foreground acknowledges what has been received ... *)
LEMMA AckMay ==
  ASSUME NEW b \in Int, b < tcxn.exp_blocknum, net' = net \cup Ack(b)
  PROVE  SendsFine
<1>1. PICK m \in Ack(b) : TRUE
  BY DEF Ack
<1>2. May(m) /\ net' \subseteq net \cup {m}
  BY <1>1 DEF Ack, ToServer, May
<1> QED
  BY <1>2 DEF SendsFine

(* ... or an error. *)
LEMMA ErrorMay ==
  ASSUME NEW t, net' = net \cup Error(t)
  PROVE  SendsFine
<1>1. PICK m \in Error(t) : TRUE
  BY DEF Error
<1>2. May(m) /\ net' \subseteq net \cup {m}
  BY <1>1 DEF Error, ToServer, May
<1> QED
  BY <1>2 DEF SendsFine

(* tftp_read and tftp_write begin: nobody has sent anything before. *)
LEMMA BeginBase ==
  ASSUME OneTransfer, Base, NEW dir \in {"read", "write"}, BeginCall(dir)
  PROVE  Base'
<1>1. calls = 0 /\ Fresh /\ TftpTypeOK /\ MaxTransfers = 1 /\ TRIES \in Nat /\ TRIES >= 1
      /\ NBLK \in Nat /\ NBLK >= 1
  BY TftpAssumption DEF Base, TftpTypeOK, Phase, OneTransfer, BeginCall
<1>2. /\ tcxn \in Connection /\ tcxn.queue = <<>> /\ tcxn.last_ack = 0 /\ 0 \in 0..TFTP_PKTSIZE
      /\ TFTP_PORT \notin Tids /\ <<>> \in Seq(Block)
  <2>1. tcxn \in Connection /\ tcxn.queue = <<>> /\ tcxn.last_ack = 0
    BY <1>1 DEF TftpTypeOK, Fresh
  <2>2. TFTP_PORT \notin Tids /\ 0 \in 0..TFTP_PKTSIZE
    BY TftpAssumption DEF TFTP_PORT
  <2>3. <<>> \in Seq(Block)
    OBVIOUS
  <2> QED
    BY <2>1, <2>2, <2>3
<1>3. /\ tcxn' \in Connection /\ tcxn'.dir = dir /\ ~tcxn'.open
      /\ tcxn'.server_port = TFTP_PORT /\ tcxn'.queue = <<>> /\ tcxn'.last_ack = 0
      /\ tcxn'.exp_blocknum = (IF dir = "read" THEN 1 ELSE 0)
      /\ dir = "read" => tcxn'.rem_bytes = 0
  <2>1. CASE dir = "read"
    <3>1. tcxn' = [tcxn EXCEPT !.dir = dir, !.open = FALSE, !.error = FALSE,
             !.server_port = TFTP_PORT, !.exp_blocknum = 1, !.last_ack = 0,
             !.rem_bytes = 0, !.queue = <<>>]
      BY <2>1 DEF BeginCall
    <3>2. 0 \in 0..(NBLK + 1) /\ 1 \in 0..(NBLK + 1)
      BY <1>1
    <3>3. tcxn' \in Connection
      BY <1>2, <2>1, <3>1, <3>2 DEF Connection
    <3> QED
      BY <1>2, <2>1, <3>1, <3>3 DEF Connection
  <2>2. CASE dir = "write"
    <3>1. tcxn' = [tcxn EXCEPT !.dir = dir, !.open = FALSE, !.error = FALSE,
             !.server_port = TFTP_PORT, !.exp_blocknum = 0, !.last_ack = tcxn.last_ack,
             !.rem_bytes = tcxn.rem_bytes, !.queue = tcxn.queue]
      BY <2>2 DEF BeginCall
    <3> QED
      BY <1>1, <1>2, <2>2, <3>1 DEF Connection
  <2> QED
    BY <2>1, <2>2
<1>4. /\ pc' = "request" /\ bound' = 1 /\ retries' = TRIES /\ calls' = 1 /\ file' \in Files
      /\ blocknum' = 0 /\ next' = 0 /\ net' = {} /\ srv' = srv
      /\ \A t \in Tids : srv[t].st = "none" /\ srv[t].blk = 0
  <2>1. NoTransfer.st = "none" /\ NoTransfer.blk = 0
    BY DEF NoTransfer
  <2>2. \A t \in Tids : srv[t].st = "none" /\ srv[t].blk = 0
    BY <1>1, <2>1 DEF Fresh
  <2> QED
    BY <1>1, <2>2 DEF BeginCall, Fresh
<1>5. TftpTypeOK'
  BY <1>1, <1>3, <1>4 DEF TftpTypeOK, Pcs
<1>6. Phase' /\ Packets'
  BY <1>1, <1>4 DEF Phase, Packets, ReadPcs, WritePcs
<1>7. Servers'
  BY <1>3, <1>4 DEF Servers, Serves
<1>8. Queued'
  <2>1. DOMAIN tcxn'.queue = {}
    BY <1>3
  <2> QED
    BY <1>3, <1>4, <2>1 DEF Queued
<1>9. Uploading'
  BY <1>2, <1>3, <1>4 DEF Uploading
<1> QED
  BY <1>5, <1>6, <1>7, <1>8, <1>9 DEF Base

(* What every step within a call starts from. *)
LEMMA Within ==
  ASSUME OneTransfer, Base, pc # "idle"
  PROVE  /\ TftpTypeOK /\ tcxn \in Connection /\ MaxTransfers = 1 /\ bound \in 0..1
         /\ pc # "uploaded" => bound = 1 /\ bound - 1 \in 0..1
         /\ TRIES \in 1..TRIES /\ NBLK \in Nat /\ NBLK >= 1
         /\ tcxn.exp_blocknum \in Int /\ tcxn.last_ack \in Int
         /\ blocknum \in 0..NBLK /\ next \in 0..NBLK /\ retries \in 0..TRIES
  BY TftpAssumption DEF Base, Phase, TftpTypeOK, Connection, OneTransfer

(* A step that changes neither the connection nor the block. *)
LEMMA IdleBase ==
  ASSUME OneTransfer, Base, pc # "idle", UNCHANGED <<tcxn, file, calls, srv, next, blocknum>>,
         SendsFine,
         pc' \in Pcs, retries' \in 0..TRIES, bound' \in 0..1,
         pc' \notin {"idle", "uploaded"} => bound' = 1,
         pc' \in ReadPcs => tcxn.dir = "read",
         pc' \in WritePcs => tcxn.dir = "write",
         pc' \in {"request", "connect", "await", "send", "wait"} => retries' >= 1,
         pc' \in {"request", "connect"} => pc \in {"request", "connect"},
         pc' \in {"send", "wait"} => pc \in {"send", "wait"},
         pc' \in {"remove", "unlink"} => pc \in {"remove", "unlink"},
         pc' = "char" => tcxn.rem_bytes = 0
  PROVE  Base'
<1>1. /\ tcxn \in Connection /\ NBLK \in Nat /\ blocknum \in 0..NBLK /\ next \in 0..NBLK
  BY Within
<1>2. Queued'
  BY <1>1 DEF Base, Queued, Connection
<1>3. Uploading'
  BY DEF Base, Uploading
<1>4. /\ pc' \in {"request", "connect"} => blocknum' = 0
      /\ pc' \in {"send", "wait"} => blocknum' >= 1
  BY DEF Base, Phase
<1> QED
  BY <1>1, <1>2, <1>3, <1>4, WithinBase

(* The request is sent. *)
LEMMA RwrqBase == ASSUME OneTransfer, Base, tftp_rwrq PROVE Base'
<1>1. pc = "request" /\ UNCHANGED <<tcxn, retries, blocknum, next, file, calls, srv>>
  BY DEF tftp_rwrq
<1>2. retries \in 0..TRIES /\ retries >= 1 /\ bound = 1 /\ tcxn.dir \in {"read", "write"}
  BY <1>1, Within DEF Base, Phase, Connection
<1>3. CASE net' = net \cup {ToServer(tcxn.dir, tcxn.server_port, file)} /\ pc' = "connect"
           /\ bound' = bound
  <2>1. PICK m \in {ToServer(tcxn.dir, tcxn.server_port, file)} : TRUE
    OBVIOUS
  <2>2. May(m)
    BY <1>2, <2>1 DEF May, ToServer
  <2>3. SendsFine
    BY <1>3, <2>1, <2>2 DEF SendsFine
  <2> QED
    BY <1>1, <1>2, <1>3, <2>3, IdleBase DEF Pcs, ReadPcs, WritePcs
<1>4. CASE GiveUp /\ net' = net
  <2>1. SendsFine
    BY <1>4 DEF SendsFine
  <2> QED
    BY <1>1, <1>2, <1>4, <2>1, IdleBase DEF Pcs, ReadPcs, WritePcs, GiveUp
<1> QED
  BY <1>3, <1>4 DEF tftp_rwrq

(* The wait for the first answer is left. *)
LEMMA ConnectedBase ==
  ASSUME OneTransfer, Base, pc = "connect", Connected,
         tcxn.error \/ tcxn.open, UNCHANGED <<tcxn, next, file, calls, net, srv>>
  PROVE  Base'
<1>1. /\ TftpTypeOK /\ tcxn \in Connection /\ bound = 1 /\ bound - 1 \in 0..1
      /\ retries \in 0..TRIES /\ TRIES \in 1..TRIES /\ NBLK \in Nat /\ NBLK >= 1
      /\ blocknum = 0 /\ next \in 0..NBLK /\ tcxn.exp_blocknum \in Int
  BY Within DEF Base, Phase
<1>2. SendsFine
  BY DEF SendsFine
<1>3. CASE tcxn.error
  BY <1>1, <1>2, <1>3, IdleBase DEF Pcs, ReadPcs, WritePcs, Connected, GiveUp
<1>4. CASE ~tcxn.error /\ tcxn.dir = "read"
  <2>1. tcxn.rem_bytes = 0
    BY <1>4 DEF Base, Queued
  <2> QED
    BY <1>1, <1>2, <1>4, <2>1, IdleBase DEF Pcs, ReadPcs, WritePcs, Connected
<1>5. CASE ~tcxn.error /\ tcxn.dir # "read"
  <2>1. tcxn.dir = "write" /\ pc' = "send" /\ blocknum' = 1 /\ retries' = TRIES /\ bound' = 1
    BY <1>1, <1>5 DEF Connected, Connection
  <2>2. tcxn.exp_blocknum = 1 /\ tcxn.queue = <<>>
    BY <1>5, <2>1 DEF Base, Uploading
  <2>3. Queued'
    BY <1>1, <2>1 DEF Base, Queued
  <2>4. Uploading'
    BY <1>1, <2>1, <2>2 DEF Base, Uploading
  <2> QED
    BY <1>1, <1>2, <2>1, <2>3, <2>4, WithinBase DEF Pcs, ReadPcs, WritePcs
<1> QED
  BY <1>3, <1>4, <1>5

(* ... because the connection is open. *)
LEMMA ConnectOpenBase == ASSUME OneTransfer, Base, ConnectOpen PROVE Base'
  BY ConnectedBase DEF ConnectOpen

(* ... or because the timer has run out. *)
LEMMA ConnectTimeoutBase == ASSUME OneTransfer, Base, ConnectTimeout PROVE Base'
<1>1. CASE tcxn.error \/ (tcxn.dir = "read" /\ tcxn.open)
  BY <1>1, ConnectedBase DEF ConnectTimeout
<1>2. CASE ~(tcxn.error \/ (tcxn.dir = "read" /\ tcxn.open))
  <2>1. /\ pc = "connect" /\ retries' = retries - 1
        /\ UNCHANGED <<tcxn, next, file, calls, net, srv, blocknum>>
        /\ \/ retries = 1 /\ pc' = "idle" /\ bound' = bound - 1
           \/ retries # 1 /\ pc' = "request" /\ bound' = bound
    BY <1>2 DEF ConnectTimeout, GiveUp
  <2>2. retries \in 1..TRIES /\ bound = 1 /\ bound - 1 \in 0..1
    BY <2>1, Within DEF Base, Phase
  <2>3. retries - 1 \in 0..TRIES /\ (retries # 1 => retries - 1 >= 1)
    BY <2>2, TftpAssumption
  <2>4. SendsFine
    BY <2>1 DEF SendsFine
  <2>5. CASE retries = 1 /\ pc' = "idle" /\ bound' = bound - 1
    BY <2>1, <2>2, <2>3, <2>4, <2>5, IdleBase DEF Pcs, ReadPcs, WritePcs
  <2>6. CASE retries # 1 /\ pc' = "request" /\ bound' = bound
    BY <2>1, <2>2, <2>3, <2>4, <2>6, IdleBase DEF Pcs, ReadPcs, WritePcs
  <2> QED
    BY <2>1, <2>5, <2>6
<1> QED
  BY <1>1, <1>2

-----------------------------------------------------------------------------
(* tftp_in_char and tftp_end *)

(* A step of them within a call. *)
LEMMA ReadBase ==
  ASSUME OneTransfer, Base, pc \in ReadPcs, UNCHANGED <<blocknum, file, bound, calls, srv>>,
         tcxn' \in Connection, tcxn'.dir = tcxn.dir, tcxn'.exp_blocknum = tcxn.exp_blocknum,
         SendsFine, pc' \in ReadPcs, retries' \in 0..TRIES, next' \in 0..NBLK,
         pc' = "await" => retries' >= 1,
         \A i \in DOMAIN tcxn'.queue : tcxn'.queue[i].blk < tcxn.exp_blocknum,
         tcxn'.queue # <<>> => Len(tcxn'.queue) < tcxn.exp_blocknum,
         tcxn'.last_ack <= tcxn.exp_blocknum,
         pc' \in {"remove", "unlink"} => tcxn'.queue # <<>> /\ tcxn'.rem_bytes = 0,
         pc' = "char" /\ tcxn'.rem_bytes > 0 => tcxn'.queue # <<>>
  PROVE  Base'
<1>1. /\ tcxn.dir = "read" /\ bound = 1 /\ blocknum \in 0..NBLK /\ NBLK \in Nat
      /\ pc # "idle"
  BY Within DEF Base, Phase, ReadPcs
<1>2. Queued'
  BY DEF Base, Queued, ReadPcs
<1>3. Uploading'
  BY <1>1 DEF Uploading
<1> QED
  BY <1>1, <1>2, <1>3, WithinBase DEF ReadPcs, WritePcs, Pcs

(* The oldest block, and the blocks after it. *)
LEMMA Oldest ==
  ASSUME OneTransfer, Base, pc \in ReadPcs, tcxn.queue # <<>>
  PROVE  /\ Head(tcxn.queue) = tcxn.queue[1] /\ Head(tcxn.queue) \in Block
         /\ Head(tcxn.queue).blk < tcxn.exp_blocknum
         /\ Head(tcxn.queue).blk \in 1..NBLK
         /\ Len(tcxn.queue) \in 1..NBLK /\ Len(tcxn.queue) < tcxn.exp_blocknum
         /\ Tail(tcxn.queue) \in Seq(Block) /\ Len(Tail(tcxn.queue)) = Len(tcxn.queue) - 1
         /\ DOMAIN Tail(tcxn.queue) = 1..(Len(tcxn.queue) - 1)
         /\ \A i \in DOMAIN Tail(tcxn.queue) :
              Tail(tcxn.queue)[i] = tcxn.queue[i + 1] /\ i + 1 \in DOMAIN tcxn.queue
<1>1. /\ tcxn.queue \in Seq(Block) /\ tcxn.exp_blocknum \in 0..(NBLK + 1) /\ NBLK \in Nat
  BY Within DEF Connection, ReadPcs
<1>2. Len(tcxn.queue) \in Nat /\ Len(tcxn.queue) # 0
  BY <1>1
<1>3. Len(tcxn.queue) < tcxn.exp_blocknum
  BY DEF Base, Queued
<1>4. Head(tcxn.queue) = tcxn.queue[1] /\ 1 \in DOMAIN tcxn.queue /\ tcxn.queue[1] \in Block
  BY <1>1, <1>2
<1>5. tcxn.queue[1].blk < tcxn.exp_blocknum
  BY <1>4 DEF Base, Queued
<1>6. tcxn.queue[1].blk \in 1..NBLK
  BY <1>4 DEF Block
<1>7. Tail(tcxn.queue) \in Seq(Block) /\ Len(Tail(tcxn.queue)) = Len(tcxn.queue) - 1
  BY <1>1
<1>8. \A i \in 1..(Len(tcxn.queue) - 1) : Tail(tcxn.queue)[i] = tcxn.queue[i + 1]
  BY <1>1, <1>2
<1> QED
  BY <1>1, <1>2, <1>3, <1>4, <1>5, <1>6, <1>7, <1>8

(* The next character is returned. *)
LEMMA InCharNextBase == ASSUME OneTransfer, Base, InCharNext PROVE Base'
<1>1. /\ pc = "char" /\ tcxn.rem_bytes > 0
      /\ tcxn' = [tcxn EXCEPT !.rem_bytes = tcxn.rem_bytes - 1]
      /\ pc' = IF tcxn.rem_bytes = 1 THEN "remove" ELSE "char"
      /\ UNCHANGED <<retries, blocknum, next, file, bound, calls, net, srv>>
  BY DEF InCharNext, NextChar
<1>2. /\ tcxn \in Connection /\ tcxn.rem_bytes \in 1..TFTP_PKTSIZE /\ TFTP_PKTSIZE \in Nat
      /\ tcxn.rem_bytes - 1 \in 0..TFTP_PKTSIZE
      /\ retries \in 0..TRIES /\ next \in 0..NBLK /\ tcxn.queue # <<>>
  BY <1>1, TftpAssumption, Within DEF Connection, Base, Queued
<1>3. /\ tcxn' \in Connection /\ tcxn'.dir = tcxn.dir /\ tcxn'.queue = tcxn.queue
      /\ tcxn'.exp_blocknum = tcxn.exp_blocknum /\ tcxn'.last_ack = tcxn.last_ack
      /\ tcxn'.rem_bytes = tcxn.rem_bytes - 1
  BY <1>1, <1>2 DEF Connection
<1>4. SendsFine
  BY <1>1 DEF SendsFine
<1>5. pc \in ReadPcs /\ pc' \in {"remove", "char"} /\ (pc' = "remove" => tcxn.rem_bytes = 1)
  BY <1>1 DEF ReadPcs
<1> QED
  BY <1>1, <1>2, <1>3, <1>4, <1>5, ReadBase DEF Base, Queued, ReadPcs

(* The end of the file. *)
LEMMA InCharEofBase == ASSUME OneTransfer, Base, InCharEof PROVE Base'
<1>1. /\ pc = "char" /\ pc' = "eof"
      /\ UNCHANGED <<tcxn, retries, blocknum, next, file, bound, calls, net, srv>>
  BY DEF InCharEof
<1>2. retries \in 0..TRIES /\ bound = 1 /\ tcxn.dir = "read"
  BY <1>1, Within DEF Base, Phase, ReadPcs
<1>3. SendsFine
  BY <1>1 DEF SendsFine
<1> QED
  BY <1>1, <1>2, <1>3, IdleBase DEF ReadPcs, WritePcs, Pcs

(* A wait for the next block begins. *)
LEMMA InCharAwaitBase == ASSUME OneTransfer, Base, InCharAwait PROVE Base'
<1>1. /\ pc = "char" /\ pc' = "await" /\ retries' = TRIES
      /\ UNCHANGED <<tcxn, blocknum, next, file, bound, calls, net, srv>>
  BY DEF InCharAwait
<1>2. TRIES \in 0..TRIES /\ TRIES >= 1 /\ bound = 1 /\ tcxn.dir = "read"
  BY <1>1, Within DEF Base, Phase, ReadPcs
<1>3. SendsFine
  BY <1>1 DEF SendsFine
<1> QED
  BY <1>1, <1>2, <1>3, IdleBase DEF ReadPcs, WritePcs, Pcs

(* The oldest block is begun. *)
LEMMA InCharBlockBase == ASSUME OneTransfer, Base, InCharBlock PROVE Base'
<1> DEFINE b == Head(tcxn.queue)
           open == b.size >= TFTP_PKTSIZE /\ tcxn.open
           rem == IF b.size = 0 THEN 0 ELSE b.size - 1
           c == [tcxn EXCEPT !.rem_bytes = b.size, !.last_ack = b.blk + 1, !.open = open]
<1>1. /\ pc \in {"char", "await"} /\ tcxn.queue # <<>>
      /\ IF b.size = 0 THEN pc' = "remove" /\ tcxn' = c ELSE NextChar(c, 1)
      /\ net' = IF b.size = 0 THEN net ELSE net \cup Ack(b.blk)
      /\ UNCHANGED <<retries, blocknum, next, file, bound, calls, srv>>
  BY DEF InCharBlock, NextChar
<1>2. /\ tcxn \in Connection /\ retries \in 0..TRIES /\ next \in 0..NBLK
      /\ NBLK \in Nat /\ TFTP_PKTSIZE \in Nat /\ tcxn.exp_blocknum \in Int
      /\ pc \in ReadPcs
  BY <1>1, Within, TftpAssumption DEF ReadPcs
<1>3. b \in Block /\ b.blk \in 1..NBLK /\ b.blk < tcxn.exp_blocknum /\ b.size \in 0..TFTP_PKTSIZE
  BY <1>1, <1>2, Oldest DEF Block
<1> HIDE DEF b
<1>4. open \in BOOLEAN /\ b.blk + 1 \in 0..(NBLK + 1) /\ rem \in 0..TFTP_PKTSIZE
  BY <1>2, <1>3
<1> HIDE DEF open
<1>5. c.rem_bytes = b.size
  BY <1>2 DEF Connection
<1>6. tcxn' = [tcxn EXCEPT !.rem_bytes = rem, !.last_ack = b.blk + 1, !.open = open]
  <2>1. CASE b.size = 0
    BY <1>1, <2>1
  <2>2. CASE b.size # 0
    <3>1. tcxn' = [c EXCEPT !.rem_bytes = c.rem_bytes - 1]
      BY <1>1, <2>2 DEF NextChar
    <3>2. tcxn' = [c EXCEPT !.rem_bytes = b.size - 1]
      BY <1>5, <3>1
    <3> QED
      BY <1>2, <2>2, <3>2 DEF Connection
  <2> QED
    BY <2>1, <2>2
<1>7. /\ pc' \in {"char", "remove"}
      /\ pc' = "remove" => rem = 0
  <2>1. CASE b.size = 0
    BY <1>1, <2>1
  <2>2. CASE b.size # 0
    <3>1. pc' = IF b.size = 1 THEN "remove" ELSE "char"
      BY <1>1, <1>5, <2>2 DEF NextChar
    <3> QED
      BY <2>2, <3>1
  <2> QED
    BY <2>1, <2>2
<1> HIDE DEF rem, c
<1>8. /\ tcxn' \in Connection /\ tcxn'.dir = tcxn.dir /\ tcxn'.queue = tcxn.queue
      /\ tcxn'.exp_blocknum = tcxn.exp_blocknum /\ tcxn'.last_ack = b.blk + 1
      /\ tcxn'.rem_bytes = rem
  BY <1>2, <1>4, <1>6 DEF Connection
<1>9. SendsFine
  <2>1. CASE b.size = 0
    BY <1>1, <2>1 DEF SendsFine
  <2>2. CASE b.size # 0
    <3>1. net' = net \cup Ack(b.blk) /\ b.blk \in Int
      BY <1>1, <1>3, <2>2
    <3> QED
      BY <1>3, <3>1, AckMay
  <2> QED
    BY <2>1, <2>2
<1>10. tcxn'.last_ack <= tcxn.exp_blocknum
  BY <1>2, <1>3, <1>8
<1> QED
  BY <1>1, <1>2, <1>7, <1>8, <1>9, <1>10, ReadBase DEF Base, Queued, ReadPcs

(* A wait ends without a block: the last one is acknowledged again. *)
LEMMA InCharTimeoutBase == ASSUME OneTransfer, Base, InCharTimeout PROVE Base'
<1>1. /\ pc = "await" /\ net' = net \cup Ack(tcxn.last_ack - 1) /\ retries' = retries - 1
      /\ IF retries = 1
           THEN pc' = "eof" /\ tcxn' = [tcxn EXCEPT !.open = FALSE, !.error = TRUE]
           ELSE UNCHANGED <<pc, tcxn>>
      /\ UNCHANGED <<blocknum, next, file, bound, calls, srv>>
  BY DEF InCharTimeout
<1>2. /\ tcxn \in Connection /\ next \in 0..NBLK /\ pc \in ReadPcs /\ TRIES \in Nat
      /\ tcxn.exp_blocknum \in Int /\ tcxn.last_ack \in Int /\ retries \in 0..TRIES
  BY <1>1, Within, TftpAssumption DEF ReadPcs
<1>3. retries >= 1 /\ tcxn.last_ack <= tcxn.exp_blocknum
  BY <1>1 DEF Base, Phase, Queued
<1>4. tcxn.last_ack - 1 \in Int /\ tcxn.last_ack - 1 < tcxn.exp_blocknum
      /\ retries' \in 0..TRIES /\ (retries # 1 => retries' >= 1)
  BY <1>1, <1>2, <1>3
<1>5. SendsFine
  BY <1>1, <1>4, AckMay
<1>6. /\ tcxn' \in Connection /\ tcxn'.dir = tcxn.dir /\ tcxn'.queue = tcxn.queue
      /\ tcxn'.exp_blocknum = tcxn.exp_blocknum /\ tcxn'.last_ack = tcxn.last_ack
  BY <1>1, <1>2 DEF Connection
<1>7. pc' \in {"eof", "await"} /\ (pc' = "await" => retries # 1)
  BY <1>1
<1> QED
  BY <1>1, <1>2, <1>3, <1>4, <1>5, <1>6, <1>7, ReadBase DEF Base, Queued, ReadPcs

(* The used-up block is removed: the link is read ... *)
LEMMA RemoveLoadBase == ASSUME OneTransfer, Base, RemoveLoad PROVE Base'
<1>1. /\ pc = "remove" /\ pc' = "unlink" /\ next' = Len(tcxn.queue) - 1
      /\ UNCHANGED <<tcxn, retries, blocknum, file, bound, calls, net, srv>>
  BY DEF RemoveLoad
<1>2. /\ tcxn.queue # <<>> /\ tcxn.rem_bytes = 0 /\ pc \in ReadPcs
  BY <1>1 DEF Base, Queued, ReadPcs
<1>3. tcxn \in Connection /\ retries \in 0..TRIES /\ NBLK \in Nat
  BY <1>1, Within
<1>4. Len(tcxn.queue) \in 1..NBLK
  BY <1>2, Oldest
<1>5. SendsFine
  BY <1>1 DEF SendsFine
<1>6. next' \in 0..NBLK
  BY <1>1, <1>3, <1>4
<1> QED
  BY <1>1, <1>2, <1>3, <1>5, <1>6, ReadBase DEF Base, Queued, ReadPcs

(* ... and the head is written, over what was added in between. *)
LEMMA RemoveStoreBase == ASSUME OneTransfer, Base, RemoveStore PROVE Base'
<1> DEFINE rest == IF pc = "unlink" /\ next = 0 THEN <<>> ELSE Tail(tcxn.queue)
<1>1. /\ pc \in {"remove", "unlink"}
      /\ tcxn' = [tcxn EXCEPT !.queue = rest]
      /\ \/ pc' = "eof" /\ net' = net \cup Ack(Head(tcxn.queue).blk)
         \/ pc' = "char" /\ net' = net
      /\ next' = 0 /\ UNCHANGED <<retries, blocknum, file, bound, calls, srv>>
  BY DEF RemoveStore
<1>2. /\ tcxn.queue # <<>> /\ tcxn.rem_bytes = 0 /\ pc \in ReadPcs
  BY <1>1 DEF Base, Queued, ReadPcs
<1>3. /\ tcxn \in Connection /\ retries \in 0..TRIES /\ 0 \in 0..NBLK
      /\ tcxn.exp_blocknum \in Int /\ tcxn.queue \in Seq(Block)
  BY <1>1, Within DEF Connection
<1>4. /\ rest \in Seq(Block)
      /\ \A i \in DOMAIN rest : rest[i].blk < tcxn.exp_blocknum
      /\ rest # <<>> => Len(rest) < tcxn.exp_blocknum
  <2>1. CASE rest = <<>>
    <3>1. <<>> \in Seq(Block) /\ DOMAIN <<>> = {}
      OBVIOUS
    <3> QED
      BY <2>1, <3>1
  <2>2. CASE rest = Tail(tcxn.queue)
    <3>1. /\ Tail(tcxn.queue) \in Seq(Block) /\ Len(tcxn.queue) < tcxn.exp_blocknum
          /\ Len(Tail(tcxn.queue)) = Len(tcxn.queue) - 1 /\ Len(tcxn.queue) \in Nat
          /\ \A i \in DOMAIN Tail(tcxn.queue) :
               Tail(tcxn.queue)[i] = tcxn.queue[i + 1] /\ i + 1 \in DOMAIN tcxn.queue
      BY <1>2, <1>3, Oldest
    <3>2. \A i \in DOMAIN Tail(tcxn.queue) : Tail(tcxn.queue)[i].blk < tcxn.exp_blocknum
      BY <3>1 DEF Base, Queued
    <3>3. Len(Tail(tcxn.queue)) < tcxn.exp_blocknum
      BY <1>3, <3>1
    <3> QED
      BY <2>2, <3>1, <3>2, <3>3
  <2> QED
    BY <2>1, <2>2
<1>5. SendsFine
  <2>1. CASE net' = net \cup Ack(Head(tcxn.queue).blk)
    <3>1. Head(tcxn.queue).blk \in 1..NBLK /\ Head(tcxn.queue).blk < tcxn.exp_blocknum
      BY <1>2, Oldest
    <3> QED
      BY <2>1, <3>1, AckMay
  <2>2. CASE net' = net
    BY <2>2 DEF SendsFine
  <2> QED
    BY <1>1, <2>1, <2>2
<1> HIDE DEF rest
<1>6. /\ tcxn' \in Connection /\ tcxn'.dir = tcxn.dir /\ tcxn'.queue = rest
      /\ tcxn'.exp_blocknum = tcxn.exp_blocknum /\ tcxn'.last_ack = tcxn.last_ack
      /\ tcxn'.rem_bytes = tcxn.rem_bytes
  BY <1>1, <1>3, <1>4 DEF Connection
<1>7. tcxn.last_ack <= tcxn.exp_blocknum /\ pc' \in {"eof", "char"}
  BY <1>1 DEF Base, Queued
<1> QED
  BY <1>1, <1>2, <1>3, <1>4, <1>5, <1>6, <1>7, ReadBase DEF ReadPcs

(* The caller is told how it went. *)
LEMMA EndReportBase == ASSUME OneTransfer, Base, EndReport PROVE Base'
<1>1. /\ pc \in {"eof", "char"} /\ pc' = "drain"
      /\ net' = net \/ net' = net \cup Error(tcxn.server_port)
      /\ UNCHANGED <<tcxn, retries, blocknum, next, file, bound, calls, srv>>
  BY DEF EndReport
<1>2. retries \in 0..TRIES /\ bound = 1 /\ tcxn.dir = "read"
  BY <1>1, Within DEF Base, Phase, ReadPcs
<1>3. SendsFine
  BY <1>1, ErrorMay DEF SendsFine
<1> QED
  BY <1>1, <1>2, <1>3, IdleBase DEF ReadPcs, WritePcs, Pcs

(* The queue is emptied. *)
LEMMA EndDrainBase == ASSUME OneTransfer, Base, EndDrain PROVE Base'
<1>1. /\ pc = "drain" /\ pc' = "free_port" /\ tcxn' = [tcxn EXCEPT !.queue = <<>>]
      /\ UNCHANGED <<retries, blocknum, next, file, bound, calls, net, srv>>
  BY DEF EndDrain
<1>2. /\ tcxn \in Connection /\ <<>> \in Seq(Block) /\ pc \in ReadPcs /\ retries \in 0..TRIES
      /\ next \in 0..NBLK /\ tcxn.last_ack <= tcxn.exp_blocknum
  BY <1>1, Within DEF ReadPcs, Base, Queued
<1>3. /\ tcxn' \in Connection /\ tcxn'.dir = tcxn.dir /\ tcxn'.queue = <<>>
      /\ tcxn'.exp_blocknum = tcxn.exp_blocknum /\ tcxn'.last_ack = tcxn.last_ack
  BY <1>1, <1>2 DEF Connection
<1>4. SendsFine /\ DOMAIN tcxn'.queue = {}
  BY <1>1, <1>3 DEF SendsFine
<1> QED
  BY <1>1, <1>2, <1>3, <1>4, ReadBase DEF ReadPcs

(* The port is freed. *)
LEMMA EndFreePortBase == ASSUME OneTransfer, Base, EndFreePort PROVE Base'
<1>1. /\ pc = "free_port" /\ pc' = "idle" /\ bound' = bound - 1
      /\ UNCHANGED <<tcxn, retries, blocknum, next, file, calls, net, srv>>
  BY DEF EndFreePort
<1>2. retries \in 0..TRIES /\ bound - 1 \in 0..1
  BY <1>1, Within
<1>3. SendsFine
  BY <1>1 DEF SendsFine
<1> QED
  BY <1>1, <1>2, <1>3, IdleBase DEF ReadPcs, WritePcs, Pcs

-----------------------------------------------------------------------------
(* tftp_write *)

(* A block is sent, or no buffer is left. *)
LEMMA WriteSendBase == ASSUME OneTransfer, Base, WriteSend PROVE Base'
<1>1. pc = "send" /\ UNCHANGED <<tcxn, retries, blocknum, next, file, bound, calls, srv>>
  BY DEF WriteSend
<1>2. /\ retries \in 0..TRIES /\ retries >= 1 /\ bound = 1 /\ tcxn.dir = "write"
      /\ blocknum \in 0..NBLK
  BY <1>1, Within DEF Base, Phase, WritePcs
<1>3. CASE net' = net \cup {ToServer("data", tcxn.server_port, blocknum)} /\ pc' = "wait"
  <2>1. PICK m \in {ToServer("data", tcxn.server_port, blocknum)} : TRUE
    OBVIOUS
  <2>2. May(m)
    BY <1>2, <2>1 DEF May, ToServer
  <2>3. SendsFine
    BY <1>3, <2>1, <2>2 DEF SendsFine
  <2> QED
    BY <1>1, <1>2, <1>3, <2>3, IdleBase DEF Pcs, ReadPcs, WritePcs
<1>4. CASE pc' = "idle" /\ net' = net
  <2>1. SendsFine
    BY <1>4 DEF SendsFine
  <2> QED
    BY <1>1, <1>2, <1>4, <2>1, IdleBase DEF Pcs, ReadPcs, WritePcs
<1> QED
  BY <1>3, <1>4 DEF WriteSend

(* The loop is left. *)
LEMMA WriteEndBase ==
  ASSUME OneTransfer, Base, pc = "wait", WriteEnd,
         UNCHANGED <<tcxn, retries, blocknum, next, file, calls, net, srv>>
  PROVE  Base'
<1>1. retries \in 0..TRIES /\ bound - 1 \in 0..1 /\ tcxn.dir = "write"
  BY Within DEF Base, Phase, WritePcs
<1>2. pc' \in {"idle", "uploaded"} /\ bound' = bound - 1
  BY DEF WriteEnd
<1>3. SendsFine
  BY DEF SendsFine
<1> QED
  BY <1>1, <1>2, <1>3, IdleBase DEF Pcs, ReadPcs, WritePcs

(* The block is acknowledged: the next one, if there is one. *)
LEMMA WriteAckedBase == ASSUME OneTransfer, Base, WriteAcked PROVE Base'
<1>1. pc = "wait" /\ Acked /\ UNCHANGED <<tcxn, next, file, calls, net, srv>>
  BY DEF WriteAcked
<1>2. CASE Size(file, blocknum) < TFTP_PKTSIZE \/ tcxn.error
  BY <1>1, <1>2, WriteEndBase DEF WriteAcked
<1>3. CASE ~(Size(file, blocknum) < TFTP_PKTSIZE \/ tcxn.error)
  <2>1. blocknum' = blocknum + 1 /\ retries' = TRIES /\ pc' = "send" /\ bound' = bound
    BY <1>3 DEF WriteAcked
  <2>2. /\ TftpTypeOK /\ tcxn \in Connection /\ bound = 1 /\ tcxn.dir = "write" /\ TRIES \in 0..TRIES
        /\ TRIES >= 1 /\ blocknum \in 0..NBLK /\ next \in 0..NBLK /\ NBLK \in Nat
        /\ tcxn.exp_blocknum \in Int
    BY <1>1, Within DEF Base, Phase, WritePcs
  <2>3. blocknum < NBLK
    <3>1. file \in Files /\ blocknum \in Int
      BY <2>2 DEF TftpTypeOK
    <3> QED
      BY <1>3, <2>2, <3>1, SizeIs
  <2>4. tcxn.exp_blocknum = blocknum + 1
    BY <1>1, <2>2 DEF Acked
  <2>5. Queued'
    BY <1>1, <2>1, <2>2 DEF Base, Queued
  <2>6. Uploading'
    BY <1>1, <2>1, <2>2, <2>4 DEF Base, Uploading
  <2>7. SendsFine
    BY <1>1 DEF SendsFine
  <2>8. blocknum' \in 0..NBLK /\ blocknum' >= 1 /\ blocknum <= blocknum'
    BY <2>1, <2>2, <2>3
  <2> QED
    BY <1>1, <2>1, <2>2, <2>5, <2>6, <2>7, <2>8, WithinBase DEF Pcs, ReadPcs, WritePcs
<1> QED
  BY <1>2, <1>3

(* A wait ends: the block is sent again, or the loop is left. *)
LEMMA WriteTimeoutBase == ASSUME OneTransfer, Base, WriteTimeout PROVE Base'
<1>1. pc = "wait" /\ UNCHANGED <<tcxn, blocknum, next, file, calls, net, srv>>
  BY DEF WriteTimeout
<1>2. CASE tcxn.error \/ retries = 1
  BY <1>1, <1>2, WriteEndBase DEF WriteTimeout
<1>3. CASE ~(tcxn.error \/ retries = 1)
  <2>1. retries' = retries - 1 /\ pc' = "send" /\ bound' = bound
    BY <1>3 DEF WriteTimeout
  <2>2. retries \in 0..TRIES /\ retries >= 1 /\ bound = 1 /\ tcxn.dir = "write" /\ TRIES \in Nat
    BY <1>1, Within, TftpAssumption DEF Base, Phase, WritePcs
  <2>3. retries - 1 \in 0..TRIES /\ retries - 1 >= 1
    BY <1>3, <2>2
  <2>4. SendsFine
    BY <1>1 DEF SendsFine
  <2> QED
    BY <1>1, <2>1, <2>2, <2>3, <2>4, IdleBase DEF Pcs, ReadPcs, WritePcs
<1> QED
  BY <1>2, <1>3

(* tftp_write returns. *)
LEMMA WriteReturnBase == ASSUME OneTransfer, Base, WriteReturn PROVE Base'
<1>1. pc = "uploaded" /\ pc' = "idle"
      /\ UNCHANGED <<tcxn, retries, bound, blocknum, next, file, calls, net, srv>>
  BY DEF WriteReturn
<1>2. retries \in 0..TRIES /\ bound \in 0..1
  BY <1>1, Within
<1>3. SendsFine
  BY <1>1 DEF SendsFine
<1> QED
  BY <1>1, <1>2, <1>3, IdleBase DEF Pcs, ReadPcs, WritePcs

-----------------------------------------------------------------------------
(* Every step *)

(* The steps of the foreground. *)
LEMMA MainBase == ASSUME OneTransfer, Base, Main PROVE Base'
<1>1. CASE Connect
  BY <1>1, RwrqBase, ConnectOpenBase, ConnectTimeoutBase DEF Connect
<1>2. CASE tftp_read
  BY <1>2, BeginBase, InCharNextBase, InCharEofBase, InCharBlockBase, InCharAwaitBase,
     InCharTimeoutBase, RemoveLoadBase, RemoveStoreBase, EndReportBase, EndDrainBase,
     EndFreePortBase DEF tftp_read, tftp_in_char, tftp_end
<1>3. CASE tftp_write
  BY <1>3, BeginBase, WriteSendBase, WriteAckedBase, WriteTimeoutBase, WriteReturnBase
     DEF tftp_write
<1> QED
  BY <1>1, <1>2, <1>3 DEF Main

(* The invariant is inductive. *)
LEMMA NextBase == ASSUME OneTransfer, Base, [TftpNext]_tftpVars PROVE Base'
<1>1. CASE TftpNext
  BY <1>1, MainBase, HandlerBase, NetworkBase DEF TftpNext
<1>2. CASE UNCHANGED tftpVars
  BY <1>2 DEF tftpVars, Base, TftpTypeOK, Phase, Fresh, Packets, Fine, Servers, Serves, Queued, Uploading
<1> QED
  BY <1>1, <1>2

(* It holds at the start. *)
LEMMA InitBase == ASSUME TftpInit PROVE Base
<1>1. (CHOOSE f \in Files : TRUE) \in Files
  BY TftpAssumption
<1>2. /\ tcxn = [dir |-> "read", open |-> FALSE, error |-> FALSE, exp_blocknum |-> 0,
                 last_ack |-> 0, server_port |-> TFTP_PORT, queue |-> <<>>, rem_bytes |-> 0]
      /\ pc = "idle" /\ retries = 0 /\ blocknum = 0 /\ next = 0 /\ file \in Files
      /\ out = <<>> /\ bound = 0 /\ calls = 0 /\ net = {}
      /\ srv = [t \in Tids |-> NoTransfer]
  BY <1>1 DEF TftpInit
<1>3. NBLK \in Nat /\ NBLK >= 1 /\ TFTP_PKTSIZE \in Nat /\ TRIES \in Nat /\ MaxTransfers \in Nat
  BY TftpAssumption
<1>4. NoTransfer.st = "none" /\ NoTransfer.blk = 0
      /\ NoTransfer \in [st : {"none", "read", "write", "done"}, file : Files, blk : 0..(NBLK + 1)]
  BY <1>1, <1>3 DEF NoTransfer
<1>5. TftpTypeOK
  <2>1. 0 \in 0..(NBLK + 1) /\ 0 \in 0..TFTP_PKTSIZE /\ <<>> \in Seq(Block)
    BY <1>3
  <2>2. tcxn \in Connection
    BY <1>2, <2>1 DEF Connection
  <2>3. srv \in [Tids -> [st : {"none", "read", "write", "done"}, file : Files,
                           blk : 0..(NBLK + 1)]]
    BY <1>2, <1>4
  <2> QED
    BY <1>2, <1>3, <2>2, <2>3 DEF TftpTypeOK, Pcs
<1>6. Phase
  BY <1>2 DEF Phase, Fresh, ReadPcs, WritePcs
<1>7. Packets
  BY <1>2 DEF Packets
<1>8. Servers
  BY <1>2, <1>4 DEF Servers, Serves
<1>9. Queued
  <2>1. tcxn.queue = <<>> /\ DOMAIN <<>> = {} /\ tcxn.rem_bytes = 0
    BY <1>2
  <2> QED
    BY <1>2, <2>1 DEF Queued
<1>10. Uploading
  BY <1>2 DEF Uploading
<1> QED
  BY <1>5, <1>6, <1>7, <1>8, <1>9, <1>10 DEF Base

(* The invariant of both directions. *)
THEOREM TftpBase == ASSUME OneTransfer PROVE TftpSpec => []Base
<1>1. TftpInit => Base
  BY InitBase
<1>2. Base /\ [TftpNext]_tftpVars => Base'
  BY NextBase
<1> QED
  BY <1>1, <1>2, PTL DEF TftpSpec

(* The server never moves past the block that tftp_handler expects: no      *)
(* block is acknowledged before it is in the queue, with any number of      *)
(* packets lost, duplicated and reordered.                                  *)
THEOREM AcknowledgedLate == ASSUME OneTransfer PROVE TftpSpec => []AckedAreReceived
<1>1. Base => AckedAreReceived
  BY DEF Base, Servers, Serves, AckedAreReceived
<1> QED
  BY <1>1, TftpBase, PTL

(* What tftp_write takes for acknowledged is stored at the server it talks  *)
(* to, and it goes on to the next block for no other reason.                *)
THEOREM UploadKept == ASSUME OneTransfer PROVE TftpSpec => []UploadStored
<1>1. Base => UploadStored
  BY DEF Base, Uploading, UploadStored
<1> QED
  BY <1>1, TftpBase, PTL

-----------------------------------------------------------------------------
(* What is returned: the characters before a block, and those of it *)

(* The files are laid out block by block. *)
LEMMA BeforeNext ==
  ASSUME NEW f \in Files, NEW b \in 1..NBLK
  PROVE  /\ FileLen(f) \in Nat /\ Before(f, b) \in Nat /\ Size(f, b) \in Nat
         /\ Before(f, b + 1) = Before(f, b) + Size(f, b)
         /\ Before(f, b + 1) <= FileLen(f)
<1>1. NBLK \in Nat /\ NBLK >= 1 /\ TFTP_PKTSIZE \in Nat /\ LastSize[f] \in Nat
  BY TftpAssumption
<1>2. (NBLK - 1) * TFTP_PKTSIZE \in Nat /\ (b - 1) * TFTP_PKTSIZE \in Nat
  BY <1>1
<1>3. FileLen(f) \in Nat /\ Before(f, b) = (b - 1) * TFTP_PKTSIZE /\ Size(f, b) \in Nat
  BY <1>1, <1>2 DEF FileLen, Before, Size
<1>4. CASE b < NBLK
  <2>1. Before(f, b + 1) = b * TFTP_PKTSIZE /\ Size(f, b) = TFTP_PKTSIZE
    BY <1>1, <1>4 DEF Before, Size
  <2>2. b * TFTP_PKTSIZE = (b - 1) * TFTP_PKTSIZE + TFTP_PKTSIZE
    BY <1>1
  <2>3. b * TFTP_PKTSIZE <= (NBLK - 1) * TFTP_PKTSIZE
    BY <1>1, <1>4
  <2> QED
    BY <1>1, <1>2, <1>3, <2>1, <2>2, <2>3 DEF FileLen
<1>5. CASE b = NBLK
  BY <1>1, <1>2, <1>3, <1>5 DEF FileLen, Before, Size
<1> QED
  BY <1>1, <1>4, <1>5

(* Quotient and remainder of a position in a block. *)
LEMMA Position ==
  ASSUME NEW a \in Nat, NEW r \in Nat, NEW p \in Nat \ {0}, r < p
  PROVE  (a * p + r) \div p = a /\ (a * p + r) % p = r
  OBVIOUS

(* The character at a position of a block is where the file has it. *)
LEMMA CharIs ==
  ASSUME NEW f \in Files, NEW b \in 1..NBLK, NEW r \in Nat, r < Size(f, b)
  PROVE  CharAt(f, Before(f, b) + r + 1) = Char(f, b, r + 1)
<1>1. NBLK \in Nat /\ TFTP_PKTSIZE \in Nat \ {0} /\ b - 1 \in Nat /\ b - 1 + 1 = b
  BY TftpAssumption
<1>2. r < TFTP_PKTSIZE
  BY <1>1, TftpAssumption DEF Size
<1>3. (b - 1) * TFTP_PKTSIZE \in Nat /\ Before(f, b) = (b - 1) * TFTP_PKTSIZE
  BY <1>1 DEF Before
<1>4. (Before(f, b) + r + 1) - 1 = (b - 1) * TFTP_PKTSIZE + r
  BY <1>3
<1>5. /\ ((b - 1) * TFTP_PKTSIZE + r) \div TFTP_PKTSIZE = b - 1
      /\ ((b - 1) * TFTP_PKTSIZE + r) % TFTP_PKTSIZE = r
  BY <1>1, <1>2, Position
<1>6. CharAt(f, Before(f, b) + r + 1) =
        Char(f, (((Before(f, b) + r + 1) - 1) \div TFTP_PKTSIZE) + 1,
                (((Before(f, b) + r + 1) - 1) % TFTP_PKTSIZE) + 1)
  BY DEF CharAt
<1>7. CharAt(f, Before(f, b) + r + 1) =
        Char(f, (((b - 1) * TFTP_PKTSIZE + r) \div TFTP_PKTSIZE) + 1,
                (((b - 1) * TFTP_PKTSIZE + r) % TFTP_PKTSIZE) + 1)
  BY <1>4, <1>6
<1> QED
  BY <1>1, <1>5, <1>7

(* The oldest block is the one the foreground is at. *)
LEMMA AtOldest ==
  ASSUME OneTransfer, Reading, pc \in ReadPcs, tcxn.queue # <<>>
  PROVE  /\ Current \in 1..NBLK /\ file \in Files
         /\ Head(tcxn.queue).blk = Current /\ Head(tcxn.queue).file = file
         /\ Head(tcxn.queue).size = Size(file, Current)
<1>1. /\ Base /\ Head(tcxn.queue) = tcxn.queue[1] /\ Len(tcxn.queue) \in 1..NBLK
      /\ Head(tcxn.queue).blk \in 1..NBLK /\ tcxn.queue \in Seq(Block)
      /\ tcxn.exp_blocknum \in Int /\ file \in Files
  BY Oldest, Within DEF Reading, ReadPcs, TftpTypeOK, Connection
<1>2. 1 \in DOMAIN tcxn.queue /\ Current + 1 - 1 = Current
  BY <1>1 DEF Current
<1>3. /\ tcxn.queue[1].blk = Current /\ tcxn.queue[1].file = file /\ tcxn.queue[1].size = Size(file, Current)
  BY <1>2 DEF Reading, Consecutive
<1> QED
  BY <1>1, <1>3

(* A character of that block is the next of the file. *)
LEMMA Character ==
  ASSUME OneTransfer, Reading, pc \in ReadPcs, tcxn.queue # <<>>,
         NEW r \in Nat, r < Size(file, Current), Len(out) = Before(file, Current) + r,
         file' = file,
         out' = Append(out, Char(Head(tcxn.queue).file, Head(tcxn.queue).blk, r + 1))
  PROVE  out' \in Seq(Characters) /\ Returned' /\ Len(out') = Before(file, Current) + r + 1
<1>1. Current \in 1..NBLK /\ file \in Files /\ NBLK \in Nat
  BY AtOldest, TftpAssumption
<1>2. PICK c \in {Char(file, Current, r + 1)} : out' = Append(out, c)
  BY AtOldest
<1>3. c \in Characters /\ c = CharAt(file, Before(file, Current) + r + 1)
  <2>1. c = Char(file, Current, r + 1)
    BY <1>2
  <2>2. Current \in Nat /\ r + 1 \in Nat
    BY <1>1
  <2>3. c \in Characters
    BY <1>1, <2>1, <2>2 DEF Characters, Char
  <2> QED
    BY <1>1, <2>1, <2>3, CharIs
<1>4. out \in Seq(Characters) /\ Returned
  BY DEF Reading
<1>5. /\ Before(file, Current) \in Nat /\ Size(file, Current) \in Nat /\ FileLen(file) \in Nat
      /\ Before(file, Current) + Size(file, Current) <= FileLen(file)
  BY <1>1, BeforeNext
<1>6. out' \in Seq(Characters) /\ Len(out') = Before(file, Current) + r + 1 /\ Len(out') <= FileLen(file)
  BY <1>2, <1>3, <1>4, <1>5
<1>7. ASSUME NEW k \in DOMAIN out' PROVE out'[k] = CharAt(file, k)
  <2>1. CASE k \in DOMAIN out
    BY <1>2, <1>4, <2>1 DEF Returned
  <2>2. CASE k = Len(out) + 1
    BY <1>2, <1>3, <1>4, <2>2
  <2> QED
    BY <1>2, <1>4, <1>7, <2>1, <2>2
<1> QED
  BY <1>6, <1>7 DEF Returned

-----------------------------------------------------------------------------
(* The steps that return nothing *)

(* The queue is what it was. *)
LEMMA SameQueue ==
  ASSUME Consecutive, tcxn'.queue = tcxn.queue, tcxn'.exp_blocknum = tcxn.exp_blocknum,
         file' = file
  PROVE  Consecutive' /\ Current' = Current
  BY DEF Consecutive, Current

(* tftp_handler neither moves the foreground nor closes the connection. *)
LEMMA HandlerKeeps ==
  ASSUME OneTransfer, Reading, Base', UNCHANGED main, tcxn'.dir = tcxn.dir,
         tcxn'.rem_bytes = tcxn.rem_bytes, Consecutive', Current' = Current,
         Closed' => Closed \/ tcxn.dir = "write"
  PROVE  Reading'
<1>1. tcxn.dir = "write" => pc \notin ReadPcs
  BY DEF Reading, Base, Phase
<1>2. Progress'
  BY <1>1 DEF Reading, Progress, main, ReadPcs
<1> QED
  BY <1>2 DEF Reading, Returned, main

(* A block that is expected follows those in the queue. *)
LEMMA EnqueueReading ==
  ASSUME OneTransfer, Reading, Base', UNCHANGED main,
         NEW m \in net, m.to = "client", m.op = "data", Expected(m),
         \/ tcxn' = Enqueue(m, [tcxn EXCEPT !.server_port = m.tid, !.open = TRUE])
         \/ tcxn' = Enqueue(m, tcxn)
  PROVE  Reading'
<1>1. /\ tcxn'.dir = tcxn.dir /\ tcxn'.rem_bytes = tcxn.rem_bytes
      /\ tcxn'.queue = Append(tcxn.queue, m.arg)
      /\ tcxn'.exp_blocknum = tcxn.exp_blocknum + 1
      /\ tcxn'.error = tcxn.error /\ (tcxn.open => tcxn'.open)
  BY Enqueued DEF Reading
<1>2. /\ Fine(m) /\ TftpTypeOK /\ tcxn.queue \in Seq(Block) /\ tcxn.exp_blocknum \in Int
      /\ file' = file
  BY TftpAssumption DEF Reading, Base, Packets, TftpTypeOK, Connection, main
<1>3. /\ m.arg.blk = tcxn.exp_blocknum /\ m.arg.file = file
      /\ m.arg.size = Size(file, tcxn.exp_blocknum)
  BY <1>2 DEF Fine, Expected
<1>4. /\ Len(tcxn'.queue) = Len(tcxn.queue) + 1 /\ Len(tcxn.queue) \in Nat
      /\ DOMAIN tcxn'.queue = 1..(Len(tcxn.queue) + 1) /\ DOMAIN tcxn.queue = 1..Len(tcxn.queue)
      /\ \A i \in 1..Len(tcxn.queue) : tcxn'.queue[i] = tcxn.queue[i]
      /\ tcxn'.queue[Len(tcxn.queue) + 1] = m.arg
  BY <1>1, <1>2, m.arg \in Block DEF Fine
<1>5. Current' = Current /\ Current + (Len(tcxn.queue) + 1) - 1 = tcxn.exp_blocknum
  BY <1>1, <1>2, <1>4 DEF Current
<1>6. Consecutive'
  <2> SUFFICES ASSUME NEW i \in 1..(Len(tcxn.queue) + 1)
               PROVE  /\ tcxn'.queue[i].blk = Current + i - 1 /\ tcxn'.queue[i].file = file
                      /\ tcxn'.queue[i].size = Size(file, Current + i - 1)
    BY <1>2, <1>4, <1>5 DEF Consecutive
  <2>1. CASE i \in 1..Len(tcxn.queue)
    BY <1>4, <2>1 DEF Reading, Consecutive
  <2>2. CASE i = Len(tcxn.queue) + 1
    BY <1>3, <1>4, <1>5, <2>2
  <2> QED
    BY <1>4, <2>1, <2>2
<1>7. Closed' => Closed
  BY <1>1 DEF Closed
<1> QED
  BY <1>1, <1>5, <1>6, <1>7, HandlerKeeps

(* The whole handler. *)
LEMMA HandlerReading == ASSUME OneTransfer, Reading, Base', tftp_handler PROVE Reading'
<1>1. PICK m \in net : m.to = "client" /\ (HandleData(m) \/ HandleError(m) \/ HandleAck(m))
  BY DEF tftp_handler
<1>2. UNCHANGED main /\ Base /\ Fine(m) /\ tcxn \in Connection /\ Consecutive
  BY DEF tftp_handler, Reading, Base, Packets, TftpTypeOK
<1>3. CASE UNCHANGED tcxn
  BY <1>2, <1>3, SameQueue, HandlerKeeps DEF Closed, main
<1>4. CASE HandleData(m) /\ ~UNCHANGED tcxn
  BY <1>1, <1>2, <1>4, EnqueueReading DEF HandleData
<1>5. CASE HandleError(m)
  <2>1. tcxn' = [tcxn EXCEPT !.error = TRUE]
    BY <1>5 DEF HandleError
  <2>2. /\ tcxn'.dir = tcxn.dir /\ tcxn'.rem_bytes = tcxn.rem_bytes /\ tcxn'.queue = tcxn.queue
        /\ tcxn'.exp_blocknum = tcxn.exp_blocknum /\ tcxn'.error
    BY <1>2, <2>1 DEF Connection
  <2>3. Consecutive' /\ Current' = Current
    BY <1>2, <2>2, SameQueue DEF main
  <2> QED
    BY <1>2, <2>2, <2>3, HandlerKeeps DEF Closed
<1>6. CASE HandleAck(m)
  <2>1. tcxn.dir = "write" /\ tcxn.queue = <<>>
    BY <1>1, <1>2, <1>6 DEF Fine, HandleAck, Base, Uploading
  <2>2. \/ tcxn' = [tcxn EXCEPT !.server_port = m.tid, !.open = TRUE, !.exp_blocknum = 1]
        \/ tcxn' = [tcxn EXCEPT !.exp_blocknum = tcxn.exp_blocknum + 1]
        \/ tcxn' = tcxn
    BY <1>6 DEF HandleAck
  <2>3. tcxn'.dir = "write" /\ tcxn'.queue = <<>> /\ pc' = pc
    BY <1>2, <2>1, <2>2 DEF Connection, main
  <2>4. Consecutive'
    <3>1. DOMAIN tcxn'.queue = {}
      BY <2>3
    <3> QED
      BY <3>1 DEF Consecutive
  <2>5. pc \notin ReadPcs
    BY <1>2, <2>1 DEF Base, Phase
  <2>6. Progress'
    BY <2>3, <2>5 DEF Progress, ReadPcs
  <2> QED
    BY <1>2, <2>4, <2>6 DEF Reading, Returned, main
<1> QED
  BY <1>1, <1>3, <1>4, <1>5, <1>6

(* The network and the servers. *)
LEMMA NetworkReading == ASSUME OneTransfer, Reading, Base', Network PROVE Reading'
<1>1. UNCHANGED <<tcxn, main>>
  BY DEF Network, Lose, ServerAccept, ServerSend, ServerGetsAck, ServerGetsData, ServerStops
<1> QED
  BY <1>1, SameQueue, HandlerKeeps DEF Reading, main, Closed

(* A step that leaves the connection and the characters alone. *)
LEMMA StillReading ==
  ASSUME Reading, Base', UNCHANGED <<tcxn, file, out>>, pc' # "unlink", Progress'
  PROVE  Reading'
<1>1. Consecutive'
  BY SameQueue DEF Reading
<1> QED
  BY <1>1 DEF Reading, Returned

(* A call begins. *)
LEMMA BeginReading ==
  ASSUME OneTransfer, Reading, Base', NEW dir \in {"read", "write"}, BeginCall(dir)
  PROVE  Reading'
<1>1. /\ pc' = "request" /\ out' = <<>> /\ file' \in Files /\ calls = 0
      /\ tcxn' = [tcxn EXCEPT !.dir = dir, !.open = FALSE, !.error = FALSE,
                    !.server_port = TFTP_PORT,
                    !.exp_blocknum = IF dir = "read" THEN 1 ELSE 0,
                    !.last_ack = IF dir = "read" THEN 0 ELSE tcxn.last_ack,
                    !.rem_bytes = IF dir = "read" THEN 0 ELSE tcxn.rem_bytes,
                    !.queue = IF dir = "read" THEN <<>> ELSE tcxn.queue]
  BY DEF BeginCall, Reading, Base, TftpTypeOK, OneTransfer
<1>2. tcxn \in Connection /\ tcxn.queue = <<>>
  BY <1>1 DEF Reading, Base, TftpTypeOK, Phase, Fresh
<1>3. tcxn'.queue = <<>> /\ tcxn'.dir = dir
  BY <1>1, <1>2 DEF Connection
<1>4. dir = "read" => tcxn'.exp_blocknum = 1 /\ tcxn'.rem_bytes = 0
  BY <1>1, <1>2 DEF Connection
<1>5. DOMAIN tcxn'.queue = {} /\ Len(tcxn'.queue) = 0 /\ DOMAIN out' = {} /\ Len(out') = 0
      /\ out' \in Seq(Characters)
  BY <1>1, <1>3
<1>6. Consecutive' /\ Returned'
  <2>1. FileLen(file') \in Nat
    <3>1. 1 \in 1..NBLK
      BY TftpAssumption
    <3> QED
      BY <1>1, <3>1, BeforeNext
  <2> QED
    BY <1>5, <2>1 DEF Consecutive, Returned
<1>7. Progress'
  BY <1>1, <1>3, <1>4, <1>5 DEF Progress, Current
<1> QED
  BY <1>1, <1>5, <1>6, <1>7 DEF Reading

(* The steps up to the open connection. *)
LEMMA ConnectedReading ==
  ASSUME OneTransfer, Reading, Base', pc = "connect", Connected,
         tcxn.error \/ tcxn.open, UNCHANGED <<tcxn, file, out>>
  PROVE  Reading'
<1>1. CASE tcxn.error \/ tcxn.dir # "read"
  <2>1. pc' \in {"idle", "send"}
    BY <1>1 DEF Connected, GiveUp
  <2> QED
    BY <2>1, StillReading DEF Progress
<1>2. CASE ~tcxn.error /\ tcxn.dir = "read"
  <2>1. pc' = "char" /\ tcxn.open
    BY <1>2 DEF Connected
  <2>2. out = <<>> /\ Current = 1 /\ tcxn.rem_bytes = 0
    BY <1>2 DEF Reading, Progress
  <2>3. Len(out) = Before(file, Current)
    <3>1. NBLK >= 1 /\ NBLK \in Nat /\ 0 * TFTP_PKTSIZE = 0
      BY TftpAssumption
    <3> QED
      BY <2>2, <3>1 DEF Before
  <2>4. Current' = Current
    BY DEF Current
  <2>5. Progress'
    BY <2>1, <2>2, <2>3, <2>4 DEF Progress, Closed
  <2> QED
    BY <2>1, <2>5, StillReading
<1> QED
  BY <1>1, <1>2

(* The request, and the wait for the first answer. *)
LEMMA ConnectReading == ASSUME OneTransfer, Reading, Base', Connect PROVE Reading'
<1>1. CASE tftp_rwrq
  <2>1. pc = "request" /\ pc' \in {"connect", "idle"} /\ UNCHANGED <<tcxn, file, out>>
    BY <1>1 DEF tftp_rwrq, GiveUp
  <2>2. Progress'
    BY <2>1 DEF Reading, Progress, Current
  <2> QED
    BY <2>1, <2>2, StillReading
<1>2. CASE ConnectOpen
  BY <1>2, ConnectedReading DEF ConnectOpen
<1>3. CASE ConnectTimeout
  <2>1. pc = "connect" /\ UNCHANGED <<tcxn, file, out>>
    BY <1>3 DEF ConnectTimeout
  <2>2. CASE tcxn.error \/ (tcxn.dir = "read" /\ tcxn.open)
    BY <1>3, <2>1, <2>2, ConnectedReading DEF ConnectTimeout
  <2>3. CASE ~(tcxn.error \/ (tcxn.dir = "read" /\ tcxn.open))
    <3>1. pc' \in {"request", "idle"}
      BY <1>3, <2>3 DEF ConnectTimeout, GiveUp
    <3>2. Progress'
      BY <2>1, <3>1 DEF Reading, Progress, Current
    <3> QED
      BY <2>1, <3>1, <3>2, StillReading
  <2> QED
    BY <2>2, <2>3
<1> QED
  BY <1>1, <1>2, <1>3 DEF Connect

(* tftp_write returns no character. *)
LEMMA WriteReading ==
  ASSUME OneTransfer, Reading, Base', WriteSend \/ WriteAcked \/ WriteTimeout \/ WriteReturn
  PROVE  Reading'
<1>1. UNCHANGED <<tcxn, file, out>>
  BY DEF WriteSend, WriteAcked, WriteTimeout, WriteReturn
<1>2. pc' \in {"idle", "send", "wait", "uploaded"}
  BY DEF WriteSend, WriteAcked, WriteTimeout, WriteReturn, WriteEnd
<1> QED
  BY <1>1, <1>2, StillReading DEF Progress

(* The end of a transfer returns none either. *)
LEMMA EndReading == ASSUME OneTransfer, Reading, Base', tftp_end PROVE Reading'
<1>1. CASE EndReport \/ EndFreePort
  <2>1. UNCHANGED <<tcxn, file, out>> /\ pc' \in {"drain", "idle"}
    BY <1>1 DEF EndReport, EndFreePort
  <2> QED
    BY <2>1, StillReading DEF Progress
<1>2. CASE EndDrain
  <2>1. tcxn' = [tcxn EXCEPT !.queue = <<>>] /\ pc' = "free_port" /\ UNCHANGED <<file, out>>
    BY <1>2 DEF EndDrain
  <2>2. tcxn'.queue = <<>>
    BY <2>1 DEF Reading, Base, TftpTypeOK, Connection
  <2>3. DOMAIN tcxn'.queue = {}
    BY <2>2
  <2>4. Consecutive' /\ Progress'
    BY <2>1, <2>3 DEF Consecutive, Progress
  <2> QED
    BY <2>1, <2>4 DEF Reading, Returned
<1> QED
  BY <1>1, <1>2 DEF tftp_end

-----------------------------------------------------------------------------
(* tftp_in_char *)

(* The next character of the block. *)
LEMMA InCharNextReading ==
  ASSUME OneTransfer, Reading, Base', InCharNext
  PROVE  Reading'
<1> DEFINE r == Size(file, Current) - tcxn.rem_bytes
<1>1. /\ pc = "char" /\ tcxn.rem_bytes > 0
      /\ NextChar(tcxn, Head(tcxn.queue).size - tcxn.rem_bytes + 1)
      /\ file' = file
  BY DEF InCharNext
<1>2. /\ tcxn' = [tcxn EXCEPT !.rem_bytes = tcxn.rem_bytes - 1]
      /\ pc' = IF tcxn.rem_bytes = 1 THEN "remove" ELSE "char"
      /\ out' = Append(out, Char(Head(tcxn.queue).file, Head(tcxn.queue).blk,
                                 Head(tcxn.queue).size - tcxn.rem_bytes + 1))
  BY <1>1 DEF NextChar
<1>3. /\ tcxn \in Connection /\ tcxn.rem_bytes \in Int /\ tcxn.queue # <<>> /\ pc \in ReadPcs
  BY <1>1, TftpAssumption DEF Reading, Base, Queued, TftpTypeOK, Connection, ReadPcs
<1>4. /\ Current \in 1..NBLK /\ file \in Files /\ Head(tcxn.queue).size = Size(file, Current)
  BY <1>3, AtOldest
<1>5. /\ tcxn.rem_bytes <= Size(file, Current)
      /\ Len(out) = Before(file, Current) + Size(file, Current) - tcxn.rem_bytes
      /\ Closed => Current = NBLK
      /\ Size(file, Current) = 0 => Current = NBLK
  BY <1>1 DEF Reading, Progress
<1>6. Size(file, Current) \in Nat /\ Before(file, Current) \in Nat
  BY <1>4, BeforeNext
<1>7. r \in Nat /\ r < Size(file, Current) /\ Len(out) = Before(file, Current) + r
  BY <1>1, <1>3, <1>5, <1>6
<1>8. out' = Append(out, Char(Head(tcxn.queue).file, Head(tcxn.queue).blk, r + 1))
  BY <1>2, <1>4
<1> HIDE DEF r
<1>9. out' \in Seq(Characters) /\ Returned' /\ Len(out') = Before(file, Current) + r + 1
  BY <1>1, <1>3, <1>7, <1>8, Character
<1>10. /\ tcxn'.queue = tcxn.queue /\ tcxn'.exp_blocknum = tcxn.exp_blocknum
       /\ tcxn'.rem_bytes = tcxn.rem_bytes - 1 /\ tcxn'.dir = tcxn.dir
       /\ tcxn'.open = tcxn.open /\ tcxn'.error = tcxn.error
  BY <1>2, <1>3 DEF Connection
<1>11. Consecutive' /\ Current' = Current
  BY <1>1, <1>10, SameQueue DEF Reading
<1>12. Len(out') = Before(file, Current) + Size(file, Current) - (tcxn.rem_bytes - 1)
  BY <1>3, <1>6, <1>9 DEF r
<1>13. Progress'
  <2>1. CASE tcxn.rem_bytes = 1
    BY <1>1, <1>2, <1>3, <1>5, <1>6, <1>10, <1>11, <1>12, <2>1 DEF Progress, Closed
  <2>2. CASE tcxn.rem_bytes # 1
    <3>1. pc' = "char" /\ tcxn.rem_bytes - 1 > 0
      BY <1>1, <1>2, <1>3, <2>2
    <3> QED
      BY <1>1, <1>3, <1>5, <1>6, <1>10, <1>11, <1>12, <3>1 DEF Progress, Closed
  <2> QED
    BY <2>1, <2>2
<1>14. pc' # "unlink"
  BY <1>2
<1> QED
  BY <1>9, <1>11, <1>13, <1>14 DEF Reading

(* The first character of the oldest block, or the empty block. *)
LEMMA InCharBlockReading ==
  ASSUME OneTransfer, Reading, Base', InCharBlock
  PROVE  Reading'
<1> DEFINE b == Head(tcxn.queue)
           open == b.size >= TFTP_PKTSIZE /\ tcxn.open
           rem == IF b.size = 0 THEN 0 ELSE b.size - 1
           c == [tcxn EXCEPT !.rem_bytes = b.size, !.last_ack = b.blk + 1, !.open = open]
<1>1. /\ \/ pc = "char" /\ tcxn.rem_bytes = 0 /\ tcxn.open
         \/ pc = "await"
      /\ tcxn.queue # <<>> /\ file' = file
      /\ IF b.size = 0 THEN pc' = "remove" /\ tcxn' = c /\ UNCHANGED out
         ELSE NextChar(c, 1)
  BY DEF InCharBlock
<1>2. /\ tcxn \in Connection /\ pc \in ReadPcs /\ TFTP_PKTSIZE \in Nat \ {0}
      /\ out \in Seq(Characters) /\ Returned
  BY <1>1, TftpAssumption DEF Reading, Base, TftpTypeOK, ReadPcs
<1>3. /\ Current \in 1..NBLK /\ file \in Files /\ b.size = Size(file, Current)
  BY <1>1, <1>2, AtOldest
<1>4. b.size # 0 => out' = Append(out, Char(Head(tcxn.queue).file, Head(tcxn.queue).blk, 1))
  <2>1. c.queue = tcxn.queue
    BY <1>2 DEF Connection
  <2> QED
    BY <1>1, <2>1 DEF NextChar
<1> HIDE DEF b
<1>5. b.size \in Nat /\ Before(file, Current) \in Nat /\ Size(file, Current) \in Nat
  BY <1>3, BeforeNext
<1>6. Len(out) = Before(file, Current) /\ (Closed => Current = NBLK + 1)
  BY <1>1 DEF Reading, Progress
<1>7. b.size < TFTP_PKTSIZE => Current = NBLK
  <2>1. NBLK \in Int
    BY TftpAssumption
  <2> QED
    BY <1>3, <2>1, SizeIs
<1>8. open \in BOOLEAN
  OBVIOUS
<1> HIDE DEF open
<1>9. c.rem_bytes = b.size
  BY <1>2 DEF Connection
<1>10. tcxn' = [tcxn EXCEPT !.rem_bytes = rem, !.last_ack = b.blk + 1, !.open = open]
  <2>1. CASE b.size = 0
    BY <1>1, <2>1
  <2>2. CASE b.size # 0
    <3>1. tcxn' = [c EXCEPT !.rem_bytes = c.rem_bytes - 1]
      BY <1>1, <2>2 DEF NextChar
    <3>2. tcxn' = [c EXCEPT !.rem_bytes = b.size - 1]
      BY <1>9, <3>1
    <3> QED
      BY <1>2, <2>2, <3>2 DEF Connection
  <2> QED
    BY <2>1, <2>2
<1>11. pc' = IF b.size <= 1 THEN "remove" ELSE "char"
  <2>1. CASE b.size = 0
    BY <1>1, <2>1
  <2>2. CASE b.size # 0
    BY <1>1, <1>5, <1>9, <2>2 DEF NextChar
  <2> QED
    BY <2>1, <2>2
<1> HIDE DEF c
<1>12. /\ out' \in Seq(Characters) /\ Returned'
       /\ Len(out') = Before(file, Current) + (IF b.size = 0 THEN 0 ELSE 1)
  <2>1. CASE b.size = 0
    <3>1. out' = out
      BY <1>1, <2>1
    <3> QED
      BY <1>1, <1>2, <1>5, <1>6, <2>1, <3>1 DEF Returned
  <2>2. CASE b.size # 0
    <3>1. 0 < Size(file, Current) /\ Len(out) = Before(file, Current) + 0 /\ 0 + 1 = 1 /\ 0 \in Nat
      BY <1>3, <1>5, <1>6, <2>2
    <3>2. out' = Append(out, Char(Head(tcxn.queue).file, Head(tcxn.queue).blk, 0 + 1))
      BY <1>4, <2>2, <3>1
    <3>3. out' \in Seq(Characters) /\ Returned' /\ Len(out') = Before(file, Current) + 0 + 1
      BY <1>1, <1>2, <3>1, <3>2, Character
    <3> QED
      BY <1>5, <2>2, <3>3
  <2> QED
    BY <2>1, <2>2
<1>13. rem \in Nat /\ Len(out') = Before(file, Current) + Size(file, Current) - rem
       /\ rem <= Size(file, Current) /\ (b.size <= 1 <=> rem = 0)
  BY <1>3, <1>5, <1>12
<1> HIDE DEF rem
<1>14. /\ tcxn'.queue = tcxn.queue /\ tcxn'.exp_blocknum = tcxn.exp_blocknum
       /\ tcxn'.rem_bytes = rem /\ tcxn'.dir = tcxn.dir
       /\ (tcxn'.open <=> open) /\ tcxn'.error = tcxn.error
  BY <1>2, <1>8, <1>10 DEF Connection
<1>15. Consecutive' /\ Current' = Current
  BY <1>1, <1>14, SameQueue DEF Reading
<1>16. Closed' => Current = NBLK
  <2>1. ASSUME Closed' PROVE b.size < TFTP_PKTSIZE \/ Closed
    BY <1>2, <1>5, <1>14, <2>1 DEF Closed, open
  <2>2. Closed => FALSE
    BY <1>3, <1>6, TftpAssumption
  <2> QED
    BY <1>7, <2>1, <2>2
<1>17. Size(file, Current) = 0 => Current = NBLK
  BY <1>2, <1>3, <1>7
<1>18. Progress'
  <2>1. CASE b.size <= 1
    <3>1. pc' = "remove"
      BY <1>11, <2>1
    <3> QED
      BY <1>1, <1>13, <1>14, <1>15, <1>16, <1>17, <3>1 DEF Progress
  <2>2. CASE ~(b.size <= 1)
    <3>1. pc' = "char" /\ rem > 0
      BY <1>11, <1>13, <2>2
    <3> QED
      BY <1>1, <1>13, <1>14, <1>15, <1>16, <1>17, <3>1 DEF Progress
  <2> QED
    BY <2>1, <2>2
<1>19. pc' # "unlink"
  BY <1>11
<1> QED
  BY <1>12, <1>15, <1>18, <1>19 DEF Reading

(* The end of the file, and the wait for the next block. *)
LEMMA InCharWaitReading ==
  ASSUME OneTransfer, Reading, Base', InCharEof \/ InCharAwait
  PROVE  Reading'
<1>1. /\ pc = "char" /\ tcxn.rem_bytes = 0 /\ UNCHANGED <<tcxn, file, out>>
      /\ pc' = "eof" \/ pc' = "await"
  BY DEF InCharEof, InCharAwait
<1>2. /\ Len(out) = Before(file, Current)
      /\ Closed => Current = NBLK + 1
  BY <1>1 DEF Reading, Progress
<1>3. Closed => Len(out) = FileLen(file)
  <2>1. NBLK + 1 > NBLK
    BY TftpAssumption
  <2> QED
    BY <1>2, <2>1 DEF Before
<1>4. Progress'
  BY <1>1, <1>2, <1>3 DEF Progress, Current, Closed
<1> QED
  BY <1>1, <1>4, StillReading

(* A wait ends without a block: with the rounds the transfer ends in an error. *)
LEMMA InCharTimeoutReading ==
  ASSUME OneTransfer, Reading, Base', InCharTimeout
  PROVE  Reading'
<1>1. /\ pc = "await" /\ UNCHANGED <<file, out>>
      /\ IF retries = 1
           THEN pc' = "eof" /\ tcxn' = [tcxn EXCEPT !.open = FALSE, !.error = TRUE]
           ELSE UNCHANGED <<pc, tcxn>>
  BY DEF InCharTimeout
<1>2. CASE retries = 1
  <2>1. tcxn \in Connection
    BY DEF Reading, Base, TftpTypeOK
  <2>2. /\ pc' = "eof" /\ tcxn'.error /\ tcxn'.queue = tcxn.queue
        /\ tcxn'.exp_blocknum = tcxn.exp_blocknum
    BY <1>1, <1>2, <2>1 DEF Connection
  <2>3. Consecutive' /\ Progress'
    BY <1>1, <2>2, SameQueue DEF Reading, Progress, Closed
  <2> QED
    BY <1>1, <2>2, <2>3 DEF Reading, Returned
<1>3. CASE retries # 1
  <2>1. pc' = "await" /\ UNCHANGED <<tcxn, file, out, pc>>
    BY <1>1, <1>3
  <2>2. Progress'
    BY <2>1 DEF Reading, Progress, Current, Closed
  <2> QED
    BY <2>1, <2>2, StillReading
<1> QED
  BY <1>2, <1>3

(* The used-up block is removed in one instruction. *)
LEMMA RemoveReading ==
  ASSUME OneTransfer, FusedRemove, Reading, Base', RemoveLoad \/ RemoveStore
  PROVE  Reading'
<1>1. /\ pc = "remove" /\ tcxn' = [tcxn EXCEPT !.queue = Tail(tcxn.queue)]
      /\ pc' = IF Head(tcxn.queue).size = 0 THEN "eof" ELSE "char"
      /\ UNCHANGED <<file, out>>
  BY DEF RemoveLoad, RemoveStore, Reading
<1>2. /\ tcxn.queue # <<>> /\ tcxn.rem_bytes = 0 /\ pc \in ReadPcs /\ tcxn \in Connection
      /\ tcxn.exp_blocknum \in Int /\ NBLK \in Nat /\ tcxn.queue \in Seq(Block) /\ Base
  BY <1>1, TftpAssumption DEF Reading, Base, Queued, ReadPcs, TftpTypeOK, Connection
<1>3. /\ tcxn'.queue = Tail(tcxn.queue) /\ tcxn'.exp_blocknum = tcxn.exp_blocknum
      /\ tcxn'.rem_bytes = 0 /\ tcxn'.open = tcxn.open /\ tcxn'.error = tcxn.error
  BY <1>1, <1>2 DEF Connection
<1>4. /\ Current \in 1..NBLK /\ file \in Files /\ Head(tcxn.queue).size = Size(file, Current)
  BY <1>2, AtOldest
<1>5. /\ Before(file, Current) \in Nat /\ Size(file, Current) \in Nat
      /\ Before(file, Current + 1) = Before(file, Current) + Size(file, Current)
      /\ NBLK + 1 > NBLK
  BY <1>2, <1>4, BeforeNext
<1>6. /\ Len(out) = Before(file, Current) + Size(file, Current) - 0
      /\ Closed => Current = NBLK
      /\ Size(file, Current) = 0 => Current = NBLK
  BY <1>1, <1>2 DEF Reading, Progress
<1>7. Len(out) = Before(file, Current + 1)
  BY <1>5, <1>6
<1>8. /\ DOMAIN Tail(tcxn.queue) = 1..(Len(tcxn.queue) - 1)
      /\ Len(Tail(tcxn.queue)) = Len(tcxn.queue) - 1 /\ Len(tcxn.queue) \in 1..NBLK
      /\ \A i \in DOMAIN Tail(tcxn.queue) :
           Tail(tcxn.queue)[i] = tcxn.queue[i + 1] /\ i + 1 \in DOMAIN tcxn.queue
  BY <1>2, Oldest
<1>9. Current' = Current + 1
  BY <1>2, <1>3, <1>8 DEF Current
<1>10. Consecutive'
  <2> SUFFICES ASSUME NEW i \in 1..(Len(tcxn.queue) - 1)
               PROVE  /\ tcxn'.queue[i].blk = (Current + 1) + i - 1 /\ tcxn'.queue[i].file = file
                      /\ tcxn'.queue[i].size = Size(file, (Current + 1) + i - 1)
    BY <1>1, <1>3, <1>8, <1>9 DEF Consecutive
  <2>1. i + 1 \in DOMAIN tcxn.queue /\ tcxn'.queue[i] = tcxn.queue[i + 1]
    BY <1>3, <1>8
  <2>2. Current + (i + 1) - 1 = (Current + 1) + i - 1
    BY <1>4
  <2>3. /\ tcxn.queue[i + 1].blk = Current + (i + 1) - 1 /\ tcxn.queue[i + 1].file = file
        /\ tcxn.queue[i + 1].size = Size(file, Current + (i + 1) - 1)
    BY <2>1 DEF Reading, Consecutive
  <2> QED
    BY <2>1, <2>2, <2>3
<1>11. Closed' <=> Closed
  BY <1>3 DEF Closed
<1>12. Progress'
  <2>1. CASE Head(tcxn.queue).size = 0
    <3>1. pc' = "eof" /\ Current + 1 = NBLK + 1
      BY <1>1, <1>4, <1>6, <2>1
    <3>2. Len(out) = FileLen(file)
      BY <1>5, <1>7, <3>1 DEF Before
    <3> QED
      BY <1>1, <3>1, <3>2 DEF Progress
  <2>2. CASE Head(tcxn.queue).size # 0
    <3>1. pc' = "char"
      BY <1>1, <2>2
    <3>2. Len(out') = Before(file', Current') /\ (Closed' => Current' = NBLK + 1)
      BY <1>1, <1>6, <1>7, <1>9, <1>11
    <3> QED
      BY <1>3, <3>1, <3>2 DEF Progress
  <2> QED
    BY <2>1, <2>2
<1>13. pc' # "unlink"
  BY <1>1
<1> QED
  BY <1>1, <1>10, <1>12, <1>13 DEF Reading, Returned

-----------------------------------------------------------------------------
(* Every step *)

(* The steps of the foreground. *)
LEMMA MainReading ==
  ASSUME OneTransfer, FusedRemove, Reading, Base', Main
  PROVE  Reading'
<1>1. CASE Connect
  BY <1>1, ConnectReading
<1>2. CASE tftp_read
  BY <1>2, BeginReading, InCharNextReading, InCharBlockReading, InCharWaitReading,
     InCharTimeoutReading, RemoveReading, EndReading DEF tftp_read, tftp_in_char
<1>3. CASE tftp_write
  BY <1>3, BeginReading, WriteReading DEF tftp_write
<1> QED
  BY <1>1, <1>2, <1>3 DEF Main

(* The invariant is inductive. *)
LEMMA NextReading ==
  ASSUME OneTransfer, FusedRemove, Reading, [TftpNext]_tftpVars
  PROVE  Reading'
<1>1. Base'
  BY NextBase DEF Reading
<1>2. CASE TftpNext
  BY <1>1, <1>2, MainReading, HandlerReading, NetworkReading DEF TftpNext
<1>3. CASE UNCHANGED tftpVars
  <2>1. UNCHANGED <<tcxn, file, out, pc>>
    BY <1>3 DEF tftpVars
  <2>2. Progress' /\ pc' # "unlink"
    BY <2>1 DEF Reading, Progress, Current, Closed
  <2> QED
    BY <1>1, <2>1, <2>2, StillReading
<1> QED
  BY <1>2, <1>3

(* It holds at the start. *)
LEMMA InitReading == ASSUME TftpInit PROVE Reading
<1>1. Base
  BY InitBase
<1>2. tcxn.queue = <<>> /\ out = <<>> /\ pc = "idle" /\ file \in Files
  BY <1>1 DEF TftpInit, Base, TftpTypeOK
<1>3. DOMAIN tcxn.queue = {} /\ DOMAIN out = {} /\ Len(out) = 0 /\ out \in Seq(Characters)
  BY <1>2
<1>4. FileLen(file) \in Nat
  <2>1. 1 \in 1..NBLK
    BY TftpAssumption
  <2> QED
    BY <1>2, <2>1, BeforeNext
<1>5. Consecutive /\ Returned /\ Progress
  BY <1>2, <1>3, <1>4 DEF Consecutive, Returned, Progress
<1> QED
  BY <1>1, <1>2, <1>3, <1>5 DEF Reading

(* The invariant of a transfer that is read, if the link of the removed     *)
(* block is read and written in one instruction.                            *)
THEOREM TftpReading == ASSUME OneTransfer, FusedRemove PROVE TftpSpec => []Reading
<1>1. TftpInit => Reading
  BY InitReading
<1>2. Reading /\ [TftpNext]_tftpVars => Reading'
  BY NextReading
<1> QED
  BY <1>1, <1>2, PTL DEF TftpSpec

(* tftp_in_char returns the characters of the file in order, each once,     *)
(* whatever the network does to the packets.                                *)
THEOREM ReturnedInOrder == ASSUME OneTransfer, FusedRemove PROVE TftpSpec => []InOrder
<1>1. Reading => InOrder
  BY DEF Reading, Base, Returned, InOrder
<1> QED
  BY <1>1, TftpReading, PTL

(* tftp_end reports a transfer as completed only when the caller has had    *)
(* the whole file.                                                          *)
THEOREM CompletedIsWhole == ASSUME OneTransfer, FusedRemove PROVE TftpSpec => []CompletedWhole
<1>1. Reading => CompletedWhole
  BY DEF Reading, Progress, Closed, CompletedWhole, Completed
<1> QED
  BY <1>1, TftpReading, PTL

-----------------------------------------------------------------------------
(* Arp and Udp *)

(* A set of numbers that is not empty has a first one. *)
LEMMA FirstIn ==
  ASSUME NEW S, S \subseteq Nat, S # {}
  PROVE  First(S) \in S
<1>1. PICK x \in S : \A y \in S : ~(<<y, x>> \in OpToRel(<, Nat))
  BY WFMin, NatLessThanWellFounded
<1>2. \A y \in S : ~(y < x)
  BY <1>1, Zenon DEF OpToRel
<1>3. \A y \in S : x <= y
  BY <1>2
<1> QED
  BY <1>3 DEF First

-----------------------------------------------------------------------------
(* Arp *)

\* A round of arp_resolve begins only while there are rounds left.
RoundsLeft == \A c \in Ctx : ctx[c].pc = "request" => ctx[c].tries < ARP_TRIES

\* The invariant of Arp.
ArpInv == TypeOK /\ RoundsLeft /\ TableRight

(* The slot that arp_merge writes is one of the table, and the one that has  *)
(* the address if there is one.                                              *)
LEMMA VictimSlot ==
  ASSUME TypeOK, NEW pa
  PROVE  /\ Victim(pa) \in Slots
         /\ Matches(pa) # {} => Victim(pa) \in Matches(pa)
<1>1. MAX_ARP_ENTRY \in Slots /\ Slots \subseteq Nat
  BY ArpAssumption DEF Slots
<1>2. /\ Matches(pa) \subseteq Slots /\ Temps \subseteq Slots
      /\ {i \in Slots : ~Used(i)} \subseteq Slots
  BY DEF Matches, Temps
<1>3. Matches(pa) # {} => First(Matches(pa)) \in Matches(pa)
  BY <1>1, <1>2, FirstIn
<1>4. Temps # {} => First(Temps) \in Temps
  BY <1>1, <1>2, FirstIn
<1>5. {i \in Slots : ~Used(i)} # {} => First({i \in Slots : ~Used(i)}) \in Slots
  BY <1>1, <1>2, FirstIn
<1> QED
  BY <1>1, <1>2, <1>3, <1>4, <1>5 DEF Victim

(* Merging keeps every address in one slot with its own hardware address.    *)
LEMMA MergeRight ==
  ASSUME TypeOK, TableRight, NEW h \in Hosts, NEW l \in Longevity \ {"ARP_ENTRY_EMPTY"},
         arp_merge(h, l)
  PROVE  TableRight' /\ table' \in [Slots -> [longevity: Longevity, pa: Hosts \cup {{}}, hwa: Hosts \cup {{}}]]
<1> DEFINE v == Victim(h)
           lon == IF Matches(h) # {} THEN table[v].longevity ELSE l
           new == [longevity |-> lon, pa |-> h, hwa |-> h]
<1>1. v \in Slots /\ (Matches(h) # {} => v \in Matches(h))
  BY VictimSlot
<1>2. table' = [table EXCEPT ![v] = new]
  BY DEF arp_merge
<1>3. lon \in Longevity
  BY <1>1 DEF TypeOK
<1> HIDE DEF v, lon
<1>4. table' \in [Slots -> [longevity: Longevity, pa: Hosts \cup {{}}, hwa: Hosts \cup {{}}]]
  BY <1>1, <1>2, <1>3 DEF TypeOK
<1>5. \A i \in Slots : table'[i] = IF i = v THEN new ELSE table[i]
  BY <1>1, <1>2 DEF TypeOK
<1>6. \A i \in Slots : table'[i].hwa = table'[i].pa
  BY <1>5 DEF TableRight
<1>7. ASSUME NEW i \in Slots, NEW j \in Slots, i # v, j # i, Used(i)', Used(j)',
             table'[i].pa = table'[j].pa
      PROVE  FALSE
  <2>1. CASE j = v
    <3>1. i \in Matches(h)
      BY <1>5, <1>7, <2>1 DEF Used, Matches
    <3>2. v \in Matches(h)
      BY <1>1, <3>1
    <3> QED
      BY <1>7, <3>1, <3>2 DEF TableRight, Matches
  <2>2. CASE j # v
    BY <1>5, <1>7, <2>2 DEF Used, TableRight
  <2> QED
    BY <2>1, <2>2
<1>8. \A i, j \in Slots : Used(i)' /\ Used(j)' /\ table'[i].pa = table'[j].pa => i = j
  BY <1>7
<1> QED
  BY <1>4, <1>6, <1>8 DEF TableRight, Used

\* The record with which ip_send begins.
Begun(d) == [pc |-> "scan", dest |-> d, hop |-> ip_resolve_route(d), slot |-> 1, tries |-> 0,
             perm |-> FALSE]

(* The steps of ip_send keep the types and the count of the rounds.          *)
LEMMA SendType ==
  ASSUME TypeOK, RoundsLeft, NEW c \in Ctx, ip_send(c)
  PROVE  TypeOK' /\ RoundsLeft' /\ UNCHANGED table
<1> USE DEF TypeOK, RoundsLeft, At, Step
<1>0. 1 \in Slots /\ MAX_ARP_ENTRY \in Nat \ {0} /\ ARP_TRIES \in Nat \ {0} /\ 0 \in 0..ARP_TRIES
  BY ArpAssumption DEF Slots
<1> DEFINE Places == [pc: {"idle", "scan", "request", "wait", "copy"},
                      dest: {{}} \cup Dests, hop: {{}, Gateway} \cup Dests,
                      slot: Slots, tries: 0..ARP_TRIES, perm: BOOLEAN]
<1>a. \A r \in Places : (r.pc = "request" => r.tries < ARP_TRIES) =>
        (ctx' = [ctx EXCEPT ![c] = r] =>
           ctx' \in [Ctx -> Places] /\ \A d \in Ctx : ctx'[d].pc = "request" => ctx'[d].tries < ARP_TRIES)
  OBVIOUS
<1>1. CASE Begin(c)
  <2>1. PICK d \in Dests : ctx' = [ctx EXCEPT ![c] = Begun(d)]
    BY <1>1 DEF Begin, Begun
  <2>2. ip_resolve_route(d) \in {{}, Gateway} \cup Dests
    BY DEF ip_resolve_route
  <2>3. Begun(d) \in Places /\ Begun(d).pc = "scan"
    BY <1>0, <2>2 DEF Begun
  <2> QED
    BY <1>1, <2>1, <2>3, <1>a DEF Begin
<1>2. CASE ScanHit(c)
  <2> DEFINE r == [ctx[c] EXCEPT !.pc = "copy",
                     !.perm = table[ctx[c].slot].longevity = "ARP_ENTRY_PERM"]
  <2>1. r \in Places /\ r.pc = "copy"
    <3>1. ctx[c] \in Places
      OBVIOUS
    <3>2. (table[ctx[c].slot].longevity = "ARP_ENTRY_PERM") \in BOOLEAN
      OBVIOUS
    <3> QED
      BY <3>1, <3>2
  <2>2. ctx' = [ctx EXCEPT ![c] = r]
    BY <1>2 DEF ScanHit
  <2> HIDE DEF r
  <2> QED
    BY <1>2, <2>1, <2>2, <1>a DEF ScanHit
<1>3. CASE ScanMiss(c)
  <2>1. CASE ctx[c].slot < MAX_ARP_ENTRY
    <3>1. ctx[c].slot + 1 \in Slots
      BY <1>0, <2>1 DEF Slots
    <3>2. [ctx[c] EXCEPT !.slot = ctx[c].slot + 1] \in Places
      BY <3>1
    <3> QED
      BY <1>3, <2>1, <3>2, <1>a DEF ScanMiss
  <2>2. CASE ~(ctx[c].slot < MAX_ARP_ENTRY)
    <3> DEFINE to == IF ctx[c].tries = 0 THEN "request" ELSE "wait"
    <3>1. [ctx[c] EXCEPT !.pc = to] \in Places
      OBVIOUS
    <3>2. to = "request" => ctx[c].tries < ARP_TRIES
      BY <1>0
    <3>3. [ctx[c] EXCEPT !.pc = to].pc = to /\ [ctx[c] EXCEPT !.pc = to].tries = ctx[c].tries
      OBVIOUS
    <3> QED
      BY <1>3, <2>2, <3>1, <3>2, <3>3, <1>a DEF ScanMiss
  <2> QED
    BY <2>1, <2>2
<1>4. CASE Request(c)
  <2>1. ctx[c].tries < ARP_TRIES /\ ctx[c].tries \in 0..ARP_TRIES
    BY <1>4 DEF Request
  <2>2. ctx[c].tries + 1 \in 0..ARP_TRIES
    BY <1>0, <2>1
  <2>3. [ctx[c] EXCEPT !.pc = "wait", !.tries = ctx[c].tries + 1] \in Places
    BY <2>2
  <2> QED
    BY <1>4, <2>3, <1>a DEF Request
<1>5. CASE Wait(c)
  <2>1. CASE reference
    <3>1. [ctx[c] EXCEPT !.pc = "scan", !.slot = 1] \in Places
      BY <1>0
    <3> QED
      BY <1>5, <2>1, <3>1, <1>a DEF Wait
  <2>2. CASE ~reference /\ ctx[c].tries < ARP_TRIES
    <3>1. [ctx[c] EXCEPT !.pc = "request"] \in Places
      OBVIOUS
    <3>2. [ctx[c] EXCEPT !.pc = "request"].tries < ARP_TRIES
      BY <2>2
    <3> QED
      BY <1>5, <2>2, <3>1, <3>2, <1>a DEF Wait
  <2>3. CASE ~reference /\ ~(ctx[c].tries < ARP_TRIES)
    <3>1. Idle \in Places /\ Idle.pc = "idle"
      BY <1>0 DEF Idle
    <3> QED
      BY <1>5, <2>3, <3>1, <1>a DEF Wait
  <2> QED
    BY <2>1, <2>2, <2>3
<1>6. CASE Copy(c)
  BY <1>0, <1>6 DEF Copy, Idle
<1> QED
  BY <1>1, <1>2, <1>3, <1>4, <1>5, <1>6 DEF ip_send

(* The invariant of Arp is inductive. *)
LEMMA ArpInductive == (Init => ArpInv) /\ (ArpInv /\ [Next]_vars => ArpInv')
<1>1. Init => ArpInv
  <2> SUFFICES ASSUME Init PROVE ArpInv
    OBVIOUS
  <2>1. 1 \in Slots /\ 0 \in 0..ARP_TRIES
    BY ArpAssumption DEF Slots
  <2> QED
    BY <2>1 DEF Init, ArpInv, TypeOK, RoundsLeft, TableRight, Empty, Idle, Used, Longevity
<1>2. ASSUME ArpInv, [Next]_vars PROVE ArpInv'
  <2> USE <1>2 DEF ArpInv
  <2>1. CASE arp_handler
    <3>1. PICK h \in Hosts, l \in Longevity \ {"ARP_ENTRY_EMPTY"} : arp_merge(h, l)
      BY <2>1 DEF arp_handler, Longevity
    <3>2. TableRight' /\ table' \in [Slots -> [longevity: Longevity, pa: Hosts \cup {{}}, hwa: Hosts \cup {{}}]]
      BY <3>1, MergeRight
    <3> QED
      BY <2>1, <3>2 DEF arp_handler, TypeOK, RoundsLeft
  <2>2. CASE timer_default_isr \/ timer_set_secs
    <3>1. UNCHANGED <<table, ctx>> /\ reference' \in BOOLEAN
      BY <2>2 DEF timer_default_isr, timer_set_secs
    <3> QED
      BY <3>1 DEF TypeOK, RoundsLeft, TableRight, Used
  <2>3. CASE \E c \in Ctx : ip_send(c)
    BY <2>3, SendType DEF TableRight, Used
  <2>4. CASE UNCHANGED vars
    BY <2>4 DEF vars, TypeOK, RoundsLeft, TableRight, Used
  <2> QED
    BY <2>1, <2>2, <2>3, <2>4 DEF Next
<1> QED
  BY <1>1, <1>2

(* arp_merge: in every run of ip_send, ARP and the timer an address is in    *)
(* the table once, with the hardware address of its owner.                   *)
THEOREM ArpTableRight == Spec => []TableRight
<1>1. ArpInv => TableRight
  BY DEF ArpInv
<1> QED
  BY <1>1, ArpInductive, PTL DEF Spec

-----------------------------------------------------------------------------
(* Udp *)

(* A step of the clients is a step of Arp or leaves it alone.                *)
LEMMA StepsOfArp == [UdpNext]_udpvars => [Next]_vars
<1> SUFFICES ASSUME UdpNext PROVE [Next]_vars
  BY DEF udpvars
<1> USE DEF Ctx, ip_send, Next
<1>1. CASE Call
  BY <1>1 DEF Call, Open, Acknowledge, End, Leak, bootp_request
<1>2. CASE InCall
  BY <1>2 DEF InCall, BindPort, BindHandler, FreePort, Broadcast, Send, Resolve, Sent, Unsent,
     StartTimer, Answered, TimedOut
<1>3. CASE Answering \/ Arrives \/ Tick
  BY <1>3 DEF Answering, Arrives, Tick
<1>4. CASE \E port \in Ports : Datagram(port)
  BY <1>4 DEF Datagram
<1> QED
  BY <1>1, <1>2, <1>3, <1>4 DEF UdpNext

\* The entry that arp_resolve has found is still there when it is copied, or
\* it was one that could be given up; a permanent entry is still permanent.
CopyRight ==
  \A c \in Ctx : ctx[c].pc = "copy" =>
    \/ /\ ctx[c].slot \in Matches(ctx[c].hop)
       /\ ctx[c].perm => table[ctx[c].slot].longevity = "ARP_ENTRY_PERM"
    \/ Displaceable(c)

\* What SentToOwner rests on.
SentInv == ArpInv /\ CopyRight

(* Merging gives a slot that is in use to another host only when no slot is  *)
(* empty, and then a temporary one or the last; an entry that stays keeps    *)
(* its longevity, and a table without an empty slot never has one again.     *)
LEMMA MergeKeeps ==
  ASSUME TypeOK, NEW h \in Hosts, NEW l \in Longevity \ {"ARP_ENTRY_EMPTY"},
         arp_merge(h, l), NEW i \in Slots, Used(i)
  PROVE  /\ Used(i)'
         /\ \/ /\ table'[i].pa = table[i].pa
               /\ table'[i].longevity = table[i].longevity
            \/ /\ \A k \in Slots : Used(k)
               /\ table[i].longevity # "ARP_ENTRY_PERM" \/ i = MAX_ARP_ENTRY
<1> DEFINE v == Victim(h)
           free == {k \in Slots : ~Used(k)}
           lon == IF Matches(h) # {} THEN table[v].longevity ELSE l
           new == [longevity |-> lon, pa |-> h, hwa |-> h]
<1>1. v \in Slots /\ (Matches(h) # {} => v \in Matches(h))
  BY VictimSlot
<1>2. table' = [table EXCEPT ![v] = new]
  BY DEF arp_merge
<1>3. free # {} => First(free) \in free
  BY FirstIn DEF Slots
<1>4. Temps # {} => First(Temps) \in Temps
  BY FirstIn DEF Slots, Temps
<1>5. Matches(h) = {} =>
        \/ v \in free
        \/ free = {} /\ (v \in Temps \/ v = MAX_ARP_ENTRY)
  BY <1>3, <1>4 DEF Victim
<1> HIDE DEF v, free
<1>6. \A k \in Slots : table'[k] = IF k = v THEN new ELSE table[k]
  BY <1>1, <1>2 DEF TypeOK
<1> HIDE DEF new, lon
<1>7. new.pa = h /\ new.longevity = lon
  BY DEF new
<1>8. CASE i # v
  BY <1>6, <1>8 DEF Used
<1>9. CASE i = v /\ Matches(h) # {}
  <2>1. table[v].pa = h /\ lon = table[v].longevity
    BY <1>1, <1>9 DEF Matches, lon
  <2> QED
    BY <1>6, <1>7, <1>9, <2>1 DEF Used
<1>10. CASE i = v /\ Matches(h) = {}
  <2>1. lon # "ARP_ENTRY_EMPTY"
    BY <1>10 DEF lon
  <2>2. free = {} /\ (i \in Temps \/ i = MAX_ARP_ENTRY)
    BY <1>5, <1>10 DEF free
  <2>3. \A k \in Slots : Used(k)
    BY <2>2 DEF free
  <2>4. table[i].longevity # "ARP_ENTRY_PERM" \/ i = MAX_ARP_ENTRY
    BY <2>2 DEF Temps
  <2> QED
    BY <1>6, <1>7, <1>10, <2>1, <2>3, <2>4 DEF Used
<1> QED
  BY <1>8, <1>9, <1>10

(* A step of ip_send comes to the copy only with the slot it has just looked *)
(* at.                                                                       *)
LEMMA SendCopies ==
  ASSUME TypeOK, CopyRight, NEW c \in Ctx, ip_send(c)
  PROVE  CopyRight'
<1>1. UNCHANGED table
  BY DEF ip_send, Begin, ScanHit, ScanMiss, Request, Wait, Copy
<1>2. /\ \A pa : Matches(pa)' = Matches(pa)
      /\ \A i \in Slots : Used(i)' <=> Used(i)
  BY <1>1 DEF Matches, Used
<1>3. PICK r : /\ ctx' = [ctx EXCEPT ![c] = r]
               /\ r.pc = "copy" => /\ r.slot \in Matches(r.hop)
                                   /\ r.perm => table[r.slot].longevity = "ARP_ENTRY_PERM"
  <2>1. CASE Begin(c)
    <3>1. PICK d \in Dests : ctx' = [ctx EXCEPT ![c] = Begun(d)]
      BY <2>1 DEF Begin, Step, Begun
    <3>2. Begun(d).pc # "copy"
      BY DEF Begun
    <3> QED
      BY <3>1, <3>2
  <2>2. CASE ScanHit(c)
    <3> DEFINE r == [ctx[c] EXCEPT !.pc = "copy",
                       !.perm = table[ctx[c].slot].longevity = "ARP_ENTRY_PERM"]
    <3>1. /\ r.slot = ctx[c].slot /\ r.hop = ctx[c].hop
          /\ r.perm = (table[ctx[c].slot].longevity = "ARP_ENTRY_PERM")
      BY DEF TypeOK
    <3>2. ctx' = [ctx EXCEPT ![c] = r] /\ ctx[c].slot \in Matches(ctx[c].hop)
      BY <2>2 DEF ScanHit, Step
    <3> HIDE DEF r
    <3> QED
      BY <3>1, <3>2
  <2>3. CASE ScanMiss(c)
    <3>1. ctx[c].pc # "copy"
      BY <2>3 DEF ScanMiss, At
    <3> DEFINE to == IF ctx[c].tries = 0 THEN "request" ELSE "wait"
               r == IF ctx[c].slot < MAX_ARP_ENTRY THEN [ctx[c] EXCEPT !.slot = ctx[c].slot + 1]
                    ELSE [ctx[c] EXCEPT !.pc = to]
    <3>2. r.pc # "copy"
      BY <3>1 DEF TypeOK
    <3>3. ctx' = [ctx EXCEPT ![c] = r]
      BY <2>3 DEF ScanMiss, Step
    <3> HIDE DEF r
    <3> QED
      BY <3>2, <3>3
  <2>4. CASE Request(c)
    <3> DEFINE r == [ctx[c] EXCEPT !.pc = "wait", !.tries = ctx[c].tries + 1]
    <3>1. r.pc # "copy"
      BY DEF TypeOK
    <3>2. ctx' = [ctx EXCEPT ![c] = r]
      BY <2>4 DEF Request, Step
    <3> HIDE DEF r
    <3> QED
      BY <3>1, <3>2
  <2>5. CASE Wait(c)
    <3> DEFINE r == IF reference THEN [ctx[c] EXCEPT !.pc = "scan", !.slot = 1]
                    ELSE IF ctx[c].tries < ARP_TRIES THEN [ctx[c] EXCEPT !.pc = "request"]
                    ELSE Idle
    <3>1. r.pc # "copy"
      BY DEF TypeOK, Idle
    <3>2. ctx' = [ctx EXCEPT ![c] = r]
      BY <2>5 DEF Wait, Step
    <3> HIDE DEF r
    <3> QED
      BY <3>1, <3>2
  <2>6. CASE Copy(c)
    <3>1. ctx' = [ctx EXCEPT ![c] = Idle] /\ Idle.pc # "copy"
      BY <2>6 DEF Copy, Step, Idle
    <3> QED
      BY <3>1
  <2> QED
    BY <2>1, <2>2, <2>3, <2>4, <2>5, <2>6 DEF ip_send
<1>4. \A d \in Ctx : ctx'[d] = IF d = c THEN r ELSE ctx[d]
  BY <1>3 DEF TypeOK
<1> QED
  BY <1>1, <1>2, <1>3, <1>4 DEF CopyRight, Displaceable

(* What is found stays what it was, or could be given up, in every step.     *)
LEMMA SentInductive == (Init => SentInv) /\ (SentInv /\ [Next]_vars => SentInv')
<1>1. Init => SentInv
  <2>1. Init => CopyRight
    BY DEF Init, CopyRight, Idle
  <2> QED
    BY <2>1, ArpInductive DEF SentInv
<1>2. ASSUME SentInv, [Next]_vars PROVE SentInv'
  <2>1. ArpInv /\ ArpInv' /\ CopyRight /\ TypeOK /\ TableRight
    BY <1>2, ArpInductive DEF SentInv, ArpInv
  <2>2. CASE arp_handler
    <3>1. PICK h \in Hosts, l \in Longevity \ {"ARP_ENTRY_EMPTY"} : arp_merge(h, l)
      BY <2>2 DEF arp_handler, Longevity
    <3>2. UNCHANGED ctx
      BY <2>2 DEF arp_handler
    <3>3. \A i \in Slots : Used(i) => Used(i)'
      BY <2>1, <3>1, MergeKeeps
    <3>4. ASSUME NEW c \in Ctx, ctx'[c].pc = "copy"
          PROVE  \/ /\ ctx'[c].slot \in Matches(ctx[c].hop)'
                    /\ ctx'[c].perm => table'[ctx'[c].slot].longevity = "ARP_ENTRY_PERM"
                 \/ Displaceable(c)'
      <4>1. CASE Displaceable(c)
        BY <3>2, <3>3, <4>1 DEF Displaceable
      <4>2. CASE ~Displaceable(c)
        <5>1. PICK i \in Slots :
                /\ i = ctx[c].slot /\ Used(i) /\ table[i].pa = ctx[c].hop
                /\ ctx[c].perm => table[i].longevity = "ARP_ENTRY_PERM"
          BY <2>1, <3>2, <3>4, <4>2 DEF CopyRight, Matches
        <5>2. /\ Used(i)'
              /\ \/ /\ table'[i].pa = table[i].pa
                    /\ table'[i].longevity = table[i].longevity
                 \/ /\ \A k \in Slots : Used(k)
                    /\ table[i].longevity # "ARP_ENTRY_PERM" \/ i = MAX_ARP_ENTRY
          BY <2>1, <3>1, <5>1, MergeKeeps
        <5>3. CASE table'[i].pa = table[i].pa /\ table'[i].longevity = table[i].longevity
          <6>1. i \in Matches(ctx[c].hop)'
            BY <3>2, <5>1, <5>2, <5>3 DEF Matches
          <6>2. ctx[c].perm => table'[i].longevity = "ARP_ENTRY_PERM"
            BY <5>1, <5>3
          <6> QED
            BY <3>2, <5>1, <6>1, <6>2
        <5>4. CASE /\ \A k \in Slots : Used(k)
                   /\ table[i].longevity # "ARP_ENTRY_PERM" \/ i = MAX_ARP_ENTRY
          BY <4>2, <5>1, <5>4 DEF Displaceable
        <5> QED
          BY <5>2, <5>3, <5>4
      <4> QED
        BY <4>1, <4>2
    <3>5. CopyRight'
      BY <3>2, <3>4 DEF CopyRight
    <3> QED
      BY <2>1, <3>5 DEF SentInv
  <2>3. CASE \E c \in Ctx : ip_send(c)
    BY <2>1, <2>3, SendCopies DEF SentInv
  <2>4. CASE timer_default_isr \/ timer_set_secs \/ UNCHANGED vars
    <3>1. UNCHANGED <<table, ctx>>
      BY <2>4 DEF timer_default_isr, timer_set_secs, vars
    <3>2. CopyRight'
      BY <2>1, <3>1 DEF CopyRight, Displaceable, Matches, Used
    <3> QED
      BY <2>1, <3>2 DEF SentInv
  <2> QED
    BY <1>2, <2>2, <2>3, <2>4 DEF Next
<1> QED
  BY <1>1, <1>2

(* ip_send: the hardware address in a frame is that of its next hop although *)
(* interrupts change the table between the look-up and the copy, unless no   *)
(* slot is empty and the entry was a temporary one or in the last slot: for  *)
(* any number of slots and hosts.                                            *)
THEOREM ArpSentToOwner == Spec => SentToOwner
<1> DEFINE Right == \A c \in Ctx : Copy(c) =>
                      table[ctx[c].slot].hwa = ctx[c].hop \/ Displaceable(c)
<1>1. SentInv => Right
  BY DEF SentInv, ArpInv, CopyRight, TableRight, Matches, Copy, At, Slots
<1>2. SentInv /\ [Next]_vars => [Right]_vars
  BY <1>1
<1> QED
  BY <1>2, SentInductive, PTL DEF Spec, SentToOwner

(* The clients of UDP use ip_send, the ARP table and the timer as Arp says.  *)
THEOREM UdpImplementsArp == UdpSpec => Spec
<1>1. UdpInit => Init
  BY DEF UdpInit
<1> QED
  BY <1>1, StepsOfArp, PTL DEF UdpSpec, Spec

(* The ARP table is right whatever the clients of UDP do. *)
THEOREM UdpTableRight == UdpSpec => []TableRight
  BY UdpImplementsArp, ArpTableRight, PTL

(* So do the frames of its clients reach their next hop.                     *)
THEOREM UdpSentToOwner == UdpSpec => SentToOwner
  BY UdpImplementsArp, ArpSentToOwner, PTL

-----------------------------------------------------------------------------
(* What the calls have done so far.                                          *)

\* The variables keep their types.
UdpTypes ==
  /\ ports \in [Entries -> [port: Ports, handler: Handlers]]
  /\ fg \in [call: Calls, entry: Entries, sends: 0..(SEND_TRIES - 1), rounds: 0..(ROUNDS - 1),
             pc: {"idle", "bind", "handler", "send", "sending", "timer", "wait", "free"}]
  /\ answer \in {"none", "open", "error"}
  /\ session \in BOOLEAN /\ leaks \in 0..MaxLeaks

\* Where each call can be, and which calls belong to an open connection.
FgSound ==
  /\ fg.pc = "idle" <=> fg.call = "none"
  /\ fg.pc \in {"bind", "handler"} => fg.call \in {"open", "bootp_request"}
  /\ fg.pc \in {"timer", "wait"} => fg.call = "open"
  /\ fg.call = "bootp_request" => fg.pc \in {"bind", "handler", "send", "free"}
  /\ fg.call = "ack" => fg.pc \in {"send", "sending"} /\ session
  /\ fg.call \in {"open", "end"} => ~session

\* An entry in use has the handler of its port, but for the one being bound.
EntriesSound ==
  /\ fg.pc = "handler" => ports[fg.entry].port = PortOf(fg.call)
  /\ \A i \in Entries : \/ ports[i].port = "zero"
                        \/ ports[i].handler = HandlerOf(ports[i].port)
                        \/ fg.pc = "handler" /\ fg.entry = i

\* BOOTP has one entry at most, and only during its call.
BootpOnce ==
  /\ Bound("bootp") # {} =>
       fg.call = "bootp_request" /\ fg.pc \in {"handler", "send", "free"}
  /\ \A i, j \in Bound("bootp") : i = j

\* Transfers have an entry from udp_bind_port to udp_free_port.
Held ==
  /\ session \/ (fg.call \in {"open", "ack", "end"} /\ fg.pc # "bind") => Bound("tftp") # {}
  /\ fg.call = "bootp_request" /\ fg.pc \in {"send", "free"} =>
       Bound("bootp") # {} \/ Bound("tftp") = Entries

\* The invariant of Udp.
UdpInv == UdpTypes /\ FgSound /\ EntriesSound /\ BootpOnce /\ Held

(* The invariant holds at the start. *)
LEMMA UdpInitInv == UdpInit => UdpInv
<1> SUFFICES ASSUME UdpInit PROVE UdpInv
  OBVIOUS
<1>1. 1 \in Entries /\ 0 \in 0..(SEND_TRIES - 1) /\ 0 \in 0..(ROUNDS - 1) /\ 0 \in 0..MaxLeaks
  BY UdpAssumption DEF Entries
<1> QED
  BY <1>1 DEF UdpInit, UdpInv, UdpTypes, FgSound, EntriesSound, BootpOnce, Held, NoCall, Bound, Ports,
     Handlers, Calls

(* The steps that begin a call, and datagrams, keep the invariant. *)
LEMMA CallInv ==
  ASSUME UdpInv, Call \/ \E port \in Ports : Datagram(port)
  PROVE  UdpInv'
<1> USE DEF UdpInv, NoCall, Foreground, Bound
<1>1. 1 \in Entries /\ 0 \in 0..(SEND_TRIES - 1) /\ 0 \in 0..(ROUNDS - 1)
  BY UdpAssumption DEF Entries
<1>2. UNCHANGED ports
  BY DEF Call, Open, Acknowledge, End, Leak, bootp_request, Datagram
<1>3. CASE Open
  BY <1>1, <1>3 DEF Open, UdpTypes, FgSound, EntriesSound, BootpOnce, Held, Calls
<1>4. CASE Acknowledge
  BY <1>1, <1>4 DEF Acknowledge, UdpTypes, FgSound, EntriesSound, BootpOnce, Held, Calls
<1>5. CASE End
  BY <1>1, <1>5 DEF End, UdpTypes, FgSound, EntriesSound, BootpOnce, Held, Calls
<1>6. CASE Leak
  <2>1. leaks' \in 0..MaxLeaks
    BY <1>6, UdpAssumption DEF Leak, UdpTypes
  <2> QED
    BY <1>6, <2>1 DEF Leak, UdpTypes, FgSound, EntriesSound, BootpOnce, Held
<1>7. CASE bootp_request
  BY <1>1, <1>7 DEF bootp_request, UdpTypes, FgSound, EntriesSound, BootpOnce, Held, Calls
<1>8. CASE \E port \in Ports : Datagram(port)
  BY <1>8 DEF Datagram, UdpTypes, FgSound, EntriesSound, BootpOnce, Held
<1> QED
  BY <1>3, <1>4, <1>5, <1>6, <1>7, <1>8 DEF Call

(* udp_bind_port's first store keeps the invariant: when there is no free    *)
(* entry, all are held by transfers that kept their ports.                   *)
LEMMA BindPortInv ==
  ASSUME UdpInv, BindPort
  PROVE  UdpInv'
<1> USE DEF UdpInv, Foreground
<1>1. Bound("bootp") = {}
  BY DEF BootpOnce, BindPort
<1>2. fg.call \in {"open", "bootp_request"} /\ fg.pc = "bind"
  BY DEF BindPort, FgSound
<1>3. CASE Bound("zero") = {} /\ Goto("send") /\ UNCHANGED ports
  <2>1. Bound("tftp") = Entries /\ 1 \in Entries
    BY <1>1, <1>3, UdpAssumption DEF Bound, UdpTypes, Ports, Entries
  <2>2. fg' = [fg EXCEPT !.pc = "send"]
    BY <1>3 DEF Goto
  <2> QED
    BY <1>1, <1>2, <1>3, <2>1, <2>2 DEF BindPort, UdpTypes, FgSound, EntriesSound, BootpOnce, Held, Bound
<1>4. CASE Bound("zero") # {} /\ ports' = [ports EXCEPT ![First(Bound("zero"))].port = PortOf(fg.call)]
             /\ fg' = [fg EXCEPT !.pc = "handler", !.entry = First(Bound("zero"))]
  <2> DEFINE e == First(Bound("zero"))
             p == PortOf(fg.call)
  <2>1. Bound("zero") \subseteq Nat
    BY DEF Bound, Entries
  <2>2. e \in Bound("zero")
    BY <1>4, <2>1, FirstIn
  <2>3. e \in Entries /\ ports[e].port = "zero" /\ p \in {"tftp", "bootp"}
    BY <2>2 DEF Bound, PortOf
  <2>4. fg' = [fg EXCEPT !.pc = "handler", !.entry = e] /\ ports' = [ports EXCEPT ![e].port = p]
    BY <1>4
  <2> HIDE DEF e
  <2>5. \A i \in Entries : /\ ports'[i].handler = ports[i].handler
                           /\ ports'[i].port = IF i = e THEN p ELSE ports[i].port
    BY <2>3, <2>4 DEF UdpTypes
  <2>6. UdpTypes'
    BY <1>2, <2>3, <2>4 DEF UdpTypes, BindPort, Ports
  <2>7. fg'.pc = "handler" /\ fg'.entry = e /\ fg'.call = fg.call /\ UNCHANGED <<session, answer>>
    BY <2>4 DEF BindPort, UdpTypes
  <2>8. FgSound'
    BY <1>2, <2>7 DEF FgSound
  <2>9. EntriesSound'
    BY <1>2, <2>3, <2>5, <2>7 DEF EntriesSound, PortOf
  <2>10. BootpOnce'
    BY <1>1, <1>2, <2>3, <2>5, <2>7 DEF BootpOnce, Bound, PortOf
  <2>11. Bound("tftp") \subseteq Bound("tftp")' /\ (fg.call = "open" => e \in Bound("tftp")')
    BY <2>3, <2>5 DEF Bound, PortOf
  <2>12. Held'
    BY <1>2, <2>7, <2>11 DEF Held, FgSound
  <2> QED
    BY <2>6, <2>8, <2>9, <2>10, <2>12
<1> QED
  BY <1>3, <1>4 DEF BindPort

(* udp_bind_port's second store keeps the invariant. *)
LEMMA BindHandlerInv ==
  ASSUME UdpInv, BindHandler
  PROVE  UdpInv'
<1> USE DEF UdpInv, Foreground
<1> DEFINE e == fg.entry
           h == HandlerOf(PortOf(fg.call))
<1>1. fg.call \in {"open", "bootp_request"} /\ fg.pc = "handler" /\ e \in Entries
  BY DEF BindHandler, FgSound, UdpTypes
<1>2. fg' = [fg EXCEPT !.pc = "send"] /\ ports' = [ports EXCEPT ![e].handler = h] /\ UNCHANGED session
  BY DEF BindHandler, Goto
<1>3. \A i \in Entries : /\ ports'[i].port = ports[i].port
                         /\ ports'[i].handler = IF i = e THEN h ELSE ports[i].handler
  BY <1>1, <1>2 DEF UdpTypes
<1>4. h \in Handlers
  BY DEF HandlerOf, PortOf, Handlers
<1>5. UdpTypes'
  BY <1>1, <1>2, <1>4 DEF UdpTypes, BindHandler
<1>6. fg'.pc = "send" /\ fg'.call = fg.call
  BY <1>2 DEF UdpTypes
<1>7. \A p \in Ports : UNCHANGED Bound(p)
  BY <1>3 DEF Bound
<1>8. ports[e].port = PortOf(fg.call)
  BY <1>1 DEF EntriesSound
<1>9. EntriesSound'
  BY <1>1, <1>3, <1>6, <1>8 DEF EntriesSound
<1>10. e \in Bound(PortOf(fg.call))
  BY <1>1, <1>8 DEF Bound
<1>11. FgSound' /\ BootpOnce' /\ Held'
  BY <1>1, <1>2, <1>6, <1>7, <1>10 DEF FgSound, BootpOnce, Held, PortOf, Ports
<1> QED
  BY <1>5, <1>9, <1>11

(* udp_free_port keeps the invariant: it frees an entry of its own port. *)
LEMMA FreeInv ==
  ASSUME UdpInv, FreePort
  PROVE  UdpInv'
<1> USE DEF UdpInv, Foreground
<1> DEFINE mine == Bound(PortOf(fg.call))
<1>1. fg.pc = "free" /\ fg.call \in {"open", "end", "bootp_request"} /\ fg' = NoCall /\ UNCHANGED session
  BY DEF FreePort, FgSound, UdpTypes, Calls, Return
<1>2. 1 \in Entries /\ 0 \in 0..(SEND_TRIES - 1) /\ 0 \in 0..(ROUNDS - 1)
  BY UdpAssumption DEF Entries
<1>3. FgSound'
  BY <1>1 DEF FgSound, NoCall
<1>4. CASE mine = {}
  <2>1. UNCHANGED ports
    BY <1>4 DEF FreePort
  <2>2. fg.call = "bootp_request"
    BY <1>1, <1>4 DEF Held, PortOf
  <2>3. Bound("bootp") = {}
    BY <1>4, <2>2 DEF PortOf
  <2> QED
    BY <1>1, <1>2, <1>3, <2>1, <2>2, <2>3 DEF FreePort, UdpTypes, EntriesSound, BootpOnce, Held, NoCall,
       Bound, Calls
<1>5. CASE mine # {}
  <2> DEFINE e == First(mine)
  <2>1. mine \subseteq Nat
    BY DEF Bound, Entries
  <2>2. e \in mine
    BY <1>5, <2>1, FirstIn
  <2>3. e \in Entries /\ ports[e].port = PortOf(fg.call)
    BY <2>2 DEF Bound
  <2>4. ports' = [ports EXCEPT ![e].port = "zero"]
    BY <1>5 DEF FreePort
  <2> HIDE DEF e
  <2>5. \A i \in Entries : /\ ports'[i].handler = ports[i].handler
                           /\ ports'[i].port = IF i = e THEN "zero" ELSE ports[i].port
    BY <2>3, <2>4 DEF UdpTypes
  <2>6. UdpTypes'
    <3>1. ports' \in [Entries -> [port: Ports, handler: Handlers]]
      BY <2>3, <2>4 DEF UdpTypes, Ports
    <3> QED
      BY <1>1, <1>2, <3>1 DEF UdpTypes, FreePort, NoCall, Calls
  <2>7. EntriesSound'
    BY <1>1, <2>5 DEF EntriesSound, NoCall
  <2>8. BootpOnce'
    <3>1. Bound("bootp")' = Bound("bootp") \ {e}
      BY <2>5 DEF Bound
    <3>2. Bound("bootp") \ {e} = {}
      BY <1>1, <2>2 DEF BootpOnce, PortOf
    <3> QED
      BY <3>1, <3>2 DEF BootpOnce
  <2>9. Held'
    <3>1. session => fg.call = "bootp_request"
      BY <1>1 DEF FgSound
    <3>2. session => Bound("tftp")' = Bound("tftp")
      BY <2>3, <2>5, <3>1 DEF Bound, PortOf
    <3> QED
      BY <1>1, <3>2 DEF Held, NoCall
  <2> QED
    BY <1>3, <2>6, <2>7, <2>8, <2>9
<1> QED
  BY <1>4, <1>5

(* Sending and waiting keep the invariant. *)
LEMMA SendInv ==
  ASSUME UdpInv, InCall, ~BindPort, ~BindHandler, ~FreePort
  PROVE  UdpInv'
<1> USE DEF UdpInv, Foreground
<1>1. UNCHANGED <<ports, leaks>> /\ answer' = answer
  BY DEF InCall, Broadcast, Send, Resolve, Sent, Unsent, StartTimer, Answered, TimedOut, udp
<1>2. 1 \in Entries /\ 0 \in 0..(SEND_TRIES - 1) /\ 0 \in 0..(ROUNDS - 1)
  BY UdpAssumption DEF Entries
<1>3. SEND_TRIES \in Nat \ {0} /\ ROUNDS \in Nat \ {0} /\ fg.sends \in Nat /\ fg.rounds \in Nat
  BY UdpAssumption DEF UdpTypes
<1>4. \A p : UNCHANGED Bound(p)
  BY <1>1 DEF Bound
<1> DEFINE Places == [call: Calls, entry: Entries, sends: 0..(SEND_TRIES - 1), rounds: 0..(ROUNDS - 1),
             pc: {"idle", "bind", "handler", "send", "sending", "timer", "wait", "free"}]
<1>5. ASSUME NEW place \in {"send", "sending", "timer", "wait", "free"}, fg' = [fg EXCEPT !.pc = place]
      PROVE  fg' \in Places /\ fg'.pc = place /\ fg'.call = fg.call
  BY <1>5 DEF UdpTypes
<1>6. NoCall \in Places /\ NoCall.call = "none" /\ NoCall.pc = "idle"
  BY <1>2 DEF NoCall, Calls
<1>7. \A r \in Places : fg' = r /\ session' \in BOOLEAN => UdpTypes'
  BY <1>1 DEF UdpTypes
<1>8. CASE Broadcast
  <2>1. fg' = [fg EXCEPT !.pc = "free"] /\ fg.pc = "send" /\ fg.call = "bootp_request" /\ session' = session
    BY <1>8 DEF Broadcast, Goto
  <2> QED
    BY <1>1, <1>4, <1>5, <1>7, <2>1 DEF FgSound, EntriesSound, BootpOnce, Held, UdpTypes
<1>9. CASE Send
  <2>1. fg' = [fg EXCEPT !.pc = "sending"] /\ fg.pc = "send" /\ fg.call # "bootp_request" /\ session' = session
    BY <1>9 DEF Send, Goto
  <2> QED
    BY <1>1, <1>4, <1>5, <1>7, <2>1 DEF FgSound, EntriesSound, BootpOnce, Held, UdpTypes
<1>10. CASE Resolve
  BY <1>1, <1>4, <1>10 DEF Resolve, udp, UdpTypes, FgSound, EntriesSound, BootpOnce, Held
<1>11. CASE Sent
  <2>1. fg.pc = "sending" /\ session' = session /\ AfterSend
    BY <1>11 DEF Sent
  <2>2. fg.call \in {"open", "ack", "end"}
    BY <2>1 DEF FgSound, UdpTypes, Calls
  <2>3. \/ fg.call = "open" /\ fg' = [fg EXCEPT !.pc = "timer"]
        \/ fg.call = "end" /\ fg' = [fg EXCEPT !.pc = "free"]
        \/ fg.call = "ack" /\ fg' = NoCall
    BY <2>1, <2>2 DEF AfterSend, Goto, Return
  <2> QED
    BY <1>1, <1>4, <1>5, <1>6, <1>7, <2>1, <2>2, <2>3 DEF FgSound, EntriesSound, BootpOnce, Held, UdpTypes
<1>12. CASE Unsent
  <2>1. fg.pc = "sending" /\ session' = session /\ fg.call \in {"open", "ack", "end"}
    BY <1>12 DEF Unsent, FgSound, UdpTypes, Calls
  <2>2. CASE fg.sends + 1 < SEND_TRIES
    <3>1. fg' = [fg EXCEPT !.pc = "send", !.sends = fg.sends + 1]
      BY <1>12, <2>2 DEF Unsent
    <3>2. fg.sends + 1 \in 0..(SEND_TRIES - 1)
      BY <1>3, <2>2
    <3>3. fg' \in Places /\ fg'.pc = "send" /\ fg'.call = fg.call
      BY <3>1, <3>2 DEF UdpTypes
    <3> QED
      BY <1>1, <1>4, <1>7, <2>1, <3>3 DEF FgSound, EntriesSound, BootpOnce, Held, UdpTypes
  <2>3. CASE ~(fg.sends + 1 < SEND_TRIES)
    <3>1. IF fg.call = "ack" THEN fg' = NoCall ELSE fg' = [fg EXCEPT !.pc = "free"]
      BY <1>12, <2>3 DEF Unsent, Return, Goto
    <3> QED
      BY <1>1, <1>4, <1>5, <1>6, <1>7, <2>1, <3>1 DEF FgSound, EntriesSound, BootpOnce, Held, UdpTypes
  <2> QED
    BY <2>2, <2>3
<1>13. CASE StartTimer
  <2>1. fg' = [fg EXCEPT !.pc = "wait"] /\ fg.pc = "timer" /\ session' = session
    BY <1>13 DEF StartTimer, Goto
  <2> QED
    BY <1>1, <1>4, <1>5, <1>7, <2>1 DEF FgSound, EntriesSound, BootpOnce, Held, UdpTypes
<1>14. CASE Answered
  <2>1. fg' = NoCall /\ fg.pc = "wait" /\ session' = TRUE
    BY <1>14 DEF Answered, Return
  <2> QED
    BY <1>1, <1>4, <1>6, <1>7, <2>1 DEF FgSound, EntriesSound, BootpOnce, Held, UdpTypes
<1>15. CASE TimedOut
  <2>1. fg.pc = "wait" /\ fg.call = "open" /\ session' = session
    BY <1>15 DEF TimedOut, FgSound
  <2>2. CASE answer = "none" /\ fg.rounds + 1 < ROUNDS
    <3>1. fg' = [fg EXCEPT !.pc = "send", !.sends = 0, !.rounds = fg.rounds + 1]
      BY <1>15, <2>2 DEF TimedOut
    <3>2. fg.rounds + 1 \in 0..(ROUNDS - 1)
      BY <1>3, <2>2
    <3>3. fg' \in Places /\ fg'.pc = "send" /\ fg'.call = fg.call
      BY <1>2, <3>1, <3>2 DEF UdpTypes
    <3> QED
      BY <1>1, <1>4, <1>7, <2>1, <3>3 DEF FgSound, EntriesSound, BootpOnce, Held, UdpTypes
  <2>3. CASE ~(answer = "none" /\ fg.rounds + 1 < ROUNDS)
    <3>1. fg' = [fg EXCEPT !.pc = "free"]
      BY <1>15, <2>3 DEF TimedOut
    <3> QED
      BY <1>1, <1>4, <1>5, <1>7, <2>1, <3>1 DEF FgSound, EntriesSound, BootpOnce, Held, UdpTypes
  <2> QED
    BY <2>2, <2>3
<1> QED
  BY <1>8, <1>9, <1>10, <1>11, <1>12, <1>13, <1>14, <1>15 DEF InCall

(* The invariant of Udp is inductive. *)
LEMMA UdpInductive == UdpSpec => []UdpInv
<1>1. UdpInv /\ [UdpNext]_udpvars => UdpInv'
  <2> SUFFICES ASSUME UdpInv, [UdpNext]_udpvars PROVE UdpInv'
    OBVIOUS
  <2>1. CASE Call \/ InCall \/ \E port \in Ports : Datagram(port)
    BY <2>1, CallInv, BindPortInv, BindHandlerInv, FreeInv, SendInv
  <2>2. CASE Answering \/ Arrives \/ Tick \/ UNCHANGED udpvars
    <3>1. UNCHANGED udp
      BY <2>2 DEF Answering, Arrives, Tick, udpvars
    <3> QED
      BY <3>1 DEF udp, UdpInv, UdpTypes, FgSound, EntriesSound, BootpOnce, Held, Bound
  <2> QED
    BY <2>1, <2>2 DEF UdpNext
<1> QED
  BY <1>1, UdpInitInv, PTL DEF UdpSpec

(* What udp_port_handler returns is the handler of an entry with the port. *)
LEMMA LookUpEntry ==
  ASSUME NEW port, Bound(port) # {}
  PROVE  First(Bound(port)) \in Bound(port)
<1> QED
  BY FirstIn DEF Bound, Entries

(* All variables of Arp and Udp keep their types. *)
THEOREM UdpTypesHold == UdpSpec => []UdpTypeOK
<1>1. ArpInv /\ UdpInv => UdpTypeOK
  BY DEF ArpInv, UdpInv, UdpTypes, UdpTypeOK
<1> QED
  BY <1>1, UdpInductive, UdpImplementsArp, ArpInductive, PTL DEF Spec

(* udp_handler: with any number of ports and calls, a datagram is handed to  *)
(* the handler of its port, but for the moment between the stores of         *)
(* udp_bind_port and for port 0.                                             *)
THEOREM UdpLookupRight == UdpSpec => []LookupRight
<1>1. UdpInv => LookupRight
  <2> SUFFICES ASSUME UdpInv, NEW port \in Ports \ {"zero"}, LookUp(port) # "none"
               PROVE  LookUp(port) = HandlerOf(port) \/ (fg.pc = "handler" /\ PortOf(fg.call) = port)
    BY DEF LookupRight
  <2> DEFINE e == First(Bound(port))
  <2>1. e \in Bound(port) /\ LookUp(port) = ports[e].handler
    BY LookUpEntry DEF LookUp
  <2>2. e \in Entries /\ ports[e].port = port
    BY <2>1 DEF Bound
  <2> HIDE DEF e
  <2> QED
    BY <2>1, <2>2 DEF UdpInv, EntriesSound
<1> QED
  BY <1>1, UdpInductive, PTL

(* A transfer is reachable until it frees its port, and a BOOTP request      *)
(* unless transfers that kept their ports fill the table.                    *)
THEOREM UdpReachable == UdpSpec => []Reachable
<1>1. UdpInv => Reachable
  <2> SUFFICES ASSUME UdpInv PROVE Reachable
    OBVIOUS
  <2> DEFINE Right(p) == Bound(p) # {} /\ ~(fg.pc = "handler" /\ PortOf(fg.call) = p)
  <2>1. ASSUME NEW p \in {"tftp", "bootp"}, Right(p) PROVE LookUp(p) = HandlerOf(p)
    <3> DEFINE e == First(Bound(p))
    <3>1. e \in Bound(p) /\ LookUp(p) = ports[e].handler
      BY <2>1, LookUpEntry DEF LookUp
    <3>2. e \in Entries /\ ports[e].port = p
      BY <3>1 DEF Bound
    <3> HIDE DEF e
    <3> QED
      BY <2>1, <3>1, <3>2 DEF UdpInv, EntriesSound
  <2>2. HandlerOf("tftp") = "tftp_handler" /\ HandlerOf("bootp") = "bootp_handler"
    BY DEF HandlerOf
  <2>3. Waiting => Right("tftp")
    BY DEF Waiting, UdpInv, Held, FgSound, PortOf
  <2> QED
    BY <2>1, <2>2, <2>3 DEF Reachable, UdpInv, Held
<1> QED
  BY <1>1, UdpInductive, PTL
=============================================================================
