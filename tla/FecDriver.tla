------------------------------ MODULE FecDriver ------------------------------
(***************************************************************************)
(* The Fast Ethernet Controller driver of BaS_gcc: the network buffer      *)
(* pool (net/nbuf.c on net/queue.c), the two buffer descriptor rings       *)
(* (net/fecbd.c) and the code that moves buffers through them (net/fec.c), *)
(* with the two multi-channel DMA tasks that work on the same rings.       *)
(*                                                                         *)
(* Two contexts run the driver's code on the one CPU.  "main" is the       *)
(* foreground program (boot code, tftp, bootp).  "isr" is                  *)
(* dma_interrupt_handler, which raises the priority to 7 and calls         *)
(* fec_rx_frame and fec_tx_frame: main does not run until it returns.      *)
(* Every nbuf_* routine runs at priority 7 and is one atomic step; the     *)
(* body of fec_send is not protected, so each of its accesses is a step    *)
(* of its own.  An iteration of the two interrupt loops touches only the   *)
(* descriptor the DMA has given back, so it is one step too.               *)
(***************************************************************************)
EXTENDS Integers, Sequences, FiniteSets

CONSTANTS Nbuf,        \* the network buffers (NBUF_MAX = 30 in nbuf.h)
          NULL,        \* the null data pointer
          NRXBD,       \* receive descriptors (20 in fecbd.h)
          NTXBD,       \* transmit descriptors (20 in fecbd.h)
          FrameKinds   \* the frames that arrive, by what the stack does with them

(***************************************************************************)
(* What becomes of a received frame: "error": the status word is bad;      *)
(* "discard": no handler, or the handler frees the buffer; "reply": an ARP *)
(* request for us, answered in the same buffer; "reack": a duplicate TFTP  *)
(* block, answered from a second buffer; "keep": queued by TFTP until the  *)
(* foreground reads it; "forget": the pointer is dropped without freeing   *)
(* the buffer, by ip_handler for an ICMP packet (ip.c 304) and by          *)
(* bootp_handler for every packet (bootp.c 84-114); "stray": a TFTP packet *)
(* of another server, answered with an error from a second buffer, after   *)
(* which tftp_handler forgets the received one (tftp.c 174-181, 240-247).  *)
(***************************************************************************)
AllFrameKinds == {"error", "discard", "reply", "reack", "keep", "forget", "stray"}

ASSUME FecAssumption ==
  /\ NRXBD \in Nat \ {0} /\ NTXBD \in Nat \ {0}
  /\ IsFiniteSet(Nbuf) /\ Cardinality(Nbuf) > NRXBD /\ NULL \notin Nbuf
  /\ FrameKinds \subseteq AllFrameKinds

NBUF_MAX == Cardinality(Nbuf)
RxIdx == 0..(NRXBD - 1)
TxIdx == 0..(NTXBD - 1)
Ctx == {"main", "isr"}
SendPc == {"idle", "held", "alloc", "incr", "queue", "data", "ready", "cont"}

VARIABLES
  freeQ, txQ, rxQ,         \* nbuf_queue[NBUF_FREE], [NBUF_TX_RING], [NBUF_RX_RING]
  RxBD, TxBD,              \* the descriptor rings, shared with the DMA
  iRxbd, iTxbd_new, iTxbd_old,
  rxDma, txDma,            \* the DMA tasks: next descriptor, and whether enabled
  DIPR,                    \* pending DMA interrupts
  isr,                     \* dma_interrupt_handler: where it is, what it serves
  snd,                     \* fec_send in each context: step, buffer, descriptor
  app,                     \* buffers the TFTP queue holds for the foreground
  lost,                    \* buffers the stack has forgotten: nothing refers to them
  up                       \* the port is set up

queues == <<freeQ, txQ, rxQ>>
dma == <<rxDma, txDma>>
vars == <<freeQ, txQ, rxQ, RxBD, TxBD, iRxbd, iTxbd_new, iTxbd_old, rxDma,
          txDma, DIPR, isr, snd, app, lost, up>>

IdleSend == [pc |-> "idle", nbuf |-> NULL, bd |-> 0]

TypeOK ==
  /\ freeQ \in Seq(Nbuf) /\ txQ \in Seq(Nbuf) /\ rxQ \in Seq(Nbuf)
  /\ RxBD \in [RxIdx -> [E: BOOLEAN, data: Nbuf, frame: AllFrameKinds \cup {"none"}]]
  /\ TxBD \in [TxIdx -> [R: BOOLEAN, data: Nbuf \cup {NULL}]]
  /\ iRxbd \in RxIdx /\ iTxbd_new \in TxIdx /\ iTxbd_old \in TxIdx
  /\ rxDma \in [bd: RxIdx, en: BOOLEAN]
  /\ txDma \in [bd: TxIdx, en: BOOLEAN]
  /\ DIPR \subseteq {"rx", "tx"}
  /\ isr \in [pc: {"idle", "rx", "send", "tx"}, interrupts: SUBSET {"rx", "tx"},
              cur: Nbuf \cup {NULL}]
  /\ snd \in [Ctx -> [pc: SendPc, nbuf: Nbuf \cup {NULL}, bd: TxIdx]]
  /\ app \subseteq Nbuf /\ lost \subseteq Nbuf
  /\ up \in BOOLEAN

(***************************************************************************)
(* nbuf_init makes the buffers and puts them on the free queue in order;   *)
(* fecbd_init then moves the first NRXBD of them, one per descriptor, to   *)
(* the receive ring.                                                       *)
(***************************************************************************)
Orders == {o \in [1..NBUF_MAX -> Nbuf] :
             \A j, k \in 1..NBUF_MAX : o[j] = o[k] => j = k}
RxQ0(o) == [k \in 1..NRXBD |-> o[k]]
FreeQ0(o) == [k \in 1..(NBUF_MAX - NRXBD) |-> o[k + NRXBD]]
RxBD0(o) == [i \in RxIdx |-> [E |-> TRUE, data |-> o[i + 1], frame |-> "none"]]
TxBD0 == [i \in TxIdx |-> [R |-> FALSE, data |-> NULL]]

Init ==
  /\ \E o \in Orders : freeQ = FreeQ0(o) /\ rxQ = RxQ0(o) /\ RxBD = RxBD0(o)
  /\ txQ = <<>> /\ TxBD = TxBD0
  /\ iRxbd = 0 /\ iTxbd_new = 0 /\ iTxbd_old = 0
  /\ rxDma = [bd |-> 0, en |-> TRUE] /\ txDma = [bd |-> 0, en |-> TRUE]
  /\ DIPR = {}
  /\ isr = [pc |-> "idle", interrupts |-> {}, cur |-> NULL]
  /\ snd = [c \in Ctx |-> IdleSend]
  /\ app = {} /\ lost = {} /\ up = TRUE

\* fec_eth_setup: buffers and rings as above, then both DMA tasks started
fec_eth_setup ==
  /\ ~up /\ isr.pc = "idle"
  /\ up' = TRUE
  /\ \E o \in Orders : freeQ' = FreeQ0(o) /\ rxQ' = RxQ0(o) /\ RxBD' = RxBD0(o)
  /\ txQ' = <<>> /\ TxBD' = TxBD0
  /\ iRxbd' = 0 /\ iTxbd_new' = 0 /\ iTxbd_old' = 0
  /\ rxDma' = [bd |-> 0, en |-> TRUE] /\ txDma' = [bd |-> 0, en |-> TRUE]
  /\ UNCHANGED <<DIPR, isr, snd, app, lost>>

(***************************************************************************)
(* fec_eth_stop, at priority 7: kill both DMA tasks and nbuf_flush every   *)
(* queue.  A buffer an upper layer still held would dangle, so the caller  *)
(* stops the port only when nothing of it is in use; a buffer already lost *)
(* keeps only its header, and the next setup allocates all of them anew.   *)
(* The descriptors keep their contents, which nothing reads any more.      *)
(***************************************************************************)
fec_eth_stop ==
  /\ up /\ isr.pc = "idle" /\ snd["main"].pc = "idle" /\ app = {}
  /\ up' = FALSE
  /\ rxDma' = [bd |-> rxDma.bd, en |-> FALSE]
  /\ txDma' = [bd |-> txDma.bd, en |-> FALSE]
  /\ freeQ' = <<>> /\ txQ' = <<>> /\ rxQ' = <<>>
  /\ lost' = {}
  /\ UNCHANGED <<RxBD, TxBD, iRxbd, iTxbd_new, iTxbd_old, DIPR, isr, snd, app>>

-----------------------------------------------------------------------------
(* The DMA tasks (microcode, external to the source): each walks its ring  *)
(* and disables itself at a descriptor that is not ready.                  *)

NextRx(i) == (i + 1) % NRXBD
NextTx(i) == (i + 1) % NTXBD

RxDmaFrame ==
  /\ rxDma.en /\ RxBD[rxDma.bd].E
  /\ \E k \in FrameKinds :
       RxBD' = [RxBD EXCEPT ![rxDma.bd] =
                  [E |-> FALSE, data |-> RxBD[rxDma.bd].data, frame |-> k]]
  /\ rxDma' = [bd |-> NextRx(rxDma.bd), en |-> TRUE]
  /\ DIPR' = DIPR \cup {"rx"}
  /\ UNCHANGED <<queues, TxBD, iRxbd, iTxbd_new, iTxbd_old, txDma, isr, snd, app, lost, up>>

RxDmaHalt ==
  /\ rxDma.en /\ ~RxBD[rxDma.bd].E
  /\ rxDma' = [bd |-> rxDma.bd, en |-> FALSE]
  /\ UNCHANGED <<queues, RxBD, TxBD, iRxbd, iTxbd_new, iTxbd_old, txDma, DIPR, isr, snd,
                 app, lost, up>>

TxDmaFrame ==
  /\ txDma.en /\ TxBD[txDma.bd].R
  /\ TxBD' = [TxBD EXCEPT ![txDma.bd] = [R |-> FALSE, data |-> TxBD[txDma.bd].data]]
  /\ txDma' = [bd |-> NextTx(txDma.bd), en |-> TRUE]
  /\ DIPR' = DIPR \cup {"tx"}
  /\ UNCHANGED <<queues, RxBD, iRxbd, iTxbd_new, iTxbd_old, rxDma, isr, snd, app, lost, up>>

TxDmaHalt ==
  /\ txDma.en /\ ~TxBD[txDma.bd].R
  /\ txDma' = [bd |-> txDma.bd, en |-> FALSE]
  /\ UNCHANGED <<queues, RxBD, TxBD, iRxbd, iTxbd_new, iTxbd_old, rxDma, DIPR, isr, snd,
                 app, lost, up>>

-----------------------------------------------------------------------------
(* fec_send, in the foreground and in the interrupt handler                *)

Runs(c) == IF c = "main" THEN isr.pc = "idle" ELSE isr.pc = "send"
At(c, pc) == Runs(c) /\ snd[c].pc = pc
Goto(c, pc) == snd' = [snd EXCEPT ![c] = [pc |-> pc, nbuf |-> snd[c].nbuf, bd |-> snd[c].bd]]

\* a foreground sender takes a buffer with nbuf_alloc; on NULL it gives up
MainNbufAlloc ==
  /\ up /\ At("main", "idle") /\ freeQ # <<>>
  /\ snd' = [snd EXCEPT !["main"] = [pc |-> "held", nbuf |-> Head(freeQ), bd |-> 0]]
  /\ freeQ' = Tail(freeQ)
  /\ UNCHANGED <<txQ, rxQ, RxBD, TxBD, iRxbd, iTxbd_new, iTxbd_old, dma, DIPR, isr, app,
                 lost, up>>

\* fec_send returns 0 for a frame longer than ETH_MTU: the caller frees it
SendTooLong ==
  /\ At("main", "held")
  /\ freeQ' = Append(freeQ, snd["main"].nbuf)
  /\ snd' = [snd EXCEPT !["main"] = IdleSend]
  /\ UNCHANGED <<txQ, rxQ, RxBD, TxBD, iRxbd, iTxbd_new, iTxbd_old, dma, DIPR, isr, app,
                 lost, up>>

SendLengthOk ==
  /\ At("main", "held")
  /\ Goto("main", "alloc")
  /\ UNCHANGED <<queues, RxBD, TxBD, iRxbd, iTxbd_new, iTxbd_old, dma, DIPR, isr, app,
                 lost, up>>

\* fecbd_tx_alloc: read iTxbd_new and look at that descriptor; the ring is
\* full when it is still the DMA's, and fec_send tries again
TxAllocCheck(c) ==
  /\ At(c, "alloc") /\ ~TxBD[iTxbd_new].R
  /\ snd' = [snd EXCEPT ![c] = [pc |-> "incr", nbuf |-> snd[c].nbuf, bd |-> iTxbd_new]]
  /\ UNCHANGED <<queues, RxBD, TxBD, iRxbd, iTxbd_new, iTxbd_old, dma, DIPR, isr, app,
                 lost, up>>

\* mutant: the index is left where it was
TxAllocStays(c) ==
  /\ At(c, "incr")
  /\ Goto(c, "queue")
  /\ UNCHANGED <<queues, RxBD, TxBD, iRxbd, iTxbd_new, iTxbd_old, dma, DIPR, isr, app,
                 lost, up>>

\* ... advance the index, which the compiler may or may not load a second time
TxAllocIncr(c) ==
  /\ At(c, "incr")
  /\ iTxbd_new' \in {NextTx(iTxbd_new), NextTx(snd[c].bd)}
  /\ Goto(c, "queue")
  /\ UNCHANGED <<queues, RxBD, TxBD, iRxbd, iTxbd_old, dma, DIPR, isr, app, lost, up>>

\* nbuf_add(NBUF_TX_RING, nbuf)
SendQueue(c) ==
  /\ At(c, "queue")
  /\ txQ' = Append(txQ, snd[c].nbuf)
  /\ Goto(c, "data")
  /\ UNCHANGED <<freeQ, rxQ, RxBD, TxBD, iRxbd, iTxbd_new, iTxbd_old, dma, DIPR, isr, app,
                 lost, up>>

\* pTxBD->data = nbuf->data
SendData(c) ==
  /\ At(c, "data")
  /\ TxBD' = [TxBD EXCEPT ![snd[c].bd] = [R |-> TxBD[snd[c].bd].R, data |-> snd[c].nbuf]]
  /\ Goto(c, "ready")
  /\ UNCHANGED <<queues, RxBD, iRxbd, iTxbd_new, iTxbd_old, dma, DIPR, isr, app, lost, up>>

\* pTxBD->status |= TX_BD_R | TX_BD_L
SendReady(c) ==
  /\ At(c, "ready")
  /\ TxBD' = [TxBD EXCEPT ![snd[c].bd] = [R |-> TRUE, data |-> TxBD[snd[c].bd].data]]
  /\ Goto(c, "cont")
  /\ UNCHANGED <<queues, RxBD, iRxbd, iTxbd_new, iTxbd_old, dma, DIPR, isr, app, lost, up>>

\* fec_tx_continue, and the return; tftp_handler then frees the frame it
\* answered, and fec_rx_frame goes on with its loop
SendContinue(c) ==
  /\ At(c, "cont")
  /\ txDma' = [bd |-> txDma.bd, en |-> TRUE]
  /\ snd' = [snd EXCEPT ![c] = IdleSend]
  /\ IF c = "isr"
       THEN /\ isr' = [pc |-> "rx", interrupts |-> isr.interrupts, cur |-> NULL]
            /\ freeQ' = IF isr.cur = NULL THEN freeQ ELSE Append(freeQ, isr.cur)
       ELSE UNCHANGED <<isr, freeQ>>
  /\ UNCHANGED <<txQ, rxQ, RxBD, TxBD, iRxbd, iTxbd_new, iTxbd_old, rxDma, DIPR, app, lost, up>>

fec_send(c) ==
  \/ TxAllocCheck(c) \/ TxAllocIncr(c)
  \/ SendQueue(c) \/ SendData(c) \/ SendReady(c) \/ SendContinue(c)

\* tftp_in_char and tftp_end give back the buffers of the TFTP queue
AppFree ==
  /\ At("main", "idle")
  /\ \E b \in app : app' = app \ {b} /\ freeQ' = Append(freeQ, b)
  /\ UNCHANGED <<txQ, rxQ, RxBD, TxBD, iRxbd, iTxbd_new, iTxbd_old, dma, DIPR, isr, snd,
                 lost, up>>

-----------------------------------------------------------------------------
(* dma_interrupt_handler: it clears what it has seen pending, then calls   *)
(* the handler of the receive channel and of the transmit channel.  When   *)
(* the port is stopped the channels have no handler.                       *)

\* mutant: only one pending channel is served
IsrEnterOne ==
  /\ isr.pc = "idle" /\ DIPR # {}
  /\ DIPR' = {}
  /\ isr' = IF ~up THEN isr
            ELSE [pc |-> IF "tx" \in DIPR THEN "tx" ELSE "rx",
                  interrupts |-> DIPR, cur |-> NULL]
  /\ UNCHANGED <<queues, RxBD, TxBD, iRxbd, iTxbd_new, iTxbd_old, dma, snd, app, lost, up>>

IsrEnter ==
  /\ isr.pc = "idle" /\ DIPR # {}
  /\ DIPR' = {}
  /\ isr' = IF ~up THEN isr
            ELSE [pc |-> IF "rx" \in DIPR THEN "rx" ELSE "tx",
                  interrupts |-> DIPR, cur |-> NULL]
  /\ UNCHANGED <<queues, RxBD, TxBD, iRxbd, iTxbd_new, iTxbd_old, dma, snd, app, lost, up>>

IsrLeave == isr' = [pc |-> "idle", interrupts |-> {}, cur |-> NULL]

\* mutant: the transmit channel is forgotten after the receive channel
RxFrameLeaves ==
  /\ isr.pc = "rx" /\ RxBD[iRxbd].E
  /\ IsrLeave
  /\ UNCHANGED <<queues, RxBD, TxBD, iRxbd, iTxbd_new, iTxbd_old, dma, DIPR, snd, app,
                 lost, up>>

\* fecbd_rx_alloc found the descriptor still empty
RxFrameDone ==
  /\ isr.pc = "rx" /\ RxBD[iRxbd].E
  /\ IF "tx" \in isr.interrupts THEN isr' = [pc |-> "tx", interrupts |-> isr.interrupts, cur |-> NULL] ELSE IsrLeave
  /\ UNCHANGED <<queues, RxBD, TxBD, iRxbd, iTxbd_new, iTxbd_old, dma, DIPR, snd, app,
                 lost, up>>

\* mutant: the index does not advance
RxRefillStays(data, nbuf) ==
  /\ RxBD' = [RxBD EXCEPT ![iRxbd] = [E |-> TRUE, data |-> data, frame |-> "none"]]
  /\ rxQ' = Append(Tail(rxQ), nbuf)
  /\ rxDma' = [bd |-> rxDma.bd, en |-> TRUE]
  /\ UNCHANGED <<iRxbd, txQ, TxBD, iTxbd_new, iTxbd_old, txDma, DIPR, up>>

\* what every iteration of fec_rx_frame does to the ring: the descriptor goes
\* back to the DMA pointing at data, and nbuf to the end of the queue, whose
\* head has been removed
RxRefill(data, nbuf) ==
  /\ RxBD' = [RxBD EXCEPT ![iRxbd] = [E |-> TRUE, data |-> data, frame |-> "none"]]
  /\ rxQ' = Append(Tail(rxQ), nbuf)
  /\ iRxbd' = NextRx(iRxbd)
  /\ rxDma' = [bd |-> rxDma.bd, en |-> TRUE]
  /\ UNCHANGED <<txQ, TxBD, iTxbd_new, iTxbd_old, txDma, DIPR, up>>

\* mutant: the queue is not rotated
RxTrashInPlace ==
  /\ isr.pc = "rx" /\ ~RxBD[iRxbd].E
  /\ RxBD[iRxbd].frame = "error" \/ freeQ = <<>>
  /\ RxBD' = [RxBD EXCEPT ![iRxbd] = [E |-> TRUE, data |-> RxBD[iRxbd].data, frame |-> "none"]]
  /\ iRxbd' = NextRx(iRxbd)
  /\ rxDma' = [bd |-> rxDma.bd, en |-> TRUE]
  /\ UNCHANGED <<queues, TxBD, iTxbd_new, iTxbd_old, txDma, DIPR, up, isr, snd, app, lost>>

\* a bad frame, or no free buffer to replace this one: the frame is trashed
\* and its buffer used again
RxTrash ==
  /\ isr.pc = "rx" /\ ~RxBD[iRxbd].E
  /\ RxBD[iRxbd].frame = "error" \/ freeQ = <<>>
  /\ RxRefill(RxBD[iRxbd].data, Head(rxQ))
  /\ UNCHANGED <<freeQ, isr, snd, app, lost>>

\* a frame for the stack: the head of the receive queue is passed up and the
\* head of the free queue takes its place
RxPass(kind) ==
  /\ isr.pc = "rx" /\ ~RxBD[iRxbd].E /\ freeQ # <<>>
  /\ RxBD[iRxbd].frame = kind
  /\ RxRefill(Head(freeQ), Head(freeQ))

RxDiscard ==
  /\ RxPass("discard")
  /\ freeQ' = Append(Tail(freeQ), Head(rxQ))
  /\ UNCHANGED <<isr, snd, app, lost>>

RxKeep ==
  /\ RxPass("keep")
  /\ freeQ' = Tail(freeQ)
  /\ app' = app \cup {Head(rxQ)}
  /\ UNCHANGED <<isr, snd, lost>>

\* an ICMP packet or one for bootp_handler: nobody frees the buffer
RxForget ==
  /\ RxPass("forget")
  /\ freeQ' = Tail(freeQ)
  /\ lost' = lost \cup {Head(rxQ)}
  /\ UNCHANGED <<isr, snd, app>>

IsrSend(nbuf) == snd' = [snd EXCEPT !["isr"] = [pc |-> "alloc", nbuf |-> nbuf, bd |-> 0]]

RxReply ==
  /\ RxPass("reply")
  /\ freeQ' = Tail(freeQ)
  /\ IsrSend(Head(rxQ))
  /\ isr' = [pc |-> "send", interrupts |-> isr.interrupts, cur |-> NULL]
  /\ UNCHANGED <<app, lost>>

\* mutant: the answered frame is freed before the answer is sent, too
RxReackFreed ==
  /\ RxPass("reack")
  /\ freeQ' = Append(Tail(Tail(freeQ)), Head(rxQ))
  /\ Len(freeQ) > 1
  /\ IsrSend(Head(Tail(freeQ)))
  /\ isr' = [pc |-> "send", interrupts |-> isr.interrupts, cur |-> Head(rxQ)]
  /\ UNCHANGED <<app, lost>>

\* tftp_ack needs a buffer of its own; without one nothing is sent
RxReack ==
  /\ RxPass("reack")
  /\ IF Len(freeQ) = 1
       THEN /\ freeQ' = Append(Tail(freeQ), Head(rxQ))
            /\ UNCHANGED <<isr, snd>>
       ELSE /\ freeQ' = Tail(Tail(freeQ))
            /\ IsrSend(Head(Tail(freeQ)))
            /\ isr' = [pc |-> "send", interrupts |-> isr.interrupts, cur |-> Head(rxQ)]
  /\ UNCHANGED <<app, lost>>

\* a TFTP packet from a port that is not the server's: tftp_error takes a
\* buffer of its own, if there is one, and tftp_handler breaks out of its
\* switch without freeing the buffer it was given
RxStray ==
  /\ RxPass("stray")
  /\ IF Len(freeQ) = 1
       THEN /\ freeQ' = Tail(freeQ)
            /\ UNCHANGED <<isr, snd>>
       ELSE /\ freeQ' = Tail(Tail(freeQ))
            /\ IsrSend(Head(Tail(freeQ)))
            /\ isr' = [pc |-> "send", interrupts |-> isr.interrupts, cur |-> NULL]
  /\ lost' = lost \cup {Head(rxQ)}
  /\ UNCHANGED app

fec_rx_frame ==
  \/ RxFrameDone \/ RxTrash \/ RxDiscard \/ RxKeep \/ RxForget
  \/ RxReply \/ RxReack \/ RxStray

\* fecbd_tx_free: the oldest descriptor has been given data and is not the DMA's
TxReclaimable == TxBD[iTxbd_old].data # NULL /\ ~TxBD[iTxbd_old].R

\* mutant: the data pointer of the descriptor is not cleared
TxReclaimDirty ==
  /\ isr.pc = "tx" /\ TxReclaimable
  /\ freeQ' = Append(freeQ, Head(txQ))
  /\ txQ' = Tail(txQ)
  /\ iTxbd_old' = NextTx(iTxbd_old)
  /\ UNCHANGED <<rxQ, RxBD, TxBD, iRxbd, iTxbd_new, dma, DIPR, isr, snd, app, lost, up>>

\* fec_tx_frame frees the head of the transmit queue for that descriptor
TxReclaim ==
  /\ isr.pc = "tx" /\ TxReclaimable
  /\ freeQ' = Append(freeQ, Head(txQ))
  /\ txQ' = Tail(txQ)
  /\ TxBD' = [TxBD EXCEPT ![iTxbd_old] = [R |-> FALSE, data |-> NULL]]
  /\ iTxbd_old' = NextTx(iTxbd_old)
  /\ UNCHANGED <<rxQ, RxBD, iRxbd, iTxbd_new, dma, DIPR, isr, snd, app, lost, up>>

TxFrameDone ==
  /\ isr.pc = "tx" /\ ~TxReclaimable
  /\ IsrLeave
  /\ UNCHANGED <<queues, RxBD, TxBD, iRxbd, iTxbd_new, iTxbd_old, dma, DIPR, snd, app,
                 lost, up>>

fec_tx_frame == TxReclaim \/ TxFrameDone

-----------------------------------------------------------------------------
Dma == RxDmaFrame \/ RxDmaHalt \/ TxDmaFrame \/ TxDmaHalt
Isr == IsrEnter \/ fec_rx_frame \/ fec_send("isr") \/ fec_tx_frame
Main == \/ fec_eth_setup \/ fec_eth_stop \/ AppFree
        \/ MainNbufAlloc \/ SendTooLong \/ SendLengthOk \/ fec_send("main")

Next == Dma \/ Isr \/ Main

(* The interrupt handler runs whenever it can, and the transmitter drains  *)
(* its ring; nothing obliges frames to arrive or the foreground to send.   *)
(* The last conjunct is an assumption on the environment: interrupts do    *)
(* not recur between every two instructions of the foreground, so that a   *)
(* fec_send once begun goes on.                                            *)
Fairness == WF_vars(Isr) /\ WF_vars(TxDmaFrame) /\ SF_vars(fec_send("main"))

Spec == Init /\ [][Next]_vars
FairSpec == Spec /\ Fairness

-----------------------------------------------------------------------------
\* the contexts in which a sender has taken b and not yet queued it
Unqueued(b) == {c \in Ctx : snd[c].nbuf = b /\ snd[c].pc \in {"held", "alloc", "incr", "queue"}}

Times(q, b) == Cardinality({k \in DOMAIN q : q[k] = b})
OneIf(P) == IF P THEN 1 ELSE 0

Claims(b) == Times(freeQ, b) + Times(txQ, b) + Times(rxQ, b) + Cardinality(Unqueued(b))
             + OneIf(isr.cur = b) + OneIf(b \in app) + OneIf(b \in lost)

(* Every network buffer is in exactly one place (nbuf.c, fec.c): on one    *)
(* queue once, in the hands of one sender, in the stack, or among those    *)
(* that the stack forgot: of ICMP packets, of packets for bootp_handler    *)
(* and of TFTP packets of another server ("forget" and "stray").  None is  *)
(* freed twice or handed to two owners, none of those that were forgotten  *)
(* comes back before the port is stopped, and none disappears on any other *)
(* path, whatever the interrupt handler interrupts.                        *)
NbufConserved == up => \A b \in Nbuf : Claims(b) = 1

(* The receive queue and the receive ring stay in step: fec_rx_frame takes *)
(* the buffer for a descriptor from the head of a queue, never from the    *)
(* descriptor, so the k-th nbuf of the queue must be the one whose data    *)
(* the k-th descriptor from iRxbd points at (fec.c 725, 759, 813).         *)
RxRingAligned ==
  up => /\ Len(rxQ) = NRXBD
        /\ \A k \in RxIdx : rxQ[k + 1] = RxBD[(iRxbd + k) % NRXBD].data

(* The descriptors the DMA has filled are the ones from iRxbd up to the    *)
(* DMA's own position: the handler takes frames in order of arrival and    *)
(* never stops short of one or runs past it (fecbd_rx_alloc).              *)
RxFifo ==
  up => \E n \in 0..NRXBD :
          /\ (iRxbd + n) % NRXBD = rxDma.bd
          /\ \A k \in RxIdx : RxBD[(iRxbd + k) % NRXBD].E <=> k >= n

(* There is an nbuf on the transmit queue for every descriptor that has    *)
(* data, so fec_tx_frame never hands the NULL of an empty queue to         *)
(* nbuf_free (fec.c 1016-1021).                                            *)
TxQueueCovers ==
  up => Cardinality({i \in TxIdx : TxBD[i].data # NULL}) <= Len(txQ)

\* where the next descriptor will be made ready
TxTail == IF snd["main"].pc \in {"queue", "data", "ready"} THEN snd["main"].bd
          ELSE iTxbd_new

(* With one sending context the descriptors that are the DMA's are exactly *)
(* those from the DMA's position up to where fec_send will make the next   *)
(* one ready: the DMA never stops at a hole and never sends out of order   *)
(* (fecbd_tx_alloc against the transmit task).                             *)
TxFifo ==
  up => \E n \in 0..NTXBD :
          /\ (txDma.bd + n) % NTXBD = TxTail
          /\ \A k \in TxIdx : TxBD[(txDma.bd + k) % NTXBD].R <=> k < n

(* The buffer fec_tx_frame frees is one "that was just transmitted"        *)
(* (fec.c 1019): no sender is still going to hand it to the DMA, and no    *)
(* descriptor the DMA has still to send points at it.                      *)
JustTransmitted ==
  [][TxReclaim =>
       /\ \A c \in Ctx : ~(snd[c].pc \in {"data", "ready"} /\ snd[c].nbuf = Head(txQ))
       /\ \A i \in TxIdx : ~(TxBD[i].R /\ TxBD[i].data = Head(txQ))]_vars

(* Every frame the receive DMA has stored is eventually taken from its     *)
(* descriptor, which goes back to the DMA (fec_rx_frame), unless the port  *)
(* is stopped.                                                             *)
RxServed == \A i \in RxIdx : ~RxBD[i].E ~> (RxBD[i].E \/ ~up)

(* Every descriptor fec_send makes ready is eventually sent, and its entry *)
(* on the transmit ring reclaimed by fec_tx_frame, unless the port is      *)
(* stopped: the continue after the ready bit, and clearing the pending     *)
(* interrupts before and not after serving them, lose no wake-up.  It is   *)
(* promised only while fec_rx_frame, which loops as long as it finds a     *)
(* frame and is served first, gets to the end of the frames now and then.  *)
TxServed ==
  []<>(isr.pc # "rx") =>
    \A i \in TxIdx : TxBD[i].R ~> ((~TxBD[i].R /\ TxBD[i].data = NULL) \/ ~up)
-----------------------------------------------------------------------------
(* What the invariants above need to be inductive.                         *)

\* the handler runs only on a port that is set up, and fec_send in each
\* context only while that context is in it
Contexts ==
  /\ ~up => snd["main"].pc = "idle" /\ isr.pc = "idle"
  /\ isr.pc # "send" => snd["isr"].pc = "idle"
  /\ isr.pc = "send" => snd["isr"].pc \notin {"idle", "held"}

\* a fec_send under way has a buffer
SendersHold == \A c \in Ctx : snd[c].pc # "idle" => snd[c].nbuf \in Nbuf

\* an nbuf is queued before its descriptor gets data
InFlight(c) == IF snd[c].pc = "data" THEN 1 ELSE 0
TxQueueAhead ==
  up => Cardinality({i \in TxIdx : TxBD[i].data # NULL}) + InFlight("main") + InFlight("isr")
          <= Len(txQ)

\* the buffer of a frame that is being answered is held only while the answer
\* is sent, and a port that is not set up has no buffers in the stack
Handed ==
  /\ isr.cur # NULL => isr.pc = "send"
  /\ ~up => app = {} /\ lost = {}

\* with one sender: what is received needs no answer, and between
\* fecbd_tx_alloc and the ready bit the foreground's descriptor is the last one
OneSender == FrameKinds \cap {"reply", "reack", "stray"} = {}
NoAnswers ==
  /\ \A i \in RxIdx : RxBD[i].frame \notin {"reply", "reack", "stray"}
  /\ snd["isr"].pc = "idle"
TxClaimed ==
  /\ snd["main"].pc = "incr" => snd["main"].bd = iTxbd_new
  /\ snd["main"].pc \in {"queue", "data", "ready"} => iTxbd_new = NextTx(snd["main"].bd)
  /\ snd["main"].pc \in {"incr", "queue", "data", "ready"} => ~TxBD[snd["main"].bd].R

IInv == TypeOK /\ Contexts /\ SendersHold /\ RxRingAligned /\ TxQueueAhead
=============================================================================
