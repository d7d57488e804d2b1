--------------------------- MODULE FecDriver_proofs ---------------------------
(* Proofs about FecDriver, for every pool, every ring size and every mix   *)
(* of frames: the inductive invariant IInv, and from it type correctness,  *)
(* the alignment of the receive queue with the receive ring, and that the  *)
(* transmit queue is never empty when a descriptor is reclaimed.  On top   *)
(* of IInv, that no buffer is lost or in two places, that frames are       *)
(* received in order and, with one sender, that they are sent in order.    *)
EXTENDS FecDriver, FiniteSetTheorems, TLAPS

(***************************************************************************)
(* Ring arithmetic                                                         *)
(***************************************************************************)
\* an index below the size of the ring is its own remainder
LEMMA ModSmall ==
  ASSUME NEW n \in Nat \ {0}, NEW a \in 0..(n - 1)
  PROVE  a % n = a
OBVIOUS

\* an index that has run past the end once comes back by the size of the ring
LEMMA ModWrap ==
  ASSUME NEW n \in Nat \ {0}, NEW a \in n..(2 * n - 1)
  PROVE  a % n = a - n
OBVIOUS

\* the next index of fecbd.c stays in the ring
LEMMA NextInRing ==
  ASSUME NEW n \in Nat \ {0}, NEW i \in 0..(n - 1)
  PROVE  (i + 1) % n \in 0..(n - 1)
<1>1. CASE i = n - 1
  BY <1>1, ModWrap
<1>2. CASE i # n - 1
  BY <1>2, ModSmall
<1> QED
  BY <1>1, <1>2

\* counting from the next index is counting one further from this one, and
\* the last slot counted is this one
LEMMA RingShift ==
  ASSUME NEW n \in Nat \ {0}, NEW i \in 0..(n - 1), NEW k \in 0..(n - 1)
  PROVE  /\ (i + k) % n \in 0..(n - 1)
         /\ k < n - 1 => (((i + 1) % n) + k) % n = (i + (k + 1)) % n
         /\ k = n - 1 => (((i + 1) % n) + k) % n = i
         /\ k > 0 => (i + k) % n # i
<1>1. \A a \in 0..(n - 1) : a % n = a
  BY ModSmall
<1>2. \A a \in n..(2 * n - 1) : a % n = a - n
  BY ModWrap
<1>3. CASE i = n - 1
  BY <1>1, <1>2, <1>3
<1>4. CASE i # n - 1
  <2>1. (i + 1) % n = i + 1
    BY <1>1, <1>4
  <2> QED
    BY <1>1, <1>2, <1>4, <2>1
<1> QED
  BY <1>3, <1>4

(***************************************************************************)
(* Queues                                                                  *)
(***************************************************************************)
\* removing the oldest entry of a queue that is not empty
LEMMA Pop ==
  ASSUME NEW S, NEW q \in Seq(S), q # <<>>
  PROVE  Head(q) \in S /\ Tail(q) \in Seq(S) /\ Len(Tail(q)) = Len(q) - 1 /\ Len(q) > 0
OBVIOUS

\* adding an entry at the end of a queue
LEMMA Push ==
  ASSUME NEW S, NEW q \in Seq(S), NEW b \in S
  PROVE  Append(q, b) \in Seq(S) /\ Len(Append(q, b)) = Len(q) + 1
OBVIOUS

(***************************************************************************)
(* Facts of one state                                                      *)
(***************************************************************************)
\* the receive queue has a head, and it is the buffer of the descriptor at
\* iRxbd
LEMMA RxHead ==
  ASSUME IInv, up
  PROVE  rxQ # <<>> /\ Head(rxQ) = RxBD[iRxbd].data /\ Tail(rxQ) \in Seq(Nbuf)
<1>a. NRXBD \in Nat \ {0} /\ iRxbd \in 0..(NRXBD - 1)
  BY FecAssumption DEF IInv, TypeOK, RxIdx
<1>b. iRxbd + 0 = iRxbd /\ iRxbd % NRXBD = iRxbd
  BY <1>a, ModSmall
<1>1. 0 \in RxIdx /\ (iRxbd + 0) % NRXBD = iRxbd
  BY <1>a, <1>b DEF RxIdx
<1>2. rxQ[0 + 1] = RxBD[iRxbd].data /\ Len(rxQ) = NRXBD
  BY <1>1 DEF IInv, RxRingAligned
<1> QED
  BY <1>1, <1>2, FecAssumption DEF IInv, TypeOK

\* the descriptors with data are a finite set
LEMMA UsedFinite ==
  ASSUME NEW T \in [TxIdx -> [R: BOOLEAN, data: Nbuf \cup {NULL}]]
  PROVE  /\ IsFiniteSet({i \in TxIdx : T[i].data # NULL})
         /\ Cardinality({i \in TxIdx : T[i].data # NULL}) \in Nat
<1>1. IsFiniteSet(TxIdx)
  BY FecAssumption, FS_Interval DEF TxIdx
<1>2. IsFiniteSet({i \in TxIdx : T[i].data # NULL})
  BY <1>1, FS_Subset
<1> QED
  BY <1>2, FS_CardinalityType

\* a descriptor that can be reclaimed has an entry on the transmit queue
LEMMA TxHead ==
  ASSUME IInv, up, TxReclaimable
  PROVE  txQ # <<>>
<1> DEFINE D == {i \in TxIdx : TxBD[i].data # NULL}
<1>1. iTxbd_old \in D
  BY DEF TxReclaimable, IInv, TypeOK
<1>2. IsFiniteSet(D) /\ Cardinality(D) \in Nat
  BY UsedFinite DEF IInv, TypeOK
<1>3. Cardinality(D) # 0
  BY <1>1, <1>2, FS_EmptySet
<1>4. Cardinality(D) <= Len(txQ)
  BY <1>2 DEF IInv, TypeOK, TxQueueAhead, InFlight
<1> QED
  BY <1>2, <1>3, <1>4 DEF IInv, TypeOK

(***************************************************************************)
(* Type correctness of the initial state and of every step                 *)
(***************************************************************************)
\* the rings and queues fec_eth_setup builds are well typed
LEMMA SetupType ==
  ASSUME NEW o \in Orders
  PROVE  /\ RxQ0(o) \in Seq(Nbuf) /\ FreeQ0(o) \in Seq(Nbuf)
         /\ Len(RxQ0(o)) = NRXBD
         /\ RxBD0(o) \in [RxIdx -> [E: BOOLEAN, data: Nbuf, frame: AllFrameKinds \cup {"none"}]]
         /\ TxBD0 \in [TxIdx -> [R: BOOLEAN, data: Nbuf \cup {NULL}]]
<1>1. NBUF_MAX \in Nat /\ NRXBD \in Nat \ {0} /\ NBUF_MAX > NRXBD
  BY FecAssumption, FS_CardinalityType DEF NBUF_MAX
<1>2. o \in [1..NBUF_MAX -> Nbuf]
  BY DEF Orders
<1>3. \A k \in 1..NRXBD : o[k] \in Nbuf
  BY <1>1, <1>2
<1>4. \A k \in 1..(NBUF_MAX - NRXBD) : o[k + NRXBD] \in Nbuf
  BY <1>1, <1>2
<1>5. \A i \in RxIdx : o[i + 1] \in Nbuf
  BY <1>1, <1>2 DEF RxIdx
<1>6. RxQ0(o) \in Seq(Nbuf) /\ Len(RxQ0(o)) = NRXBD
  BY <1>1, <1>3 DEF RxQ0
<1>7. FreeQ0(o) \in Seq(Nbuf)
  BY <1>1, <1>4 DEF FreeQ0
<1>8. RxBD0(o) \in [RxIdx -> [E: BOOLEAN, data: Nbuf, frame: AllFrameKinds \cup {"none"}]]
  BY <1>5 DEF RxBD0
<1> QED
  BY <1>6, <1>7, <1>8 DEF TxBD0

\* the state fec_eth_setup leaves behind is well typed
LEMMA InitType == Init => TypeOK
<1> SUFFICES ASSUME Init PROVE TypeOK
  OBVIOUS
<1>1. 0 \in RxIdx /\ 0 \in TxIdx
  BY FecAssumption DEF RxIdx, TxIdx
<1>2. PICK o \in Orders : freeQ = FreeQ0(o) /\ rxQ = RxQ0(o) /\ RxBD = RxBD0(o)
  BY DEF Init
<1>3. txQ \in Seq(Nbuf)
  BY DEF Init
<1> QED
  BY <1>1, <1>2, <1>3, SetupType DEF Init, TypeOK, IdleSend, Ctx, SendPc

\* no step puts an ill-typed value into a variable
LEMMA TypeStep == IInv /\ [Next]_vars => TypeOK'
<1> SUFFICES ASSUME IInv, [Next]_vars PROVE TypeOK'
  OBVIOUS
<1> USE DEF TypeOK, Ctx, SendPc
<1>0. TypeOK /\ Contexts /\ SendersHold
  BY DEF IInv
<1>n. /\ \A i \in RxIdx : NextRx(i) \in RxIdx
      /\ \A i \in TxIdx : NextTx(i) \in TxIdx
  BY FecAssumption, NextInRing DEF NextRx, NextTx, RxIdx, TxIdx
<1>z. 0 \in RxIdx /\ 0 \in TxIdx
  BY FecAssumption DEF RxIdx, TxIdx
<1>e. <<>> \in Seq(Nbuf)
  OBVIOUS
<1>1. CASE UNCHANGED vars
  BY <1>0, <1>1 DEF vars
<1>2. CASE RxDmaFrame
  BY <1>0, <1>n, <1>2, FecAssumption DEF RxDmaFrame, queues
<1>3. CASE RxDmaHalt
  BY <1>0, <1>3 DEF RxDmaHalt, queues
<1>4. CASE TxDmaFrame
  BY <1>0, <1>n, <1>4 DEF TxDmaFrame, queues
<1>5. CASE TxDmaHalt
  BY <1>0, <1>5 DEF TxDmaHalt, queues
<1>6. CASE IsrEnter
  BY <1>0, <1>6 DEF IsrEnter, queues, dma
<1>7. CASE RxFrameDone
  BY <1>0, <1>7 DEF RxFrameDone, IsrLeave, queues, dma
<1>8. CASE RxTrash
  <2>1. up
    BY <1>0, <1>8 DEF RxTrash, Contexts
  <2>2. rxQ # <<>> /\ Head(rxQ) \in Nbuf /\ Tail(rxQ) \in Seq(Nbuf)
    BY <1>0, <2>1, RxHead
  <2> QED
    BY <1>0, <1>n, <1>8, <2>2 DEF RxTrash, RxRefill
<1>9. ASSUME NEW kind \in AllFrameKinds, RxPass(kind)
      PROVE  /\ up /\ Head(rxQ) \in Nbuf /\ Head(freeQ) \in Nbuf /\ Tail(freeQ) \in Seq(Nbuf)
             /\ rxQ' \in Seq(Nbuf) /\ txQ' \in Seq(Nbuf)
             /\ RxBD' \in [RxIdx -> [E: BOOLEAN, data: Nbuf,
                                     frame: AllFrameKinds \cup {"none"}]]
             /\ TxBD' = TxBD /\ iRxbd' \in RxIdx
             /\ iTxbd_new' = iTxbd_new /\ iTxbd_old' = iTxbd_old
             /\ rxDma' \in [bd: RxIdx, en: BOOLEAN]
             /\ txDma' = txDma /\ DIPR' = DIPR /\ up' = up
  <2>1. up
    BY <1>0, <1>9 DEF RxPass, Contexts
  <2>2. rxQ # <<>> /\ Head(rxQ) \in Nbuf /\ Tail(rxQ) \in Seq(Nbuf)
    BY <1>0, <2>1, RxHead
  <2>3. Head(freeQ) \in Nbuf /\ Tail(freeQ) \in Seq(Nbuf)
    BY <1>0, <1>9 DEF RxPass
  <2> QED
    BY <1>0, <1>n, <1>9, <2>1, <2>2, <2>3 DEF RxPass, RxRefill
<1>10. CASE RxDiscard
  BY <1>0, Push, <1>9, <1>10 DEF RxDiscard, AllFrameKinds
<1>11. CASE RxKeep
  BY <1>0, <1>9, <1>11 DEF RxKeep, AllFrameKinds
<1>12. CASE RxForget
  BY <1>0, <1>9, <1>12 DEF RxForget, AllFrameKinds
<1>13. CASE RxReply
  BY <1>0, <1>z, <1>9, <1>13 DEF RxReply, IsrSend, AllFrameKinds
<1>14. CASE RxReack
  <2>1. RxPass("reack")
    BY <1>14 DEF RxReack
  <2>p. freeQ \in Seq(Nbuf) /\ freeQ # <<>>
    BY <1>0, <2>1 DEF RxPass
  <2>f. /\ Head(rxQ) \in Nbuf /\ Tail(freeQ) \in Seq(Nbuf)
        /\ Len(freeQ) > 0 /\ Len(Tail(freeQ)) = Len(freeQ) - 1
    BY <1>9, <2>1, <2>p, Pop DEF AllFrameKinds
  <2>2. CASE Len(freeQ) = 1
    <3>1. freeQ' = Append(Tail(freeQ), Head(rxQ)) /\ isr' = isr /\ snd' = snd
      BY <1>14, <2>2 DEF RxReack
    <3>2. freeQ' \in Seq(Nbuf)
      BY <2>f, <3>1, Push
    <3> QED
      BY <1>0, <1>9, <1>14, <2>1, <3>1, <3>2 DEF RxReack, AllFrameKinds
  <2>3. CASE Len(freeQ) # 1
    <3>a. Len(Tail(freeQ)) # 0 /\ Len(<<>>) = 0
      BY <2>f, <2>3
    <3>1. Tail(freeQ) # <<>>
      BY <3>a
    <3>2. Head(Tail(freeQ)) \in Nbuf /\ Tail(Tail(freeQ)) \in Seq(Nbuf)
      BY <2>f, <3>1, Pop
    <3>3. /\ freeQ' = Tail(Tail(freeQ)) /\ IsrSend(Head(Tail(freeQ)))
          /\ isr' = [pc |-> "send", interrupts |-> isr.interrupts, cur |-> Head(rxQ)]
          /\ app' = app /\ lost' = lost
      BY <1>14, <2>3 DEF RxReack
    <3> QED
      BY <1>0, <1>z, <1>9, <2>1, <2>f, <3>2, <3>3 DEF IsrSend, AllFrameKinds
  <2> QED
    BY <2>2, <2>3
<1>24. CASE RxStray
  <2>1. RxPass("stray") /\ lost' = lost \cup {Head(rxQ)} /\ app' = app
    BY <1>24 DEF RxStray
  <2>p. freeQ \in Seq(Nbuf) /\ freeQ # <<>>
    BY <1>0, <2>1 DEF RxPass
  <2>f. /\ Head(rxQ) \in Nbuf /\ Tail(freeQ) \in Seq(Nbuf)
        /\ Len(freeQ) > 0 /\ Len(Tail(freeQ)) = Len(freeQ) - 1
    BY <1>9, <2>1, <2>p, Pop DEF AllFrameKinds
  <2>2. CASE Len(freeQ) = 1
    <3>1. freeQ' = Tail(freeQ) /\ isr' = isr /\ snd' = snd
      BY <1>24, <2>2 DEF RxStray
    <3> QED
      BY <1>0, <1>9, <2>1, <2>f, <3>1 DEF AllFrameKinds
  <2>3. CASE Len(freeQ) # 1
    <3>a. Len(Tail(freeQ)) # 0 /\ Len(<<>>) = 0
      BY <2>f, <2>3
    <3>1. Tail(freeQ) # <<>>
      BY <3>a
    <3>2. Head(Tail(freeQ)) \in Nbuf /\ Tail(Tail(freeQ)) \in Seq(Nbuf)
      BY <2>f, <3>1, Pop
    <3>3. /\ freeQ' = Tail(Tail(freeQ)) /\ IsrSend(Head(Tail(freeQ)))
          /\ isr' = [pc |-> "send", interrupts |-> isr.interrupts, cur |-> NULL]
      BY <1>24, <2>3 DEF RxStray
    <3> QED
      BY <1>0, <1>z, <1>9, <2>1, <2>f, <3>2, <3>3 DEF IsrSend, AllFrameKinds
  <2> QED
    BY <2>2, <2>3
<1>15. CASE TxReclaim
  <2>1. up
    BY <1>0, <1>15 DEF TxReclaim, Contexts
  <2>2. txQ # <<>>
    BY <1>15, <2>1, TxHead DEF TxReclaim
  <2> QED
    BY <1>0, <1>n, <1>15, <2>2 DEF TxReclaim, dma
<1>16. CASE TxFrameDone
  BY <1>0, <1>16 DEF TxFrameDone, IsrLeave, queues, dma
<1>17. CASE fec_eth_setup
  <2>1. PICK o \in Orders : freeQ' = FreeQ0(o) /\ rxQ' = RxQ0(o) /\ RxBD' = RxBD0(o)
    BY <1>17 DEF fec_eth_setup
  <2>2. txQ' \in Seq(Nbuf)
    BY <1>17 DEF fec_eth_setup
  <2> QED
    BY <1>0, <1>z, <1>17, <2>1, <2>2, SetupType DEF fec_eth_setup
<1>18. CASE fec_eth_stop
  BY <1>0, <1>e, <1>18 DEF fec_eth_stop
<1>19. CASE AppFree
  BY <1>0, <1>19 DEF AppFree, dma
<1>20. CASE MainNbufAlloc
  BY <1>0, <1>z, Pop, <1>20 DEF MainNbufAlloc, dma
<1>21. CASE SendTooLong
  BY <1>0, <1>z, <1>21 DEF SendTooLong, SendersHold, At, IdleSend, dma
<1>22. CASE SendLengthOk
  BY <1>0, <1>22 DEF SendLengthOk, Goto, queues, dma
<1>23. ASSUME NEW c \in Ctx, fec_send(c)
       PROVE  TypeOK'
  <2>1. CASE TxAllocCheck(c)
    BY <1>0, <1>23, <2>1 DEF TxAllocCheck, queues, dma
  <2>2. CASE TxAllocIncr(c)
    BY <1>0, <1>n, <1>23, <2>2 DEF TxAllocIncr, Goto, queues, dma
  <2>3. CASE SendQueue(c)
    BY <1>0, <1>23, <2>3 DEF SendQueue, SendersHold, At, Goto, dma
  <2>4. CASE SendData(c)
    BY <1>0, <1>23, <2>4 DEF SendData, SendersHold, At, Goto, queues, dma
  <2>5. CASE SendReady(c)
    BY <1>0, <1>23, <2>5 DEF SendReady, Goto, queues, dma
  <2>6. CASE SendContinue(c)
    <3>1. freeQ' \in Seq(Nbuf)
      <4>1. CASE c = "isr" /\ isr.cur # NULL
        <5>1. freeQ' = Append(freeQ, isr.cur) /\ isr.cur \in Nbuf
          BY <1>0, <2>6, <4>1 DEF SendContinue
        <5> QED
          BY <1>0, <5>1, Push
      <4>2. CASE ~(c = "isr" /\ isr.cur # NULL)
        BY <1>0, <2>6, <4>2 DEF SendContinue
      <4> QED
        BY <4>1, <4>2
    <3>2. snd' \in [Ctx -> [pc: SendPc, nbuf: Nbuf \cup {NULL}, bd: TxIdx]]
      BY <1>0, <1>z, <1>23, <2>6 DEF SendContinue, IdleSend
    <3>3. isr' \in [pc: {"idle", "rx", "send", "tx"}, interrupts: SUBSET {"rx", "tx"},
                    cur: Nbuf \cup {NULL}]
      BY <1>0, <2>6 DEF SendContinue
    <3> QED
      BY <1>0, <2>6, <3>1, <3>2, <3>3 DEF SendContinue
  <2> QED
    BY <1>23, <2>1, <2>2, <2>3, <2>4, <2>5, <2>6 DEF fec_send
<1> QED
  BY <1>1, <1>2, <1>3, <1>4, <1>5, <1>6, <1>7, <1>8, <1>10, <1>11, <1>12, <1>13, <1>14,
     <1>15, <1>16, <1>17, <1>18, <1>19, <1>20, <1>21, <1>22, <1>23, <1>24
     DEF Next, Dma, Isr, Main, fec_rx_frame, fec_tx_frame

(***************************************************************************)
(* The other conjuncts of the inductive invariant                          *)
(***************************************************************************)
\* no step leaves fec_send under way in a context that is not running it, nor
\* without a buffer
LEMMA ContextsStep == IInv /\ [Next]_vars => Contexts' /\ SendersHold'
<1> SUFFICES ASSUME IInv, [Next]_vars PROVE Contexts' /\ SendersHold'
  OBVIOUS
<1>0. TypeOK /\ Contexts /\ SendersHold
  BY DEF IInv
<1>t. snd \in [Ctx -> [pc: SendPc, nbuf: Nbuf \cup {NULL}, bd: TxIdx]] /\ NULL \notin Nbuf
  BY <1>0, FecAssumption DEF TypeOK
<1> USE DEF Contexts, SendersHold, Ctx
<1>1. CASE UNCHANGED <<up, isr, snd>>
  BY <1>0, <1>1
<1>2. CASE IsrEnter \/ RxFrameDone \/ TxFrameDone
  BY <1>0, <1>2 DEF IsrEnter, RxFrameDone, TxFrameDone, IsrLeave
<1>3. CASE RxTrash \/ RxDiscard \/ RxKeep \/ RxForget
  BY <1>0, <1>3 DEF RxTrash, RxDiscard, RxKeep, RxForget, RxPass, RxRefill
<1>4. ASSUME up, RxPass("reply") \/ RxPass("reack") \/ RxPass("stray")
      PROVE  up' = up /\ Head(rxQ) \in Nbuf /\ (Len(freeQ) # 1 => Head(Tail(freeQ)) \in Nbuf)
  <2>1. Head(rxQ) \in Nbuf /\ up' = up
    BY <1>0, <1>4, RxHead, Pop DEF RxPass, RxRefill, TypeOK
  <2>2. freeQ \in Seq(Nbuf) /\ freeQ # <<>>
    BY <1>0, <1>4 DEF RxPass, TypeOK
  <2>3. Tail(freeQ) \in Seq(Nbuf) /\ Len(Tail(freeQ)) = Len(freeQ) - 1 /\ Len(<<>>) = 0
    BY <2>2, Pop
  <2>4. Len(freeQ) # 1 => Tail(freeQ) # <<>>
    <3>1. Len(freeQ) # 1 => Len(Tail(freeQ)) # Len(<<>>)
      BY <2>2, <2>3
    <3> QED
      BY <3>1
  <2> QED
    BY <2>1, <2>3, <2>4, Pop
<1>5. CASE RxReply
  BY <1>0, <1>t, <1>4, <1>5 DEF RxReply, IsrSend, RxPass
<1>6. CASE RxReack
  <2>1. up /\ RxPass("reack")
    BY <1>0, <1>6 DEF RxReack, RxPass
  <2>2. CASE Len(freeQ) = 1
    BY <1>0, <1>4, <1>6, <2>1, <2>2 DEF RxReack
  <2>3. CASE Len(freeQ) # 1
    <3>1. /\ isr' = [pc |-> "send", interrupts |-> isr.interrupts, cur |-> Head(rxQ)]
          /\ snd' = [snd EXCEPT !["isr"] = [pc |-> "alloc", nbuf |-> Head(Tail(freeQ)),
                                           bd |-> 0]]
          /\ up' = up /\ Head(Tail(freeQ)) \in Nbuf
      BY <1>4, <1>6, <2>1, <2>3 DEF RxReack, IsrSend
    <3> QED
      BY <1>0, <1>t, <2>1, <3>1
  <2> QED
    BY <2>2, <2>3
<1>12. CASE RxStray
  <2>1. up /\ RxPass("stray")
    BY <1>0, <1>12 DEF RxStray, RxPass
  <2>2. CASE Len(freeQ) = 1
    BY <1>0, <1>4, <1>12, <2>1, <2>2 DEF RxStray
  <2>3. CASE Len(freeQ) # 1
    <3>1. /\ isr' = [pc |-> "send", interrupts |-> isr.interrupts, cur |-> NULL]
          /\ snd' = [snd EXCEPT !["isr"] = [pc |-> "alloc", nbuf |-> Head(Tail(freeQ)),
                                           bd |-> 0]]
          /\ up' = up /\ Head(Tail(freeQ)) \in Nbuf
      BY <1>4, <1>12, <2>1, <2>3 DEF RxStray, IsrSend
    <3> QED
      BY <1>0, <1>t, <2>1, <3>1
  <2> QED
    BY <2>2, <2>3
<1>7. CASE fec_eth_setup \/ fec_eth_stop
  BY <1>0, <1>7 DEF fec_eth_setup, fec_eth_stop
<1>8. CASE MainNbufAlloc
  <2>1. Head(freeQ) \in Nbuf
    BY <1>0, <1>8, Pop DEF MainNbufAlloc, TypeOK
  <2> QED
    BY <1>0, <1>t, <1>8, <2>1 DEF MainNbufAlloc, At, Runs
<1>9. CASE SendTooLong \/ SendLengthOk
  BY <1>0, <1>t, <1>9 DEF SendTooLong, SendLengthOk, IdleSend, Goto, At, Runs
<1>10. ASSUME NEW c \in Ctx, fec_send(c)
       PROVE  Contexts' /\ SendersHold'
  <2>1. CASE TxAllocCheck(c)
    BY <1>0, <1>t, <2>1 DEF TxAllocCheck, At, Runs
  <2>2. CASE TxAllocIncr(c)
    BY <1>0, <1>t, <2>2 DEF TxAllocIncr, Goto, At, Runs
  <2>3. CASE SendQueue(c)
    BY <1>0, <1>t, <2>3 DEF SendQueue, Goto, At, Runs
  <2>4. CASE SendData(c)
    BY <1>0, <1>t, <2>4 DEF SendData, Goto, At, Runs
  <2>5. CASE SendReady(c)
    BY <1>0, <1>t, <2>5 DEF SendReady, Goto, At, Runs
  <2>6. CASE SendContinue(c)
    BY <1>0, <1>t, <2>6 DEF SendContinue, IdleSend, At, Runs
  <2> QED
    BY <1>10, <2>1, <2>2, <2>3, <2>4, <2>5, <2>6 DEF fec_send
<1>11. CASE Dma \/ TxReclaim \/ AppFree \/ UNCHANGED vars
  BY <1>1, <1>11 DEF Dma, RxDmaFrame, RxDmaHalt, TxDmaFrame, TxDmaHalt, TxReclaim, AppFree,
                     vars, dma, queues
<1> QED
  BY <1>2, <1>3, <1>5, <1>6, <1>7, <1>8, <1>9, <1>10, <1>11, <1>12
     DEF Next, Isr, Main, fec_rx_frame, fec_tx_frame

\* one iteration of fec_rx_frame that puts buffer b in the descriptor and at
\* the end of the queue keeps the two in step
LEMMA RefillAligned ==
  ASSUME IInv, up, NEW b \in Nbuf, RxRefill(b, b)
  PROVE  RxRingAligned'
<1>1. /\ NRXBD \in Nat \ {0} /\ iRxbd \in 0..(NRXBD - 1) /\ RxIdx = 0..(NRXBD - 1)
      /\ rxQ \in Seq(Nbuf) /\ Len(rxQ) = NRXBD
      /\ \A k \in RxIdx : rxQ[k + 1] = RxBD[(iRxbd + k) % NRXBD].data
      /\ RxBD \in [RxIdx -> [E: BOOLEAN, data: Nbuf, frame: AllFrameKinds \cup {"none"}]]
  BY FecAssumption DEF IInv, TypeOK, RxRingAligned, RxIdx
<1>2. /\ rxQ' = Append(Tail(rxQ), b) /\ iRxbd' = (iRxbd + 1) % NRXBD
      /\ RxBD' = [RxBD EXCEPT ![iRxbd] = [E |-> TRUE, data |-> b, frame |-> "none"]]
  BY DEF RxRefill, NextRx
<1>3. /\ Len(rxQ') = NRXBD /\ rxQ'[NRXBD] = b
      /\ \A k \in 1..(NRXBD - 1) : rxQ'[k] = rxQ[k + 1]
  BY <1>1, <1>2
<1>n. NRXBD \in Nat \ {0} /\ iRxbd \in 0..(NRXBD - 1)
  BY <1>1
<1>r. \A k \in RxIdx : /\ (iRxbd + k) % NRXBD \in RxIdx
                       /\ k < NRXBD - 1 => (((iRxbd + 1) % NRXBD) + k) % NRXBD
                                             = (iRxbd + (k + 1)) % NRXBD
                       /\ k = NRXBD - 1 => (((iRxbd + 1) % NRXBD) + k) % NRXBD = iRxbd
                       /\ k > 0 => (iRxbd + k) % NRXBD # iRxbd
  <2> SUFFICES ASSUME NEW m \in 0..(NRXBD - 1)
               PROVE  /\ (iRxbd + m) % NRXBD \in 0..(NRXBD - 1)
                      /\ m < NRXBD - 1 => (((iRxbd + 1) % NRXBD) + m) % NRXBD
                                            = (iRxbd + (m + 1)) % NRXBD
                      /\ m = NRXBD - 1 => (((iRxbd + 1) % NRXBD) + m) % NRXBD = iRxbd
                      /\ m > 0 => (iRxbd + m) % NRXBD # iRxbd
    BY DEF RxIdx
  <2> QED
    BY <1>n, RingShift
<1>4. ASSUME NEW k \in RxIdx
      PROVE  rxQ'[k + 1] = RxBD'[(iRxbd' + k) % NRXBD].data
  <2>1. CASE k = NRXBD - 1
    <3>0. (((iRxbd + 1) % NRXBD) + k) % NRXBD = iRxbd
      BY <1>r, <2>1
    <3>1. (iRxbd' + k) % NRXBD = iRxbd
      BY <1>2, <3>0
    <3>2. RxBD'[iRxbd].data = b
      BY <1>1, <1>2
    <3> QED
      BY <1>1, <1>3, <2>1, <3>1, <3>2
  <2>2. CASE k # NRXBD - 1
    <3> DEFINE j == (iRxbd + (k + 1)) % NRXBD
    <3>1. k + 1 \in RxIdx /\ k < NRXBD - 1 /\ k + 1 > 0
      BY <1>1, <2>2
    <3>r. (((iRxbd + 1) % NRXBD) + k) % NRXBD = j /\ j \in RxIdx /\ j # iRxbd
      BY <1>r, <3>1
    <3>2. (iRxbd' + k) % NRXBD = j /\ j \in RxIdx /\ j # iRxbd
      BY <1>2, <3>r
    <3>3. RxBD'[j].data = RxBD[j].data
      BY <1>1, <1>2, <3>2
    <3>4. rxQ'[k + 1] = rxQ[(k + 1) + 1]
      BY <1>1, <1>3, <3>1
    <3>5. rxQ[(k + 1) + 1] = RxBD[j].data
      BY <1>1, <3>1
    <3> QED
      BY <3>2, <3>3, <3>4, <3>5
  <2> QED
    BY <2>1, <2>2
<1> QED
  BY <1>3, <1>4 DEF RxRingAligned

\* fec_eth_setup lays out queue and ring in the same order
LEMMA SetupAligned ==
  ASSUME NEW o \in Orders
  PROVE  /\ Len(RxQ0(o)) = NRXBD
         /\ \A k \in RxIdx : RxQ0(o)[k + 1] = RxBD0(o)[(0 + k) % NRXBD].data
<1>1. NRXBD \in Nat \ {0} /\ RxIdx = 0..(NRXBD - 1)
  BY FecAssumption DEF RxIdx
<1>2. ASSUME NEW k \in RxIdx
      PROVE  RxQ0(o)[k + 1] = RxBD0(o)[(0 + k) % NRXBD].data
  <2>1. (0 + k) % NRXBD = k
    BY <1>1, ModSmall
  <2>2. RxQ0(o)[k + 1] = o[k + 1]
    BY <1>1 DEF RxQ0
  <2>3. RxBD0(o)[k].data = o[k + 1]
    BY <1>1 DEF RxBD0
  <2> QED
    BY <2>1, <2>2, <2>3
<1> QED
  BY <1>2, SetupType

\* no step puts the receive queue out of step with the receive ring
LEMMA AlignedStep == IInv /\ [Next]_vars => RxRingAligned'
<1> SUFFICES ASSUME IInv, [Next]_vars PROVE RxRingAligned'
  OBVIOUS
<1>0. TypeOK /\ Contexts /\ RxRingAligned
  BY DEF IInv
<1>1. CASE UNCHANGED <<rxQ, RxBD, iRxbd, up>>
  BY <1>0, <1>1 DEF RxRingAligned
<1>2. CASE RxDmaFrame
  <2>1. PICK f \in FrameKinds :
          RxBD' = [RxBD EXCEPT ![rxDma.bd] =
                     [E |-> FALSE, data |-> RxBD[rxDma.bd].data, frame |-> f]]
    BY <1>2 DEF RxDmaFrame
  <2>2. \A i \in RxIdx : RxBD'[i].data = RxBD[i].data
    BY <1>0, <2>1 DEF TypeOK
  <2>3. \A k \in RxIdx : (iRxbd + k) % NRXBD \in RxIdx
    BY <1>0, FecAssumption, RingShift DEF TypeOK, RxIdx
  <2> QED
    BY <1>0, <1>2, <2>2, <2>3 DEF RxRingAligned, RxDmaFrame, queues
<1>3. CASE RxTrash
  <2>1. up
    BY <1>0, <1>3 DEF RxTrash, Contexts
  <2>2. Head(rxQ) = RxBD[iRxbd].data /\ Head(rxQ) \in Nbuf
    BY <1>0, <2>1, RxHead, Pop DEF TypeOK
  <2> QED
    BY <1>3, <2>1, <2>2, RefillAligned DEF RxTrash
<1>4. ASSUME NEW kind \in AllFrameKinds, RxPass(kind)
      PROVE  RxRingAligned'
  <2>1. up /\ Head(freeQ) \in Nbuf
    BY <1>0, <1>4, Pop DEF RxPass, Contexts, TypeOK
  <2> QED
    BY <1>4, <2>1, RefillAligned DEF RxPass
<1>5. CASE RxDiscard \/ RxKeep \/ RxForget \/ RxReply \/ RxReack \/ RxStray
  BY <1>4, <1>5 DEF RxDiscard, RxKeep, RxForget, RxReply, RxReack, RxStray, AllFrameKinds
<1>6. CASE fec_eth_setup
  <2>1. PICK o \in Orders : rxQ' = RxQ0(o) /\ RxBD' = RxBD0(o)
    BY <1>6 DEF fec_eth_setup
  <2>2. iRxbd' = 0
    BY <1>6 DEF fec_eth_setup
  <2> QED
    BY <2>1, <2>2, SetupAligned DEF RxRingAligned
<1>7. CASE fec_eth_stop
  BY <1>7 DEF fec_eth_stop, RxRingAligned
<1>8. ASSUME NEW c \in Ctx, fec_send(c)
      PROVE  RxRingAligned'
  BY <1>1, <1>8 DEF fec_send, TxAllocCheck, TxAllocIncr, SendQueue, SendData, SendReady,
                    SendContinue, queues
<1>9. CASE Next /\ ~RxDmaFrame /\ ~fec_rx_frame /\ ~fec_eth_setup /\ ~fec_eth_stop
           /\ \A c \in Ctx : ~fec_send(c)
  BY <1>1, <1>9 DEF Next, Dma, Isr, Main, RxDmaHalt, TxDmaFrame, TxDmaHalt, IsrEnter,
                    fec_tx_frame, TxReclaim, TxFrameDone, AppFree, MainNbufAlloc,
                    SendTooLong, SendLengthOk, queues, Ctx
<1>10. CASE RxFrameDone \/ UNCHANGED vars
  BY <1>1, <1>10 DEF RxFrameDone, queues, vars
<1> QED
  BY <1>2, <1>3, <1>5, <1>6, <1>7, <1>8, <1>9, <1>10 DEF fec_rx_frame

\* the receive queue and ring are aligned when fec_eth_setup is done
LEMMA AlignedInit == Init => RxRingAligned
<1> SUFFICES ASSUME Init PROVE RxRingAligned
  OBVIOUS
<1>1. PICK o \in Orders : rxQ = RxQ0(o) /\ RxBD = RxBD0(o)
  BY DEF Init
<1>2. iRxbd = 0
  BY DEF Init
<1> QED
  BY <1>1, <1>2, SetupAligned DEF RxRingAligned

(***************************************************************************)
(* The transmit queue                                                      *)
(***************************************************************************)
\* fec_eth_setup leaves no descriptor with data
LEMMA NoneUsed ==
  Cardinality({i \in TxIdx : TxBD0[i].data # NULL}) = 0
<1>1. {i \in TxIdx : TxBD0[i].data # NULL} = {}
  BY DEF TxBD0
<1> QED
  BY <1>1, FS_EmptySet

\* the transmit queue covers the empty ring fec_eth_setup makes
LEMMA AheadInit == Init => TxQueueAhead
<1> SUFFICES ASSUME Init PROVE TxQueueAhead
  OBVIOUS
<1>1. TxBD = TxBD0 /\ txQ = <<>> /\ \A c \in Ctx : snd[c].pc = "idle"
  BY DEF Init, IdleSend
<1>2. InFlight("main") = 0 /\ InFlight("isr") = 0
  BY <1>1 DEF InFlight, Ctx
<1> QED
  BY <1>1, <1>2, NoneUsed DEF TxQueueAhead

\* every step keeps an nbuf on the transmit queue for each descriptor with data
LEMMA AheadStep == IInv /\ [Next]_vars => TxQueueAhead'
<1> SUFFICES ASSUME IInv, [Next]_vars PROVE TxQueueAhead'
  OBVIOUS
<1> DEFINE D == {i \in TxIdx : TxBD[i].data # NULL}
           m == InFlight("main")
           n == InFlight("isr")
<1>0. TypeOK /\ Contexts /\ SendersHold /\ TxQueueAhead
  BY DEF IInv
<1>t. /\ snd \in [Ctx -> [pc: SendPc, nbuf: Nbuf \cup {NULL}, bd: TxIdx]]
      /\ TxBD \in [TxIdx -> [R: BOOLEAN, data: Nbuf \cup {NULL}]]
      /\ txQ \in Seq(Nbuf) /\ Len(txQ) \in Nat /\ iTxbd_old \in TxIdx
      /\ Ctx = {"main", "isr"}
  BY <1>0 DEF TypeOK, Ctx
<1>d. IsFiniteSet(D) /\ Cardinality(D) \in Nat
  BY <1>t, UsedFinite
<1>m. m \in {0, 1} /\ n \in {0, 1}
  BY DEF InFlight
<1>u. up => Cardinality(D) + m + n <= Len(txQ)
  BY <1>0 DEF TxQueueAhead
<1>1. ASSUME up' => up, D' = D, m' = m, n' = n, txQ' = txQ
      PROVE  TxQueueAhead'
  BY <1>u, <1>1 DEF TxQueueAhead
<1>2. ASSUME UNCHANGED <<txQ, up>>,
             \A c \in Ctx : snd'[c].pc = "data" <=> snd[c].pc = "data",
             \A i \in TxIdx : TxBD'[i].data = TxBD[i].data
      PROVE  TxQueueAhead'
  <2>1. D' = D
    BY <1>2
  <2>2. m' = m /\ n' = n
    BY <1>2, <1>t DEF InFlight
  <2> QED
    BY <1>1, <1>2, <2>1, <2>2
<1>3. CASE UNCHANGED <<txQ, up, snd, TxBD>>
  BY <1>2, <1>3
<1>4. CASE TxDmaFrame
  <2>1. \A i \in TxIdx : TxBD'[i].data = TxBD[i].data
    BY <1>0, <1>4 DEF TxDmaFrame, TypeOK
  <2>2. UNCHANGED <<txQ, up, snd>>
    BY <1>4 DEF TxDmaFrame, queues
  <2> QED
    BY <1>2, <2>1, <2>2
<1>5. ASSUME NEW kind \in AllFrameKinds, RxPass(kind)
      PROVE  UNCHANGED <<txQ, up, TxBD>>
  BY <1>5 DEF RxPass, RxRefill
<1>6. CASE RxTrash \/ RxDiscard \/ RxKeep \/ RxForget
  BY <1>3, <1>5, <1>6 DEF RxTrash, RxRefill, RxDiscard, RxKeep, RxForget, AllFrameKinds
<1>7. CASE RxReply \/ RxReack \/ RxStray
  <2>1. UNCHANGED <<txQ, up, TxBD>>
    BY <1>5, <1>7 DEF RxReply, RxReack, RxStray, AllFrameKinds
  <2>2. snd["isr"].pc = "idle"
    BY <1>0, <1>7 DEF RxReply, RxReack, RxStray, RxPass, Contexts
  <2>3. \A c \in Ctx : snd'[c].pc = "data" <=> snd[c].pc = "data"
    <3>1. snd' = snd \/ \E b : IsrSend(b)
      BY <1>7 DEF RxReply, RxReack, RxStray
    <3>2. ASSUME NEW b, IsrSend(b)
          PROVE  \A c \in Ctx : snd'[c].pc = "data" <=> snd[c].pc = "data"
      BY <1>t, <2>2, <3>2 DEF IsrSend
    <3> QED
      BY <3>1, <3>2
  <2> QED
    BY <1>2, <2>1, <2>3
<1>8. CASE TxReclaim
  <2>1. up /\ up' = up /\ snd' = snd
    BY <1>0, <1>8 DEF TxReclaim, Contexts
  <2>2. txQ # <<>> /\ iTxbd_old \in D
    BY <1>8, <1>t, <2>1, TxHead DEF TxReclaim, TxReclaimable
  <2>3. txQ' = Tail(txQ)
    BY <1>8 DEF TxReclaim
  <2>4. Len(txQ') = Len(txQ) - 1
    BY <1>t, <2>2, <2>3, Pop
  <2>5. TxBD' = [TxBD EXCEPT ![iTxbd_old] = [R |-> FALSE, data |-> NULL]]
    BY <1>8 DEF TxReclaim
  <2>6. D' = D \ {iTxbd_old}
    BY <1>t, <2>5
  <2>7. Cardinality(D') = Cardinality(D) - 1
    BY <1>d, <2>2, <2>6, FS_RemoveElement
  <2>8. m' = m /\ n' = n
    BY <2>1 DEF InFlight
  <2>9. Cardinality(D') + m' + n' <= Len(txQ')
    BY <1>d, <1>m, <1>t, <1>u, <2>1, <2>4, <2>7, <2>8
  <2> QED
    BY <2>9 DEF TxQueueAhead
<1>9. CASE fec_eth_setup
  <2>1. TxBD' = TxBD0 /\ txQ' = <<>> /\ snd' = snd /\ ~up /\ isr.pc = "idle"
    BY <1>9 DEF fec_eth_setup
  <2>2. snd["main"].pc = "idle" /\ snd["isr"].pc = "idle"
    BY <1>0, <2>1 DEF Contexts
  <2>3. m' = 0 /\ n' = 0
    BY <2>1, <2>2 DEF InFlight
  <2>4. D' = {i \in TxIdx : TxBD0[i].data # NULL}
    BY <2>1
  <2>5. Cardinality(D') = 0 /\ Len(txQ') = 0
    BY <2>1, <2>4, NoneUsed
  <2> QED
    BY <2>3, <2>5 DEF TxQueueAhead
<1>10. CASE fec_eth_stop
  BY <1>10 DEF fec_eth_stop, TxQueueAhead
<1>11. CASE MainNbufAlloc
  BY <1>2, <1>t, <1>11 DEF MainNbufAlloc, At
<1>12. CASE SendTooLong \/ SendLengthOk
  BY <1>2, <1>t, <1>12 DEF SendTooLong, SendLengthOk, At, Goto, IdleSend, queues
<1>13. ASSUME NEW c \in Ctx, fec_send(c)
       PROVE  TxQueueAhead'
  <2>a. \A e \in Ctx : e # c => snd'[e] = snd[e]
    BY <1>t, <1>13 DEF fec_send, TxAllocCheck, TxAllocIncr, SendQueue, SendData, SendReady,
                       SendContinue, Goto
  <2>1. CASE TxAllocCheck(c)
    BY <1>2, <1>t, <2>1 DEF TxAllocCheck, At, queues
  <2>2. CASE TxAllocIncr(c)
    BY <1>2, <1>t, <2>2 DEF TxAllocIncr, At, Goto, queues
  <2>3. CASE SendQueue(c)
    <3>1. UNCHANGED <<up, TxBD>> /\ snd[c].pc = "queue" /\ snd[c].nbuf \in Nbuf
          /\ txQ' = Append(txQ, snd[c].nbuf)
      BY <1>0, <2>3 DEF SendQueue, At, SendersHold
    <3>2. Len(txQ') = Len(txQ) + 1
      BY <1>t, <3>1, Push
    <3>3. snd'[c].pc = "data"
      BY <1>t, <2>3 DEF SendQueue, Goto
    <3>4. m' + n' = m + n + 1
      BY <1>t, <2>a, <3>1, <3>3 DEF InFlight
    <3>5. D' = D
      BY <3>1
    <3>6. up' => Cardinality(D') + m' + n' <= Len(txQ')
      BY <1>d, <1>m, <1>t, <1>u, <3>1, <3>2, <3>4, <3>5 DEF InFlight
    <3> QED
      BY <3>6 DEF TxQueueAhead
  <2>4. CASE SendData(c)
    <3>1. /\ UNCHANGED <<up, txQ>> /\ snd[c].pc = "data" /\ snd[c].bd \in TxIdx
          /\ TxBD' = [TxBD EXCEPT ![snd[c].bd] = [R |-> TxBD[snd[c].bd].R,
                                                 data |-> snd[c].nbuf]]
      BY <1>t, <2>4 DEF SendData, At, queues
    <3>2. snd'[c].pc = "ready"
      BY <1>t, <2>4 DEF SendData, Goto
    <3>3. m' + n' = m + n - 1
      BY <1>t, <2>a, <3>1, <3>2 DEF InFlight
    <3>b. snd[c].nbuf \in Nbuf /\ snd[c].nbuf # NULL
      BY <1>0, <3>1, FecAssumption DEF SendersHold
    <3>4. D' = D \cup {snd[c].bd}
      BY <1>t, <3>1, <3>b
    <3>5. Cardinality(D') <= Cardinality(D) + 1 /\ Cardinality(D') \in Nat
      <4>1. Cardinality(D \cup {snd[c].bd})
              = IF snd[c].bd \in D THEN Cardinality(D) ELSE Cardinality(D) + 1
        BY <1>d, FS_AddElement
      <4> HIDE DEF D
      <4> QED
        BY <1>d, <3>4, <4>1
    <3>6. up' => Cardinality(D') + m' + n' <= Len(txQ')
      BY <1>d, <1>m, <1>t, <1>u, <3>1, <3>3, <3>5 DEF InFlight
    <3> QED
      BY <3>6 DEF TxQueueAhead
  <2>5. CASE SendReady(c)
    <3>1. \A i \in TxIdx : TxBD'[i].data = TxBD[i].data
      BY <1>t, <2>5 DEF SendReady
    <3>2. UNCHANGED <<txQ, up>> /\ snd[c].pc # "data" /\ snd'[c].pc # "data"
      BY <1>t, <2>5 DEF SendReady, At, Goto, queues
    <3> QED
      BY <1>2, <2>a, <3>1, <3>2
  <2>6. CASE SendContinue(c)
    <3>1. UNCHANGED <<txQ, up, TxBD>> /\ snd[c].pc # "data" /\ snd'[c].pc # "data"
      BY <1>t, <2>6 DEF SendContinue, At, IdleSend
    <3> QED
      BY <1>2, <2>a, <3>1
  <2> QED
    BY <1>13, <2>1, <2>2, <2>3, <2>4, <2>5, <2>6 DEF fec_send
<1>14. CASE RxDmaFrame \/ RxDmaHalt \/ TxDmaHalt \/ IsrEnter \/ RxFrameDone \/ TxFrameDone
            \/ AppFree \/ UNCHANGED vars
  BY <1>3, <1>14 DEF RxDmaFrame, RxDmaHalt, TxDmaHalt, IsrEnter, RxFrameDone, TxFrameDone,
                     AppFree, queues, vars
<1> QED
  BY <1>4, <1>6, <1>7, <1>8, <1>9, <1>10, <1>11, <1>12, <1>13, <1>14
     DEF Next, Dma, Isr, Main, fec_rx_frame, fec_tx_frame, Ctx

(***************************************************************************)
(* The descriptors of one side are a run of the ring                       *)
(***************************************************************************)
\* in a ring of size s, the members of S are the n slots from i on
IsRun(s, S, i, n) == \A k \in 0..(s - 1) : (i + k) % s \in S <=> k < n

\* different distances from an index lead to different slots
LEMMA RingApart ==
  ASSUME NEW s \in Nat \ {0}, NEW i \in 0..(s - 1),
         NEW k \in 0..(s - 1), NEW l \in 0..(s - 1), (i + k) % s = (i + l) % s
  PROVE  k = l
<1>1. \A a \in 0..(s - 1) : a % s = a
  BY ModSmall
<1>2. \A a \in s..(2 * s - 1) : a % s = a - s
  BY ModWrap
<1> QED
  BY <1>1, <1>2

\* the slot behind the one at distance k is the one at distance k + 1
LEMMA RingNext ==
  ASSUME NEW s \in Nat \ {0}, NEW i \in 0..(s - 1), NEW k \in 0..(s - 1)
  PROVE  (((i + k) % s) + 1) % s = (i + (k + 1)) % s
<1>1. \A a \in 0..(s - 1) : a % s = a
  BY ModSmall
<1>2. \A a \in s..(2 * s - 1) : a % s = a - s
  BY ModWrap
<1>3. CASE i + k < s
  BY <1>1, <1>3
<1>4. CASE i + k >= s
  <2>1. (i + k) % s = i + k - s
    BY <1>2, <1>4
  <2>2. i + (k + 1) = s \/ i + (k + 1) \in s..(2 * s - 1)
    BY <1>4
  <2>3. (i + (k + 1)) % s = (i + (k + 1)) - s
    BY <1>2, <1>4
  <2>4. ((i + k - s) + 1) % s = (i + k - s) + 1
    BY <1>1, <1>4
  <2> QED
    BY <2>1, <2>3, <2>4
<1> QED
  BY <1>3, <1>4

\* a slot that joins the run at its end makes it one longer
LEMMA RunGrow ==
  ASSUME NEW s \in Nat \ {0}, NEW i \in 0..(s - 1), NEW n \in 0..(s - 1), NEW S,
         IsRun(s, S, i, n)
  PROVE  IsRun(s, S \cup {(i + n) % s}, i, n + 1)
<1> SUFFICES ASSUME NEW k \in 0..(s - 1)
             PROVE  (i + k) % s \in S \cup {(i + n) % s} <=> k < n + 1
  BY DEF IsRun
<1>1. (i + k) % s \in S <=> k < n
  BY DEF IsRun
<1>2. (i + k) % s = (i + n) % s => k = n
  BY RingApart
<1> QED
  BY <1>1, <1>2

\* a slot that leaves the run at its beginning makes it one shorter
LEMMA RunShrink ==
  ASSUME NEW s \in Nat \ {0}, NEW i \in 0..(s - 1), NEW n \in 1..s, NEW S,
         IsRun(s, S, i, n)
  PROVE  IsRun(s, S \ {i}, (i + 1) % s, n - 1)
<1> SUFFICES ASSUME NEW k \in 0..(s - 1)
             PROVE  (((i + 1) % s) + k) % s \in S \ {i} <=> k < n - 1
  BY DEF IsRun
<1>1. CASE k = s - 1
  <2>1. (((i + 1) % s) + k) % s = i
    BY <1>1, RingShift
  <2> QED
    BY <1>1, <2>1
<1>2. CASE k < s - 1
  <2>1. k + 1 \in 0..(s - 1) /\ k + 1 > 0
    BY <1>2
  <2>2. (((i + 1) % s) + k) % s = (i + (k + 1)) % s
    BY <1>2, RingShift
  <2>3. (i + (k + 1)) % s # i
    BY <2>1, RingShift
  <2>4. (i + (k + 1)) % s \in S <=> k + 1 < n
    BY <2>1 DEF IsRun
  <2> QED
    BY <2>2, <2>3, <2>4
<1> QED
  BY <1>1, <1>2

\* the slot at which a run begins is in it if the run is not empty, and the
\* slot behind it is in it only if the run is the whole ring
LEMMA RunEnds ==
  ASSUME NEW s \in Nat \ {0}, NEW i \in 0..(s - 1), NEW n \in 0..s, NEW S,
         IsRun(s, S, i, n)
  PROVE  /\ i \in S <=> n > 0
         /\ (i + n) % s \in S <=> n = s
<1>1. (i + 0) % s = i /\ 0 \in 0..(s - 1)
  BY ModSmall
<1>2. (i + 0) % s \in S <=> 0 < n
  BY <1>1 DEF IsRun
<1>3. i \in S <=> n > 0
  BY <1>1, <1>2
<1>4. CASE n = s
  <2>1. (i + s) % s = i
    BY ModSmall, ModWrap
  <2> QED
    BY <1>3, <1>4, <2>1
<1>5. CASE n < s
  <2>1. (i + n) % s \in S <=> n < n
    BY <1>5 DEF IsRun
  <2> QED
    BY <1>3, <1>5, <2>1
<1> QED
  BY <1>4, <1>5

\* no slot is a run of length 0
LEMMA RunEmpty ==
  ASSUME NEW s \in Nat \ {0}, NEW i
  PROVE  IsRun(s, {}, i, 0)
BY DEF IsRun

\* and ends where it did
LEMMA RunEndStays ==
  ASSUME NEW s \in Nat \ {0}, NEW i \in 0..(s - 1), NEW n \in 1..s
  PROVE  (((i + 1) % s) + (n - 1)) % s = (i + n) % s
<1>1. \A a \in 0..(s - 1) : a % s = a
  BY ModSmall
<1>2. \A a \in s..(2 * s - 1) : a % s = a - s
  BY ModWrap
<1>3. CASE i = s - 1
  <2>1. (i + 1) % s = 0
    BY <1>2, <1>3
  <2>2. (0 + (n - 1)) % s = n - 1 /\ (i + n) % s = n - 1
    BY <1>1, <1>2, <1>3
  <2> QED
    BY <2>1, <2>2
<1>4. CASE i # s - 1
  <2>1. (i + 1) % s = i + 1
    BY <1>1, <1>4
  <2>2. (i + 1) + (n - 1) = i + n
    OBVIOUS
  <2> QED
    BY <2>1, <2>2
<1> QED
  BY <1>3, <1>4

(***************************************************************************)
(* The receive ring is filled in order                                     *)
(***************************************************************************)
\* the descriptors the receive DMA has filled, and those that are to be sent
Filled == {i \in RxIdx : ~RxBD[i].E}
Ready == {i \in TxIdx : TxBD[i].R}

\* the filled descriptors begin at the one fec_rx_frame looks at and end where
\* the DMA stands; those to be sent begin at the DMA and end at the tail
RxRuns == up => \E n \in 0..NRXBD : /\ (iRxbd + n) % NRXBD = rxDma.bd
                                    /\ IsRun(NRXBD, Filled, iRxbd, n)
TxRuns == up => \E n \in 0..NTXBD : /\ (txDma.bd + n) % NTXBD = TxTail
                                    /\ IsRun(NTXBD, Ready, txDma.bd, n)

\* RxFifo and TxFifo say that these are runs of their rings
LEMMA FifoRuns == TypeOK => (RxFifo <=> RxRuns) /\ (TxFifo <=> TxRuns)
<1> SUFFICES ASSUME TypeOK PROVE (RxFifo <=> RxRuns) /\ (TxFifo <=> TxRuns)
  OBVIOUS
<1>1. /\ RxIdx = 0..(NRXBD - 1) /\ TxIdx = 0..(NTXBD - 1)
      /\ NRXBD \in Nat \ {0} /\ NTXBD \in Nat \ {0}
      /\ iRxbd \in 0..(NRXBD - 1) /\ txDma.bd \in 0..(NTXBD - 1)
  BY FecAssumption DEF RxIdx, TxIdx, TypeOK
<1>2. \A k \in RxIdx : (iRxbd + k) % NRXBD \in RxIdx
  BY <1>1, RingShift
<1>3. \A k \in TxIdx : (txDma.bd + k) % NTXBD \in TxIdx
  BY <1>1, RingShift
<1>4. ASSUME NEW n \in 0..NRXBD
      PROVE  (\A k \in RxIdx : RxBD[(iRxbd + k) % NRXBD].E <=> k >= n)
               <=> IsRun(NRXBD, Filled, iRxbd, n)
  <2>1. ASSUME NEW k \in RxIdx
        PROVE  (RxBD[(iRxbd + k) % NRXBD].E <=> k >= n)
                 <=> ((iRxbd + k) % NRXBD \in Filled <=> k < n)
    <3>1. k >= n <=> ~(k < n)
      BY <1>1
    <3>2. (iRxbd + k) % NRXBD \in Filled <=> ~RxBD[(iRxbd + k) % NRXBD].E
      BY <1>2 DEF Filled
    <3> QED
      BY <3>1, <3>2
  <2> QED
    BY <1>1, <2>1 DEF IsRun
<1>5. ASSUME NEW n \in 0..NTXBD
      PROVE  (\A k \in TxIdx : TxBD[(txDma.bd + k) % NTXBD].R <=> k < n)
               <=> IsRun(NTXBD, Ready, txDma.bd, n)
  BY <1>1, <1>3 DEF IsRun, Ready
<1>6. RxFifo <=> RxRuns
  BY <1>4 DEF RxFifo, RxRuns
<1>7. TxFifo <=> TxRuns
  BY <1>5 DEF TxFifo, TxRuns
<1> QED
  BY <1>6, <1>7

\* the same of the state after a step
LEMMA FifoRunsNext == TypeOK' => (RxFifo' <=> RxRuns') /\ (TxFifo' <=> TxRuns')
BY FifoRuns, PTL

\* giving the descriptor at iRxbd back to the DMA takes it from the front
LEMMA RefillFifo ==
  ASSUME IInv, RxFifo, up, NEW d \in Nbuf, NEW b, RxRefill(d, b), ~RxBD[iRxbd].E, TypeOK'
  PROVE  RxFifo'
<1>0. TypeOK
  BY DEF IInv
<1>1. PICK n \in 0..NRXBD : (iRxbd + n) % NRXBD = rxDma.bd /\ IsRun(NRXBD, Filled, iRxbd, n)
  BY <1>0, FifoRuns DEF RxRuns
<1>2. /\ NRXBD \in Nat \ {0} /\ iRxbd \in 0..(NRXBD - 1) /\ iRxbd \in RxIdx
      /\ RxIdx = 0..(NRXBD - 1)
  BY <1>0, FecAssumption DEF TypeOK, RxIdx
<1>3. n > 0
  <2>1. iRxbd \in Filled
    BY <1>2 DEF Filled
  <2> QED
    BY <1>1, <1>2, <2>1, RunEnds
<1>4. Filled' = Filled \ {iRxbd} /\ iRxbd' = (iRxbd + 1) % NRXBD /\ rxDma'.bd = rxDma.bd
  BY <1>0, <1>2 DEF RxRefill, Filled, NextRx, TypeOK
<1>5. IsRun(NRXBD, Filled', iRxbd', n - 1)
  BY <1>1, <1>2, <1>3, <1>4, RunShrink
<1>6. n - 1 \in 0..NRXBD
  BY <1>2, <1>3
<1>7. (iRxbd' + (n - 1)) % NRXBD = rxDma'.bd
  <2>1. n \in 1..NRXBD
    BY <1>2, <1>3
  <2>2. (((iRxbd + 1) % NRXBD) + (n - 1)) % NRXBD = (iRxbd + n) % NRXBD
    BY <1>2, <2>1, RunEndStays
  <2> QED
    BY <1>1, <1>4, <2>2
<1> QED
  BY <1>5, <1>6, <1>7, FifoRunsNext DEF RxRuns

\* no step leaves a frame behind the DMA's back, or a descriptor taken twice
LEMMA RxFifoStep == IInv /\ RxFifo /\ [Next]_vars /\ TypeOK' => RxFifo'
<1> SUFFICES ASSUME IInv, RxFifo, [Next]_vars, TypeOK' PROVE RxFifo'
  OBVIOUS
<1>0. TypeOK /\ Contexts
  BY DEF IInv
<1>1. CASE UNCHANGED <<RxBD, iRxbd, rxDma, up>>
  BY <1>1 DEF RxFifo
<1>2. CASE RxDmaFrame
  <2>1. CASE ~up
    BY <1>2, <2>1 DEF RxDmaFrame, RxFifo
  <2>2. CASE up
    <3>1. PICK n \in 0..NRXBD : /\ (iRxbd + n) % NRXBD = rxDma.bd
                                /\ IsRun(NRXBD, Filled, iRxbd, n)
      BY <1>0, <2>2, FifoRuns DEF RxRuns
    <3>2. /\ NRXBD \in Nat \ {0} /\ iRxbd \in 0..(NRXBD - 1) /\ rxDma.bd \in RxIdx
          /\ RxIdx = 0..(NRXBD - 1)
      BY <1>0, FecAssumption DEF TypeOK, RxIdx
    <3>3. n \in 0..(NRXBD - 1)
      <4>1. rxDma.bd \notin Filled
        BY <1>2 DEF RxDmaFrame, Filled
      <4>2. (iRxbd + n) % NRXBD \in Filled <=> n = NRXBD
        BY <3>1, <3>2, RunEnds
      <4> QED
        BY <3>1, <3>2, <4>1, <4>2
    <3>4. PICK k \in FrameKinds :
            RxBD' = [RxBD EXCEPT ![rxDma.bd] =
                       [E |-> FALSE, data |-> RxBD[rxDma.bd].data, frame |-> k]]
      BY <1>2 DEF RxDmaFrame
    <3>5. Filled' = Filled \cup {rxDma.bd} /\ iRxbd' = iRxbd
      BY <1>0, <1>2, <3>2, <3>4 DEF RxDmaFrame, Filled, TypeOK
    <3>6. IsRun(NRXBD, Filled', iRxbd', n + 1)
      BY <3>1, <3>2, <3>3, <3>5, RunGrow
    <3>7. rxDma'.bd = (iRxbd' + (n + 1)) % NRXBD /\ n + 1 \in 0..NRXBD
      <4>1. (((iRxbd + n) % NRXBD) + 1) % NRXBD = (iRxbd + (n + 1)) % NRXBD
        BY <3>2, <3>3, RingNext
      <4>2. rxDma'.bd = (rxDma.bd + 1) % NRXBD
        BY <1>2 DEF RxDmaFrame, NextRx
      <4> QED
        BY <3>1, <3>2, <3>3, <3>5, <4>1, <4>2
    <3> QED
      BY <3>6, <3>7, FifoRunsNext DEF RxRuns
  <2> QED
    BY <2>1, <2>2
<1>3. CASE RxDmaHalt
  BY <1>3 DEF RxDmaHalt, RxFifo
<1>4. CASE RxTrash
  <2>1. up
    BY <1>0, <1>4 DEF RxTrash, Contexts
  <2> QED
    BY <1>0, <1>4, <2>1, RefillFifo DEF RxTrash, TypeOK
<1>5. ASSUME NEW kind \in AllFrameKinds, RxPass(kind)
      PROVE  RxFifo'
  <2>1. up /\ Head(freeQ) \in Nbuf
    BY <1>0, <1>5, Pop DEF RxPass, Contexts, TypeOK
  <2> QED
    BY <1>5, <2>1, RefillFifo DEF RxPass
<1>6. CASE RxDiscard \/ RxKeep \/ RxForget \/ RxReply \/ RxReack \/ RxStray
  BY <1>5, <1>6 DEF RxDiscard, RxKeep, RxForget, RxReply, RxReack, RxStray, AllFrameKinds
<1>7. CASE fec_eth_setup
  <2>1. PICK o \in Orders : RxBD' = RxBD0(o)
    BY <1>7 DEF fec_eth_setup
  <2>2. iRxbd' = 0 /\ rxDma'.bd = 0
    BY <1>7 DEF fec_eth_setup
  <2>3. Filled' = {}
    BY <2>1 DEF Filled, RxBD0
  <2>4. NRXBD \in Nat \ {0} /\ (0 + 0) % NRXBD = 0 /\ 0 \in 0..NRXBD
    BY FecAssumption, ModSmall
  <2>5. IsRun(NRXBD, Filled', iRxbd', 0)
    BY <2>3, <2>4, RunEmpty
  <2> QED
    BY <2>2, <2>4, <2>5, FifoRunsNext DEF RxRuns
<1>8. CASE fec_eth_stop
  BY <1>8 DEF fec_eth_stop, RxFifo
<1>9. ASSUME NEW c \in Ctx, fec_send(c)
      PROVE  RxFifo'
  BY <1>1, <1>9 DEF fec_send, TxAllocCheck, TxAllocIncr, SendQueue, SendData, SendReady,
                    SendContinue, dma
<1>10. CASE Next /\ ~RxDmaFrame /\ ~RxDmaHalt /\ ~fec_rx_frame /\ ~fec_eth_setup
            /\ ~fec_eth_stop /\ \A c \in Ctx : ~fec_send(c)
  BY <1>1, <1>10 DEF Next, Dma, Isr, Main, TxDmaFrame, TxDmaHalt, IsrEnter, fec_tx_frame,
                     TxReclaim, TxFrameDone, AppFree, MainNbufAlloc, SendTooLong,
                     SendLengthOk, dma, Ctx
<1>11. CASE RxFrameDone \/ UNCHANGED vars
  BY <1>1, <1>11 DEF RxFrameDone, dma, vars
<1> QED
  BY <1>2, <1>3, <1>4, <1>6, <1>7, <1>8, <1>9, <1>10, <1>11 DEF fec_rx_frame

\* after fec_eth_setup no descriptor is filled
LEMMA RxFifoInit == Init => RxFifo
<1> SUFFICES ASSUME Init PROVE RxFifo
  OBVIOUS
<1>1. PICK o \in Orders : RxBD = RxBD0(o)
  BY DEF Init
<1>2. iRxbd = 0 /\ rxDma.bd = 0
  BY DEF Init
<1>3. Filled = {}
  BY <1>1 DEF Filled, RxBD0
<1>4. NRXBD \in Nat \ {0} /\ (0 + 0) % NRXBD = 0 /\ 0 \in 0..NRXBD
  BY FecAssumption, ModSmall
<1>5. IsRun(NRXBD, Filled, iRxbd, 0)
  BY <1>3, <1>4, RunEmpty
<1> QED
  BY <1>2, <1>4, <1>5, InitType, FifoRuns DEF RxRuns

(***************************************************************************)
(* The transmit ring of one sender is sent in order                        *)
(***************************************************************************)
\* with one sender no answer is ever sent from the interrupt handler
LEMMA NoAnswersStep == OneSender /\ IInv /\ NoAnswers /\ [Next]_vars => NoAnswers'
<1> SUFFICES ASSUME OneSender, IInv, NoAnswers, [Next]_vars PROVE NoAnswers'
  OBVIOUS
<1>0. TypeOK /\ Contexts
  BY DEF IInv
<1>1. ASSUME UNCHANGED RxBD, snd'["isr"] = snd["isr"]
      PROVE  NoAnswers'
  BY <1>1 DEF NoAnswers
<1>t. /\ snd \in [Ctx -> [pc: SendPc, nbuf: Nbuf \cup {NULL}, bd: TxIdx]]
      /\ RxBD \in [RxIdx -> [E: BOOLEAN, data: Nbuf, frame: AllFrameKinds \cup {"none"}]]
      /\ iRxbd \in RxIdx /\ rxDma.bd \in RxIdx
  BY <1>0 DEF TypeOK
<1>2. CASE RxDmaFrame
  <2>1. PICK k \in FrameKinds :
          RxBD' = [RxBD EXCEPT ![rxDma.bd] =
                     [E |-> FALSE, data |-> RxBD[rxDma.bd].data, frame |-> k]]
    BY <1>2 DEF RxDmaFrame
  <2>2. k \notin {"reply", "reack", "stray"}
    BY <2>1 DEF OneSender
  <2> QED
    BY <1>2, <1>t, <2>1, <2>2 DEF RxDmaFrame, NoAnswers
<1>3. ASSUME NEW d, NEW b, RxRefill(d, b), snd' = snd
      PROVE  NoAnswers'
  BY <1>3, <1>t DEF RxRefill, NoAnswers
<1>4. CASE RxTrash
  BY <1>3, <1>4 DEF RxTrash
<1>5. CASE RxDiscard \/ RxKeep \/ RxForget
  BY <1>3, <1>5 DEF RxDiscard, RxKeep, RxForget, RxPass
<1>6. ~RxReply /\ ~RxReack /\ ~RxStray
  BY <1>t DEF RxReply, RxReack, RxStray, RxPass, NoAnswers
<1>7. CASE fec_eth_setup
  <2>1. PICK o \in Orders : RxBD' = RxBD0(o)
    BY <1>7 DEF fec_eth_setup
  <2> QED
    BY <1>7, <2>1 DEF fec_eth_setup, RxBD0, NoAnswers
<1>8. CASE fec_eth_stop \/ AppFree
  BY <1>1, <1>8 DEF fec_eth_stop, AppFree
<1>9. CASE MainNbufAlloc \/ SendTooLong \/ SendLengthOk
  BY <1>1, <1>9, <1>t DEF MainNbufAlloc, SendTooLong, SendLengthOk, Goto, queues, Ctx
<1>10. ~fec_send("isr")
  BY DEF fec_send, TxAllocCheck, TxAllocIncr, SendQueue, SendData, SendReady,
         SendContinue, At, NoAnswers
<1>11. CASE fec_send("main")
  BY <1>1, <1>11, <1>t DEF fec_send, TxAllocCheck, TxAllocIncr, SendQueue, SendData,
                           SendReady, SendContinue, Goto, queues, Ctx
<1>12. CASE RxDmaHalt \/ TxDmaFrame \/ TxDmaHalt \/ IsrEnter \/ RxFrameDone
            \/ fec_tx_frame \/ UNCHANGED vars
  BY <1>1, <1>12 DEF RxDmaHalt, TxDmaFrame, TxDmaHalt, IsrEnter, RxFrameDone, TxFrameDone,
                     fec_tx_frame, TxReclaim, vars
<1> QED
  BY <1>2, <1>4, <1>5, <1>6, <1>7, <1>8, <1>9, <1>10, <1>11, <1>12
     DEF Next, Dma, Isr, Main, fec_rx_frame

\* what fecbd_tx_alloc has found stays true until the descriptor is ready
LEMMA TxClaimedStep == IInv /\ NoAnswers /\ TxClaimed /\ [Next]_vars => TxClaimed'
<1> SUFFICES ASSUME IInv, NoAnswers, TxClaimed, [Next]_vars PROVE TxClaimed'
  OBVIOUS
<1>0. TypeOK /\ Contexts
  BY DEF IInv
<1>t. /\ snd \in [Ctx -> [pc: SendPc, nbuf: Nbuf \cup {NULL}, bd: TxIdx]]
      /\ TxBD \in [TxIdx -> [R: BOOLEAN, data: Nbuf \cup {NULL}]]
      /\ snd["main"].bd \in TxIdx /\ "main" \in Ctx
      /\ iTxbd_old \in TxIdx /\ txDma.bd \in TxIdx
  BY <1>0 DEF TypeOK, Ctx
<1>1. ASSUME snd'["main"] = snd["main"], UNCHANGED iTxbd_new,
             \A i \in TxIdx : TxBD'[i].R => TxBD[i].R
      PROVE  TxClaimed'
  BY <1>1, <1>t DEF TxClaimed
<1>2. CASE UNCHANGED <<TxBD, snd, iTxbd_new>>
  BY <1>1, <1>2
<1>3. CASE TxDmaFrame
  <2>1. \A i \in TxIdx : TxBD'[i].R => TxBD[i].R
    BY <1>3, <1>t DEF TxDmaFrame
  <2> QED
    BY <1>1, <1>3, <2>1 DEF TxDmaFrame
<1>4. CASE TxReclaim
  <2>1. \A i \in TxIdx : TxBD'[i].R => TxBD[i].R
    BY <1>4, <1>t DEF TxReclaim
  <2> QED
    BY <1>1, <1>4, <2>1 DEF TxReclaim
<1>5. CASE fec_rx_frame
  <2>1. ~RxReply /\ ~RxReack /\ ~RxStray
    BY <1>0 DEF RxReply, RxReack, RxStray, RxPass, NoAnswers, TypeOK
  <2> QED
    BY <1>2, <1>5, <2>1 DEF fec_rx_frame, RxFrameDone, RxTrash, RxDiscard, RxKeep, RxForget,
                            RxPass, RxRefill
<1>6. CASE fec_eth_setup \/ fec_eth_stop
  <2>1. snd' = snd /\ snd["main"].pc = "idle"
    BY <1>0, <1>6 DEF fec_eth_setup, fec_eth_stop, Contexts
  <2> QED
    BY <2>1 DEF TxClaimed
<1>7. CASE MainNbufAlloc \/ SendTooLong \/ SendLengthOk
  <2>1. snd'["main"].pc \in {"held", "idle", "alloc"}
    BY <1>7, <1>t DEF MainNbufAlloc, SendTooLong, SendLengthOk, Goto, IdleSend
  <2> QED
    BY <2>1 DEF TxClaimed
<1>8. ~fec_send("isr")
  BY DEF fec_send, TxAllocCheck, TxAllocIncr, SendQueue, SendData, SendReady,
         SendContinue, At, NoAnswers
<1>9. CASE TxAllocCheck("main")
  <2>1. snd'["main"].pc = "incr" /\ snd'["main"].bd = iTxbd_new /\ TxBD' = TxBD
        /\ iTxbd_new' = iTxbd_new /\ ~TxBD[iTxbd_new].R
    BY <1>9, <1>t DEF TxAllocCheck
  <2> QED
    BY <2>1 DEF TxClaimed
<1>10. CASE TxAllocIncr("main")
  <2>1. snd["main"].pc = "incr" /\ snd'["main"].pc = "queue" /\ snd'["main"].bd = snd["main"].bd
        /\ TxBD' = TxBD
    BY <1>10, <1>t DEF TxAllocIncr, At, Goto
  <2>2. iTxbd_new' = NextTx(snd["main"].bd)
    BY <1>10, <2>1 DEF TxAllocIncr, TxClaimed
  <2> QED
    BY <2>1, <2>2 DEF TxClaimed
<1>11. CASE SendQueue("main")
  <2>1. snd["main"].pc = "queue" /\ snd'["main"].pc = "data" /\ snd'["main"].bd = snd["main"].bd
        /\ TxBD' = TxBD /\ iTxbd_new' = iTxbd_new
    BY <1>11, <1>t DEF SendQueue, At, Goto
  <2> QED
    BY <2>1 DEF TxClaimed
<1>12. CASE SendData("main")
  <2>1. snd["main"].pc = "data" /\ snd'["main"].pc = "ready" /\ snd'["main"].bd = snd["main"].bd
        /\ iTxbd_new' = iTxbd_new
    BY <1>12, <1>t DEF SendData, At, Goto
  <2>2. \A i \in TxIdx : TxBD'[i].R = TxBD[i].R
    BY <1>12, <1>t DEF SendData
  <2> QED
    BY <1>t, <2>1, <2>2 DEF TxClaimed
<1>13. CASE SendReady("main") \/ SendContinue("main")
  <2>1. snd'["main"].pc \in {"cont", "idle"}
    BY <1>13, <1>t DEF SendReady, SendContinue, Goto, IdleSend
  <2> QED
    BY <2>1 DEF TxClaimed
<1>14. CASE RxDmaFrame \/ RxDmaHalt \/ TxDmaHalt \/ IsrEnter \/ TxFrameDone \/ AppFree
            \/ UNCHANGED vars
  BY <1>2, <1>14 DEF RxDmaFrame, RxDmaHalt, TxDmaHalt, IsrEnter, TxFrameDone, AppFree, vars
<1> QED
  BY <1>3, <1>4, <1>5, <1>6, <1>7, <1>8, <1>9, <1>10, <1>11, <1>12, <1>13, <1>14
     DEF Next, Dma, Isr, Main, fec_send, fec_tx_frame

\* the run stays as it is when neither its slots nor its ends change
LEMMA TxFifoKept ==
  ASSUME TypeOK, TypeOK', TxFifo, up' = up, txDma'.bd = txDma.bd, TxTail' = TxTail,
         Ready' = Ready
  PROVE  TxFifo'
<1>1. TxRuns
  BY FifoRuns
<1>2. TxRuns'
  BY <1>1 DEF TxRuns
<1> QED
  BY <1>2, FifoRunsNext

\* no step makes a hole in the descriptors that are to be sent
LEMMA TxFifoStep ==
  IInv /\ TypeOK' /\ NoAnswers /\ TxClaimed /\ TxFifo /\ [Next]_vars => TxFifo'
<1> SUFFICES ASSUME IInv, TypeOK', NoAnswers, TxClaimed, TxFifo, [Next]_vars PROVE TxFifo'
  OBVIOUS
<1>0. TypeOK /\ Contexts
  BY DEF IInv
<1>t. /\ snd \in [Ctx -> [pc: SendPc, nbuf: Nbuf \cup {NULL}, bd: TxIdx]]
      /\ TxBD \in [TxIdx -> [R: BOOLEAN, data: Nbuf \cup {NULL}]]
      /\ snd["main"].bd \in TxIdx /\ "main" \in Ctx
      /\ iTxbd_old \in TxIdx /\ txDma.bd \in TxIdx
  BY <1>0 DEF TypeOK, Ctx
<1>s. NTXBD \in Nat \ {0} /\ TxIdx = 0..(NTXBD - 1)
  BY FecAssumption DEF TxIdx
<1>1. CASE UNCHANGED <<TxBD, snd, iTxbd_new, txDma, up>>
  BY <1>1 DEF TxFifo, TxTail
<1>2. CASE TxDmaFrame
  <2>1. CASE ~up
    BY <1>2, <2>1 DEF TxDmaFrame, TxFifo
  <2>2. CASE up
    <3>1. PICK n \in 0..NTXBD : /\ (txDma.bd + n) % NTXBD = TxTail
                                /\ IsRun(NTXBD, Ready, txDma.bd, n)
      BY <1>0, <2>2, FifoRuns DEF TxRuns
    <3>2. txDma.bd \in Ready
      BY <1>2, <1>t DEF TxDmaFrame, Ready
    <3>3. n \in 1..NTXBD
      <4>1. txDma.bd \in Ready <=> n > 0
        BY <1>s, <1>t, <3>1, RunEnds
      <4> QED
        BY <1>s, <3>1, <3>2, <4>1
    <3>4. Ready' = Ready \ {txDma.bd} /\ txDma'.bd = (txDma.bd + 1) % NTXBD /\ TxTail' = TxTail
      BY <1>2, <1>t DEF TxDmaFrame, Ready, NextTx, TxTail
    <3>5. IsRun(NTXBD, Ready', txDma'.bd, n - 1)
      <4>1. txDma.bd \in 0..(NTXBD - 1)
        BY <1>s, <1>t
      <4>2. IsRun(NTXBD, Ready \ {txDma.bd}, (txDma.bd + 1) % NTXBD, n - 1)
        BY <1>s, <3>1, <3>3, <4>1, RunShrink
      <4> QED
        BY <3>4, <4>2
    <3>6. (txDma'.bd + (n - 1)) % NTXBD = TxTail'
      <4>1. (((txDma.bd + 1) % NTXBD) + (n - 1)) % NTXBD = (txDma.bd + n) % NTXBD
        BY <1>s, <1>t, <3>3, RunEndStays
      <4> QED
        BY <3>1, <3>4, <4>1
    <3>7. n - 1 \in 0..NTXBD
      BY <1>s, <3>3
    <3> QED
      BY <3>5, <3>6, <3>7, FifoRunsNext DEF TxRuns
  <2> QED
    BY <2>1, <2>2
<1>3. CASE TxDmaHalt
  BY <1>3 DEF TxDmaHalt, TxFifo, TxTail
<1>4. CASE TxReclaim
  <2>1. Ready' = Ready
    BY <1>4, <1>t DEF TxReclaim, TxReclaimable, Ready
  <2> QED
    BY <1>0, <1>4, <2>1, TxFifoKept DEF TxReclaim, TxTail, dma
<1>5. CASE fec_rx_frame
  <2>1. ~RxReply /\ ~RxReack /\ ~RxStray
    BY <1>0 DEF RxReply, RxReack, RxStray, RxPass, NoAnswers, TypeOK
  <2> QED
    BY <1>1, <1>5, <2>1 DEF fec_rx_frame, RxFrameDone, RxTrash, RxDiscard, RxKeep, RxForget,
                            RxPass, RxRefill, dma
<1>6. CASE fec_eth_stop
  BY <1>6 DEF fec_eth_stop, TxFifo
<1>7. CASE fec_eth_setup
  <2>1. TxTail' = 0 /\ txDma'.bd = 0 /\ TxBD' = TxBD0
    BY <1>0, <1>7 DEF fec_eth_setup, TxTail, Contexts
  <2>2. Ready' = {}
    BY <2>1 DEF Ready, TxBD0
  <2>3. (0 + 0) % NTXBD = 0 /\ 0 \in 0..NTXBD
    BY <1>s, ModSmall
  <2>4. IsRun(NTXBD, Ready', txDma'.bd, 0)
    BY <1>s, <2>2, RunEmpty
  <2> QED
    BY <2>1, <2>3, <2>4, FifoRunsNext DEF TxRuns
<1>8. CASE MainNbufAlloc \/ SendTooLong \/ SendLengthOk
  <2>1. snd["main"].pc \in {"held", "idle"} /\ snd'["main"].pc \in {"held", "idle", "alloc"}
    BY <1>8, <1>t DEF MainNbufAlloc, SendTooLong, SendLengthOk, At, Goto, IdleSend
  <2>2. UNCHANGED <<TxBD, iTxbd_new, txDma, up>>
    BY <1>8 DEF MainNbufAlloc, SendTooLong, SendLengthOk, dma
  <2> QED
    BY <1>0, <2>1, <2>2, TxFifoKept DEF TxTail, Ready
<1>9. ~fec_send("isr")
  BY DEF fec_send, TxAllocCheck, TxAllocIncr, SendQueue, SendData, SendReady,
         SendContinue, At, NoAnswers
<1>10. CASE TxAllocCheck("main")
  <2>1. snd["main"].pc = "alloc" /\ snd'["main"].pc = "incr"
        /\ UNCHANGED <<TxBD, iTxbd_new, txDma, up>>
    BY <1>10, <1>t DEF TxAllocCheck, At, dma
  <2> QED
    BY <1>0, <2>1, TxFifoKept DEF TxTail, Ready
<1>11. CASE TxAllocIncr("main")
  <2>1. snd["main"].pc = "incr" /\ snd'["main"].pc = "queue" /\ snd'["main"].bd = snd["main"].bd
        /\ UNCHANGED <<TxBD, txDma, up>>
    BY <1>11, <1>t DEF TxAllocIncr, At, Goto, dma
  <2>2. snd["main"].bd = iTxbd_new
    BY <2>1 DEF TxClaimed
  <2> QED
    BY <1>0, <2>1, <2>2, TxFifoKept DEF TxTail, Ready
<1>12. CASE SendQueue("main")
  <2>1. snd["main"].pc = "queue" /\ snd'["main"].pc = "data" /\ snd'["main"].bd = snd["main"].bd
        /\ UNCHANGED <<TxBD, txDma, up>>
    BY <1>12, <1>t DEF SendQueue, At, Goto, dma
  <2> QED
    BY <1>0, <2>1, TxFifoKept DEF TxTail, Ready
<1>13. CASE SendData("main")
  <2>1. snd["main"].pc = "data" /\ snd'["main"].pc = "ready" /\ snd'["main"].bd = snd["main"].bd
        /\ UNCHANGED <<txDma, up>>
    BY <1>13, <1>t DEF SendData, At, Goto, dma
  <2>2. Ready' = Ready
    BY <1>13, <1>t DEF SendData, Ready
  <2> QED
    BY <1>0, <2>1, <2>2, TxFifoKept DEF TxTail
<1>14. CASE SendReady("main")
  <2> DEFINE b == snd["main"].bd
  <2>1. /\ snd["main"].pc = "ready" /\ snd'["main"].pc = "cont"
        /\ UNCHANGED <<iTxbd_new, txDma, up>>
        /\ TxBD' = [TxBD EXCEPT ![b] = [R |-> TRUE, data |-> TxBD[b].data]]
    BY <1>14, <1>t DEF SendReady, At, Goto, dma
  <2>2. up
    BY <1>0, <2>1 DEF Contexts
  <2>3. PICK n \in 0..NTXBD : /\ (txDma.bd + n) % NTXBD = TxTail
                              /\ IsRun(NTXBD, Ready, txDma.bd, n)
    BY <1>0, <2>2, FifoRuns DEF TxRuns
  <2>4. TxTail = b /\ TxTail' = iTxbd_new /\ iTxbd_new = NextTx(b) /\ ~TxBD[b].R
    BY <2>1 DEF TxTail, TxClaimed
  <2>5. n \in 0..(NTXBD - 1)
    <3>1. (txDma.bd + n) % NTXBD \in Ready <=> n = NTXBD
      BY <1>s, <1>t, <2>3, RunEnds
    <3>2. b \notin Ready
      BY <2>4 DEF Ready
    <3> QED
      BY <1>s, <2>3, <2>4, <3>1, <3>2
  <2>6. Ready' = Ready \cup {b}
    BY <1>t, <2>1 DEF Ready
  <2>7. IsRun(NTXBD, Ready \cup {(txDma.bd + n) % NTXBD}, txDma.bd, n + 1)
    BY <1>s, <1>t, <2>3, <2>5, RunGrow
  <2>8. (txDma.bd + (n + 1)) % NTXBD = TxTail'
    <3>1. (((txDma.bd + n) % NTXBD) + 1) % NTXBD = (txDma.bd + (n + 1)) % NTXBD
      BY <1>s, <1>t, <2>5, RingNext
    <3> QED
      BY <2>3, <2>4, <3>1 DEF NextTx
  <2>9. n + 1 \in 0..NTXBD
    BY <1>s, <2>5
  <2>10. IsRun(NTXBD, Ready', txDma'.bd, n + 1)
    BY <2>1, <2>3, <2>4, <2>6, <2>7
  <2>11. (txDma'.bd + (n + 1)) % NTXBD = TxTail'
    BY <2>1, <2>8
  <2> HIDE DEF b
  <2> QED
    BY <2>9, <2>10, <2>11, FifoRunsNext DEF TxRuns
<1>15. CASE SendContinue("main")
  <2>1. snd["main"].pc = "cont" /\ snd'["main"].pc = "idle"
        /\ UNCHANGED <<TxBD, iTxbd_new, up>> /\ txDma'.bd = txDma.bd
    BY <1>15, <1>t DEF SendContinue, At, IdleSend
  <2> QED
    BY <1>0, <2>1, TxFifoKept DEF TxTail, Ready
<1>16. CASE RxDmaFrame \/ RxDmaHalt \/ IsrEnter \/ TxFrameDone \/ AppFree \/ UNCHANGED vars
  BY <1>1, <1>16 DEF RxDmaFrame, RxDmaHalt, IsrEnter, TxFrameDone, AppFree, dma, vars
<1> QED
  BY <1>2, <1>3, <1>4, <1>5, <1>6, <1>7, <1>8, <1>9, <1>10, <1>11, <1>12, <1>13, <1>14,
     <1>15, <1>16 DEF Next, Dma, Isr, Main, fec_send, fec_tx_frame

\* after fec_eth_setup nothing is to be sent and nobody has a descriptor
LEMMA OneSenderInit == Init => NoAnswers /\ TxClaimed /\ TxFifo
<1> SUFFICES ASSUME Init PROVE NoAnswers /\ TxClaimed /\ TxFifo
  OBVIOUS
<1>1. snd["main"].pc = "idle" /\ snd["isr"].pc = "idle"
  BY DEF Init, Ctx, IdleSend
<1>2. PICK o \in Orders : RxBD = RxBD0(o)
  BY DEF Init
<1>3. NoAnswers
  BY <1>1, <1>2 DEF NoAnswers, RxBD0
<1>4. TxClaimed
  BY <1>1 DEF TxClaimed
<1>5. TxTail = 0 /\ txDma.bd = 0 /\ TxBD = TxBD0
  BY <1>1 DEF Init, TxTail
<1>6. Ready = {}
  BY <1>5 DEF Ready, TxBD0
<1>7. NTXBD \in Nat \ {0} /\ (0 + 0) % NTXBD = 0 /\ 0 \in 0..NTXBD
  BY FecAssumption, ModSmall
<1>8. IsRun(NTXBD, Ready, txDma.bd, 0)
  BY <1>6, <1>7, RunEmpty
<1>9. TxFifo
  BY <1>5, <1>7, <1>8, InitType, FifoRuns DEF TxRuns
<1> QED
  BY <1>3, <1>4, <1>9

(***************************************************************************)
(* How often a buffer is on a queue                                        *)
(***************************************************************************)
\* the places of b on q
Places(q, b) == {k \in DOMAIN q : q[k] = b}

\* 1 for the buffer itself
Same(a, b) == IF a = b THEN 1 ELSE 0

\* the places on a queue are a finite set
LEMMA PlacesFinite ==
  ASSUME NEW S, NEW q \in Seq(S), NEW b
  PROVE  IsFiniteSet(Places(q, b)) /\ Times(q, b) \in Nat /\ Times(q, b) = Cardinality(Places(q, b))
<1>1. DOMAIN q = 1..Len(q) /\ Len(q) \in Nat
  OBVIOUS
<1>2. IsFiniteSet(DOMAIN q)
  BY <1>1, FS_Interval
<1>3. IsFiniteSet(Places(q, b))
  BY <1>2, FS_Subset DEF Places
<1>4. Times(q, b) = Cardinality(Places(q, b))
  BY DEF Times, Places
<1> QED
  BY <1>3, <1>4, FS_CardinalityType

\* nothing is on an empty queue
LEMMA TimesEmpty == \A b : Times(<<>>, b) = 0
<1> SUFFICES ASSUME NEW b PROVE Times(<<>>, b) = 0
  OBVIOUS
<1>1. {k \in DOMAIN <<>> : <<>>[k] = b} = {}
  OBVIOUS
<1> QED
  BY <1>1, FS_EmptySet DEF Times

\* adding an entry at the end adds one place of it
LEMMA TimesPush ==
  ASSUME NEW S, NEW q \in Seq(S), NEW a \in S, NEW b
  PROVE  Times(Append(q, a), b) = Times(q, b) + Same(a, b)
<1> DEFINE n == Len(q) + 1
<1>1. Append(q, a) \in Seq(S) /\ n \notin Places(q, b)
  BY DEF Places
<1>2. IsFiniteSet(Places(q, b)) /\ Cardinality(Places(q, b)) \in Nat
  BY PlacesFinite, FS_CardinalityType
<1>3. /\ Times(Append(q, a), b) = Cardinality(Places(Append(q, a), b))
      /\ Times(q, b) = Cardinality(Places(q, b))
  BY <1>1, PlacesFinite
<1>4. CASE a = b
  <2>1. Places(Append(q, a), b) = Places(q, b) \cup {n}
    BY <1>4 DEF Places
  <2>2. Cardinality(Places(q, b) \cup {n}) = Cardinality(Places(q, b)) + 1
    BY <1>1, <1>2, FS_AddElement
  <2> QED
    BY <1>4, <1>3, <2>1, <2>2 DEF Same
<1>5. CASE a # b
  <2>1. Places(Append(q, a), b) = Places(q, b)
    BY <1>5 DEF Places
  <2> QED
    BY <1>2, <1>5, <1>3, <2>1 DEF Same
<1> QED
  BY <1>4, <1>5

\* removing the head takes one place of it away
LEMMA TimesPop ==
  ASSUME NEW S, NEW q \in Seq(S), q # <<>>, NEW b
  PROVE  Times(q, b) = Times(Tail(q), b) + Same(Head(q), b)
<1> DEFINE T == Places(Tail(q), b)
           Q == Places(q, b)
           f == [k \in T |-> k + 1]
<1>1. Tail(q) \in Seq(S) /\ Len(Tail(q)) = Len(q) - 1 /\ Len(q) > 0 /\ Len(q) \in Nat
  OBVIOUS
<1>2. \A k \in 1..(Len(q) - 1) : Tail(q)[k] = q[k + 1]
  BY <1>1
<1>3. IsFiniteSet(T) /\ IsFiniteSet(Q) /\ Cardinality(T) \in Nat /\ Cardinality(Q) \in Nat
  BY <1>1, PlacesFinite, FS_CardinalityType
<1>d. DOMAIN q = 1..Len(q) /\ DOMAIN Tail(q) = 1..(Len(q) - 1)
  BY <1>1
<1>4. f \in Bijection(T, Q \ {1})
  <2>1. f \in [T -> Q \ {1}]
    <3> SUFFICES ASSUME NEW k \in T PROVE k + 1 \in Q \ {1}
      OBVIOUS
    <3>1. k \in 1..(Len(q) - 1) /\ Tail(q)[k] = b
      BY <1>d DEF Places
    <3>2. k + 1 \in 1..Len(q) /\ k + 1 # 1 /\ q[k + 1] = b
      BY <1>1, <1>2, <3>1
    <3> QED
      BY <1>d, <3>2 DEF Places
  <2>2. IsInjective(f)
    BY <1>d DEF IsInjective, Places
  <2>3. ASSUME NEW l \in Q \ {1}
        PROVE  \E k \in T : f[k] = l
    <3>1. l \in 1..Len(q) /\ q[l] = b /\ l # 1
      BY <1>d DEF Places
    <3>2. l - 1 \in 1..(Len(q) - 1) /\ (l - 1) + 1 = l
      BY <1>1, <3>1
    <3>3. Tail(q)[l - 1] = b
      BY <1>2, <3>1, <3>2
    <3>4. l - 1 \in T
      BY <1>d, <3>2, <3>3 DEF Places
    <3> QED
      BY <3>2, <3>4
  <2> QED
    BY <2>1, <2>2, <2>3 DEF Bijection, Injection, Surjection
<1>5. Cardinality(Q \ {1}) = Cardinality(T)
  BY <1>3, <1>4, FS_Bijection DEF ExistsBijection
<1>6. Cardinality(Q \ {1}) = IF 1 \in Q THEN Cardinality(Q) - 1 ELSE Cardinality(Q)
  BY <1>3, FS_RemoveElement
<1>7. 1 \in Q <=> Head(q) = b
  BY <1>1, <1>d DEF Places
<1>8. Times(q, b) = Cardinality(Q) /\ Times(Tail(q), b) = Cardinality(T)
  BY <1>1, PlacesFinite
<1> HIDE DEF T, Q
<1> QED
  BY <1>3, <1>5, <1>6, <1>7, <1>8 DEF Same

\* a set of contexts has as many members as one counts
LEMMA CountContexts ==
  ASSUME NEW C \in SUBSET Ctx
  PROVE  Cardinality(C) = OneIf("main" \in C) + OneIf("isr" \in C)
<1>0. C \subseteq {"main", "isr"}
  BY DEF Ctx
<1>e. Cardinality({}) = 0 /\ Cardinality({"main"}) = 1 /\ Cardinality({"isr"}) = 1
      /\ IsFiniteSet({"main"})
  BY FS_EmptySet, FS_Singleton
<1>1. CASE "main" \in C /\ "isr" \in C
  <2>1. C = {"main"} \cup {"isr"}
    BY <1>0, <1>1
  <2>2. Cardinality(C) = Cardinality({"main"}) + 1
    BY <1>e, <2>1, FS_AddElement
  <2> QED
    BY <1>1, <1>e, <2>2 DEF OneIf
<1>2. CASE "main" \in C /\ "isr" \notin C
  <2>1. C = {"main"}
    BY <1>0, <1>2
  <2> QED
    BY <1>2, <1>e, <2>1 DEF OneIf
<1>3. CASE "main" \notin C /\ "isr" \in C
  <2>1. C = {"isr"}
    BY <1>0, <1>3
  <2> QED
    BY <1>3, <1>e, <2>1 DEF OneIf
<1>4. CASE "main" \notin C /\ "isr" \notin C
  <2>1. C = {}
    BY <1>0, <1>4
  <2> QED
    BY <1>4, <1>e, <2>1 DEF OneIf
<1> QED
  BY <1>1, <1>2, <1>3, <1>4

\* nbuf_init makes every buffer, and each of them once
LEMMA OrderOnto ==
  ASSUME NEW o \in Orders, NEW b \in Nbuf
  PROVE  \E k \in 1..NBUF_MAX : o[k] = b
<1>1. NBUF_MAX \in Nat /\ IsFiniteSet(Nbuf)
  BY FecAssumption, FS_CardinalityType DEF NBUF_MAX
<1>2. Cardinality(1..NBUF_MAX) = NBUF_MAX
  BY <1>1, FS_Interval
<1>3. o \in Injection(1..NBUF_MAX, Nbuf)
  BY DEF Orders, Injection, IsInjective
<1>4. Cardinality(1..NBUF_MAX) = Cardinality(Nbuf)
  BY <1>2 DEF NBUF_MAX
<1>5. o \in Surjection(1..NBUF_MAX, Nbuf)
  BY <1>1, <1>3, <1>4, FS_Injection
<1> QED
  BY <1>5 DEF Surjection

\* fecbd_init leaves each buffer either on the receive queue or on the free one
LEMMA SetupCounts ==
  ASSUME NEW o \in Orders, NEW b \in Nbuf
  PROVE  Times(FreeQ0(o), b) + Times(RxQ0(o), b) = 1
<1>1. NBUF_MAX \in Nat /\ NRXBD \in Nat \ {0} /\ NBUF_MAX > NRXBD
  BY FecAssumption, FS_CardinalityType DEF NBUF_MAX
<1>2. PICK j \in 1..NBUF_MAX : o[j] = b
  BY OrderOnto
<1>3. \A k \in 1..NBUF_MAX : o[k] = b => k = j
  BY <1>2 DEF Orders
<1>4. Places(RxQ0(o), b) = {k \in 1..NRXBD : o[k] = b}
  BY DEF Places, RxQ0
<1>5. Places(FreeQ0(o), b) = {k \in 1..(NBUF_MAX - NRXBD) : o[k + NRXBD] = b}
  BY DEF Places, FreeQ0
<1>6. /\ Times(RxQ0(o), b) = Cardinality(Places(RxQ0(o), b))
      /\ Times(FreeQ0(o), b) = Cardinality(Places(FreeQ0(o), b))
  BY SetupType, PlacesFinite
<1>7. CASE j <= NRXBD
  <2>1. Places(RxQ0(o), b) = {j}
    BY <1>1, <1>2, <1>3, <1>4, <1>7
  <2>2. Places(FreeQ0(o), b) = {}
    <3> SUFFICES ASSUME NEW k \in 1..(NBUF_MAX - NRXBD), o[k + NRXBD] = b PROVE FALSE
      BY <1>5
    <3>1. k + NRXBD \in 1..NBUF_MAX /\ k + NRXBD > NRXBD
      BY <1>1
    <3> QED
      BY <1>1, <1>2, <1>3, <1>7, <3>1
  <2> QED
    BY <1>6, <2>1, <2>2, FS_Singleton, FS_EmptySet
<1>8. CASE j > NRXBD
  <2>1. Places(RxQ0(o), b) = {}
    <3> SUFFICES ASSUME NEW k \in 1..NRXBD, o[k] = b PROVE FALSE
      BY <1>4
    <3>1. k \in 1..NBUF_MAX /\ k <= NRXBD
      BY <1>1
    <3> QED
      BY <1>1, <1>2, <1>3, <1>8, <3>1
  <2>2. Places(FreeQ0(o), b) = {j - NRXBD}
    <3>1. j - NRXBD \in 1..(NBUF_MAX - NRXBD) /\ o[(j - NRXBD) + NRXBD] = b
      BY <1>1, <1>2, <1>8
    <3>2. ASSUME NEW k \in 1..(NBUF_MAX - NRXBD), o[k + NRXBD] = b
          PROVE  k = j - NRXBD
      <4>1. k + NRXBD \in 1..NBUF_MAX
        BY <1>1
      <4>2. k + NRXBD = j
        BY <1>3, <3>2, <4>1
      <4> QED
        BY <1>1, <1>2, <4>2
    <3> QED
      BY <1>5, <3>1, <3>2
  <2> QED
    <3>1. Cardinality({}) = 0 /\ Cardinality({j - NRXBD}) = 1
      BY FS_Singleton, FS_EmptySet
    <3> QED
      BY <1>6, <2>1, <2>2, <3>1
<1> QED
  BY <1>1, <1>2, <1>7, <1>8

(***************************************************************************)
(* No step makes a claim to a buffer or drops one                          *)
(***************************************************************************)
\* the claims to b: those of the queues, of the two senders, and the others;
\* each step moves one unit from one of the parts to another
Sending(b) == OneIf("main" \in Unqueued(b)) + OneIf("isr" \in Unqueued(b))
Elsewhere(b) == OneIf(isr.cur = b) + OneIf(b \in app) + OneIf(b \in lost)
Parts(b) == Times(freeQ, b) + Times(txQ, b) + Times(rxQ, b) + Sending(b) + Elsewhere(b)
PartsAreClaims == \A b \in Nbuf : Claims(b) = Parts(b)

\* the claims to a buffer are these parts
LEMMA ClaimsParts == TypeOK => PartsAreClaims
<1> SUFFICES ASSUME TypeOK, NEW b \in Nbuf PROVE Claims(b) = Parts(b)
  BY DEF PartsAreClaims
<1>1. freeQ \in Seq(Nbuf) /\ txQ \in Seq(Nbuf) /\ rxQ \in Seq(Nbuf)
  BY DEF TypeOK
<1>2. Times(freeQ, b) \in Nat /\ Times(txQ, b) \in Nat /\ Times(rxQ, b) \in Nat
  BY <1>1, PlacesFinite
<1>3. Unqueued(b) \in SUBSET Ctx
  BY DEF Unqueued
<1>4. Cardinality(Unqueued(b)) = Sending(b)
  BY <1>3, CountContexts DEF Sending
<1>5. Sending(b) \in Nat
  BY DEF Sending, OneIf
<1>6. OneIf(isr.cur = b) \in Nat /\ OneIf(b \in app) \in Nat /\ OneIf(b \in lost) \in Nat
  BY DEF OneIf
<1>7. Claims(b) = Times(freeQ, b) + Times(txQ, b) + Times(rxQ, b) + Sending(b)
                  + OneIf(isr.cur = b) + OneIf(b \in app) + OneIf(b \in lost)
  BY <1>4 DEF Claims
<1> QED
  BY <1>2, <1>5, <1>6, <1>7 DEF Elsewhere, Parts

\* the same of the state after a step
LEMMA ClaimsPartsNext == TypeOK' => PartsAreClaims'
BY ClaimsParts, PTL

\* a buffer that the stack holds, or that is lost, is on no receive descriptor
LEMMA HeadIsOurs ==
  ASSUME IInv, NbufConserved, up
  PROVE  Head(rxQ) \in Nbuf /\ Head(rxQ) \notin app /\ Head(rxQ) \notin lost
<1> DEFINE h == Head(rxQ)
<1>1. freeQ \in Seq(Nbuf) /\ txQ \in Seq(Nbuf) /\ rxQ \in Seq(Nbuf) /\ TypeOK
  BY DEF IInv, TypeOK
<1>2. rxQ # <<>> /\ Tail(rxQ) \in Seq(Nbuf) /\ h \in Nbuf
  BY <1>1, RxHead, Pop
<1> HIDE DEF h
<1>3. Times(rxQ, h) = Times(Tail(rxQ), h) + 1
  <2>1. Times(rxQ, h) = Times(Tail(rxQ), h) + Same(Head(rxQ), h)
    BY <1>1, <1>2, TimesPop
  <2> QED
    BY <2>1 DEF OneIf, Same, h
<1>4. /\ Times(freeQ, h) \in Nat /\ Times(txQ, h) \in Nat /\ Times(Tail(rxQ), h) \in Nat
  BY <1>1, <1>2, PlacesFinite
<1>5. Parts(h) = 1
  BY <1>1, <1>2, ClaimsParts DEF NbufConserved, PartsAreClaims
<1>6. h \notin app /\ h \notin lost
  <2>1. Sending(h) \in Nat /\ Elsewhere(h) \in Nat
    BY DEF Sending, Elsewhere, OneIf
  <2>2. Elsewhere(h) = 0
    BY <1>3, <1>4, <1>5, <2>1 DEF Parts
  <2> QED
    BY <2>2 DEF Elsewhere, OneIf
<1> QED
  BY <1>2, <1>6 DEF h

\* while the port is set up a step moves buffers and keeps their number of claims
LEMMA PartsKept ==
  ASSUME IInv, Handed, NbufConserved, up, NEW b \in Nbuf, [Next]_vars,
         ~fec_eth_setup, ~fec_eth_stop
  PROVE  Parts(b)' = Parts(b)
<1>0. TypeOK /\ Contexts /\ SendersHold
  BY DEF IInv
<1>t. /\ freeQ \in Seq(Nbuf) /\ txQ \in Seq(Nbuf) /\ rxQ \in Seq(Nbuf)
      /\ snd \in [Ctx -> [pc: SendPc, nbuf: Nbuf \cup {NULL}, bd: TxIdx]]
      /\ Ctx = {"main", "isr"} /\ NULL \notin Nbuf
  BY <1>0, FecAssumption DEF TypeOK, Ctx
<1>n. Times(freeQ, b) \in Nat /\ Times(txQ, b) \in Nat /\ Times(rxQ, b) \in Nat
  BY <1>t, PlacesFinite
<1>r. rxQ # <<>> /\ Head(rxQ) \in Nbuf /\ Tail(rxQ) \in Seq(Nbuf)
      /\ Head(rxQ) \notin app /\ Head(rxQ) \notin lost
  BY RxHead, HeadIsOurs
<1>s. Times(rxQ, b) = Times(Tail(rxQ), b) + Same(Head(rxQ), b) /\ Times(Tail(rxQ), b) \in Nat
  BY <1>t, <1>r, TimesPop, PlacesFinite
<1>i. /\ Sending(b) \in Nat /\ Elsewhere(b) \in Nat /\ Same(Head(rxQ), b) \in Nat
      /\ Same(Head(freeQ), b) \in Nat /\ Same(Head(txQ), b) \in Nat
  BY DEF Sending, Elsewhere, OneIf, Same
<1>u. snd' = snd => Sending(b)' = Sending(b)
  BY DEF Sending, Unqueued
<1>v. isr'.cur = isr.cur /\ app' = app /\ lost' = lost => Elsewhere(b)' = Elsewhere(b)
  BY DEF Elsewhere
<1> DEFINE Passed == /\ Times(freeQ, b) = Times(Tail(freeQ), b) + Same(Head(freeQ), b)
                     /\ Times(Tail(freeQ), b) \in Nat
                     /\ Times(rxQ', b) = Times(Tail(rxQ), b) + Same(Head(freeQ), b)
                     /\ txQ' = txQ /\ isr.cur = NULL /\ snd["isr"].pc = "idle"
<1>1. CASE UNCHANGED <<queues, snd, isr, app, lost>>
  BY <1>1, <1>u, <1>v DEF Parts, queues
<1>2. CASE IsrEnter \/ RxFrameDone \/ TxFrameDone
  <2>a. isr.pc # "send" /\ isr.cur = NULL
    BY <1>2 DEF IsrEnter, RxFrameDone, TxFrameDone, Handed
  <2>1. isr.cur = NULL /\ isr'.cur = NULL
    <3>1. CASE IsrEnter
      BY <2>a, <3>1 DEF IsrEnter
    <3>2. CASE RxFrameDone
      BY <2>a, <3>2 DEF RxFrameDone, IsrLeave
    <3>3. CASE TxFrameDone
      BY <2>a, <3>3 DEF TxFrameDone, IsrLeave
    <3> QED
      BY <1>2, <3>1, <3>2, <3>3
  <2>2. UNCHANGED <<queues, snd, app, lost>>
    BY <1>2 DEF IsrEnter, RxFrameDone, TxFrameDone
  <2> QED
    BY <1>u, <1>v, <2>1, <2>2 DEF Parts, queues
<1>3. ASSUME NEW d, NEW a \in Nbuf, RxRefill(d, a)
      PROVE  Times(rxQ', b) = Times(Tail(rxQ), b) + Same(a, b) /\ txQ' = txQ
  <2>1. rxQ' = Append(Tail(rxQ), a) /\ txQ' = txQ
    BY <1>3 DEF RxRefill
  <2> QED
    BY <1>r, <2>1, TimesPush
<1>4. CASE RxTrash
  <2>1. Times(rxQ', b) = Times(Tail(rxQ), b) + Same(Head(rxQ), b) /\ txQ' = txQ
    BY <1>r, <1>3, <1>4 DEF RxTrash
  <2>2. UNCHANGED <<freeQ, isr, snd, app, lost>>
    BY <1>4 DEF RxTrash
  <2> QED
    BY <1>s, <1>u, <1>v, <2>1, <2>2 DEF Parts
<1>5. ASSUME NEW k, RxPass(k)
      PROVE  Passed /\ Head(freeQ) \in Nbuf /\ Tail(freeQ) \in Seq(Nbuf)
  <2>1. freeQ # <<>> /\ isr.pc = "rx" /\ RxRefill(Head(freeQ), Head(freeQ))
    BY <1>5 DEF RxPass
  <2>2. Head(freeQ) \in Nbuf /\ Tail(freeQ) \in Seq(Nbuf)
    BY <1>t, <2>1, Pop
  <2>3. Times(freeQ, b) = Times(Tail(freeQ), b) + Same(Head(freeQ), b)
    BY <1>t, <2>1, TimesPop
  <2>4. Times(Tail(freeQ), b) \in Nat
    BY <2>2, PlacesFinite
  <2>5. Times(rxQ', b) = Times(Tail(rxQ), b) + Same(Head(freeQ), b) /\ txQ' = txQ
    BY <1>3, <2>1, <2>2
  <2>6. isr.cur = NULL /\ snd["isr"].pc = "idle"
    BY <1>0, <2>1 DEF Handed, Contexts
  <2> QED
    BY <2>2, <2>3, <2>4, <2>5, <2>6
<1>6. CASE RxDiscard
  <2>1. RxPass("discard") /\ freeQ' = Append(Tail(freeQ), Head(rxQ))
        /\ UNCHANGED <<isr, snd, app, lost>>
    BY <1>6 DEF RxDiscard
  <2>2. Passed /\ Tail(freeQ) \in Seq(Nbuf)
    BY <1>5, <2>1
  <2>3. Times(freeQ', b) = Times(Tail(freeQ), b) + Same(Head(rxQ), b)
    BY <1>r, <2>1, <2>2, TimesPush
  <2> QED
    BY <1>n, <1>s, <1>i, <1>u, <1>v, <2>1, <2>2, <2>3 DEF Parts
<1>7. CASE RxKeep
  <2>1. RxPass("keep") /\ freeQ' = Tail(freeQ) /\ app' = app \cup {Head(rxQ)}
        /\ UNCHANGED <<isr, snd, lost>>
    BY <1>7 DEF RxKeep
  <2>2. Passed
    BY <1>5, <2>1
  <2>3. Elsewhere(b)' = Elsewhere(b) + Same(Head(rxQ), b)
    BY <1>r, <2>1 DEF Elsewhere, OneIf, Same
  <2>4. Times(freeQ', b) = Times(Tail(freeQ), b) /\ Times(txQ', b) = Times(txQ, b)
        /\ Sending(b)' = Sending(b)
    BY <1>u, <2>1, <2>2
  <2> QED
    BY <1>n, <1>s, <1>i, <2>2, <2>3, <2>4 DEF Parts
<1>8. CASE RxForget
  <2>1. RxPass("forget") /\ freeQ' = Tail(freeQ) /\ lost' = lost \cup {Head(rxQ)}
        /\ UNCHANGED <<isr, snd, app>>
    BY <1>8 DEF RxForget
  <2>2. Passed
    BY <1>5, <2>1
  <2>3. Elsewhere(b)' = Elsewhere(b) + Same(Head(rxQ), b)
    BY <1>r, <2>1 DEF Elsewhere, OneIf, Same
  <2>4. Times(freeQ', b) = Times(Tail(freeQ), b) /\ Times(txQ', b) = Times(txQ, b)
        /\ Sending(b)' = Sending(b)
    BY <1>u, <2>1, <2>2
  <2> QED
    BY <1>n, <1>s, <1>i, <2>2, <2>3, <2>4 DEF Parts
<1>9. ASSUME NEW a \in Nbuf, snd["isr"].pc = "idle", IsrSend(a)
      PROVE  Sending(b)' = Sending(b) + Same(a, b)
  <2>1. snd'["main"] = snd["main"] /\ snd'["isr"].nbuf = a /\ snd'["isr"].pc = "alloc"
    BY <1>t, <1>9 DEF IsrSend
  <2>2. "main" \in Unqueued(b)' <=> "main" \in Unqueued(b)
    BY <2>1 DEF Unqueued
  <2>3. "isr" \notin Unqueued(b) /\ ("isr" \in Unqueued(b)' <=> a = b)
    BY <1>t, <1>9, <2>1 DEF Unqueued
  <2> QED
    BY <2>2, <2>3 DEF Sending, OneIf, Same
<1>10. CASE RxReply
  <2>1. /\ RxPass("reply") /\ freeQ' = Tail(freeQ) /\ IsrSend(Head(rxQ))
        /\ isr'.cur = NULL /\ UNCHANGED <<app, lost>>
    BY <1>10 DEF RxReply
  <2>2. Passed
    BY <1>5, <2>1
  <2>3. Sending(b)' = Sending(b) + Same(Head(rxQ), b)
    BY <1>r, <1>9, <2>1, <2>2
  <2> QED
    BY <1>n, <1>s, <1>i, <1>v, <2>1, <2>2, <2>3 DEF Parts
<1>11. CASE RxReack
  <2>1. RxPass("reack") /\ UNCHANGED <<app, lost>>
    BY <1>11 DEF RxReack
  <2>2. Passed /\ Tail(freeQ) \in Seq(Nbuf)
    BY <1>5, <2>1
  <2>3. CASE Len(freeQ) = 1
    <3>1. freeQ' = Append(Tail(freeQ), Head(rxQ)) /\ UNCHANGED <<isr, snd>>
      BY <1>11, <2>3 DEF RxReack
    <3>2. Times(freeQ', b) = Times(Tail(freeQ), b) + Same(Head(rxQ), b)
      BY <1>r, <2>2, <3>1, TimesPush
    <3> QED
      BY <1>n, <1>s, <1>i, <1>u, <1>v, <2>1, <2>2, <3>1, <3>2 DEF Parts
  <2>4. CASE Len(freeQ) # 1
    <3> DEFINE T == Tail(freeQ)
    <3>0. /\ freeQ' = Tail(T) /\ IsrSend(Head(T))
          /\ isr' = [pc |-> "send", interrupts |-> isr.interrupts, cur |-> Head(rxQ)]
      BY <1>11, <2>4 DEF RxReack
    <3>1. freeQ' = Tail(T) /\ IsrSend(Head(T)) /\ isr'.cur = Head(rxQ)
      BY <3>0
    <3>2. T \in Seq(Nbuf) /\ T # <<>>
      <4>1. freeQ # <<>>
        BY <2>1 DEF RxPass
      <4>2. T \in Seq(Nbuf) /\ Len(T) = Len(freeQ) - 1 /\ Len(freeQ) \in Nat
        BY <1>t, <4>1, Pop
      <4>3. Len(T) # Len(<<>>)
        BY <2>4, <4>2
      <4> QED
        BY <4>2, <4>3
    <3>3. Head(T) \in Nbuf /\ Tail(T) \in Seq(Nbuf)
      BY <3>2, Pop
    <3>4. Times(T, b) = Times(Tail(T), b) + Same(Head(T), b) /\ Times(Tail(T), b) \in Nat
      BY <3>2, <3>3, TimesPop, PlacesFinite
    <3>5. Sending(b)' = Sending(b) + Same(Head(T), b) /\ Same(Head(T), b) \in Nat
      BY <1>9, <2>2, <3>1, <3>3 DEF Same
    <3>6. Elsewhere(b)' = Elsewhere(b) + Same(Head(rxQ), b)
      BY <1>t, <2>1, <2>2, <3>1 DEF Elsewhere, OneIf, Same
    <3>7. /\ Times(freeQ, b) = Times(T, b) + Same(Head(freeQ), b)
          /\ Times(rxQ', b) = Times(Tail(rxQ), b) + Same(Head(freeQ), b)
          /\ txQ' = txQ
      BY <2>2
    <3>8. Times(freeQ', b) = Times(Tail(T), b) /\ Times(txQ', b) = Times(txQ, b)
      BY <3>1, <3>7
    <3> HIDE DEF T, Passed
    <3> QED
      BY <1>n, <1>s, <1>i, <3>4, <3>5, <3>6, <3>7, <3>8 DEF Parts
  <2> QED
    BY <2>3, <2>4
<1>20. CASE RxStray
  <2>1. RxPass("stray") /\ app' = app /\ lost' = lost \cup {Head(rxQ)}
    BY <1>20 DEF RxStray
  <2>2. Passed /\ Tail(freeQ) \in Seq(Nbuf)
    BY <1>5, <2>1
  <2>3. CASE Len(freeQ) = 1
    <3>1. freeQ' = Tail(freeQ) /\ UNCHANGED <<isr, snd>>
      BY <1>20, <2>3 DEF RxStray
    <3>2. Elsewhere(b)' = Elsewhere(b) + Same(Head(rxQ), b)
      BY <1>r, <2>1, <3>1 DEF Elsewhere, OneIf, Same
    <3>3. Times(freeQ', b) = Times(Tail(freeQ), b) /\ Times(txQ', b) = Times(txQ, b)
          /\ Sending(b)' = Sending(b)
      BY <1>u, <2>2, <3>1
    <3>4. /\ Times(freeQ, b) = Times(Tail(freeQ), b) + Same(Head(freeQ), b)
          /\ Times(Tail(freeQ), b) \in Nat
          /\ Times(rxQ', b) = Times(Tail(rxQ), b) + Same(Head(freeQ), b)
      BY <2>2
    <3> HIDE DEF Passed
    <3> QED
      BY <1>n, <1>s, <1>i, <3>2, <3>3, <3>4 DEF Parts
  <2>4. CASE Len(freeQ) # 1
    <3> DEFINE T == Tail(freeQ)
    <3>0. /\ freeQ' = Tail(T) /\ IsrSend(Head(T))
          /\ isr' = [pc |-> "send", interrupts |-> isr.interrupts, cur |-> NULL]
      BY <1>20, <2>4 DEF RxStray
    <3>1. freeQ' = Tail(T) /\ IsrSend(Head(T)) /\ isr'.cur = NULL
      BY <3>0
    <3>2. T \in Seq(Nbuf) /\ T # <<>>
      <4>1. freeQ # <<>>
        BY <2>1 DEF RxPass
      <4>2. T \in Seq(Nbuf) /\ Len(T) = Len(freeQ) - 1 /\ Len(freeQ) \in Nat
        BY <1>t, <4>1, Pop
      <4>3. Len(T) # Len(<<>>)
        BY <2>4, <4>2
      <4> QED
        BY <4>2, <4>3
    <3>3. Head(T) \in Nbuf /\ Tail(T) \in Seq(Nbuf)
      BY <3>2, Pop
    <3>4. Times(T, b) = Times(Tail(T), b) + Same(Head(T), b) /\ Times(Tail(T), b) \in Nat
      BY <3>2, <3>3, TimesPop, PlacesFinite
    <3>5. Sending(b)' = Sending(b) + Same(Head(T), b) /\ Same(Head(T), b) \in Nat
      BY <1>9, <2>2, <3>1, <3>3 DEF Same
    <3>6. Elsewhere(b)' = Elsewhere(b) + Same(Head(rxQ), b)
      BY <1>t, <1>r, <2>1, <2>2, <3>1 DEF Elsewhere, OneIf, Same
    <3>7. /\ Times(freeQ, b) = Times(T, b) + Same(Head(freeQ), b)
          /\ Times(rxQ', b) = Times(Tail(rxQ), b) + Same(Head(freeQ), b)
          /\ txQ' = txQ
      BY <2>2
    <3>8. Times(freeQ', b) = Times(Tail(T), b) /\ Times(txQ', b) = Times(txQ, b)
      BY <3>1, <3>7
    <3> HIDE DEF T, Passed
    <3> QED
      BY <1>n, <1>s, <1>i, <3>4, <3>5, <3>6, <3>7, <3>8 DEF Parts
  <2> QED
    BY <2>3, <2>4
<1>12. CASE TxReclaim
  <2>1. freeQ' = Append(freeQ, Head(txQ)) /\ txQ' = Tail(txQ) /\ UNCHANGED <<rxQ, isr, snd, app, lost>>
    BY <1>12 DEF TxReclaim
  <2>2. txQ # <<>>
    BY <1>12, TxHead DEF TxReclaim
  <2>3. Head(txQ) \in Nbuf /\ Tail(txQ) \in Seq(Nbuf)
    BY <1>t, <2>2, Pop
  <2>4. Times(txQ, b) = Times(Tail(txQ), b) + Same(Head(txQ), b) /\ Times(Tail(txQ), b) \in Nat
    BY <1>t, <2>2, <2>3, TimesPop, PlacesFinite
  <2>5. Times(freeQ', b) = Times(freeQ, b) + Same(Head(txQ), b)
    BY <1>t, <2>1, <2>3, TimesPush
  <2> QED
    BY <1>n, <1>i, <1>u, <1>v, <2>1, <2>4, <2>5 DEF Parts
<1>13. CASE AppFree
  <2>1. PICK a \in app : app' = app \ {a} /\ freeQ' = Append(freeQ, a)
    BY <1>13 DEF AppFree
  <2>2. UNCHANGED <<txQ, rxQ, isr, snd, lost>>
    BY <1>13 DEF AppFree
  <2>3. a \in Nbuf
    BY <1>0, <2>1 DEF TypeOK
  <2>4. Times(freeQ', b) = Times(freeQ, b) + Same(a, b)
    BY <1>t, <2>1, <2>3, TimesPush
  <2>5. Elsewhere(b) = Elsewhere(b)' + Same(a, b) /\ Elsewhere(b)' \in Nat /\ Same(a, b) \in Nat
    BY <2>1, <2>2 DEF Elsewhere, OneIf, Same
  <2> QED
    BY <1>n, <1>i, <1>u, <2>2, <2>4, <2>5 DEF Parts
<1>14. CASE MainNbufAlloc
  <2>1. /\ freeQ # <<>> /\ freeQ' = Tail(freeQ) /\ UNCHANGED <<txQ, rxQ, isr, app, lost>>
        /\ snd["main"].pc = "idle"
        /\ snd' = [snd EXCEPT !["main"] = [pc |-> "held", nbuf |-> Head(freeQ), bd |-> 0]]
    BY <1>14 DEF MainNbufAlloc, At
  <2>2. Times(freeQ, b) = Times(Tail(freeQ), b) + Same(Head(freeQ), b)
    BY <1>t, <2>1, TimesPop
  <2>3. Times(Tail(freeQ), b) \in Nat
    BY <1>t, <2>1, Pop, PlacesFinite
  <2>4. /\ "isr" \in Unqueued(b)' <=> "isr" \in Unqueued(b)
        /\ "main" \notin Unqueued(b)
        /\ "main" \in Unqueued(b)' <=> Head(freeQ) = b
    BY <1>t, <2>1 DEF Unqueued
  <2>5. Sending(b)' = Sending(b) + Same(Head(freeQ), b)
    BY <2>4 DEF Sending, OneIf, Same
  <2> QED
    BY <1>n, <1>i, <1>v, <2>1, <2>2, <2>3, <2>5 DEF Parts
<1>15. CASE SendTooLong
  <2>1. /\ freeQ' = Append(freeQ, snd["main"].nbuf) /\ UNCHANGED <<txQ, rxQ, isr, app, lost>>
        /\ snd["main"].pc = "held" /\ snd["main"].nbuf \in Nbuf
        /\ snd' = [snd EXCEPT !["main"] = IdleSend]
    BY <1>0, <1>t, <1>15 DEF SendTooLong, At, SendersHold
  <2>2. Times(freeQ', b) = Times(freeQ, b) + Same(snd["main"].nbuf, b)
    BY <1>t, <2>1, TimesPush
  <2>3. /\ "isr" \in Unqueued(b)' <=> "isr" \in Unqueued(b)
        /\ "main" \in Unqueued(b) <=> snd["main"].nbuf = b
        /\ "main" \notin Unqueued(b)'
    BY <1>t, <2>1 DEF Unqueued, IdleSend
  <2>4. /\ Sending(b) = Sending(b)' + Same(snd["main"].nbuf, b)
        /\ Sending(b)' \in Nat /\ Same(snd["main"].nbuf, b) \in Nat
    BY <2>3 DEF Sending, OneIf, Same
  <2> QED
    BY <1>n, <1>i, <1>v, <2>1, <2>2, <2>4 DEF Parts
<1>16. ASSUME UNCHANGED <<queues, isr, app, lost>>, Unqueued(b)' = Unqueued(b)
       PROVE  Parts(b)' = Parts(b)
  BY <1>16, <1>v DEF Parts, Sending, queues
<1>17. CASE SendLengthOk
  <2>1. Unqueued(b)' = Unqueued(b)
    BY <1>t, <1>17 DEF SendLengthOk, At, Goto, Unqueued
  <2> QED
    BY <1>16, <1>17, <2>1 DEF SendLengthOk
<1>18. ASSUME NEW c \in Ctx, fec_send(c)
       PROVE  Parts(b)' = Parts(b)
  <2>1. CASE TxAllocCheck(c)
    <3>1. Unqueued(b)' = Unqueued(b)
      BY <1>t, <2>1 DEF TxAllocCheck, At, Unqueued
    <3> QED
      BY <1>16, <2>1, <3>1 DEF TxAllocCheck
  <2>2. CASE TxAllocIncr(c)
    <3>1. Unqueued(b)' = Unqueued(b)
      BY <1>t, <2>2 DEF TxAllocIncr, At, Goto, Unqueued
    <3> QED
      BY <1>16, <2>2, <3>1 DEF TxAllocIncr, queues
  <2>3. CASE SendQueue(c)
    <3>1. /\ txQ' = Append(txQ, snd[c].nbuf) /\ UNCHANGED <<freeQ, rxQ, isr, app, lost>>
          /\ snd[c].pc = "queue" /\ snd[c].nbuf \in Nbuf
      BY <1>0, <2>3 DEF SendQueue, At, SendersHold
    <3>2. Times(txQ', b) = Times(txQ, b) + Same(snd[c].nbuf, b)
      BY <1>t, <3>1, TimesPush
    <3>3. snd'[c].pc = "data" /\ \A e \in Ctx : e # c => snd'[e] = snd[e]
      BY <1>t, <2>3 DEF SendQueue, Goto
    <3>4. /\ \A e \in Ctx : e # c => (e \in Unqueued(b)' <=> e \in Unqueued(b))
          /\ c \in Unqueued(b) <=> snd[c].nbuf = b
          /\ c \notin Unqueued(b)'
      BY <1>18, <3>1, <3>3 DEF Unqueued
    <3>5. /\ Sending(b) = Sending(b)' + Same(snd[c].nbuf, b)
          /\ Sending(b)' \in Nat /\ Same(snd[c].nbuf, b) \in Nat
      BY <1>t, <1>18, <3>4 DEF Sending, OneIf, Same
    <3> QED
      BY <1>n, <1>i, <1>v, <3>1, <3>2, <3>5 DEF Parts
  <2>4. CASE SendData(c)
    <3>1. Unqueued(b)' = Unqueued(b)
      BY <1>t, <2>4 DEF SendData, At, Goto, Unqueued
    <3> QED
      BY <1>16, <2>4, <3>1 DEF SendData
  <2>5. CASE SendReady(c)
    <3>1. Unqueued(b)' = Unqueued(b)
      BY <1>t, <2>5 DEF SendReady, At, Goto, Unqueued
    <3> QED
      BY <1>16, <2>5, <3>1 DEF SendReady
  <2>6. CASE SendContinue(c)
    <3>1. UNCHANGED <<txQ, rxQ, app, lost>> /\ Unqueued(b)' = Unqueued(b)
      BY <1>t, <2>6 DEF SendContinue, At, IdleSend, Unqueued
    <3>2. CASE c = "isr" /\ isr.cur # NULL
      <4>1. freeQ' = Append(freeQ, isr.cur) /\ isr'.cur = NULL /\ isr.cur \in Nbuf
        BY <1>0, <2>6, <3>2 DEF SendContinue, TypeOK
      <4>2. Times(freeQ', b) = Times(freeQ, b) + Same(isr.cur, b)
        BY <1>t, <4>1, TimesPush
      <4>3. /\ Elsewhere(b) = Elsewhere(b)' + Same(isr.cur, b)
            /\ Elsewhere(b)' \in Nat /\ Same(isr.cur, b) \in Nat
        BY <1>t, <3>1, <4>1 DEF Elsewhere, OneIf, Same
      <4>4. Sending(b)' = Sending(b)
        BY <3>1 DEF Sending
      <4> QED
        BY <1>n, <1>i, <3>1, <4>1, <4>2, <4>3, <4>4 DEF Parts
    <3>3. CASE ~(c = "isr" /\ isr.cur # NULL)
      <4>1. freeQ' = freeQ /\ isr'.cur = isr.cur
        BY <2>6, <3>3 DEF SendContinue
      <4> QED
        BY <1>v, <3>1, <4>1 DEF Parts, Sending
    <3> QED
      BY <3>2, <3>3
  <2> QED
    BY <1>18, <2>1, <2>2, <2>3, <2>4, <2>5, <2>6 DEF fec_send
<1>19. CASE RxDmaFrame \/ RxDmaHalt \/ TxDmaFrame \/ TxDmaHalt \/ UNCHANGED vars
  BY <1>1, <1>19 DEF RxDmaFrame, RxDmaHalt, TxDmaFrame, TxDmaHalt, vars, queues
<1> QED
  BY <1>2, <1>4, <1>6, <1>7, <1>8, <1>10, <1>11, <1>12, <1>13, <1>14, <1>15, <1>17, <1>18,
     <1>19, <1>20 DEF Next, Dma, Isr, Main, fec_rx_frame, fec_tx_frame, Ctx

\* a buffer the handler still holds is being answered, and none is in the
\* stack when the port is stopped
LEMMA HandedStep == IInv /\ Handed /\ [Next]_vars => Handed'
<1> SUFFICES ASSUME IInv, Handed, [Next]_vars PROVE Handed'
  OBVIOUS
<1>0. TypeOK /\ Contexts
  BY DEF IInv
<1>1. CASE UNCHANGED <<isr, app, lost, up>>
  BY <1>1 DEF Handed
<1>2. CASE IsrEnter \/ RxFrameDone \/ TxFrameDone
  <2>1. isr'.cur = NULL /\ UNCHANGED <<app, lost, up>>
    <3>1. CASE IsrEnter
      BY <3>1 DEF IsrEnter, Handed
    <3>2. CASE RxFrameDone
      BY <3>2 DEF RxFrameDone, IsrLeave
    <3>3. CASE TxFrameDone
      BY <3>3 DEF TxFrameDone, IsrLeave
    <3> QED
      BY <1>2, <3>1, <3>2, <3>3
  <2> QED
    BY <2>1 DEF Handed
<1>3. CASE fec_rx_frame /\ ~RxFrameDone
  <2>1. up /\ up' = up
    BY <1>0, <1>3 DEF fec_rx_frame, RxTrash, RxDiscard, RxKeep, RxForget, RxReply, RxReack,
                      RxStray, RxPass, RxRefill, Contexts
  <2>2. isr' = isr \/ isr'.cur = NULL \/ isr'.pc = "send"
    BY <1>3 DEF fec_rx_frame, RxTrash, RxDiscard, RxKeep, RxForget, RxReply, RxReack,
                RxStray
  <2> QED
    BY <2>1, <2>2 DEF Handed
<1>4. CASE fec_eth_setup
  BY <1>4 DEF fec_eth_setup, Handed
<1>5. CASE fec_eth_stop
  BY <1>5 DEF fec_eth_stop, Handed
<1>6. CASE AppFree
  BY <1>6 DEF AppFree, Handed
<1>7. ASSUME NEW c \in Ctx, fec_send(c)
      PROVE  Handed'
  <2>1. CASE SendContinue(c)
    <3>1. UNCHANGED <<app, lost, up>> /\ (isr' = isr \/ isr'.cur = NULL)
      BY <2>1 DEF SendContinue
    <3> QED
      BY <3>1 DEF Handed
  <2> QED
    BY <1>1, <1>7, <2>1 DEF fec_send, TxAllocCheck, TxAllocIncr, SendQueue, SendData, SendReady
<1> QED
  BY <1>1, <1>2, <1>3, <1>4, <1>5, <1>6, <1>7
     DEF Next, Dma, Isr, Main, RxDmaFrame, RxDmaHalt, TxDmaFrame, TxDmaHalt, fec_tx_frame,
         TxReclaim, MainNbufAlloc, SendTooLong, SendLengthOk, vars, Ctx

\* fec_eth_setup builds every buffer once
LEMMA SetupConserved ==
  ASSUME NEW o \in Orders, freeQ = FreeQ0(o), rxQ = RxQ0(o), txQ = <<>>,
         snd["main"].pc = "idle", snd["isr"].pc = "idle", isr.cur = NULL,
         app = {}, lost = {}, NEW b \in Nbuf
  PROVE  Parts(b) = 1
<1>1. Times(FreeQ0(o), b) + Times(RxQ0(o), b) = 1
  BY SetupCounts
<1>2. Times(FreeQ0(o), b) \in Nat /\ Times(RxQ0(o), b) \in Nat
  BY SetupType, PlacesFinite
<1>3. Times(txQ, b) = 0
  BY TimesEmpty
<1>4. Sending(b) = 0
  BY DEF Sending, Unqueued, OneIf
<1>5. Elsewhere(b) = 0
  BY FecAssumption DEF Elsewhere, OneIf
<1> QED
  BY <1>1, <1>2, <1>3, <1>4, <1>5 DEF Parts

\* ... initially
LEMMA ConservedInit == Init => Handed /\ NbufConserved
<1> SUFFICES ASSUME Init PROVE Handed /\ NbufConserved
  OBVIOUS
<1>1. PICK o \in Orders : freeQ = FreeQ0(o) /\ rxQ = RxQ0(o)
  BY DEF Init
<1>2. /\ txQ = <<>> /\ snd["main"].pc = "idle" /\ snd["isr"].pc = "idle" /\ isr.cur = NULL
      /\ app = {} /\ lost = {} /\ up
  BY DEF Init, Ctx, IdleSend
<1>3. \A b \in Nbuf : Parts(b) = 1
  BY <1>1, <1>2, SetupConserved
<1>4. \A b \in Nbuf : Claims(b) = Parts(b)
  BY InitType, ClaimsParts DEF PartsAreClaims
<1> QED
  BY <1>2, <1>3, <1>4 DEF Handed, NbufConserved

\* ... and whenever the port is set up again
LEMMA SetupStep == IInv /\ Handed /\ fec_eth_setup => \A b \in Nbuf : Parts(b)' = 1
<1> SUFFICES ASSUME IInv, Handed, fec_eth_setup, NEW b \in Nbuf PROVE Parts(b)' = 1
  OBVIOUS
<1>1. PICK o \in Orders : freeQ' = FreeQ0(o) /\ rxQ' = RxQ0(o)
  BY DEF fec_eth_setup
<1>2. /\ txQ' = <<>> /\ snd' = snd /\ isr' = isr /\ app' = app /\ lost' = lost
      /\ ~up /\ isr.pc = "idle"
  BY DEF fec_eth_setup
<1>3. /\ snd["main"].pc = "idle" /\ snd["isr"].pc = "idle" /\ isr.cur = NULL
      /\ app = {} /\ lost = {}
  BY <1>2 DEF IInv, Contexts, Handed
<1>4. Times(FreeQ0(o), b) + Times(RxQ0(o), b) = 1
  BY SetupCounts
<1>5. Times(FreeQ0(o), b) \in Nat /\ Times(RxQ0(o), b) \in Nat
  BY SetupType, PlacesFinite
<1>6. Times(txQ', b) = 0
  BY <1>2, TimesEmpty
<1>7. Sending(b)' = 0
  BY <1>2, <1>3 DEF Sending, Unqueued, OneIf
<1>8. Elsewhere(b)' = 0
  BY <1>2, <1>3, FecAssumption DEF Elsewhere, OneIf
<1> QED
  BY <1>1, <1>4, <1>5, <1>6, <1>7, <1>8 DEF Parts

\* no step duplicates a buffer, hands it to two owners or forgets it
LEMMA ConservedStep ==
  IInv /\ TypeOK' /\ Handed /\ NbufConserved /\ [Next]_vars => NbufConserved'
<1> SUFFICES ASSUME IInv, TypeOK', Handed, NbufConserved, [Next]_vars, up', NEW b \in Nbuf
             PROVE  Claims(b)' = 1
  BY DEF NbufConserved
<1>1. Claims(b)' = Parts(b)'
  BY ClaimsPartsNext DEF PartsAreClaims
<1>2. CASE fec_eth_setup
  BY <1>1, <1>2, SetupStep
<1>3. CASE ~fec_eth_setup
  <2>1. ~fec_eth_stop
    BY DEF fec_eth_stop
  <2>2. up
    BY <1>3 DEF Next, Dma, Isr, Main, RxDmaFrame, RxDmaHalt, TxDmaFrame, TxDmaHalt, IsrEnter,
                fec_rx_frame, RxFrameDone, RxTrash, RxDiscard, RxKeep, RxForget, RxReply,
                RxReack, RxStray, RxPass, RxRefill, fec_tx_frame, TxReclaim, TxFrameDone, AppFree,
                MainNbufAlloc, SendTooLong, SendLengthOk, fec_send, TxAllocCheck,
                TxAllocIncr, SendQueue, SendData, SendReady, SendContinue, fec_eth_stop, vars
  <2>3. Parts(b)' = Parts(b)
    BY <1>3, <2>1, <2>2, PartsKept
  <2>4. Parts(b) = 1
    BY <2>2, ClaimsParts DEF IInv, PartsAreClaims, NbufConserved
  <2> QED
    BY <1>1, <2>3, <2>4
<1> QED
  BY <1>2, <1>3

(***************************************************************************)
(* The theorems                                                            *)
(***************************************************************************)
\* after fec_eth_setup the handler is not running and nobody sends
LEMMA InitInv == Init => IInv
<1>1. Init => Contexts /\ SendersHold
  BY DEF Init, Contexts, SendersHold, IdleSend, Ctx
<1> QED
  BY <1>1, InitType, AlignedInit, AheadInit DEF IInv

\* IInv is inductive: it holds initially and no step of the driver, of the
\* DMA tasks or of the interrupt handler leaves it
THEOREM Inductive == Spec => []IInv
<1>1. IInv /\ [Next]_vars => IInv'
  BY TypeStep, ContextsStep, AlignedStep, AheadStep DEF IInv
<1> QED
  BY <1>1, InitInv, PTL DEF Spec

\* every state of the driver is well typed: no queue ever hands out the head
\* of an empty queue, and no index leaves its ring (fecbd.c, queue.c)
THEOREM TypeCorrect == Spec => []TypeOK
<1>1. IInv => TypeOK
  BY DEF IInv
<1> QED
  BY <1>1, Inductive, PTL

\* the nbuf fec_rx_frame takes from the receive queue is the one whose data
\* the descriptor points at, for every pool and ring size (fec.c 725, 759)
THEOREM ReceiveAligned == Spec => []RxRingAligned
<1>1. IInv => RxRingAligned
  BY DEF IInv
<1> QED
  BY <1>1, Inductive, PTL

\* fec_tx_frame finds an nbuf on the transmit queue whenever it reclaims a
\* descriptor, however fec_send was interrupted (fec.c 1016-1021)
THEOREM TransmitCovered == Spec => []TxQueueCovers
<1>1. IInv => TxQueueCovers
  <2> SUFFICES ASSUME IInv PROVE TxQueueCovers
    OBVIOUS
  <2>t. TxBD \in [TxIdx -> [R: BOOLEAN, data: Nbuf \cup {NULL}]] /\ txQ \in Seq(Nbuf)
    BY DEF IInv, TypeOK
  <2>c. Cardinality({i \in TxIdx : TxBD[i].data # NULL}) \in Nat
    BY <2>t, UsedFinite
  <2>1. Cardinality({i \in TxIdx : TxBD[i].data # NULL}) \in Nat /\ Len(txQ) \in Nat
    BY <2>t, <2>c
  <2> QED
    BY <2>1 DEF IInv, TxQueueAhead, TxQueueCovers, InFlight
<1> QED
  BY <1>1, Inductive, PTL

\* every buffer is in exactly one place as long as the port is set up: none is
\* freed twice, owned twice or forgotten, for every pool, ring and mix of
\* frames, however fec_send and the interrupt handler interleave (nbuf.c, fec.c)
THEOREM BuffersConserved == Spec => []NbufConserved
<1>1. Init => Handed /\ NbufConserved
  BY ConservedInit
<1>2. IInv /\ IInv' /\ (Handed /\ NbufConserved) /\ [Next]_vars => (Handed /\ NbufConserved)'
  BY HandedStep, ConservedStep DEF IInv
<1>3. Spec => [](Handed /\ NbufConserved)
  BY <1>1, <1>2, Inductive, PTL DEF Spec
<1> QED
  BY <1>3, PTL

\* the receive DMA is ahead of fec_rx_frame by the filled descriptors and
\* nothing else: frames are taken in order of arrival, for every ring size
\* (fecbd_rx_alloc)
THEOREM ReceiveInOrder == Spec => []RxFifo
<1>1. IInv /\ IInv' /\ RxFifo /\ [Next]_vars => RxFifo'
  BY RxFifoStep DEF IInv
<1> QED
  BY <1>1, RxFifoInit, Inductive, PTL DEF Spec

\* when no frame that arrives is answered from the interrupt handler, so that
\* only the foreground sends, the transmit ring has no hole and its descriptors
\* are sent in order, for every ring size (fecbd_tx_alloc, fec_send)
THEOREM TransmitInOrder ==
  ASSUME OneSender
  PROVE  Spec => []TxFifo
<1>1. IInv /\ IInv' /\ (NoAnswers /\ TxClaimed /\ TxFifo) /\ [Next]_vars
        => (NoAnswers /\ TxClaimed /\ TxFifo)'
  BY NoAnswersStep, TxClaimedStep, TxFifoStep DEF IInv
<1>2. Spec => [](NoAnswers /\ TxClaimed /\ TxFifo)
  BY <1>1, OneSenderInit, Inductive, PTL DEF Spec
<1> QED
  BY <1>2, PTL
=============================================================================
