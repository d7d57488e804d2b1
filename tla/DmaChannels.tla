---------------------------- MODULE DmaChannels -----------------------------
(* The multichannel DMA: dma/dma.c, which hands out channels and initiators, *)
(* and dma/MCD_dmaApi.c, which starts, freezes and kills the microcoded task *)
(* of a channel. Clients are the FEC driver and the drivers that reach the   *)
(* same calls through the interface of if/driver_vec.c; each call is one     *)
(* action, and calls of different clients interleave with the hardware.      *)
(*                                                                           *)
(* What a task moves is abstracted; a task runs until it meets an unready    *)
(* buffer descriptor or its end, when the hardware clears the enable bit.    *)
EXTENDS Integers, Sequences, FiniteSets

CONSTANTS
  Reqs,       \* the requestors that clients ask for
  NCHANNELS,
  Careless,   \* requestors whose client ignores that dma_set_initiator or
              \* dma_set_channel fails, as fec_rx_start and fec_tx_start do
  Copies      \* whether dma_memcpy is used, which is always on channel 1

(* The initiator slots that dma_set_initiator tries, in its order. *)
Choices == [FEC0_RX |-> <<16>>, FEC0_TX |-> <<17>>, FEC1_RX |-> <<20>>,
            FEC1_TX |-> <<21, 25, 31>>, DREQ1 |-> <<29, 21>>,
            CTM0 |-> <<24>>, CTM1 |-> <<25>>, CTM2 |-> <<26>>, CTM3 |-> <<27>>,
            CTM4 |-> <<28>>, CTM5 |-> <<29>>, CTM6 |-> <<30>>, CTM7 |-> <<31>>,
            USBEP4 |-> <<26>>, USBEP5 |-> <<27>>, USBEP6 |-> <<28>>,
            PSC2_RX |-> <<28>>, PSC2_TX |-> <<29>>, PSC3_RX |-> <<30>>, PSC3_TX |-> <<31>>]

(* These take their slot without looking whether it is used. *)
Forced == {"FEC0_RX", "FEC0_TX", "FEC1_RX"}

ASSUME DmaAssumption ==
  /\ Reqs \subseteq DOMAIN Choices
  /\ NCHANNELS \in Nat \ {0, 1}
  /\ Careless \subseteq Reqs
  /\ Copies \in BOOLEAN

Channels == 0..(NCHANNELS - 1)
Slots == UNION {{Choices[r][i] : i \in 1..Len(Choices[r])} : r \in Reqs}
None == "none"
ALWAYS == 0    \* the initiator that is always asserted
Copier == "dma_memcpy"
Status == {"NO_DMA", "IDLE", "RUNNING", "PAUSED", "HALTED", "DONE"}

VARIABLES
  used,      \* used_reqs, for the slots that are not fixed
  imcr,      \* MCF_DMA_IMCR: the requestor a slot's multiplexer selects
  req,       \* dma_channel[].req
  en,        \* the enable bit of taskControl[]
  task,      \* whose task was started last on a channel, and its initiator
  status,    \* MCD_chStatus[]
  blocked,   \* the channel at which the debug unit stops, or -1
  at,        \* how far each client has come
  copying    \* dma_memcpy polls for its end

vars == <<used, imcr, req, en, task, status, blocked, at, copying>>

initVars == <<used, imcr>>
mcdVars == <<en, task, status, blocked>>

(* dma_init and MCD_initDma. *)
Init ==
  /\ used = [s \in Slots |-> None]
  /\ imcr = [s \in Slots |-> None]
  /\ req = [c \in Channels |-> None]
  /\ en = [c \in Channels |-> FALSE]
  /\ task = [c \in Channels |-> <<None, ALWAYS>>]
  /\ status = [c \in Channels |-> "NO_DMA"]
  /\ blocked = -1
  /\ at = [r \in Reqs |-> "idle"]
  /\ copying = FALSE

Lowest(S, none) == IF S = {} THEN none ELSE CHOOSE x \in S : \A y \in S : x <= y

-----------------------------------------------------------------------------
(* Initiators *)

(* Mutant: the slots are taken without a look at used_reqs. *)
TakeAny(r) == Choices[r][1]

(* The slot that dma_set_initiator takes; 0 stands for its error result. *)
Take(r) ==
  LET free == {i \in 1..Len(Choices[r]) : r \in Forced \/ used[Choices[r][i]] = None}
  IN  IF free = {} THEN 0 ELSE Choices[r][Lowest(free, 0)]

dma_set_initiator(r) ==
  /\ at[r] = "idle"
  /\ IF Take(r) = 0 THEN UNCHANGED initVars
     ELSE /\ used' = [used EXCEPT ![Take(r)] = r]
          /\ imcr' = [imcr EXCEPT ![Take(r)] = r]
  /\ at' = IF Take(r) = 0 /\ r \notin Careless THEN at ELSE [at EXCEPT ![r] = "initiator"]
  /\ UNCHANGED <<req, mcdVars, copying>>

dma_get_initiator(r) == Lowest({s \in Slots : used[s] = r}, ALWAYS)

dma_free_initiator(r) ==
  /\ at[r] = "killed"
  /\ used' = IF dma_get_initiator(r) = ALWAYS THEN used
             ELSE [used EXCEPT ![dma_get_initiator(r)] = None]
  /\ at' = [at EXCEPT ![r] = "noinit"]
  /\ UNCHANGED <<imcr, req, mcdVars, copying>>

-----------------------------------------------------------------------------
(* Channels *)

dma_get_channel(r) == Lowest({c \in Channels : req[c] = r}, -1)

(* Mutant: the channel after the first free one, as long as there is one. *)
GetChannelAny(r) == Lowest({c \in Channels : req[c] = None}, NCHANNELS - 1)

(* A requestor that has a channel keeps it; -1 stands for no free channel. *)
Offered(r) ==
  IF dma_get_channel(r) # -1 THEN dma_get_channel(r)
  ELSE Lowest({c \in Channels : req[c] = None}, -1)

dma_set_channel(r) ==
  /\ at[r] = "initiator"
  /\ req' = IF Offered(r) = -1 THEN req ELSE [req EXCEPT ![Offered(r)] = r]
  /\ at' = IF Offered(r) = -1 /\ r \notin Careless THEN at ELSE [at EXCEPT ![r] = "channel"]
  /\ UNCHANGED <<initVars, mcdVars, copying>>

dma_free_channel(r) ==
  /\ at[r] = "noinit"
  /\ req' = IF dma_get_channel(r) = -1 THEN req
            ELSE [req EXCEPT ![dma_get_channel(r)] = None]
  /\ at' = [at EXCEPT ![r] = "idle"]
  /\ UNCHANGED <<initVars, mcdVars, copying>>

-----------------------------------------------------------------------------
(* The MCD calls. Each of them begins with the test of its channel number    *)
(* and does nothing with one that is none (MCD_CHANNEL_INVALID), which is     *)
(* what a careless client passes that dma_set_channel has refused.            *)

(* The task control register is written without the enable bit, then the   *)
(* routine of the chosen task variant (MCD_tasksInit.c) sets it.           *)
MCD_startDma(c, owner, initiator) ==
  \/ /\ c \in Channels
     /\ en' = [en EXCEPT ![c] = TRUE]
     /\ task' = [task EXCEPT ![c] = <<owner, initiator>>]
     /\ status' = [status EXCEPT ![c] = "IDLE"]
     /\ UNCHANGED blocked
  \/ c \notin Channels /\ UNCHANGED mcdVars

Start(r) ==
  /\ at[r] = "channel"
  /\ MCD_startDma(dma_get_channel(r), r, dma_get_initiator(r))
  /\ at' = [at EXCEPT ![r] = "running"]
  /\ UNCHANGED <<initVars, req, copying>>

(* Whether the task's initiator is asserted is read from the hardware. *)
Active == {"RUNNING", "IDLE"}

MCD_dmaStatus(c) ==
  /\ IF c \notin Channels \/ status[c] \notin Active THEN UNCHANGED status
     ELSE IF en[c] THEN \E s \in Active : status' = [status EXCEPT ![c] = s]
     ELSE status' = [status EXCEPT ![c] = "DONE"]
  /\ UNCHANGED <<en, task, blocked>>

AskStatus(r) ==
  /\ at[r] = "running"
  /\ MCD_dmaStatus(dma_get_channel(r))
  /\ UNCHANGED <<initVars, req, at, copying>>

(* Called for any task that is not frozen: continuing a running one is no harm. *)
MCD_continDma(r) ==
  LET c == dma_get_channel(r)
  IN  /\ at[r] = "running"
      /\ c \in Channels => status[c] # "PAUSED"
      /\ en' = IF c \in Channels THEN [en EXCEPT ![c] = TRUE] ELSE en
      /\ status' = IF c \in Channels THEN [status EXCEPT ![c] = "RUNNING"] ELSE status
      /\ UNCHANGED <<initVars, req, task, blocked, at, copying>>

(* The debug unit can freeze one task. The first guard is the callers' duty: *)
(* "It's extremely important to not pause more than one DMA channel".        *)
MCD_pauseDma(r) ==
  LET c == dma_get_channel(r)
  IN  /\ \A d \in Channels : status[d] # "PAUSED"
      /\ at[r] = "running"
      /\ c \in Channels
      /\ en[c]
      /\ blocked' = c
      /\ status' = [status EXCEPT ![c] = "PAUSED"]
      /\ UNCHANGED <<initVars, req, en, task, at, copying>>

(* The debug unit is disabled, whichever channel it stops. *)
MCD_resmActions(c) ==
  /\ blocked' = -1
  /\ \E s \in Active : status' = [status EXCEPT ![c] = s]

MCD_resumeDma(r) ==
  LET c == dma_get_channel(r)
  IN  /\ at[r] = "running"
      /\ c \in Channels
      /\ status[c] = "PAUSED"
      /\ IF en[c] THEN MCD_resmActions(c) ELSE UNCHANGED <<blocked, status>>
      /\ UNCHANGED <<initVars, req, en, task, at, copying>>

(* Mutant: the task is resumed before its enable bit is cleared. *)
KillLate(r) ==
  LET c == dma_get_channel(r)
  IN  /\ at[r] = "running"
      /\ blocked' = IF c \in Channels /\ en[c] THEN -1 ELSE blocked
      /\ en' = [d \in Channels |-> d # c /\ en[d]]
      /\ status' = [d \in Channels |-> IF d = c THEN "HALTED" ELSE status[d]]
      /\ at' = [at EXCEPT ![r] = "killed"]
      /\ UNCHANGED <<initVars, req, task, copying>>

(* The enable bit is cleared first, so the call of MCD_resumeDma that follows *)
(* finds no task on the channel and does nothing.                             *)
MCD_killDma(r) ==
  LET c == dma_get_channel(r)
  IN  /\ at[r] = "running"
      /\ en' = [d \in Channels |-> d # c /\ en[d]]
      /\ status' = [d \in Channels |-> IF d = c THEN "HALTED" ELSE status[d]]
      /\ at' = [at EXCEPT ![r] = "killed"]
      /\ UNCHANGED <<initVars, req, task, blocked, copying>>

(* The hardware: a task that is not frozen stops by itself. *)
Finish(c) ==
  /\ en[c]
  /\ blocked # c
  /\ en' = [en EXCEPT ![c] = FALSE]
  /\ UNCHANGED <<initVars, req, task, status, blocked, at, copying>>

(* dma_memcpy starts a single transfer on channel 1 and polls its status. *)
CopyStart ==
  /\ Copies
  /\ ~copying
  /\ MCD_startDma(1, Copier, ALWAYS)
  /\ copying' = TRUE
  /\ UNCHANGED <<initVars, req, at>>

CopyPoll ==
  /\ copying
  /\ MCD_dmaStatus(1)
  /\ copying' = (status'[1] # "DONE")
  /\ UNCHANGED <<initVars, req, at>>

Next ==
  \/ \E r \in Reqs : dma_set_initiator(r) \/ dma_set_channel(r) \/ Start(r)
  \/ \E r \in Reqs : AskStatus(r) \/ MCD_continDma(r) \/ MCD_pauseDma(r) \/ MCD_resumeDma(r)
  \/ \E r \in Reqs : MCD_killDma(r) \/ dma_free_initiator(r) \/ dma_free_channel(r)
  \/ \E c \in Channels : Finish(c)
  \/ CopyStart
  \/ CopyPoll

Spec == Init /\ [][Next]_vars

-----------------------------------------------------------------------------
TypeOK ==
  /\ used \in [Slots -> Reqs \cup {None}]
  /\ imcr \in [Slots -> Reqs \cup {None}]
  /\ req \in [Channels -> Reqs \cup {None}]
  /\ en \in [Channels -> BOOLEAN]
  /\ task \in [Channels -> (Reqs \cup {None, Copier}) \X (Slots \cup {ALWAYS})]
  /\ status \in [Channels -> Status]
  /\ blocked \in Channels \cup {-1}
  /\ at \in [Reqs -> {"idle", "initiator", "channel", "running", "killed", "noinit"}]
  /\ copying \in BOOLEAN

Running(r) == at[r] = "running"

(* A client steers its own task and no other: the channel that               *)
(* dma_set_channel marks as used is its requestor's only, through any number  *)
(* of grants, refusals and releases, and a task that is enabled belongs to    *)
(* the client that holds its channel and has not stopped it. Only dma_memcpy, *)
(* which asks for no channel, can have replaced the task (dma.c 598). Without *)
(* a channel is only a client that ignored the refusal; it steers nothing     *)
(* (fec.c 562-569, 878-885).                                                  *)
OwnTask ==
  /\ \A r \in Reqs : Running(r) =>
       LET c == dma_get_channel(r)
       IN  IF c = -1 THEN r \in Careless ELSE task[c][1] \in {r, Copier}
  /\ \A c \in Channels : en[c] /\ task[c][1] # Copier =>
       Running(task[c][1]) /\ dma_get_channel(task[c][1]) = c

(* The task of a client is triggered by the request line of its device: the   *)
(* slot it was started with is still multiplexed to the requestor.            *)
OwnTrigger ==
  \A c \in Channels : req[c] # None /\ Running(req[c]) /\ task[c][1] = req[c] =>
    task[c][2] # ALWAYS /\ imcr[task[c][2]] = req[c]

(* A client that was told MCD_PAUSED can rely on the task being frozen,       *)
(* whatever other clients start, continue or kill meanwhile.                  *)
PausedFrozen == \A c \in Channels : status[c] = "PAUSED" => en[c] /\ blocked = c
=============================================================================
