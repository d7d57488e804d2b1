------------------------- MODULE DmaChannels_proofs -------------------------
(* Proofs about DmaChannels, for any set of clients and any number of        *)
(* channels: a client steers its own task only, its task is triggered by its *)
(* own device, and a task that is reported as paused is frozen.              *)
EXTENDS DmaChannels, WellFoundedInduction, TLAPS

SlotsOf(r) == {Choices[r][i] : i \in 1..Len(Choices[r])}

(* dma_set_initiator finds a slot for r whatever the others have taken. *)
Assured(r) == r \in Forced \/ \E s \in SlotsOf(r) : \A q \in Reqs \ {r} : s \notin SlotsOf(q)

\* A client holds an initiator and a channel in these phases of its life.
Holding == {"initiator", "channel", "running", "killed"}
Seated == {"channel", "running", "killed", "noinit"}

\* A client has at most one channel, and none before it asks; one that minds a
\* refusal does not go on without one.
ChannelsHeld ==
  /\ \A c \in Channels : req[c] # None => at[req[c]] \in Seated
  /\ \A r \in Reqs : at[r] \in Seated /\ r \notin Careless => \E c \in Channels : req[c] = r
  /\ \A c, d \in Channels : req[c] # None /\ req[c] = req[d] => c = d

\* A slot that is used is one of its holder's and still multiplexed to it; a
\* client that cannot go on without a slot has exactly one.
SlotsHeld ==
  /\ \A s \in Slots : used[s] # None =>
       at[used[s]] \in Holding /\ imcr[s] = used[s] /\ s \in SlotsOf(used[s])
  /\ \A s, t \in Slots : used[s] # None /\ used[s] = used[t] => s = t
  /\ \A r \in Reqs : at[r] \in Holding /\ (r \notin Careless \/ Assured(r)) =>
       \E s \in Slots : used[s] = r

\* On the channel of a running client is the task that it started, or a copy.
TaskOwner ==
  \A c \in Channels : req[c] # None /\ at[req[c]] = "running" => task[c][1] \in {req[c], Copier}

\* The initiator of that task is the slot that the client holds; only a
\* client that ignores the refusal of one is started without.
TaskSlot ==
  \A c \in Channels : req[c] # None /\ at[req[c]] = "running" /\ task[c][1] = req[c] =>
    \/ task[c][2] \in Slots /\ used[task[c][2]] = req[c]
    \/ req[c] \in Careless /\ ~Assured(req[c])

\* A task that is enabled is that of the running client of its channel, or a copy.
TaskAlive ==
  \A c \in Channels : en[c] /\ task[c][1] # Copier =>
    req[c] \in Reqs /\ req[c] = task[c][1] /\ Running(req[c])

IInv ==
  TypeOK /\ ChannelsHeld /\ SlotsHeld /\ TaskOwner /\ TaskSlot /\ TaskAlive /\ PausedFrozen

-----------------------------------------------------------------------------
(* A set of numbers that is not empty has a lowest one. *)
LEMMA LowestIn ==
  ASSUME NEW S, S \subseteq Nat, S # {}, NEW none
  PROVE  Lowest(S, none) \in S
<1>1. PICK x \in S : \A y \in S : ~(<<y, x>> \in OpToRel(<, Nat))
  BY WFMin, NatLessThanWellFounded
<1>2. \A y \in S : ~(y < x)
  BY <1>1, Zenon DEF OpToRel
<1>3. \A y \in S : x <= y
  BY <1>2
<1> QED
  BY <1>3 DEF Lowest

(* An empty set has none. *)
LEMMA LowestNone ==
  ASSUME NEW none
  PROVE  Lowest({}, none) = none
<1> QED
  BY DEF Lowest

(* The table of choices: proper slots, and those that are taken without a    *)
(* look are nobody else's.                                                   *)
LEMMA Table ==
  /\ \A r \in DOMAIN Choices : r # None /\ r # Copier /\ SlotsOf(r) # {} /\ SlotsOf(r) \subseteq 16..31
  /\ \A r \in DOMAIN Choices : Len(Choices[r]) \in Nat \ {0}
  /\ \A r, q \in DOMAIN Choices : r \in Forced /\ SlotsOf(r) \cap SlotsOf(q) # {} => q = r
  /\ \A r \in Forced \cap DOMAIN Choices : Len(Choices[r]) = 1
<1> DEFINE One == [FEC0_RX |-> 16, FEC0_TX |-> 17, FEC1_RX |-> 20, CTM0 |-> 24, CTM1 |-> 25,
                   CTM2 |-> 26, CTM3 |-> 27, CTM4 |-> 28, CTM5 |-> 29, CTM6 |-> 30, CTM7 |-> 31,
                   USBEP4 |-> 26, USBEP5 |-> 27, USBEP6 |-> 28, PSC2_RX |-> 28, PSC2_TX |-> 29,
                   PSC3_RX |-> 30, PSC3_TX |-> 31]
<1>1. DOMAIN Choices = DOMAIN One \cup {"FEC1_TX", "DREQ1"}
  BY DEF Choices
<1>2. \A r \in DOMAIN One : Choices[r] = <<One[r]>>
  BY DEF Choices
<1>3. Choices["FEC1_TX"] = <<21, 25, 31>> /\ Choices["DREQ1"] = <<29, 21>>
  BY DEF Choices
<1>4. \A r \in DOMAIN One : One[r] \in 16..31
  OBVIOUS
<1>5. \A r \in DOMAIN One : One[r] = 16 => r = "FEC0_RX"
  OBVIOUS
<1>6. \A r \in DOMAIN One : One[r] = 17 => r = "FEC0_TX"
  OBVIOUS
<1>7. \A r \in DOMAIN One : One[r] = 20 => r = "FEC1_RX"
  OBVIOUS
<1>8. One["FEC0_RX"] = 16 /\ One["FEC0_TX"] = 17 /\ One["FEC1_RX"] = 20
  OBVIOUS
<1>9. \A r \in DOMAIN Choices : r # None /\ r # Copier
  BY DEF Choices, None, Copier
<1>10. Forced \subseteq DOMAIN One
  BY DEF Forced
<1> HIDE DEF One
<1>11. \A r \in DOMAIN One : SlotsOf(r) = {One[r]} /\ Len(Choices[r]) = 1
  <2> SUFFICES ASSUME NEW r \in DOMAIN One PROVE SlotsOf(r) = {One[r]} /\ Len(Choices[r]) = 1
    OBVIOUS
  <2>1. Choices[r] = <<One[r]>>
    BY <1>2
  <2>2. Len(<<One[r]>>) = 1 /\ <<One[r]>>[1] = One[r]
    OBVIOUS
  <2> QED
    BY <2>1, <2>2 DEF SlotsOf
<1>12. SlotsOf("FEC1_TX") = {21, 25, 31} /\ Len(Choices["FEC1_TX"]) = 3
  BY <1>3 DEF SlotsOf
<1>13. SlotsOf("DREQ1") = {29, 21} /\ Len(Choices["DREQ1"]) = 2
  BY <1>3 DEF SlotsOf
<1>14. \A r \in DOMAIN Choices : SlotsOf(r) # {} /\ SlotsOf(r) \subseteq 16..31
  <2>1. ASSUME NEW r \in DOMAIN Choices, r = "FEC1_TX" \/ r = "DREQ1"
        PROVE  SlotsOf(r) # {} /\ SlotsOf(r) \subseteq 16..31
    BY <1>12, <1>13, <2>1
  <2>2. ASSUME NEW r \in DOMAIN Choices, r # "FEC1_TX", r # "DREQ1"
        PROVE  SlotsOf(r) # {} /\ SlotsOf(r) \subseteq 16..31
    BY <1>1, <1>4, <1>11, <2>2
  <2> QED
    BY <2>1, <2>2
<1>15. \A r \in DOMAIN Choices : Len(Choices[r]) \in Nat \ {0}
  BY <1>1, <1>11, <1>12, <1>13
<1>16. \A r, q \in DOMAIN Choices : r \in Forced /\ SlotsOf(r) \cap SlotsOf(q) # {} => q = r
  BY <1>1, <1>5, <1>6, <1>7, <1>8, <1>10, <1>11, <1>12, <1>13 DEF Forced
<1> QED
  BY <1>9, <1>10, <1>11, <1>14, <1>15, <1>16

(* The same for the clients that there are. *)
LEMMA Clients ==
  /\ \A r \in Reqs : r # None /\ r # Copier /\ SlotsOf(r) # {} /\ SlotsOf(r) \subseteq Slots
  /\ Slots \subseteq 16..31
  /\ Channels \subseteq Nat /\ 1 \in Channels /\ -1 \notin Channels
  /\ \A r, q \in Reqs : r \in Forced /\ SlotsOf(r) \cap SlotsOf(q) # {} => q = r
<1>1. Reqs \subseteq DOMAIN Choices /\ NCHANNELS \in Nat \ {0, 1}
  BY DmaAssumption
<1>2. Slots = UNION {SlotsOf(r) : r \in Reqs}
  BY DEF Slots, SlotsOf
<1>3. Channels \subseteq Nat /\ 1 \in Channels /\ -1 \notin Channels
  BY <1>1 DEF Channels
<1> QED
  BY <1>1, <1>2, <1>3, Table

-----------------------------------------------------------------------------
(* What the searches for a channel and for a slot return. *)

(* A client is found on its channel; -1 is returned for one that has none,   *)
(* which is a careless one or one that has not asked yet.                    *)
LEMMA ChannelFound ==
  ASSUME ChannelsHeld, NEW r \in Reqs
  PROVE  \/ dma_get_channel(r) \in Channels /\ req[dma_get_channel(r)] = r
         \/ /\ dma_get_channel(r) = -1 /\ dma_get_channel(r) \notin Channels
            /\ \A c \in Channels : req[c] # r
            /\ at[r] \in Seated => r \in Careless
<1> DEFINE S == {c \in Channels : req[c] = r}
<1>1. S \subseteq Nat /\ -1 \notin Channels
  BY Clients
<1>2. CASE S = {}
  <2>1. dma_get_channel(r) = -1
    BY <1>2, LowestNone DEF dma_get_channel
  <2> QED
    BY <1>1, <1>2, <2>1 DEF ChannelsHeld
<1>3. CASE S # {}
  <2>1. Lowest(S, -1) \in S
    BY <1>1, <1>3, LowestIn
  <2> QED
    BY <2>1 DEF dma_get_channel
<1> QED
  BY <1>2, <1>3

(* Others have none. *)
LEMMA NoChannel ==
  ASSUME ChannelsHeld, NEW r \in Reqs, at[r] \notin Seated
  PROVE  dma_get_channel(r) = -1
<1>1. r # None
  BY Clients
<1>2. \A c \in Channels : req[c] # r
  BY <1>1 DEF ChannelsHeld
<1>3. {c \in Channels : req[c] = r} = {}
  BY <1>2
<1> QED
  BY <1>3, LowestNone DEF dma_get_channel

(* dma_set_channel gives a client a free channel, or none. *)
LEMMA ChannelOffered ==
  ASSUME ChannelsHeld, NEW r \in Reqs, at[r] \notin Seated, Offered(r) # -1
  PROVE  Offered(r) \in Channels /\ req[Offered(r)] = None
<1> DEFINE S == {c \in Channels : req[c] = None}
<1>1. Offered(r) = Lowest(S, -1)
  BY NoChannel DEF Offered
<1>2. S # {}
  BY <1>1, LowestNone
<1>3. Lowest(S, -1) \in S
  BY <1>2, LowestIn, Clients
<1> QED
  BY <1>1, <1>3

(* dma_set_initiator takes a free slot, even where it does not look; it      *)
(* fails only for a client that is not assured of one.                       *)
LEMMA SlotTaken ==
  ASSUME TypeOK, SlotsHeld, NEW r \in Reqs, at[r] \notin Holding
  PROVE  IF Take(r) = 0 THEN ~Assured(r)
         ELSE Take(r) \in SlotsOf(r) /\ Take(r) \in Slots /\ used[Take(r)] = None
<1> DEFINE free == {i \in 1..Len(Choices[r]) : r \in Forced \/ used[Choices[r][i]] = None}
<1>1. r \in DOMAIN Choices
  BY DmaAssumption
<1>2. free \subseteq Nat
  BY <1>1, Table
<1>3. \A s \in SlotsOf(r) : s \in Slots /\ s # 0
  BY Clients
<1>4. \A i \in 1..Len(Choices[r]) : Choices[r][i] \in SlotsOf(r)
  BY DEF SlotsOf
<1>5. ASSUME NEW s \in SlotsOf(r), r \in Forced PROVE used[s] = None
  <2> SUFFICES ASSUME used[s] # None PROVE FALSE
    OBVIOUS
  <2>1. used[s] \in Reqs /\ s \in SlotsOf(used[s]) /\ at[used[s]] \in Holding
    BY <1>3, <1>5 DEF SlotsHeld, TypeOK
  <2>2. SlotsOf(r) \cap SlotsOf(used[s]) # {}
    BY <1>5, <2>1
  <2>3. used[s] = r
    BY <1>5, <2>1, <2>2, Clients
  <2> QED
    BY <2>1, <2>3
<1>6. CASE free = {}
  <2>1. Take(r) = 0
    BY <1>6 DEF Take
  <2>2. SUFFICES ASSUME Assured(r) PROVE FALSE
    BY <2>1
  <2>3. r \notin Forced
    BY <1>4, <1>5, <1>6, <1>1, Table
  <2>4. PICK s \in SlotsOf(r) : \A q \in Reqs \ {r} : s \notin SlotsOf(q)
    BY <2>2, <2>3 DEF Assured
  <2>5. used[s] = None
    BY <1>3, <2>4 DEF SlotsHeld, TypeOK
  <2> QED
    BY <1>6, <2>4, <2>5 DEF SlotsOf
<1>7. CASE free # {}
  <2> DEFINE i == Lowest(free, 0)
  <2>1. i \in free
    BY <1>2, <1>7, LowestIn
  <2>2. Take(r) = Choices[r][i]
    BY <1>7 DEF Take
  <2> HIDE DEF i
  <2>3. i \in 1..Len(Choices[r]) /\ (r \in Forced \/ used[Choices[r][i]] = None)
    BY <2>1
  <2> QED
    BY <1>3, <1>4, <1>5, <2>2, <2>3
<1> QED
  BY <1>6, <1>7

(* The slot that is read back is the one that is held. *)
LEMMA SlotFound ==
  ASSUME SlotsHeld, NEW r \in Reqs
  PROVE  \/ dma_get_initiator(r) \in Slots /\ used[dma_get_initiator(r)] = r
         \/ dma_get_initiator(r) = ALWAYS /\ \A s \in Slots : used[s] # r
<1> DEFINE S == {s \in Slots : used[s] = r}
<1>0. Slots \subseteq Nat
  BY Clients
<1>1. S \subseteq Nat
  BY <1>0
<1>2. CASE S = {}
  BY <1>2, LowestNone DEF dma_get_initiator
<1>3. CASE S # {}
  <2>1. Lowest(S, ALWAYS) \in S
    BY <1>1, <1>3, LowestIn
  <2> QED
    BY <2>1 DEF dma_get_initiator
<1> QED
  BY <1>2, <1>3

-----------------------------------------------------------------------------
(* The invariant holds at first and is kept by every call.                   *)

(* No channel and no slot is given away by dma_init. *)
LEMMA InitIInv == Init => IInv
<1> SUFFICES ASSUME Init PROVE IInv
  OBVIOUS
<1>1. TypeOK
  BY DEF Init, TypeOK, Status
<1>2. ChannelsHeld /\ SlotsHeld
  BY DEF Init, ChannelsHeld, SlotsHeld, Seated, Holding
<1>3. TaskOwner /\ TaskSlot /\ TaskAlive /\ PausedFrozen
  BY DEF Init, TaskOwner, TaskSlot, TaskAlive, PausedFrozen
<1> QED
  BY <1>1, <1>2, <1>3 DEF IInv

(* dma_set_initiator *)
LEMMA SetInitiatorKeeps ==
  ASSUME IInv, NEW r \in Reqs, dma_set_initiator(r)
  PROVE  IInv'
<1>1. TypeOK /\ SlotsHeld /\ at[r] = "idle" /\ at[r] \notin Holding /\ at[r] \notin Seated
  BY DEF IInv, dma_set_initiator, Holding, Seated
<1>2. UNCHANGED <<req, mcdVars, copying>>
  BY DEF dma_set_initiator
<1>3. IF Take(r) = 0 THEN ~Assured(r)
      ELSE Take(r) \in SlotsOf(r) /\ Take(r) \in Slots /\ used[Take(r)] = None
  BY <1>1, SlotTaken
<1>4. at' = at \/ at' = [at EXCEPT ![r] = "initiator"]
  BY DEF dma_set_initiator
<1>5. \A q \in Reqs : (at'[q] \in Seated <=> at[q] \in Seated) /\ (at'[q] = "running" <=> at[q] = "running")
  BY <1>1, <1>4 DEF TypeOK, Seated
<1>6. ChannelsHeld'
  BY <1>2, <1>5, <1>1 DEF IInv, ChannelsHeld, TypeOK
<1>7. TaskOwner' /\ TaskAlive' /\ PausedFrozen'
  <2>1. \A c \in Channels : req[c] # None => req[c] \in Reqs
    BY <1>1 DEF TypeOK
  <2>2. \A c \in Channels : en[c] /\ task[c][1] # Copier => req[c] \in Reqs
    BY <1>1 DEF IInv, TaskAlive, Running, TypeOK
  <2>3. TaskAlive'
    BY <1>2, <1>5, <2>2 DEF IInv, TaskAlive, Running, mcdVars
  <2> QED
    BY <1>2, <1>5, <1>1, <2>1, <2>3 DEF IInv, TaskOwner, PausedFrozen, mcdVars
<1>8. CASE Take(r) = 0
  <2>1. UNCHANGED <<used, imcr>> /\ (r \in Careless => at' = [at EXCEPT ![r] = "initiator"])
                                 /\ (r \notin Careless => at' = at)
    BY <1>8 DEF dma_set_initiator, initVars
  <2>2. TypeOK'
    BY <1>1, <1>2, <1>4, <2>1 DEF TypeOK, mcdVars
  <2>3. \A q \in Reqs : q # r => (at'[q] \in Holding <=> at[q] \in Holding)
    BY <1>1, <1>4 DEF TypeOK, Holding
  <2>4. SlotsHeld'
    <3>1. \A s \in Slots : used[s] # r
      BY <1>1, Clients DEF SlotsHeld
    <3>2. \A s \in Slots : used[s] # None => used[s] \in Reqs
      BY <1>1 DEF TypeOK
    <3>3. r \notin Careless => at[r] \notin Holding'
      BY <1>1, <2>1 DEF Holding
    <3> QED
      BY <1>1, <1>3, <1>8, <2>1, <2>3, <3>1, <3>2, <3>3 DEF SlotsHeld
  <2>5. TaskSlot'
    BY <1>1, <1>2, <1>5, <2>1 DEF IInv, TaskSlot, TypeOK, mcdVars
  <2> QED
    BY <1>6, <1>7, <2>2, <2>4, <2>5 DEF IInv
<1>9. CASE Take(r) # 0
  <2> DEFINE t == Take(r)
  <2>1. /\ used' = [used EXCEPT ![t] = r] /\ imcr' = [imcr EXCEPT ![t] = r]
        /\ at' = [at EXCEPT ![r] = "initiator"]
    BY <1>9 DEF dma_set_initiator
  <2>2. t \in SlotsOf(r) /\ t \in Slots /\ used[t] = None
    BY <1>3, <1>9
  <2> HIDE DEF t
  <2>3. TypeOK'
    BY <1>1, <1>2, <2>1, <2>2 DEF TypeOK, mcdVars
  <2>4. \A q \in Reqs : at'[q] \in Holding <=> (at[q] \in Holding \/ q = r)
    BY <1>1, <2>1 DEF TypeOK, Holding
  <2>5. \A s \in Slots : /\ used'[s] = IF s = t THEN r ELSE used[s]
                         /\ imcr'[s] = IF s = t THEN r ELSE imcr[s]
    BY <1>1, <2>1, <2>2 DEF TypeOK
  <2>6. \A s \in Slots : used[s] # r
    BY <1>1, Clients DEF SlotsHeld
  <2>7. \A s \in Slots : used[s] # None => used[s] \in Reqs
    BY <1>1 DEF TypeOK
  <2>8. SlotsHeld'
    <3>1. \A s \in Slots : used'[s] # None =>
            at'[used'[s]] \in Holding /\ imcr'[s] = used'[s] /\ s \in SlotsOf(used'[s])
      BY <1>1, <2>2, <2>4, <2>5, <2>7 DEF SlotsHeld
    <3>2. \A s1, s2 \in Slots : used'[s1] # None /\ used'[s1] = used'[s2] => s1 = s2
      BY <1>1, <2>5, <2>6 DEF SlotsHeld
    <3>3. \A q \in Reqs : at'[q] \in Holding /\ (q \notin Careless \/ Assured(q)) =>
            \E s \in Slots : used'[s] = q
      BY <1>1, <2>2, <2>4, <2>5, Clients DEF SlotsHeld
    <3> QED
      BY <3>1, <3>2, <3>3 DEF SlotsHeld
  <2>9. TaskSlot'
    BY <1>1, <1>2, <1>5, <2>2, <2>5 DEF IInv, TaskSlot, TypeOK, mcdVars
  <2> QED
    BY <1>6, <1>7, <2>3, <2>8, <2>9 DEF IInv
<1> QED
  BY <1>8, <1>9

(* dma_set_channel *)
LEMMA SetChannelKeeps ==
  ASSUME IInv, NEW r \in Reqs, dma_set_channel(r)
  PROVE  IInv'
<1>1. TypeOK /\ ChannelsHeld /\ at[r] = "initiator" /\ at[r] \notin Seated
  BY DEF IInv, dma_set_channel, Seated
<1>2. UNCHANGED <<used, imcr, en, task, status, blocked, copying>>
  BY DEF dma_set_channel, initVars, mcdVars
<1>3. CASE Offered(r) = -1
  <2>1. /\ UNCHANGED <<used, imcr, req, en, task, status, blocked, copying>>
        /\ r \notin Careless => at' = at
        /\ r \in Careless => at' = [at EXCEPT ![r] = "channel"]
    BY <1>2, <1>3 DEF dma_set_channel
  <2>2. TypeOK'
    BY <1>1, <2>1 DEF TypeOK
  <2>3. \A q \in Reqs : /\ q # r => at'[q] = at[q]
                        /\ at'[q] \in Holding <=> at[q] \in Holding
                        /\ at'[q] = "running" <=> at[q] = "running"
                        /\ at[q] \in Seated => at'[q] \in Seated
                        /\ at'[q] \in Seated /\ q \notin Careless => at[q] \in Seated
    BY <1>1, <2>1 DEF TypeOK, Seated, Holding
  <2>4. /\ \A d \in Channels : req[d] # None => req[d] \in Reqs
        /\ \A d \in Slots : used[d] # None => used[d] \in Reqs
        /\ \A d \in Channels : en[d] /\ task[d][1] # Copier => req[d] \in Reqs
    BY <1>1 DEF TypeOK, IInv, TaskAlive, Running
  <2>5. ChannelsHeld'
    BY <1>1, <2>1, <2>3, <2>4 DEF ChannelsHeld
  <2>6. SlotsHeld'
    BY <2>1, <2>3, <2>4 DEF IInv, SlotsHeld
  <2>7. TaskOwner' /\ TaskSlot'
    BY <2>1, <2>3, <2>4 DEF IInv, TaskOwner, TaskSlot
  <2>8. TaskAlive' /\ PausedFrozen'
    BY <2>1, <2>3, <2>4 DEF IInv, TaskAlive, Running, PausedFrozen
  <2> QED
    BY <2>2, <2>5, <2>6, <2>7, <2>8 DEF IInv
<1>4. CASE Offered(r) # -1
  <2> DEFINE c == Offered(r)
  <2>1. req' = [req EXCEPT ![c] = r] /\ at' = [at EXCEPT ![r] = "channel"]
    BY <1>4 DEF dma_set_channel
  <2>2. c \in Channels /\ req[c] = None
    BY <1>1, <1>4, ChannelOffered
  <2> HIDE DEF c
  <2>3. TypeOK'
    BY <1>1, <1>2, <2>1, <2>2 DEF TypeOK
  <2>4. \A q \in Reqs : /\ at'[q] \in Seated <=> (at[q] \in Seated \/ q = r)
                        /\ at'[q] \in Holding <=> at[q] \in Holding
                        /\ at'[q] = "running" <=> at[q] = "running"
    BY <1>1, <2>1 DEF TypeOK, Seated, Holding
  <2>5. \A d \in Channels : req'[d] = IF d = c THEN r ELSE req[d]
    BY <1>1, <2>1, <2>2 DEF TypeOK
  <2>6. \A d \in Channels : req[d] # r /\ (req[d] # None => req[d] \in Reqs)
    BY <1>1, Clients DEF TypeOK, ChannelsHeld
  <2>7. ChannelsHeld'
    <3>1. \A d \in Channels : req'[d] # None => at'[req'[d]] \in Seated
      BY <1>1, <2>4, <2>5, <2>6 DEF ChannelsHeld
    <3>2. \A q \in Reqs : at'[q] \in Seated /\ q \notin Careless => \E d \in Channels : req'[d] = q
      BY <1>1, <2>2, <2>4, <2>5, Clients DEF ChannelsHeld
    <3>3. \A d, e \in Channels : req'[d] # None /\ req'[d] = req'[e] => d = e
      BY <1>1, <2>5, <2>6 DEF ChannelsHeld
    <3> QED
      BY <3>1, <3>2, <3>3 DEF ChannelsHeld
  <2>8. SlotsHeld'
    BY <1>1, <1>2, <2>4 DEF IInv, SlotsHeld, TypeOK
  <2>9. at'[r] # "running"
    BY <1>1, <2>1 DEF TypeOK
  <2>10. TaskOwner' /\ TaskSlot'
    BY <1>2, <2>4, <2>5, <2>6, <2>9 DEF IInv, TaskOwner, TaskSlot
  <2>11. PausedFrozen'
    BY <1>2 DEF IInv, PausedFrozen
  <2>12. TaskAlive'
    <3>1. \A d \in Channels : en[d] /\ task[d][1] # Copier => d # c
      BY <1>1, <2>2, Clients DEF IInv, TaskAlive, Running, TypeOK, None
    <3> QED
      BY <1>2, <2>4, <2>5, <2>6, <3>1 DEF IInv, TaskAlive, Running
  <2> QED
    BY <2>3, <2>7, <2>8, <2>10, <2>11, <2>12 DEF IInv
<1> QED
  BY <1>3, <1>4

(* Calls that leave channels, slots and tasks to whom they belong. *)
LEMMA SteeringKeeps ==
  ASSUME IInv, UNCHANGED <<used, imcr, req, at, task>>, TypeOK', TaskAlive', PausedFrozen'
  PROVE  IInv'
<1> QED
  BY DEF IInv, ChannelsHeld, SlotsHeld, TaskOwner, TaskSlot

(* MCD_dmaStatus pauses nothing. *)
LEMMA StatusKeeps ==
  ASSUME IInv, NEW c, MCD_dmaStatus(c), UNCHANGED <<used, imcr, req, at>>,
         copying' \in BOOLEAN
  PROVE  IInv'
<1>1. UNCHANGED <<en, task, blocked>>
  BY DEF MCD_dmaStatus
<1>2. PICK x \in {"RUNNING", "IDLE", "DONE"} :
        status' = status \/ (status' = [status EXCEPT ![c] = x])
  BY DEF MCD_dmaStatus, Active
<1>3. TypeOK'
  BY <1>1, <1>2 DEF IInv, TypeOK, Status
<1>4. PausedFrozen'
  BY <1>1, <1>2 DEF IInv, TypeOK, PausedFrozen
<1>5. TaskAlive'
  BY <1>1 DEF IInv, TaskAlive, Running
<1> QED
  BY <1>1, <1>3, <1>4, <1>5, SteeringKeeps

(* Pausing, resuming, continuing and polling by a client, and the end of a   *)
(* task.                                                                     *)
LEMMA ClientSteers ==
  ASSUME IInv, NEW r \in Reqs,
         AskStatus(r) \/ MCD_continDma(r) \/ MCD_pauseDma(r) \/ MCD_resumeDma(r)
  PROVE  IInv'
<1> DEFINE c == dma_get_channel(r)
<1>1. at[r] = "running" /\ UNCHANGED <<used, imcr, req, at, task, copying>>
  BY DEF AskStatus, MCD_continDma, MCD_pauseDma, MCD_resumeDma, initVars, MCD_dmaStatus
<1>2. c \notin Channels \/ (c \in Channels /\ req[c] = r)
  BY ChannelFound DEF IInv
<1>3. TypeOK /\ PausedFrozen /\ TaskOwner /\ TaskAlive /\ r # None
  BY Clients DEF IInv
<1>4. CASE AskStatus(r)
  <2>1. MCD_dmaStatus(c)
    BY <1>4 DEF AskStatus
  <2>2. copying' \in BOOLEAN
    BY <1>1, <1>3 DEF TypeOK
  <2> QED
    BY <1>1, <2>1, <2>2, StatusKeeps
<1>5. CASE MCD_continDma(r)
  <2>1. /\ en' = (IF c \in Channels THEN [en EXCEPT ![c] = TRUE] ELSE en)
        /\ status' = (IF c \in Channels THEN [status EXCEPT ![c] = "RUNNING"] ELSE status)
        /\ blocked' = blocked
    BY <1>5 DEF MCD_continDma
  <2> HIDE DEF c
  <2>2. TypeOK'
    BY <1>1, <1>3, <2>1 DEF TypeOK, Status
  <2>3. PausedFrozen'
    BY <1>3, <2>1 DEF TypeOK, PausedFrozen
  <2>4. \A d \in Channels : en'[d] => en[d] \/ d = c
    BY <1>3, <2>1 DEF TypeOK
  <2>5. c \in Channels => task[c][1] \in {r, Copier}
    BY <1>1, <1>2, <1>3 DEF TaskOwner
  <2>6. TaskAlive'
    BY <1>1, <1>2, <1>3, <2>4, <2>5 DEF TaskAlive, Running
  <2> QED
    BY <1>1, <2>2, <2>3, <2>6, SteeringKeeps
<1>6. CASE MCD_pauseDma(r)
  <2>1. /\ \A d \in Channels : status[d] # "PAUSED"
        /\ c \in Channels
        /\ en[c] /\ blocked' = c /\ status' = [status EXCEPT ![c] = "PAUSED"] /\ en' = en
    BY <1>6 DEF MCD_pauseDma
  <2> HIDE DEF c
  <2>2. TypeOK'
    BY <1>1, <1>3, <2>1 DEF TypeOK, Status
  <2>3. PausedFrozen'
    BY <1>3, <2>1 DEF TypeOK, PausedFrozen
  <2>4. TaskAlive'
    BY <1>1, <1>3, <2>1 DEF TaskAlive, Running
  <2> QED
    BY <1>1, <2>2, <2>3, <2>4, SteeringKeeps
<1>7. CASE MCD_resumeDma(r)
  <2>1. c \in Channels /\ status[c] = "PAUSED" /\ en[c] /\ blocked = c
    BY <1>3, <1>7 DEF MCD_resumeDma, PausedFrozen
  <2>2. PICK x \in {"RUNNING", "IDLE"} :
          status' = [status EXCEPT ![c] = x] /\ blocked' = -1 /\ en' = en
    BY <1>7, <2>1 DEF MCD_resumeDma, MCD_resmActions, Active
  <2> HIDE DEF c
  <2>3. TypeOK'
    BY <1>1, <1>3, <2>1, <2>2 DEF TypeOK, Status
  <2>4. PausedFrozen'
    BY <1>3, <2>1, <2>2 DEF TypeOK, PausedFrozen
  <2>5. TaskAlive'
    BY <1>1, <1>3, <2>2 DEF TaskAlive, Running
  <2> QED
    BY <1>1, <2>3, <2>4, <2>5, SteeringKeeps
<1> QED
  BY <1>4, <1>5, <1>6, <1>7

(* The start of a task, with the slot that its client holds. *)
LEMMA StartKeeps ==
  ASSUME IInv, NEW r \in Reqs, Start(r)
  PROVE  IInv'
<1> DEFINE c == dma_get_channel(r)
           i == dma_get_initiator(r)
<1>1. TypeOK /\ ChannelsHeld /\ SlotsHeld /\ PausedFrozen /\ at[r] = "channel"
  BY DEF IInv, Start
<1>2. \/ c \in Channels /\ req[c] = r
      \/ c \notin Channels /\ \A d \in Channels : req[d] # r
  BY <1>1, ChannelFound
<1>3. \/ i \in Slots /\ used[i] = r
      \/ i = ALWAYS /\ r \in Careless /\ ~Assured(r)
  BY <1>1, SlotFound DEF SlotsHeld, Holding
<1>4. /\ c \in Channels => /\ en' = [en EXCEPT ![c] = TRUE] /\ blocked' = blocked
                           /\ task' = [task EXCEPT ![c] = <<r, i>>]
                           /\ status' = [status EXCEPT ![c] = "IDLE"]
      /\ c \notin Channels => UNCHANGED <<en, task, status, blocked>>
      /\ at' = [at EXCEPT ![r] = "running"] /\ UNCHANGED <<used, imcr, req, copying>>
  BY DEF Start, MCD_startDma, initVars, mcdVars
<1> HIDE DEF c, i
<1>5. <<r, i>> \in (Reqs \cup {None, Copier}) \X (Slots \cup {ALWAYS})
  BY <1>3
<1>6. TypeOK'
  BY <1>1, <1>4, <1>5 DEF TypeOK, Status
<1>7. \A q \in Reqs : /\ at'[q] \in Seated <=> at[q] \in Seated
                      /\ at'[q] \in Holding <=> at[q] \in Holding
                      /\ at'[q] = "running" <=> (q = r \/ at[q] = "running")
  BY <1>1, <1>4 DEF TypeOK, Seated, Holding
<1>8. ChannelsHeld'
  BY <1>1, <1>4, <1>7 DEF ChannelsHeld, TypeOK
<1>9. SlotsHeld'
  BY <1>1, <1>4, <1>7 DEF SlotsHeld, TypeOK
<1>10. \A d \in Channels : /\ d = c => task'[d] = <<r, i>>
                           /\ d # c => task'[d] = task[d] /\ en'[d] = en[d]
                           /\ req[d] # None => req[d] \in Reqs
                           /\ d # c => req[d] # r
  <2>1. \A d \in Channels : d # c => req[d] # r
    BY <1>1, <1>2, Clients DEF ChannelsHeld
  <2>2. \A d \in Channels : req[d] # None => req[d] \in Reqs
    BY <1>1 DEF TypeOK
  <2>3. \A d \in Channels : d = c => task'[d] = <<r, i>>
    BY <1>1, <1>4 DEF TypeOK
  <2>4. \A d \in Channels : d # c => task'[d] = task[d] /\ en'[d] = en[d]
    BY <1>1, <1>4 DEF TypeOK
  <2> QED
    BY <2>1, <2>2, <2>3, <2>4
<1>11. TaskOwner'
  BY <1>2, <1>4, <1>7, <1>10 DEF IInv, TaskOwner
<1>12. TaskSlot'
  BY <1>2, <1>3, <1>4, <1>7, <1>10 DEF IInv, TaskSlot
<1>13. PausedFrozen'
  BY <1>1, <1>4 DEF TypeOK, PausedFrozen
<1>14. TaskAlive'
  <2>1. \A d \in Channels : en'[d] /\ task'[d][1] # Copier =>
          req[d] = task'[d][1] /\ req[d] \in Reqs /\ (req[d] = r \/ at[req[d]] = "running")
    BY <1>1, <1>2, <1>4, <1>10 DEF IInv, TaskAlive, Running, TypeOK
  <2> QED
    BY <1>4, <1>7, <2>1 DEF TaskAlive, Running
<1> QED
  BY <1>6, <1>8, <1>9, <1>11, <1>12, <1>13, <1>14 DEF IInv

(* The end of a task: a frozen one is not killed without its client knowing. *)
LEMMA KillKeeps ==
  ASSUME IInv, NEW r \in Reqs, MCD_killDma(r)
  PROVE  IInv'
<1> DEFINE c == dma_get_channel(r)
<1>1. TypeOK /\ ChannelsHeld /\ SlotsHeld /\ PausedFrozen /\ at[r] = "running"
  BY DEF IInv, MCD_killDma
<1>2. \A d \in Channels : d # c => req[d] # r
  BY <1>1, ChannelFound, Clients DEF ChannelsHeld
<1>3. /\ en' = [d \in Channels |-> d # c /\ en[d]]
      /\ status' = [d \in Channels |-> IF d = c THEN "HALTED" ELSE status[d]]
      /\ at' = [at EXCEPT ![r] = "killed"] /\ UNCHANGED <<used, imcr, req, task, blocked, copying>>
  BY DEF MCD_killDma, initVars
<1> HIDE DEF c
<1>4. TypeOK'
  BY <1>1, <1>3 DEF TypeOK, Status
<1>5. \A q \in Reqs : /\ at'[q] \in Seated <=> at[q] \in Seated
                      /\ at'[q] \in Holding <=> at[q] \in Holding
                      /\ at'[q] = "running" => at[q] = "running"
  BY <1>1, <1>3 DEF TypeOK, Seated, Holding
<1>6. ChannelsHeld' /\ SlotsHeld'
  BY <1>1, <1>3, <1>5 DEF ChannelsHeld, SlotsHeld, TypeOK
<1>7. TaskOwner' /\ TaskSlot'
  BY <1>1, <1>3, <1>5 DEF IInv, TaskOwner, TaskSlot, TypeOK
<1>8. PausedFrozen'
  BY <1>1, <1>3 DEF TypeOK, PausedFrozen
<1>9. TaskAlive'
  <2>1. \A d \in Channels : en'[d] => en[d] /\ req[d] # r
    BY <1>2, <1>3
  <2>2. \A q \in Reqs : q # r => at'[q] = at[q]
    BY <1>1, <1>3 DEF TypeOK
  <2>3. \A d \in Channels : en[d] /\ task[d][1] # Copier => req[d] \in Reqs
    BY <1>1 DEF TypeOK, IInv, TaskAlive, Running
  <2> QED
    BY <1>3, <2>1, <2>2, <2>3 DEF IInv, TaskAlive, Running
<1> QED
  BY <1>4, <1>6, <1>7, <1>8, <1>9 DEF IInv

(* dma_free_initiator *)
LEMMA FreeInitiatorKeeps ==
  ASSUME IInv, NEW r \in Reqs, dma_free_initiator(r)
  PROVE  IInv'
<1> DEFINE i == dma_get_initiator(r)
<1>1. TypeOK /\ ChannelsHeld /\ SlotsHeld /\ at[r] = "killed"
  BY DEF IInv, dma_free_initiator
<1>2. \/ i \in Slots /\ used[i] = r
      \/ i = ALWAYS /\ \A s \in Slots : used[s] # r
  BY <1>1, SlotFound
<1>3. /\ used' = (IF i = ALWAYS THEN used ELSE [used EXCEPT ![i] = None])
      /\ at' = [at EXCEPT ![r] = "noinit"] /\ UNCHANGED <<imcr, req, mcdVars, copying>>
  BY DEF dma_free_initiator
<1> HIDE DEF i
<1>4. ALWAYS \notin Slots
  BY Clients DEF ALWAYS
<1>5. TypeOK'
  BY <1>1, <1>2, <1>3, <1>4 DEF TypeOK, mcdVars
<1>6. \A q \in Reqs : /\ at'[q] \in Seated <=> at[q] \in Seated
                      /\ at'[q] \in Holding <=> (at[q] \in Holding /\ q # r)
                      /\ at'[q] = "running" <=> at[q] = "running"
  BY <1>1, <1>3 DEF TypeOK, Seated, Holding
<1>7. \A s \in Slots : used'[s] = IF used[s] = r THEN None ELSE used[s]
  BY <1>1, <1>2, <1>3, <1>4, Clients DEF TypeOK, SlotsHeld
<1>8. \A s \in Slots : used[s] # None => used[s] \in Reqs
  BY <1>1 DEF TypeOK
<1>9. ChannelsHeld'
  BY <1>1, <1>3, <1>6 DEF ChannelsHeld, TypeOK
<1>10. SlotsHeld'
  <2>1. \A s \in Slots : used'[s] # None =>
          at'[used'[s]] \in Holding /\ imcr'[s] = used'[s] /\ s \in SlotsOf(used'[s])
    BY <1>1, <1>3, <1>6, <1>7, <1>8 DEF SlotsHeld
  <2>2. \A s1, s2 \in Slots : used'[s1] # None /\ used'[s1] = used'[s2] => s1 = s2
    BY <1>1, <1>7 DEF SlotsHeld
  <2>3. \A q \in Reqs : at'[q] \in Holding /\ (q \notin Careless \/ Assured(q)) =>
          \E s \in Slots : used'[s] = q
    BY <1>1, <1>6, <1>7 DEF SlotsHeld
  <2> QED
    BY <2>1, <2>2, <2>3 DEF SlotsHeld
<1>11. \A d \in Channels : req[d] # None => req[d] \in Reqs
  BY <1>1 DEF TypeOK
<1>12. TaskOwner' /\ TaskSlot'
  BY <1>1, <1>3, <1>6, <1>7, <1>11 DEF IInv, TaskOwner, TaskSlot, mcdVars
<1>13. PausedFrozen'
  BY <1>3 DEF IInv, PausedFrozen, mcdVars
<1>14. TaskAlive'
  <2>1. \A d \in Channels : en[d] /\ task[d][1] # Copier => req[d] \in Reqs
    BY <1>1 DEF TypeOK, IInv, TaskAlive, Running
  <2> QED
    BY <1>3, <1>6, <2>1 DEF IInv, TaskAlive, Running, mcdVars
<1> QED
  BY <1>5, <1>9, <1>10, <1>12, <1>13, <1>14 DEF IInv

(* dma_free_channel *)
LEMMA FreeChannelKeeps ==
  ASSUME IInv, NEW r \in Reqs, dma_free_channel(r)
  PROVE  IInv'
<1> DEFINE c == dma_get_channel(r)
<1>1. TypeOK /\ ChannelsHeld /\ SlotsHeld /\ at[r] = "noinit"
  BY DEF IInv, dma_free_channel
<1>2. \/ c \in Channels /\ req[c] = r /\ c # -1
      \/ c \notin Channels /\ c = -1 /\ \A d \in Channels : req[d] # r
  BY <1>1, ChannelFound, Clients
<1>3. /\ req' = (IF c = -1 THEN req ELSE [req EXCEPT ![c] = None])
      /\ at' = [at EXCEPT ![r] = "idle"]
      /\ UNCHANGED <<used, imcr, en, task, status, blocked, copying>>
  BY DEF dma_free_channel, initVars, mcdVars
<1> HIDE DEF c
<1>4. TypeOK'
  BY <1>1, <1>2, <1>3 DEF TypeOK
<1>5. \A q \in Reqs : /\ at'[q] \in Seated <=> (at[q] \in Seated /\ q # r)
                      /\ at'[q] \in Holding <=> at[q] \in Holding
                      /\ at'[q] = "running" <=> at[q] = "running"
  BY <1>1, <1>3 DEF TypeOK, Seated, Holding
<1>6. \A d \in Channels : /\ req'[d] = IF d = c THEN None ELSE req[d]
                          /\ req[d] # None => req[d] \in Reqs
                          /\ d # c => req[d] # r
  BY <1>1, <1>2, <1>3, Clients DEF TypeOK, ChannelsHeld
<1>7. ChannelsHeld'
  <2>1. \A d \in Channels : req'[d] # None => at'[req'[d]] \in Seated
    BY <1>1, <1>5, <1>6 DEF ChannelsHeld
  <2>2. \A q \in Reqs : at'[q] \in Seated /\ q \notin Careless => \E d \in Channels : req'[d] = q
    BY <1>1, <1>2, <1>5, <1>6 DEF ChannelsHeld
  <2>3. \A d, e \in Channels : req'[d] # None /\ req'[d] = req'[e] => d = e
    BY <1>1, <1>6 DEF ChannelsHeld
  <2> QED
    BY <2>1, <2>2, <2>3 DEF ChannelsHeld
<1>8. SlotsHeld'
  BY <1>1, <1>3, <1>5 DEF SlotsHeld, TypeOK
<1>9. TaskOwner' /\ TaskSlot'
  BY <1>1, <1>3, <1>5, <1>6 DEF IInv, TaskOwner, TaskSlot
<1>10. PausedFrozen'
  BY <1>3 DEF IInv, PausedFrozen
<1>11. TaskAlive'
  <2>1. \A d \in Channels : en[d] /\ task[d][1] # Copier => at[req[d]] = "running" /\ d # c
    BY <1>1, <1>2 DEF IInv, TaskAlive, Running
  <2>2. \A d \in Channels : en[d] /\ task[d][1] # Copier => req'[d] = req[d] /\ req[d] \in Reqs
    BY <1>1, <1>3, <2>1, <1>6 DEF TypeOK, IInv, TaskAlive, Running
  <2> QED
    BY <1>3, <1>5, <2>1, <2>2 DEF IInv, TaskAlive, Running
<1> QED
  BY <1>4, <1>7, <1>8, <1>9, <1>10, <1>11 DEF IInv

(* dma_memcpy takes channel 1, whoever uses it. *)
LEMMA CopyKeeps ==
  ASSUME IInv, CopyStart
  PROVE  IInv'
<1>1. TypeOK /\ ChannelsHeld /\ SlotsHeld /\ PausedFrozen /\ 1 \in Channels
  BY Clients DEF IInv
<1>2. /\ en' = [en EXCEPT ![1] = TRUE] /\ task' = [task EXCEPT ![1] = <<Copier, ALWAYS>>]
      /\ status' = [status EXCEPT ![1] = "IDLE"] /\ blocked' = blocked /\ copying' = TRUE
      /\ UNCHANGED <<used, imcr, req, at>>
  BY <1>1 DEF CopyStart, MCD_startDma, initVars
<1>3. TypeOK'
  BY <1>1, <1>2 DEF TypeOK, Status
<1>4. ChannelsHeld' /\ SlotsHeld'
  BY <1>1, <1>2 DEF ChannelsHeld, SlotsHeld
<1>5. \A d \in Channels : /\ d = 1 => task'[d] = <<Copier, ALWAYS>>
                          /\ d # 1 => task'[d] = task[d]
                          /\ req[d] # Copier
  BY <1>1, <1>2, Clients DEF TypeOK, None, Copier
<1>6. TaskOwner' /\ TaskSlot'
  BY <1>2, <1>5 DEF IInv, TaskOwner, TaskSlot
<1>7. PausedFrozen'
  BY <1>1, <1>2 DEF TypeOK, PausedFrozen
<1>8. TaskAlive'
  <2>1. \A d \in Channels : en'[d] /\ task'[d][1] # Copier => d # 1 /\ en[d]
    BY <1>1, <1>2, <1>5 DEF TypeOK
  <2> QED
    BY <1>2, <1>5, <2>1 DEF IInv, TaskAlive, Running
<1> QED
  BY <1>3, <1>4, <1>6, <1>7, <1>8 DEF IInv

(* Every step keeps the invariant. *)
LEMMA NextIInv == IInv /\ [Next]_vars => IInv'
<1> SUFFICES ASSUME IInv, [Next]_vars PROVE IInv'
  OBVIOUS
<1>1. ASSUME NEW r \in Reqs, dma_set_initiator(r) PROVE IInv'
  BY <1>1, SetInitiatorKeeps
<1>2. ASSUME NEW r \in Reqs, dma_set_channel(r) PROVE IInv'
  BY <1>2, SetChannelKeeps
<1>3. ASSUME NEW r \in Reqs, Start(r) PROVE IInv'
  BY <1>3, StartKeeps
<1>4. ASSUME NEW r \in Reqs,
             AskStatus(r) \/ MCD_continDma(r) \/ MCD_pauseDma(r) \/ MCD_resumeDma(r)
      PROVE  IInv'
  BY <1>4, ClientSteers
<1>5. ASSUME NEW r \in Reqs, MCD_killDma(r) PROVE IInv'
  BY <1>5, KillKeeps
<1>6. ASSUME NEW r \in Reqs, dma_free_initiator(r) PROVE IInv'
  BY <1>6, FreeInitiatorKeeps
<1>7. ASSUME NEW r \in Reqs, dma_free_channel(r) PROVE IInv'
  BY <1>7, FreeChannelKeeps
<1>8. ASSUME NEW c \in Channels, Finish(c) PROVE IInv'
  <2>1. /\ blocked # c /\ en' = [en EXCEPT ![c] = FALSE]
        /\ UNCHANGED <<used, imcr, req, at, task, status, blocked, copying>>
    BY <1>8 DEF Finish, initVars
  <2>2. TypeOK'
    BY <2>1 DEF IInv, TypeOK
  <2>3. PausedFrozen'
    BY <2>1 DEF IInv, TypeOK, PausedFrozen
  <2>4. \A d \in Channels : en'[d] => en[d]
    BY <2>1 DEF IInv, TypeOK
  <2>5. TaskAlive'
    BY <2>1, <2>4 DEF IInv, TaskAlive, Running
  <2> QED
    BY <2>1, <2>2, <2>3, <2>5, SteeringKeeps
<1>9. ASSUME CopyStart PROVE IInv'
  BY <1>9, CopyKeeps
<1>10. ASSUME CopyPoll PROVE IInv'
  <2>1. MCD_dmaStatus(1) /\ UNCHANGED <<used, imcr, req, at>> /\ copying' \in BOOLEAN
    BY <1>10 DEF CopyPoll, initVars
  <2> QED
    BY <2>1, StatusKeeps
<1>11. CASE UNCHANGED vars
  <2>1. TypeOK' /\ TaskAlive' /\ PausedFrozen'
    BY <1>11 DEF IInv, vars, TypeOK, TaskAlive, Running, PausedFrozen
  <2> QED
    BY <1>11, <2>1, SteeringKeeps DEF vars
<1> QED
  BY <1>1, <1>2, <1>3, <1>4, <1>5, <1>6, <1>7, <1>8, <1>9, <1>10, <1>11 DEF Next

(* The invariant holds in every reachable state. *)
THEOREM DmaInvariant == Spec => []IInv
<1> QED
  BY InitIInv, NextIInv, PTL DEF Spec

-----------------------------------------------------------------------------
(* All variables keep their types.                                           *)
THEOREM DmaTypes == Spec => []TypeOK
<1>1. IInv => TypeOK
  BY DEF IInv
<1> QED
  BY <1>1, DmaInvariant, PTL

(* However many clients compete for however many channels, each of them      *)
(* steers its own task, or a copy of dma_memcpy, or nothing if it ignored    *)
(* that it got no channel; and no task outlives its client's grant.          *)
THEOREM DmaOwnTask == Spec => []OwnTask
<1>1. IInv => OwnTask
  <2> SUFFICES ASSUME IInv PROVE OwnTask
    OBVIOUS
  <2>1. ASSUME NEW r \in Reqs, Running(r)
        PROVE  LET c == dma_get_channel(r)
               IN  IF c = -1 THEN r \in Careless ELSE task[c][1] \in {r, Copier}
    <3>1. \/ dma_get_channel(r) \in Channels /\ req[dma_get_channel(r)] = r /\ dma_get_channel(r) # -1
          \/ dma_get_channel(r) = -1 /\ (at[r] \in Seated => r \in Careless)
      BY ChannelFound, Clients DEF IInv
    <3>2. at[r] \in Seated /\ r # None
      BY <2>1, Clients DEF Running, Seated
    <3> QED
      BY <2>1, <3>1, <3>2 DEF IInv, TaskOwner, Running
  <2>2. ASSUME NEW c \in Channels, en[c], task[c][1] # Copier
        PROVE  Running(task[c][1]) /\ dma_get_channel(task[c][1]) = c
    <3> DEFINE r == task[c][1]
    <3>1. req[c] = r /\ Running(r)
      BY <2>2 DEF IInv, TaskAlive
    <3>2. r \in Reqs
      BY <2>2 DEF IInv, TaskAlive
    <3>3. dma_get_channel(r) \in Channels /\ req[dma_get_channel(r)] = r /\ r # None
      BY <3>1, <3>2, ChannelFound, Clients DEF IInv
    <3> QED
      BY <3>1, <3>3 DEF IInv, ChannelsHeld
  <2> QED
    BY <2>1, <2>2 DEF OwnTask
<1> QED
  BY <1>1, DmaInvariant, PTL

(* If every client that ignores the result of dma_set_initiator is assured   *)
(* of a slot, as the FEC driver's are by taking theirs without a look, a     *)
(* task is always triggered by its own device.                               *)
THEOREM DmaOwnTrigger ==
  ASSUME \A r \in Careless : Assured(r)
  PROVE  Spec => []OwnTrigger
<1>1. IInv => OwnTrigger
  <2> SUFFICES ASSUME IInv, NEW c \in Channels, req[c] # None, at[req[c]] = "running",
                      task[c][1] = req[c]
               PROVE  task[c][2] # ALWAYS /\ imcr[task[c][2]] = req[c]
    BY DEF OwnTrigger, Running
  <2>1. task[c][2] \in Slots /\ used[task[c][2]] = req[c]
    BY DEF IInv, TaskSlot
  <2>2. task[c][2] # ALWAYS
    BY <2>1, Clients DEF ALWAYS
  <2>3. imcr[task[c][2]] = req[c]
    BY <2>1 DEF IInv, SlotsHeld
  <2> QED
    BY <2>2, <2>3
<1> QED
  BY <1>1, DmaInvariant, PTL

(* A task that MCD_pauseDma has reported as paused stays frozen whatever the *)
(* other clients do.                                                         *)
THEOREM DmaPausedFrozen == Spec => []PausedFrozen
<1>1. IInv => PausedFrozen
  BY DEF IInv
<1> QED
  BY <1>1, DmaInvariant, PTL
=============================================================================
