------------------------------- MODULE SdCard -------------------------------
(* The SD card drive: xhdi_read_write of xhdi/xhdi_sd.c, which splits a      *)
(* request into chunks and retries each, on top of disk_read, disk_write and *)
(* disk_initialize of spi/mmc.c. Nothing runs concurrently; what is hard is  *)
(* that any command or data block may fail at any point of a request.        *)
(*                                                                           *)
(* The card is modelled from how mmc.c uses it. It may fail to answer a      *)
(* command or refuse a block MaxFaults times. The polling loops of           *)
(* disk_initialize last one second and outlive one failure.                  *)
EXTENDS Integers, FiniteSets

CONSTANTS
  Sectors,     \* sectors of the card
  Chunk,       \* sectors per call of the disk functions (63)
  Half,        \* the count from which an int16_t is negative (2^15)
  Byte,        \* the first count that a uint8_t has not got (256)
  Scale,       \* bytes in a sector (512)
  Requests,    \* set of <<op, count>> that callers of XHDI make
  Kinds,       \* the kinds of card that may be in the slot
  Slow,        \* kinds that may still initialise after the first ACMD41
  MaxReqs,     \* bound on the number of requests
  MaxFaults    \* bound on the number of failures

CardKinds == {"SDHC", "SD2", "SD1", "MMC"}

ASSUME SdAssumption ==
  /\ Sectors \in Nat \ {0} /\ Chunk \in Nat \ {0} /\ Scale \in Nat \ {0, 1}
  /\ Byte \in Nat /\ Half \in Nat /\ Chunk < Byte /\ Byte <= Half
  /\ Requests \subseteq {"read", "write"} \X (1..(2 * Half - 1))
  /\ Kinds \subseteq CardKinds
  /\ Slow \subseteq Kinds
  /\ MaxReqs \in Nat /\ MaxFaults \in Nat

max_retries == 3

VARIABLES
  Stat,      \* STA_NOINIT set or not
  CardType,  \* what disk_initialize took the card for
  card,      \* the card: its kind, and whether it has ended initialisation
  disk,      \* what is stored in each sector
  buf,       \* the caller's buffer, by sectors
  req,       \* the request: op, recno, s_count, the pointer into buf
  asked,     \* the request as the caller made it
  astray,    \* history: a call of the request went to a misaddressed card
  retries,
  pc,
  ret,       \* result of the last disk function
  result,    \* result of the last request
  reqs,      \* requests made
  faults     \* failures left

vars ==
  <<Stat, CardType, card, disk, buf, req, asked, astray, retries, pc, ret, result, reqs, faults>>
drive == <<Stat, CardType, card>>

Data == (0..MaxReqs) \X (0..(Sectors - 1))
Types == {"none", "SD1", "MMC", "SD2", "SD2_BLOCK"}
NoReq == [op |-> "read", recno |-> 0, count |-> 0, buf |-> 0]

Init ==
  /\ Stat = "ok" /\ CardType = "none"
  /\ card \in [kind : Kinds, ready : {FALSE}]
  /\ disk = [s \in 0..(Sectors - 1) |-> <<0, s>>]
  /\ buf = [i \in 0..(Sectors - 1) |-> <<0, 0>>]
  /\ req = NoReq /\ asked = NoReq /\ astray = FALSE
  /\ retries = 0 /\ pc = "boot" /\ ret = "ok" /\ result = "none"
  /\ reqs = 0 /\ faults = MaxFaults

Fails == faults > 0 /\ faults' = faults - 1
Works == UNCHANGED faults

-----------------------------------------------------------------------------
(* disk_initialize *)

Detected(type, ready) ==
  /\ CardType' = type
  /\ Stat' = IF type = "none" THEN "noinit" ELSE "ok"
  /\ card' = [card EXCEPT !.ready = ready]

(* CMD0, or CMD16 for an old card, is not answered as it should be. *)
NotDetected == Fails /\ Detected("none", FALSE)

(* CMD8 tells a SDv2 card. The loop around ACMD41 ends with its first answer, *)
(* whatever it says; CMD58 reports block addressing once the card is ready.   *)
DetectV2 ==
  /\ card.kind \in {"SDHC", "SD2"}
  /\ \E ready \in BOOLEAN :
       /\ ready \/ card.kind \in Slow
       /\ Detected(IF card.kind = "SDHC" /\ ready THEN "SD2_BLOCK" ELSE "SD2", ready)
  /\ Works

(* CMD8 went unanswered, so a SDv2 card is taken for an older one. Without   *)
(* HCS a SDHC card never ends its initialisation and CMD16 is refused.       *)
DetectV2AsOld ==
  /\ card.kind \in {"SDHC", "SD2"}
  /\ Fails
  /\ IF card.kind = "SDHC" THEN Detected("none", FALSE) ELSE Detected("SD1", TRUE)

(* Old cards are polled until they answer 0. *)
DetectOld ==
  /\ card.kind \in {"SD1", "MMC"}
  /\ Works
  /\ Detected(card.kind, TRUE)

(* ACMD41 went unanswered, so a SDv1 card is polled with CMD1, which it may *)
(* or may not accept.                                                       *)
DetectOldAsMMC ==
  /\ card.kind = "SD1"
  /\ Fails
  /\ Detected("MMC", TRUE) \/ Detected("none", FALSE)

disk_initialize ==
  NotDetected \/ DetectV2 \/ DetectV2AsOld \/ DetectOld \/ DetectOldAsMMC

(* A slow card ends its initialisation in its own time. *)
Warm ==
  /\ ~card.ready
  /\ CardType # "none"
  /\ card' = [card EXCEPT !.ready = TRUE]
  /\ UNCHANGED <<Stat, CardType, disk, buf, req, asked, astray, retries, pc, ret, result, reqs,
                 faults>>

(* sd_card_init, at startup. *)
Boot ==
  /\ pc = "boot"
  /\ disk_initialize
  /\ pc' = "idle"
  /\ UNCHANGED <<disk, buf, req, asked, astray, retries, ret, result, reqs>>

-----------------------------------------------------------------------------
(* disk_read and disk_write, for n sectors of the request *)

(* A card that is addressed in bytes gets sector * 512. *)
Address == IF CardType = "SD2_BLOCK" THEN req.recno ELSE req.recno * Scale

(* A SDHC card that was asked for its kind too early is taken for one that is *)
(* addressed in bytes.                                                        *)
Misaddressed == card.kind = "SDHC" /\ CardType # "SD2_BLOCK"

(* The sector in which the card starts, and how many it has from there on; it *)
(* refuses an address it has not got, and blocks behind its end.              *)
Start == IF card.kind = "SDHC" THEN Address ELSE Address \div Scale
Room == Sectors - Start
Accepted == card.ready /\ Room > 0

(* The first m of n sectors are read. *)
ReadBlocks(m) ==
  buf' = [i \in DOMAIN buf |->
            IF i \in req.buf..(req.buf + m - 1) THEN disk[Start + i - req.buf] ELSE buf[i]]

disk_read(n) ==
  /\ UNCHANGED disk
  /\ IF n = 0 \/ Stat = "noinit" \/ ~Accepted THEN ret' = "error" /\ Works /\ UNCHANGED buf
     ELSE \/ n <= Room /\ ReadBlocks(n) /\ ret' = "ok" /\ Works
          \/ n > Room /\ ReadBlocks(Room) /\ ret' = "error" /\ Works
          \/ \E m \in 0..(n - 1) : m <= Room /\ ReadBlocks(m) /\ ret' = "error" /\ Fails

WriteBlocks(m) ==
  disk' = [s \in DOMAIN disk |->
             IF s \in Start..(Start + m - 1) THEN <<reqs, req.buf + s - Start>> ELSE disk[s]]

(* Once CMD24 is accepted the result is "ok", even if the data block that *)
(* follows is not accepted.                                               *)
WriteSingle ==
  \/ WriteBlocks(1) /\ ret' = "ok" /\ Works
  \/ WriteBlocks(0) /\ ret' \in {"ok", "error"} /\ Fails

(* Mutant: the stop token decides the result. *)
WriteByStop(n) ==
  \/ n <= Room /\ WriteBlocks(n) /\ ret' = "ok" /\ Works
  \/ \E m \in 0..n :
       m <= Room /\ WriteBlocks(m) /\ ret' = (IF m = n THEN "error" ELSE "ok") /\ Fails

(* CMD25, the blocks and the stop token, each of which may fail. *)
WriteMultiple(n) ==
  \/ n <= Room /\ WriteBlocks(n) /\ ret' = "ok" /\ Works
  \/ n > Room /\ WriteBlocks(Room) /\ ret' = "error" /\ Works
  \/ \E m \in 0..n : m <= Room /\ WriteBlocks(m) /\ ret' = "error" /\ Fails

(* Mutant: the loop over the blocks runs once more. *)
WriteOneMore(n) ==
  /\ UNCHANGED buf
  /\ IF n = 0 \/ Stat = "noinit" \/ ~Accepted THEN ret' = "error" /\ Works /\ UNCHANGED disk
     ELSE WriteBlocks(n + 1) /\ ret' = "ok" /\ Works

disk_write(n) ==
  /\ UNCHANGED buf
  /\ IF n = 0 \/ Stat = "noinit" \/ ~Accepted THEN ret' = "error" /\ Works /\ UNCHANGED disk
     ELSE IF n = 1 THEN WriteSingle ELSE WriteMultiple(n)

-----------------------------------------------------------------------------
(* xhdi_read_write *)

(* The conversion to int16_t of a number that two of them can give. *)
Int16(x) == IF x < -Half THEN x + 2 * Half ELSE IF x >= Half THEN x - 2 * Half ELSE x

(* num_sectors is a uint16_t, which a negative count is not. *)
num_sectors ==
  IF req.count > Chunk THEN Chunk ELSE IF req.count < 0 THEN req.count + 2 * Half ELSE req.count

(* The disk functions take a uint8_t. *)
count == num_sectors % Byte

Request(op, r, n) ==
  /\ pc = "idle"
  /\ reqs < MaxReqs
  /\ asked' = [op |-> op, recno |-> r, count |-> n, buf |-> 0]
  /\ req' = [asked' EXCEPT !.count = Int16(n)]
  /\ astray' = FALSE
  /\ reqs' = reqs + 1
  /\ retries' = 0
  /\ buf' = [i \in DOMAIN buf |-> <<0, 0>>]
  /\ pc' = "transfer"
  /\ result' = "none"
  /\ UNCHANGED <<drive, disk, ret, faults>>

Transfer ==
  /\ pc = "transfer"
  /\ IF req.op = "write" THEN disk_write(count) ELSE disk_read(count)
  /\ astray' = (astray \/ Misaddressed)
  /\ pc' = "check"
  /\ UNCHANGED <<drive, req, asked, retries, result, reqs>>

(* Mutant: the next chunk goes to the start of the buffer. *)
AdvanceRecno ==
  /\ pc = "check" /\ ret = "ok"
  /\ req' = [req EXCEPT !.recno = @ + num_sectors, !.count = Int16(@ - num_sectors)]
  /\ retries' = 0
  /\ IF req'.count > 0 THEN pc' = "transfer" /\ UNCHANGED result
                       ELSE pc' = "idle" /\ result' = "E_OK"
  /\ UNCHANGED <<drive, disk, buf, asked, astray, ret, reqs, faults>>

Advance ==
  /\ pc = "check" /\ ret = "ok"
  /\ req' = [req EXCEPT !.recno = @ + num_sectors, !.buf = @ + num_sectors,
                        !.count = Int16(@ - num_sectors)]
  /\ retries' = 0
  /\ IF req'.count > 0 THEN pc' = "transfer" /\ UNCHANGED result
                       ELSE pc' = "idle" /\ result' = "E_OK"
  /\ UNCHANGED <<drive, disk, buf, asked, astray, ret, reqs, faults>>

(* Mutant: the retries are not counted. *)
RetryForever ==
  /\ pc = "check" /\ ret = "error"
  /\ disk_initialize
  /\ pc' = "transfer"
  /\ UNCHANGED <<disk, buf, req, asked, astray, retries, ret, result, reqs>>

(* disk_reset initialises the card again, after the last failure too. *)
Retry ==
  /\ pc = "check" /\ ret = "error"
  /\ disk_initialize
  /\ retries' = retries + 1
  /\ IF retries' < max_retries THEN pc' = "transfer" /\ UNCHANGED result
                               ELSE pc' = "idle" /\ result' = "ERROR"
  /\ UNCHANGED <<disk, buf, req, asked, astray, ret, reqs>>

Step == Boot \/ Transfer \/ Advance \/ Retry

Next ==
  \/ \E q \in Requests, r \in 0..(Sectors - 1) : r + q[2] <= Sectors /\ Request(q[1], r, q[2])
  \/ Step
  \/ Warm

Spec == Init /\ [][Next]_vars
FairSpec == Spec /\ WF_vars(Step)

-----------------------------------------------------------------------------
TypeOK ==
  /\ Stat \in {"ok", "noinit"}
  /\ CardType \in Types
  /\ card \in [kind : Kinds, ready : BOOLEAN]
  /\ astray \in BOOLEAN
  /\ disk \in [0..(Sectors - 1) -> Data]
  /\ buf \in [0..(Sectors - 1) -> Data]
  /\ retries \in 0..max_retries
  /\ pc \in {"boot", "idle", "transfer", "check"}
  /\ ret \in {"ok", "error"}
  /\ result \in {"none", "E_OK", "ERROR"}
  /\ faults \in 0..MaxFaults

Done(op) == pc = "idle" /\ result = "E_OK" /\ asked.op = op

(* The sectors that a request gets: what was asked for, but from 2^15 sectors *)
(* on the count is negative, so that one call is all there is, with what a    *)
(* uint8_t leaves of the count (xhdi_sd.c 122, 129, 133).                     *)
Got == IF asked.count < Half THEN asked.count ELSE asked.count % Byte

(* A read that reports success has filled the buffer with the sectors that   *)
(* were asked for (Got), in order, whatever failed and was retried between   *)
(* chunks, and no count or state has left its range. The exception is a SDHC *)
(* card that was slow and is addressed in bytes (mmc.c 426-431).             *)
ReadWhole ==
  /\ TypeOK
  /\ Done("read") /\ ~astray => \A i \in 0..(Got - 1) : buf[i] = disk[asked.recno + i]

(* A write that reports success has stored every sector of the buffer where  *)
(* it belongs ("Function fails if the data packet was not accepted").        *)
WriteWhole ==
  Done("write") /\ ~astray => \A i \in 0..(Got - 1) : disk[asked.recno + i] = <<reqs, i>>

(* The same for the sectors that go to the card in chunks of several: a      *)
(* chunk of which any block or the stop token failed is not reported as      *)
(* written, whatever was retried before or after it. One sector that is left *)
(* over by the last chunk, or by the uint8_t, goes with CMD24, see           *)
(* WriteWhole.                                                               *)
LeftOver(i) == i = Got - 1 /\ i % (IF asked.count < Half THEN Chunk ELSE Byte) = 0
ChunksWhole ==
  Done("write") /\ ~astray => \A i \in 0..(Got - 1) :
                                LeftOver(i) \/ disk[asked.recno + i] = <<reqs, i>>

(* No request changes a sector it was not asked to write, unless the card is *)
(* misaddressed, when it is the sectors at Scale times the number instead.   *)
Bystanders ==
  [][\A s \in DOMAIN disk : disk'[s] # disk[s] =>
       /\ asked.op = "write"
       /\ \/ s \in asked.recno..(asked.recno + Got - 1)
          \/ Misaddressed /\ s \in (req.recno * Scale)..(req.recno * Scale + count - 1)]_vars

(* Every request ends, with success or after max_retries failures of a chunk. *)
RequestEnds == pc = "transfer" ~> pc = "idle"
=============================================================================
