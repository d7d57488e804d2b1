# A model of BaS_gcc, the firmware of the FireBee

BaS_gcc (`src/BaS_gcc`) is the boot firmware of the FireBee, an Atari-compatible computer with a
ColdFire MCF5474 and an FPGA. It initialises the hardware, starts the operating system and stays
resident underneath it: it serves TLB misses and interrupts, gives the operating system access to
the SD card (XHDI), and exports drivers (DMA, memory for DMA buffers, MMU, PCI, framebuffer) through a
table. A small network stack (Ethernet, ARP, IP, UDP, TFTP, BOOTP) is part of it, and so are USB
host drivers and a flash updater.

This directory holds TLA+ modules for the parts of the firmware in which order, interruption and
failure matter, TLC configurations that check them on small instances, and proofs of the
central invariants that hold for every size. `PROJECT.json` lists components, runs, the source
lines each definition models, hazards and theorems.

Contents: 1 inventory; 2 plan; 3 modules and how they correspond to the code; 4 runs, bounds,
fairness; 5 proofs; 6 divergences; 7 what is not modelled; 8 how to run.

## 1. Inventory

The firmware has no threads. What runs "at once" is: the **foreground** (boot code, a loader, or the
operating system calling in), **interrupt handlers** that interrupt it and, at priority 7, exclude
everything else, and the **hardware** (DMA engine, Ethernet MAC, USB controllers, SD card, other
hosts). Foreground and handlers share memory; the only lock is raising the priority with
`set_ipl(7)`. A TLB miss is an interrupt, too: it can come between any two instructions.

| Component | Files (`src/BaS_gcc/`) | State | Operations | Works with | What is hard | What makes it correct |
|---|---|---|---|---|---|---|
| Network buffers | `net/queue.c`, `net/nbuf.c` | queues of buffers: free, rx ring, tx ring | alloc, free, add, remove, flush | FEC, TFTP, ARP (buffers are handed up and back) | shared between foreground and receive interrupt; pool runs empty | a buffer is in exactly one place |
| FEC driver | `net/fec.c`, `net/fecbd.c` | two descriptor rings shared with the DMA, three indices, `DIPR` | `fec_send`, `fec_rx_frame`, `fec_tx_frame`, setup, stop | DMA tasks and their interrupt, stack handlers called from the interrupt | `fec_send` unprotected and re-entered from the interrupt; ring and queue must agree; lost wake-ups | rings stay in step with queues, frames in order, every frame served |
| TFTP client | `net/tftp.c` | one connection record, queue of received blocks, retry counters | `tftp_read`, `tftp_in_char`, `tftp_end`, `tftp_write`, `tftp_handler` | UDP, buffers, timer; remote servers | packets lost, repeated, late; handler runs between any two steps of the reader | file returned whole and in order; success only if true; calls end |
| IP output, ARP, timer | `net/ip.c`, `net/arp.c`, `net/net_timer.c` | ARP table, one timer | `ip_send`, `arp_resolve`, `arp_handler`, timer interrupt | FEC below, UDP above | pointer into a table that interrupts change; busy waiting for interrupts | frame goes to the owner of the next hop; `ip_send` ends |
| UDP, BOOTP, interface table | `net/udp.c`, `net/bootp.c`, `net/nif.c` | port table, protocol table | bind, free, look up, send | IP, TFTP | full table is silent; stale handler of a freed port; binding is not protected from datagrams | a datagram reaches the handler bound to its port, or none |
| PHY drivers | `net/am79c874.c`, `net/bcm5222.c` | none | register writes | FEC | hardware timing | - |
| Driver memory | `sys/driver_mem.c` | table of descriptors, free list, taken list, rover | alloc, free, longest, init, release | all drivers with DMA buffers | long sequences of splits and joins; descriptors run out | disjoint blocks inside the pool, nothing leaks |
| Multichannel DMA | `dma/dma.c`, `dma/MCD_*.c` | owner of each channel and initiator, task enable bits, status, one debug unit | set/get/free initiator and channel, start, status, continue, pause, resume, kill, `dma_memcpy` | FEC, drivers through `if/driver_vec.c`, microcode | few channels and shared slots; one breakpoint for all | a client steers its own task, triggered by its own device |
| SD card drive | `spi/mmc.c`, `spi/sd_card.c`, `xhdi/xhdi_sd.c` | `Stat`, `CardType`, request being split | initialise, read, write, XHDI read/write | SPI, card | any command or block fails; retries after a reset; kinds of card | success means transferred; no other sector touched |
| Interrupts | `sys/interrupts.c`, `sys/exceptions.S` | table of handlers | register, remove, dispatch | all drivers | filled once at start | one handler per cookie, the right one called |
| MMU | `sys/mmu.c` | two TLBs, page descriptors, registers of the search | miss handler, map, lock, unlock | operating system, drivers | misses during updates; registers shared with the miss handler; number of TLB entries | locked pages stay mapped, instructions come to their end |
| Caches | `sys/cache.c` | - | flush, invalidate | DMA clients | - | - |
| System start | `sys/startcf.S`, `sys/sysinit.c`, `sys/init_fpga.c`, `sys/BaS.c`, `sys/fault_vectors.c` | registers | straight-line setup | everything | - | - |
| USB core, class drivers | `usb/*.c` | device table, addresses, hub ports | enumerate, hub events, transfers | host controllers | unplugging during enumeration | addresses unique |
| Host controllers | `pci/ohci-hcd.c`, `pci/ehci-hcd.c` | descriptor lists shared with hardware | submit, done queue, root hub | USB core, PCI, interrupts | lists changed while hardware walks them | every transfer completes once |
| PCI | `pci/pci.c`, `pci/pci_wrappers.S` | handles, resource windows, address of a configuration access, interrupt chain | scan, configure, access, hook, unhook, `irq5_handler`, `irq7_handler` | drivers of the operating system, interrupts | alignment of windows; accesses of two steps shared with the interrupt; chain changed while it is used | windows disjoint, accesses reach the function that was named, requests answered |
| S-records | `flash/s19reader.c`, `exe/basflash.c` | position in the file, memory, start address | check, copy, verify, start | FatFs | read errors that look like the end; damaged records | a program that is started is the one in the file |
| Flash programming | `flash/flash.c`, `nutil/s19header.c` | flash sectors | erase, program | - | no caller | - |
| I2C, SPI controller, keyboard/PIC | `i2c/i2c.c`, `spi/dspi.c`, `kbd/ikbd.c` | - | polled I/O, code tables | - | - | - |
| XHDI dispatch, driver vector, utilities | `xhdi/xhdi_interface.c`, `if/driver_vec.c`, `util/*` | none | tables of functions, formatting | - | - | - |
| Video, Radeon, x86 emulator, FatFs | `video/`, `radeon/`, `x86emu/`, `fs/` | - | - | - | third-party or mode tables | - |

Outside of BaS_gcc: the older CodeWarrior firmware (`src/BaS_codewarrior`), the FPGA
(`src/FPGA_quartus_GE`, `src/vhdl`), the PIC (`src/MLAB`) and stand-alone test programs (`src/BaS_gcc/tos`).

How the parts touch: an arriving frame is stored by the receive DMA; the DMA interrupt
(`dma_interrupt_handler`, priority 7) calls `fec_rx_frame`, which calls the protocol handler (ARP,
or IP, UDP and then `tftp_handler`) *inside the interrupt*, which may call `fec_send` and even wait for ARP.
The foreground calls `tftp_in_char` or `ip_send`, whose `fec_send` works on the same transmit ring.
Buffers come from the pool and, indirectly, from driver memory; DMA channels from the channel table. Drivers of the
operating system call DMA, driver memory, PCI and MMU through the table of `if/driver_vec.c`, and the PCI interrupt
handlers call them back.

The hazards of the code, each at its line, are in `PROJECT.json` under `hazards`, with the
properties that would notice them or the reason why none does yet.

## 2. Order of the work

What everything else rests on comes first, then what is hardest to test. Each module was written with the proofs in
mind: constants with named assumptions, one action per operation or unprotected step, invariants as conjunctions of
named parts, no recursive operators.

| Module | Built on | Checked | Proved for all sizes |
|---|---|---|---|
| `FecDriver` | - | `fec_answers`, `fec_single` | typing, receive ring, transmit queue, buffers conserved, frames in order |
| `Tftp` | - | `tftp_transfer`, `tftp_ends` | files in order and whole, acknowledgements, uploads |
| `Arp`, `Udp` | Udp composes Arp, its timer and the clients of UDP | `udp_clients` | typing, ARP table, frames reach their next hop, look-up, reachability, Udp implements Arp |
| `Heap`, `DriverMem` | DriverMem implements Heap | `mem_alloc` | DriverMem implements Heap, lists well formed, blocks disjoint |
| `DmaChannels` | - | `dma_share` | tasks, frozen channels, trigger slots |
| `SdCard` | - | `sd_any` | data read and stored, other sectors |
| `Mmu` | - | `mmu_tlb` | locked entries bounded, locked pages stay, driver buffers uncached |
| `SRecord` | - | `srec_load`, `srec_integrity` | all four safety properties |
| `Pci` | - | `pci_bus` | list of handles, windows, configuration accesses, interrupt chain |

All safety properties of the runs are proved. What would come next: the USB hub and host controllers, if the firmware starts to use them.

Definitions whose comment begins with "mutant" are deliberately wrong variants of the definition
that follows them: substituted for it they make one of the properties fail, which shows that the property
depends on it. No specification uses them.

## 3. The modules

### FecDriver (`MCFecDriver`, `FecDriver_proofs`)

State: `freeQ`, `txQ`, `rxQ` are the `nbuf_queue`s; `RxBD`, `TxBD` the descriptor rings with the ready/empty bit and
the buffer the `data` pointer leads to (buffer and data area are one value; a frame's contents is only its kind,
i.e. what the stack will do with it); `iRxbd`, `iTxbd_new`, `iTxbd_old` the indices; `rxDma`, `txDma`
the two tasks; `DIPR` the pending bits; `isr` and `snd` the program counters of the two contexts; `app` the buffers
in TFTP's queue; `lost` the buffers that the code forgets: those of ICMP packets (`ip.c` 304), of packets for `bootp_handler` (`bootp.c` 84-114) and of TFTP packets from a port that is not
the server's (`tftp.c` 174-181, 240-247); `up` whether the port is started.

Granularity: `nbuf_*` raise the priority, so each is atomic. The statements of `fec_send` and
`fecbd_tx_alloc` that touch shared memory are steps of their own (`TxAllocCheck`, `TxAllocIncr`, `SendQueue`,
`SendData`, `SendReady`, `SendContinue`). `iTxbd_new` is not volatile, so the increment may use the value
loaded by the check or load it again: `TxAllocIncr` allows both. An iteration of `fec_rx_frame` or
`fec_tx_frame` works on a descriptor that the DMA has given back and is one step. A frame's handler runs inside
the iteration; an answer is sent by `fec_send("isr")` before the loop goes on.
The microcode (`RxDmaFrame`, `RxDmaHalt`, `TxDmaFrame`, `TxDmaHalt`) is external: a task that meets an unready
descriptor disables itself and is enabled by "continue". `fec_eth_setup` and `fec_eth_stop` rebuild and empty everything.

### Tftp (`MCTftp`, `Net_proofs`)

`tcxn` is the connection record (`file`-contents are blocks in `queue`; pointers into a block are `rem_bytes`). `pc`
is the foreground's position; each action between two waits or unprotected accesses is one
step, and `tftp_handler` may run between any two of them. A wait loop is one state with two exits: the answer is seen, or
the timer has expired; the order in which the code tests `open` and `error` after the loop is kept. The network is a
set of packets from which a packet may be taken once or many times, or be lost; servers open a transfer per
request they see, on a port of their own, retransmit at will and may give up. `FusedRemove` is a build parameter:
whether `q->head = oldest->next` in `queue_remove` is one (memory to memory) instruction or a load and a store.

### Arp, Udp (`MCUdp`, `Net_proofs`)

`Arp`: `table` has longevity, protocol address and hardware address; an address is the set of its one bits, so that `&` in
`ip_resolve_route` is intersection. The search of the table is a step per slot, since the receive interrupt may
change it meanwhile; `Copy` is the moment when the returned pointer is read, and `perm` in `ctx` is history: whether the entry was
permanent when it was found. While the interrupt context is inside `ip_send` neither
the foreground, the timer nor other frames are served.

`Udp` puts the clients on top of it: `ports` is `udp_port_table`, `fg` the foreground's call (`Open` is `tftp_read` or `tftp_write` up to the open
connection, `Acknowledge` any packet of an open transfer, `End` is `tftp_end`, `Leak` the return of `tftp_write` without a buffer,
`bootp_request` itself). The two stores of `udp_bind_port` are two steps. Sending is Arp's `ip_send("main")`, and `tftp_read` waits for the same
timer as `arp_resolve`. `Datagram` is `udp_handler` in the receive interrupt: `tftp_handler` may note an answer or send one with
`ip_send("isr")`. What `tftp_handler` makes of blocks is in Tftp. Every step of Udp is a step of Arp or leaves Arp's variables alone.

### Heap, DriverMem (`MCDriverMem`, `DriverMem_proofs`)

`Heap` is what callers may rely on: blocks are granted where there is room, refused only without room or when the bookkeeping is full,
and given back. `DriverMem` is the code: descriptors `md`, the address-ordered free list `mfl`, the set `mal` of taken
parts, the `rover` of the next-fit search, splitting and joining with the identity of each descriptor kept, since
`xmfreblk` treats index 0 specially. `Refines` states that DriverMem implements Heap with
`live` = the parts on `mal`.

### DmaChannels (`MCDmaChannels`, `DmaChannels_proofs`)

`used`, `imcr` (initiator slots), `req` (channel owners), `en`, `task`, `status`, `blocked` (the channel the debug unit
stops). A client walks through initiator, channel, start, use, kill, release, in the order of `fec_rx_start`/`fec_rx_stop`
(`at`), and clients interleave. A client that looks at the results stays where it is when an initiator or a channel is refused, and may ask again; a `Careless` one goes on without, as `fec_rx_start` and `fec_tx_start` do: its
`MCD_startDma(-1)` and all later calls for channel -1 change nothing. `Choices` is the table of slots per requestor. The interrupt side is in FecDriver.

### SdCard (`MCSdCard`, `SdCard_proofs`)

`xhdi_read_write` splits a request into chunks (`Transfer`, `Advance`, `Retry`) on top of `disk_read`, `disk_write` and
`disk_initialize`. A disk function is one step whose outcomes are: all blocks, or the first m of them and an
error; which result is *reported* follows the code. The card has a kind, may be slow to initialise, and uses byte or block addresses; a SDHC card that was slow is `Misaddressed`.
The counts keep their widths: `Int16` is the conversion of the caller's count, `count` what the `uint8_t` of the disk functions leaves; `Half` and `Byte` are where these types end. `astray` is history: some call of the request went to a misaddressed card.
Written data is tagged with the request and the offset in the caller's buffer.

### Mmu (`MCMmu`, `Mmu_proofs`)

`dtlb` and `itlb` are the TLBs, least recently used entry first; `locked` the descriptors with the bit `locked`; `instr` the
instruction under way (page of the opword, page of the extension words, data pages), which starts again after each miss; `call` a
driver's lock or unlock; `regs` the address and entry that an unlock keeps in MMUAR, MMUTR and MMUDR. `MissFetch` and `MissData` are `mmutr_miss`, whose
two cases for instructions both map the page of the opword. A call is divided where misses matter: a round of the lock loop is two steps, `LockPage`
that marks the descriptor and `MapLocked` that maps the page with interrupts shut out; an unlock has
`UnlockAddress`, `UnlockSearch` and `UnlockWrite`. `Disturb` is what a miss in between leaves in the registers. Which entry a write with the
allocation bit set goes to is left open. Pages are all of one size. Three variables are history: `exposed` (held pages that were missed in the middle of an unlock), `doubled` (pages that were missed in the middle of their lock
call) and `crammed` (an entry was needed when all of the data TLB were locked).

### SRecord (`MCSRecord`, `SRecord_proofs`)

One file is read in three `pass`es; `line`, `ok` and `header` are the position, `ret == OK` and `found_block_header` of `read_srecords`; `mem` is memory,
`start` the caller's `start_address`. A record is its kind, whether its checksum is right, address and data. A read error (`ReadError`) ends a
pass as the end of the file does, after an optional line that was cut short. `Load` is the next file of the directory, `Return` the program's return, after
which memory is anything.

### Pci (`MCPci`, `Pci_proofs`)

The bus is a function from handles (8 * device + function) to cards; the run chooses one of several buses on one of the two boards. `ScanNext` is a round of
`pci_scan` with `pci_device_config` or `pci_bridge_config`; `descriptors` are the windows that were assigned, in units. After the scan drivers hook
(two stores, two steps), enable, disable and unhook: `Update` reads and writes the command register by configuration accesses, each of which is
`SetCar`, `ReadWord` or `WriteWord`, `ClearCar`. Between all these a PCI interrupt may run: `Irq`, `Cause` for each handle of the list, `CallChain`,
`IrqEnd`. Of the command register the model has the decode bits and the interrupt disable bit. `flag` is the edge port's flag on the LITE board and the request of the
FPGA on the FireBee.

## 4. Runs

| Run | Instance | States | Shows |
|---|---|---|---|
| `fec_answers` | 3 buffers, 1 receive and 3 transmit descriptors, every kind of frame | 2.5 million | `NbufConserved`: with the receive interrupt sending answers in the middle of the foreground's `fec_send`, no buffer is freed twice, owned twice or forgotten (other than by the three handlers that keep theirs: ICMP, BOOTP, a TFTP packet with a wrong transfer ID). `TxQueueCovers`: `fec_tx_frame` never frees the NULL of an empty queue |
| `fec_single` | 3 buffers, 2 + 2 descriptors, frames that are not answered | 0.25 million | one sender: `RxRingAligned`, `RxFifo`, `TxFifo` (queues, rings and DMA positions agree, no holes), and with fairness `RxServed`, `TxServed` (no lost wake-up) |
| `tftp_transfer` | 2 files of 2 blocks (last block empty or of one character), 2 server transfers, reading and writing | 1.7 million | `InOrder`, `CompletedWhole`, `AckedAreReceived`, `UploadStored` |
| `tftp_ends` | one file, one transfer, split `queue_remove` | 60 000 | `TransferEnds` |
| `udp_clients` | 2 ARP slots, 3 hosts, 2 ports, a transfer that keeps its port | 578 000 | `TableRight`, `SentToOwner` (ARP under the clients), `LookupRight`, `Reachable`, and with fairness `CallEnds` |
| `mem_alloc` | pool of 6 grains, 5 descriptors, requests of 1 to 3 | 66 000 | `ListsRight`, `Refines` |
| `dma_share` | 3 clients with overlapping slots, 2 channels, copies on channel 1, a careless client | 159 000 | `OwnTask`, `OwnTrigger`, `PausedFrozen` |
| `sd_any` | 6 sectors, chunks of 2, 2 requests of 1 to 6 sectors, 4 kinds of card, 3 failures | 467 000 | `ReadWhole`, `ChunksWhole`, `Bystanders`, `RequestEnds` |
| `mmu_tlb` | 7 pages, TLBs of 5 and 4 entries of which 2 are locked, 3 instructions, 3 calls | 256 000 | `LockedStays`, `OneLockEach`, `DriverUncached`, and with fairness `InstructionEnds`, `CallReturns` |
| `srec_load` | every file of up to 4 records out of 10 kinds (those of 3 and 4 begin with a header), every memory of 2 bytes, 2 read errors | 355 000 | `VerifiedHolds`, `OneFaultComplete`, `DamageStops`, and with fairness `GoodStarts` |
| `srec_integrity` | the same | violation | see section 6 |
| `pci_bus` | 3 buses with up to 3 functions, a bridge, a card with copies of itself; 2 interrupt slots; both boards | 450 000 | `ScanComplete`, `WindowsApart`, `ConfigIsolated`, `CallSafe`, and with fairness `Served` |

**Bounds.** *FEC*: the rings are the smallest that wrap (the firmware has 20 + 20 descriptors and 30 buffers). In the firmware
the buffers beyond the receive ring (10) are fewer than the transmit descriptors (20): the transmit ring is never filled
by buffers alone; `fec_answers` keeps that relation (2 spare, 3 descriptors). With 2 spare buffers both contexts can be inside
`fec_send` with a buffer each, which is all the concurrency there is; the free queue still runs empty, so that the
trashing branch of `fec_rx_frame` happens. *TFTP*: two blocks have a first, a last and a wrong block each; a repeated request
needs two server transfers. One foreground transfer per run (`MaxTransfers`): a packet of a transfer before can be taken for this one's (section 6), so that the properties hold of the first only. `TRIES` is at least 2 so that a retry and the end of the retries differ.
Packets in flight are unbounded but for their number of kinds. *ARP and UDP*: a slot fewer than hosts, so that entries are displaced, permanent ones too (the firmware has 10 slots, and a net may have more hosts); a remote destination goes to
the router, which is one of the hosts. Two tries of sending and two rounds of waiting, so that the next one and the last differ; one round of ARP (`ARP_TRIES`; the firmware: 3), since a second one repeats the same steps.
Two ports (the firmware: 5): a transfer that keeps its own (`MaxLeaks`) and the next transfer fill the table. *Driver memory*: 6 grains can hold up to 6 parts, one more than there are
descriptors, so both reasons for a refusal occur; a free part can have taken or free neighbours on either side. `MaxUse` bounds `use_count`.
*DMA*: more clients than channels, so that the careless one (`FEC1_TX`) is refused a channel, too; slot 21 and slot 29 are wanted by two requestors each. *SD card*: requests of half a chunk, a chunk and a half and two chunks, and of 5 and 6 sectors: a positive `int16_t` ends before 5 and a `uint8_t` has five values, so that the former stands for a multiple of 256 from 2^15 on and
the latter for a count one above it; slow SD2 and SDHC cards; three
failures exhaust the retries of one chunk; `MaxReqs` and `MaxFaults` are the bounds.
*MMU*: with the two pages of `mmu_init` and the two others that a call can begin with locked, the data TLB of 5 entries (the hardware: 32) has one left,
and a page that is missed in the middle of its lock call takes that one too: TLBs with room, TLBs that are full of locked entries and pages with two locked entries all occur. Page 0 is memory, 1 the I/O area, 2 the driver buffers, 3 has no translation,
4 and 5 are memory, 6 is the PCI window. One range has two pages, one is on page 5, one on the untranslated page 3. No range starts on page 0 (section 6). Three calls (`MaxCalls`) lock, unlock
and lock again. *S-records*: two bytes hold records that overlap, touch or are apart; two errors (`MaxFaults`) are one more than the properties allow. *PCI*: two devices that
interrupt, so that one may ask while the other is served; the number of functions is below `NUM_CARDS`, as the code needs.

Deadlock is checked except where the system may stop: `fec_answers` (after both contexts were given the same descriptor the interrupt's `fec_send` may
wait forever for a descriptor that nobody sends, section 6), the TFTP, SD card and S-record runs (the number of calls is bounded) and `pci_bus` (a jump to
address 0 is the end).
Buffers are symmetric in `fec_answers`; no run with liveness uses symmetry.

**Fairness.** FecDriver: the interrupt handler runs when it can (weak), the transmitter sends a frame that is ready (weak), and a
foreground `fec_send` once begun continues (strong: interrupts do not recur between every two of its instructions). Nothing makes
frames arrive or the foreground send. `TxServed` is conditional on `fec_rx_frame` leaving its loop again and again: the handler serves the receive
channel first and as long as there are frames. Tftp: the foreground runs (weak); its waits end because the timer does. Nothing is assumed of network or
servers. Udp: a call once begun continues although interrupts recur, and the timer interrupt is taken when the priority lets it (both strong, since both wait
while the receive interrupt runs); the handler goes on (weak); no host answers. SdCard: the code runs
(weak); `RequestEnds` does not need that failures stop, since the retries of a chunk are counted.
Mmu: the processor goes on with its instruction, and a driver's call goes on (weak). SRecord: the loader goes on (weak); it is not interrupted. Pci: a handler goes on and a pending request is
taken (weak); nothing is assumed of drivers.
DriverMem and DmaChannels have no liveness property.

## 5. Proofs

`FecDriver_proofs` proves, from `FecAssumption` alone (positive ring sizes, more buffers than receive descriptors), for every
number of buffers and descriptors and every set of frame kinds:

- `TypeCorrect`: `Spec => []TypeOK`
- `ReceiveAligned`: `Spec => []RxRingAligned`
- `TransmitCovered`: `Spec => []TxQueueCovers`
- `BuffersConserved`: `Spec => []NbufConserved`
- `ReceiveInOrder`: `Spec => []RxFifo`
- `TransmitInOrder`: `ASSUME OneSender PROVE Spec => []TxFifo`
- `Inductive`: `Spec => []IInv`, on which the others rest.

The inductive invariant is `IInv == TypeOK /\ Contexts /\ SendersHold /\ RxRingAligned /\ TxQueueAhead`. `Contexts` ties the
program counters together: the interrupt's `fec_send` is active exactly while the handler is in it, and a stopped port has nobody inside; without it,
`fec_eth_setup` would be possible in the middle of a send. `SendersHold` says that an active sender has a real buffer, which typing
of `txQ` after `SendQueue` needs. `RxRingAligned` is inductive because head and descriptor advance together and what is appended to the queue is what the
descriptor is given. `TxQueueAhead` strengthens `TxQueueCovers`: it also counts senders between `SendQueue` and `SendData`, since a buffer is queued one step before
its descriptor gets data. The proof has a step per action under which each conjunct is treated; counting descriptors with data rests on lemmas about the
cardinality of a set with one element more or less; alignment rests on lemmas about appending to the tail of a sequence and arithmetic modulo the ring size.

`NbufConserved` is inductive together with `IInv` and `Handed` (the buffer of a frame that is being answered is held only while the answer is sent). Its proof counts: the claims to a buffer are the
places it has on each queue, one for each sender that has not queued it yet, one each for the handler, the application and the lost buffers (`PartsAreClaims`; what `RxForget` and `RxStray` put among the lost ones is all that is ever there), and a step takes one unit from one part and gives it
to another; `TimesPush` and `TimesPop` say what appending and removing do to the places on a queue. `RxFifo` and `TxFifo` say the same of their rings: the filled, or ready, descriptors are a run from one index to
the other (`IsRun`, `FifoRuns`), which lengthens at its end or shortens at its beginning. `TxFifo` needs `OneSender` (no frame that arrives is answered from the interrupt): with two senders the ring has holes, section 6.
Between `fecbd_tx_alloc` and the ready bit the foreground's descriptor is then the one at the end of the run (`TxClaimed`).

`Net_proofs` proves, from `TftpAssumption` (positive sizes, last blocks shorter than a full one), for every set of files, block size, number of blocks, set of servers and number of tries:

- `AcknowledgedLate`: `ASSUME OneTransfer PROVE TftpSpec => []AckedAreReceived`
- `UploadKept`: `ASSUME OneTransfer PROVE TftpSpec => []UploadStored`
- `ReturnedInOrder`: `ASSUME OneTransfer, FusedRemove PROVE TftpSpec => []InOrder`
- `CompletedIsWhole`: `ASSUME OneTransfer, FusedRemove PROVE TftpSpec => []CompletedWhole`

`OneTransfer` (the first transfer after the start) is needed because all transfers use one client port: a packet of an earlier transfer can be taken for one of this one, and the properties are false of a second one (section 6).
`FusedRemove` is needed because a block that is queued between the load and the store of `queue_remove` is lost. The first two theorems hold for both forms of `queue_remove`.
The invariant of the first two is `Base == TypeOK /\ Phase /\ Packets /\ Servers /\ Queued /\ Uploading`. `Packets` says of each packet on its way what it may still cause: an acknowledgement of the client names a block it has
received, a block of the client is not ahead of the one being sent, what a server sends is of the file that was asked for and not ahead of that server. As any of them may arrive at any time, that is all the network can be relied on for. `Servers` says that no
server is ahead of the client, or, writing, that the one the client talks to is not behind. The other two need `Reading`, which adds that the queue holds consecutive blocks that end before `exp_blocknum` (`Consecutive`), that what was returned is
a beginning of the file (`Returned`), and how long that beginning is at each place of `tftp_in_char` (`Progress`): the characters before the block the foreground is at, less what is left of it.

`DriverMem_proofs` proves, from `DriverMemAssumption` (positive sizes, requests no longer than the pool), that the allocator is such a heap, for every pool and number of
descriptors: `DriverMemRefines`, `Spec => Refines`, and with it `DriverMemListsRight`. The invariant (`DriverMemInvariant`) says that the owned descriptors divide the pool without gap
or overlap and the one at index 0 starts it (`Divided`), that each is on exactly one list (`Linked`), that free parts are listed by address (`Sorted`), that the rover is one of them
(`RoverOn`), and that no free part touches the next (`AllApart`). The last is what a refused request rests on: room that no single free part has would have to continue in the next part
(`NoRoom`). A request refused for want of a descriptor is answered by counting: each descriptor stands for a block or for a gap of its own (`AllUsed`). There is a lemma per operation on the
lists: `Joined` and `JoinKeeps`, `Inserted`, `TookWhole`, `DidSplit`; `Visits` says that the search from the rover comes by every free part; `Freed` composes the insertion with the two joins.
`HeapSeparate` says of `Heap`, from no assumption at all, that the blocks callers hold are disjoint and inside the pool; with the refinement, `DriverMemSeparate` says so of `driver_mem_alloc`.

`Net_proofs` also proves of Arp and Udp, from `ArpAssumption` and `UdpAssumption` (positive sizes, a gateway among the hosts):

- `ArpTableRight`: `Spec => []TableRight`, by `ArpInv == TypeOK /\ RoundsLeft /\ TableRight`: the slot that `arp_merge` writes is the one that has the address, if
  there is one;
- `UdpImplementsArp`: `UdpSpec => Spec`: the clients use the ARP table, `ip_send` and the timer as Arp says; with it `UdpTableRight`;
- `UdpTypesHold`, `UdpLookupRight`, `UdpReachable`, by `UdpInv == UdpTypes /\ FgSound /\ EntriesSound /\ BootpOnce /\ Held`. `EntriesSound` says that an entry in use has the handler of its port but for
  the one being bound. `BootpOnce` and `Held` count: BOOTP has one entry, during its call only, so that a table without a free entry at `udp_bind_port` is full of transfers'
  entries, which have the port that a new transfer binds;
- `ArpSentToOwner` and with it `UdpSentToOwner`, for any number of hosts and slots: the slot that was found still has its host's address when it is copied, unless it was `Displaceable`: no slot empty, and the
  entry temporary or in the last slot. `MergeKeeps` says that `arp_merge` gives no other entry to another host, that entries keep their longevity and that a full table never has an empty slot again; `CopyRight` is the
  invariant that follows.

`SRecord_proofs` proves, from `SRecordAssumption` (records lie in memory, a line that was cut short has a wrong checksum), `SRecordTypes`, `SRecordVerified`,
`SRecordDamage` and `SRecordComplete`: the four safety properties of `srec_load` for every memory, set of files and number of loads and errors. The inductive invariant `IInv` (in `SRecord`) says what
the passes have established so far: `CleanInv` and `DataInv` and `StartInv` distinguish by pass and by whether the one read error has already happened, because it is
another pass than the disturbed one that has seen the rest of the file.

`Pci_proofs` proves, from `PciAssumption` (handles from 80 on, 1 to `NUM_CARDS` - 1 functions), `PciInvariant`, `PciCallSafe` and `PciIsolated`, for every bus, board and number of slots. In
the invariant `CarOwned` says that an enabled PCICAR names the function of the access under way (handlers leave it disabled), which gives `ConfigIsolated`; `Disabled` says that
a function whose driver has not enabled its interrupt cannot pull the line, unless one of its accesses was diverted; with `HooksSound` this gives `CallSafe`.
The scan has invariants of its own. `PciScanComplete` rests on `ListRight`: the list holds the functions whose rank, the number of functions before them, is below the index; when no function has the rank of the
index all are listed, because the first one left out would have that rank (`AllRanked`). Its hypothesis `GhostsUnannounced` says that cards show copies of themselves exactly at the functions their header does
not announce. `PciWindowsApart` rests on `TableRight`, which is kept by each request of each function (`AssignLaid`): what divides the sizes of all windows of a space divides the next address (`Divided`), so that a size
that is no larger than those before it is aligned there already and alignment skips nothing; therefore the next address lies behind every window up to which the sizes never grew (`Behind`). Its hypothesis `PowersOfTwo`
says that of two sizes one divides the other and that sizes divide the addresses windows begin at; base address registers can ask for nothing else. That the windows of a function, defined by recursion over its
requests, exist and are built request by request (`PlaceSteps`, `PlaceLaid`) is shown by a least counterexample instead of induction.

`DmaChannels_proofs` proves, from `DmaAssumption` (known requestors, at least two channels), `DmaInvariant`, `DmaTypes`, `DmaOwnTask` and `DmaPausedFrozen` for any set of clients and any number of
channels. `ChannelsHeld` and `SlotsHeld` say that a client has at most one channel and one slot, that it has them while it runs unless it ignored a refusal, and that a slot in use is still multiplexed to its
holder; `TaskOwner` and `TaskSlot` tie the task on a channel to its client and its client's slot, and `TaskAlive` says that a task which is enabled is that of the running client of its channel, or a copy. `DmaOwnTrigger` has a hypothesis of its own: every client that ignores the result of
`dma_set_initiator` is `Assured` of a slot. The three requestors of the FEC driver that take theirs without a look are (lemma `Table`: nobody else has their slots); `FEC1_TX` is as long as
not all of slots 21, 25 and 31 are wanted by others.

`SdCard_proofs` proves `SdInvariant`, `SdReadWhole`, `SdChunksWhole` and `SdBystanders` for any number of sectors, requests and failures, all counts of 16 bits and all kinds of cards, slow ones included. The only hypothesis beside
`SdAssumption` is that chunks have more than one sector (63 in the code). What the code does not deliver is named in the properties: a count from 2^15 on gets `count % 256` sectors (`Got`), and a SDHC card that was
slow is written at 512 times the sector number. The invariant says that a request in progress is the end of what was asked for, from a whole number of chunks on, or all of it when its count has become negative
(`Progress`), that only SDHC cards are addressed by sectors (`Addressed`), and that what counts as transferred is (`ReadSoFar`, `StoredSoFar`): a chunk that is tried again may be partly stored already, with
the same data.

`Mmu_proofs` proves, from `MmuAssumption` (no page is mapped twice by `mmu_init`, no code on the pages it maps in another mode than their descriptor has: their `execute` is 0), for TLBs of any size, any pages, instructions, ranges and
calls, `MmuInvariant`, `MmuLocksBounded` (`OneLockEach`), `MmuLockedStays` and `MmuDriverUncached`. `LocksOf` counts the locked entries: each is of a page that calls have mapped (`Mapped`), of a page of `mmu_init` or of a page that was missed
in the middle of its lock call (`Others`), at most one for each of the two; the bound is then a matter of mapping entries to pages, first and second entry apart. The code limits the locked pages nowhere, and a miss that finds all entries locked
replaces one that must stay: `LockedStays` and `DriverUncached` hold until that has happened (`crammed`, which once true stays so: `CrammedStays`). Before it, `Fill` never takes a locked entry (`KeepsLocked`), and touching entries
only moves them (`ComesFrom`; the order of use is compared by rank). `HeldStay` and `ModesStay` are the two properties without that condition. `RegsApart` is what the write back of an unlock needs: the registers name no page that must stay, except where a miss exposed it. `SpecialStay` says that the
locked entries of the driver buffers are never replaced, so that the descriptor's mode is never loaded beside them.

Every safety property of a passing run is stated by a theorem. Out of the prover's reach and left to TLC: liveness under
fairness (`RxServed`, `TxServed`, `TransferEnds`, `CallEnds`, `RequestEnds`, `InstructionEnds`, `CallReturns`, `GoodStarts`, `Served`) and `ENABLED`; the library's induction rules, in whose place the proofs take a least counterexample; modules with `RECURSIVE` operators, of which there are none here.

## 6. Divergences

One run is expected to find a violation:

- `srec_integrity`: the first pass is there to "check for inconsistencies" (`s19reader.c` 397, 315), but the result of the callback overwrites that of the checksum and of the order of records
  (259): a data record with a wrong checksum passes. What holds nevertheless is `OneFaultComplete` and `DamageStops`.

Some definitions state what a comment or message in the code says and do not hold; they are in the modules, no run has them, and each is seen to fail by giving it to TLC:

- `JustTransmitted` (FecDriver; as an action property of `fec_single`): `fec_tx_frame` takes a descriptor with data and without the ready bit for one that was
  sent. `fec_send` writes the data pointer (`fec.c` 1096) before the ready bit (1098): a transmit interrupt in between
  frees a buffer "that was just transmitted" (`fec.c` 1019) which was not, and clears the pointer.
- `UploadWhole` (Tftp; in `tftp_transfer`): after the last retry `tftp_write` leaves its loop without an error and reports "TFTP upload successful" (`tftp.c` 466).
- `WriteWhole` (SdCard; in `sd_any`): `disk_write` of one sector reports success although the card refused the data block, so XHDI does not retry.
  `ChunksWhole` is what does hold: chunks of several sectors.
- `LockedUntilUnlocked` (Mmu; in `mmu_tlb`): a miss between the steps of an unlock overwrites the registers with the entry of the page that was missed, which is then unlocked.
  `LockedStays` names this exception.

Further behaviour that the models have and that disagrees with a comment or an evident intention, not kept as runs:

- A packet with a wrong transfer ID is answered with an error and its own buffer is never freed (`tftp.c` 181, 247); nor is that of an ICMP packet (`ip.c` 304) or of any packet for BOOTP (`bootp.c` 84-114). Ten such
  packets (30 buffers, of which the receive ring keeps 20) empty the free queue until the port is set up again, and every frame after them is trashed.
- Both contexts can be given one transmit descriptor by `fecbd_tx_alloc` (`fecbd.c` 207 is not protected); the ring then has a
  hole at which the transmitter stops until the ring wraps. `NbufConserved` and `TxQueueCovers` survive this.
- With `queue_remove` compiled to a load and a store, a block that `tftp_handler` queues in between is dropped and never asked for
  again (`queue.c` 75); `InOrder` holds with one instruction and fails with two.
- Every transfer uses the same client port (`tftp.c` 500), so that a late DATA 1 of the transfer before is taken for the first block.
- `tftp_end` empties the queue before it frees the port (`tftp.c` 296-301): a block that arrives in between stays.
- With more hosts than ARP slots, a slot can be given to another host between `arp_resolve` and the copy of the address, and the frame is sent to that host; a full table of
  permanent entries loses the last of them (`arp.c` 141, 367). `SentToOwner` names the entries this can happen to.
- `ip_resolve_route` masks the destination with the *network bits* of the own address: remote addresses that have all of them are taken for local (`ip.c` 92).
- `MCD_killDma` of a paused task leaves the debug unit armed, and the channel's next task is stopped by it (`MCD_dmaApi.c` 739-740, against 700-703).
- `dma_memcpy` uses channel 1 whether or not it was granted to somebody (`dma.c` 598).
- `fec_rx_start` and `fec_tx_start` ignore a refused channel (`fec.c` 562-569, 878-885): the port counts as started, `MCD_startDma(-1)` answers `MCD_CHANNEL_INVALID`, and no frame ever moves.
- `fec_tx_start` ignores a refused initiator; the task then runs on the initiator that is always asserted (`fec.c` 864).
- `arp_resolve` waits for the timer interrupt. Called from `tftp_handler` in the receive interrupt, at priority 7, the wait never ends (`arp.c` 309); `CallEnds` names this wait.
- `udp_bind_port` stores the port before the handler: in between, the handler of the entry's last owner gets the datagram. Port 0 is found in every free entry (`udp.c` 61, 90).
- `bootp_request` frees its port before an answer can arrive (`bootp.c` 78).
- `mmu_map_data_page_locked` locks the first page of a range only, ignores that a page could not be mapped, and leaves its loop when the address has wrapped at the end of the address space; a
  range on page 0 that does not end on a page boundary never ends (`mmu.c` 903-914). `mmu_unlock_data_page` leaves the bit `locked` set, so that the next miss locks the page again.
- A miss of an interrupt handler between marking a descriptor as locked and mapping its page (`mmu.c` 909, 910) gives the page two locked entries; an unlock clears one, and the other stays for ever. Nothing limits the number of locked
  pages (FIXME at `mmu.c` 890); when all entries are locked, a miss replaces one of them.
- `mmu_init` maps the driver buffers uncached, their descriptors say cacheable (`mmu.c` 750); `DriverUncached` holds until a driver locks and unlocks such a page.
- An instruction across two pages of which the second is not mapped never ends: `mmutr_miss` maps the page of the opword again.
- `srec_execute` does not initialise `start_address` (`s19reader.c` 378); a file without an end record is started at whatever it holds. Two read errors, one in the copying and one in the verifying pass,
  start an incomplete program. The verify loop compares a byte of a record without data (345).
- The address of PCI windows advances by the size and not by what alignment skipped: registers of 1, 4 and 1 units give a third window inside the second (`pci.c` 860). Registers of 64 bits are not told apart. The first window is
  where the bridge's own register was put.
- A configuration access that a PCI interrupt divides goes to the I/O space, since the handler leaves PCICAR disabled (`pci.c` 378).
- `irq5_handler` calls the chain with the result of a comparison in place of a handle (`interrupts.c` 516): on the FireBee no hooked handler is ever called.
- `irq7_handler` clears the flag a second time at its end: a request that arrived meanwhile is lost, and so is that of a second function on the shared line (`interrupts.c` 631).
- A tenth function on the bus, or none at all, leaves the table of handles without its end mark (`pci.c` 1020).
- The loop around ACMD41 ends with the first answer, also "still initialising" (`mmc.c` 426-427): a slow SDHC card is then
  taken for one with byte addresses, and reads and writes go to 512 times the sector.
- `xhdi_read_write` takes a count of `uint16_t` into an `int16_t` and hands it on as `uint8_t` (`xhdi_sd.c` 122-133): a request of 2^15 sectors or more transfers `count % 256` of them in one call and
  reports `E_OK`; for a multiple of 256 it reports an error.

## 7. Not modelled, and why

Not used by the firmware: USB (`init_usb` returns at once, `sysinit.c` 584, and its call in `BaS.c` 565 is commented out), flash programming (`amd_flash_*` and `srec_flash` have no caller),
`isr_remove_handler`. Filled once before anything runs concurrently: the interrupt table and the protocol table of `nif.c`. Pure I/O, tables or straight-line code without
state a property could be about: PHY drivers, caches, system start, keyboard, SPI and I2C controllers, XHDI dispatch, driver vector, utilities,
video. Third-party: FatFs, x86 emulator, Radeon driver. Generated: DMA microcode (its effect on a ring is in FecDriver). Outside the
firmware: the CodeWarrior sources, FPGA, PIC, test programs. These, with the tables of FatFs, are most of the lines of the repository.

Inside the modelled parts: FecDriver leaves out register programming, statistics and the event log; Tftp the wrap-around of 16-bit block numbers, names and
modes; Arp and Udp input checks, checksums and `arp_remove` (no caller); Mmu access rights, address space identifiers and page sizes; SRecord the parsing of a line and the card's directory;
Pci the registers of the bridge, the calls that only answer "not supported", and status checks; DmaChannels progress queries and the data moved; SdCard `disk_ioctl`, the inquiry calls, the bits of a command
and that 512 times a sector of a misaddressed card can pass 2^32. `driver_mem_alloc(-1)`'s unprotected search (`driver_mem.c` 271) is atomic in DriverMem.

## 8. Running

    tlc -workers 2 -config MCFecDriver_single.cfg MCFecDriver
    tlapm FecDriver_proofs.tla

Each run of section 4 takes between a second and about two minutes on two cores; each module of proofs takes up to about five minutes.
