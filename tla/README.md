# Verification of the VLF gateway firmware

The firmware runs on an LPC1769. It receives records from sensor stations over
an AT86RF212 radio, keeps them in a ring of blocks on an SD card, and uploads
them in batches to a CouchDB server over lwIP. This directory holds TLA+ models
of its parts, TLC runs on small instances, and TLAPS proofs for every size of
ring, card, table and batch.

## The system

| part | source (under `src/src/`) | module |
|---|---|---|
| record store: index page, ring of blocks, batches | `memory/memory.c` | `Memory`, promise: `RecordStore` |
| SD driver | `memory/sd.c`, `sd_spi.c` | `Sd` |
| 64-bit clock | `sntp/time.c` | `Clock` |
| radio interface: two frame rings, command mailbox, interrupt handler | `radio/radio.c`, `radio_irq.c`, `rf212.c` | `Radif`, promise: `FrameQueue` |
| 802.15.4 header, frame buffer | `radio/ieee_frame.c`, `radio_functions.c` | `RadioFrame` |
| record frames and their acknowledgement | `frame_processor.c` | `Gateway` |
| upload: countdown, request in blocks, callbacks; life of a TCP control block | `upload.c`, `server_tcp.c`, `lwip/core/tcp.c`, `memp.c` | `Upload` |
| TCP, both directions | `lwip/core/tcp_out.c`, `tcp_in.c`, `tcp.c` | `TcpSend`, `TcpRecv`, `TcpSeq` |
| request text, credentials, answer | `http_tx.c`, `base64.c`, `http_rx.c` | `HttpTx`, `Base64`, `HttpRx` |
| Ethernet descriptor rings, PHY | `lwip/netif/lpc_emac.c`, `lpc_phy_lan8720.c` | `EmacRx` (promise: `EtherLink`), `EmacTx`, `Phy` |
| ARP, heap, timers | `lwip/netif/etharp.c`, `core/mem.c`, `core/timers.c` | `Etharp`, `Heap`, `Timeouts` |
| DHCP, DNS, SNTP | `lwip/core/dhcp.c`, `dns.c`, `sntp/sntp.c` | `Dhcp`, `Dns`, `Sntp` |

There are two levels of execution. The RIT interrupt (priority 31, every 500 us)
runs `net_service` and then `radio_service`; storing, uploading and all of lwIP
(`NO_SYS`) happen there, one call after another. `radio_irq` (priority 5)
preempts it, on a pin interrupt (EINT1) or on the software trigger (TIMER2). The
transceiver, the EMAC's DMA, the PHY, the network, the SD card and the power
supply act at any time. So the real concurrency is: RIT level against radio
handler against transceiver (`Radif`); driver against DMA (`EmacRx`, `EmacTx`);
callbacks of lwIP in the middle of other work, against peers and timers
(`Upload`, `TcpSend`, `TcpRecv`, `Dhcp`, `Sntp`, `Etharp`); calls on the store
against power failures and card faults (`Memory`, `Sd`).

Where a call cannot be interrupted by anything that shares its state, it is one
step. Where C functions call each other with callbacks in between (`Upload`,
`Dhcp`, `Sntp`, `Etharp`), each function is an operator from a state (a record)
to the state, or the set of states, it may leave, and the actions are what comes
from outside.

`Memory` implements `RecordStore`, `Radif`'s rings implement `FrameQueue`;
`Gateway` composes the two abstract specifications with `frame_processor.c`, the
sensors and the radio link, to say what becomes of a record on its whole way.
`Sntp` composes `Dns`. The others share no variables; MC modules put several of
them into one run by choosing, at the start of a behaviour, the part that moves
(`part`), since interleaving them would show nothing more.

## Runs

| run | module | shows |
|---|---|---|
| `records` | `MCRecords` | the store: nothing accepted is lost, unread blocks are kept, saved indexes suffice, `RecordStore` is implemented; the radio: both rings implement `FrameQueue`, the callback's frame is stable, no edge of the pin is lost, a waiting frame always has an interrupt due; a frame written to the transceiver reads back as it was sent |
| `devices` | `MCStore` | torn index pages are exposed; a power failure takes back at most 2*(Stride-1) records; pending blocks are uploaded in the end; the SD driver reads back what it wrote and returns; the clock reads exactly; the radio's start-up completes and every queued frame is transmitted |
| `network` | `MCNetwork` | safety below TCP: descriptor rings, PHY, ARP, heap, timers, DHCP, SNTP with DNS |
| `network_progress` | `MCNetwork` | what these bring about: frames are taken, output returns, the MAC follows the PHY, no packet waits for ever for an address, a lease is obtained and regained, lookups end, the time is set |
| `connection` | `MCConnection` | an upload: both directions of TCP, the connection and its control block, the text, the answer, the way of a record; what is sent arrives, records reach the database, uploads follow one another |
| `memory_new_card` (violation) | `MCMemory` | with `read_index` = 0xFFFFFFFF, until the first upload, a full ring is not noticed |
| `memory_wrapped` (violation) | `MCMemory` | on a card in use, once `write_index` has wrapped below `read_index`, blocks that wait are not counted, so nothing is uploaded until it is above again |
| `radif_own_frame` (violation) | `MCRadif` | the gateway takes its own frame for one received |
| `upload_refused` (violation) | `MCUpload` | when the connection is refused the control block is freed twice |
| `upload_server_closes` (violation) | `MCUpload` | when the server closes early the countdown is restarted at every tick |
| `emac_tx_overfilled` (violation) | `EmacTx` | `lpc_tx_ready` takes descriptors the EMAC has still to read for free ones |
| `tcp_window_wrap` (violation) | `TcpRecv` | when the receive window crosses the top of the sequence numbers, an early segment inside it is taken for one that overruns it |

A property named `...Sound` is the conjunction of what one component keeps true;
each conjunct is a definition of its own with a comment. Properties are checked
together where they are about the same part and under the same specification.
Runs that may stop (all records uploaded, all mishaps used up) do not check
deadlock; `devices` does, and so do the violations but for `tcp_window_wrap`.

## Memory, Sd, Clock

State of `Memory`: the blocks of the card (`disk`, a record is named by its order
of arrival), the eight words of block 0 (`page`), `read_index`, `write_index`,
whether three seconds have passed since the last write (`quiet`), the buffer
`mem_buf`, and the exchange with the server reduced to what it asks of the store
(`session`, `mem_output_index`, `records_index`, `records_count`, `acks`,
`body`). Ghosts: `accepted` (records the program believes stored), `durable`
(accepted when the indexes were last saved), `failed` (records on which a card
command failed). Actions: `PutSample`, `Quieten`, `StartUpload`, `SendRecord`,
`ServerStores`, `GoodUploadDone`, `UploadEnd`, `PowerFail` (followed by
`memory_init`); and, in `NextTorn`, power failures inside `put_memory_indexes`
after k of the eight words, and a card that does not answer at start-up. uint32_t
arithmetic is modulo `Word`; the signed difference of `get_blocks_to_read` is
`Int32`. Initial states: a card in use (`Spec`; any two valid blocks as saved
indexes), a card whose indexes were reset to 0 by the lines `memory_init` keeps
commented out (`FairSpec`), a card in use of which everything has been uploaded
(`SpecEmptied`), a card never written (`SpecBlank`), all (`SpecTorn`).

`AvailableAreCounted`, which `memory_wrapped` refutes, says that when
`get_blocks_to_read` returns none, three seconds after the last write, no accepted
record waits in another block than the one written last. TLC starts from an empty
ring, puts a record into the last block, has `write_index` wrap, and finds the
count at zero with that record waiting.

`RecordStore` says what the rest relies on: records become pending when accepted,
leave only once the database has them, and a power failure may take back those
accepted since the last save.

`Sd` models `disk_initialize` for the three kinds of card, the CSD register, and
single-block reads and writes, one command or data block per step, with a card
that may refuse or fall silent. `CardServes` says that every block has a sector
of its own and reads back as written; that all valid blocks are on the card holds
of standard cards only, since high-capacity cards are given byte addresses too.
The driver waits without limit for a card: `CallsEnd` is about one that answers,
which includes that it ends its busy signal after a write (`sd.c:461`). Where
`_cmd8` puts the bytes after the first of a response (`sd.c:397` indexes them with
the counter of the wrong loop) is left out.

`Clock` keeps the 64-bit time over a timer of `W` values, set and read at any
moment at least once per turn of the timer.

Bounds: a batch of two, a stride of two, `Word` = 32 (more than twice the last
block, as 2^32 is). `records` has four usable blocks, so that up to three
are counted and the cap cuts the batch, and three records from any pair of saved
indexes: the ring fills and wraps. The others have three usable blocks and two
(torn saves) or four records; the rollback bound of two is reached. Cards of three
and four sectors, addresses up to three, so that capacity and address reach their
limits.
`W` = 4.

Fairness of the store and the card in `devices`: the RIT interrupt keeps coming
(weak fairness of each call), the server answers what it gets, and from some point
on power and connections hold (`Settled`): without that nothing can be promised. The
driver goes on with what it has begun.

## Radif, RadioFrame

State of `Radif`: both rings with their indexes, `Command`, `up`; `rit` and `irq`,
where the service level and the handler are; `timer` and `eint`, the pending
interrupts; `chip`, `irq_status` and `buffer`, the transceiver. The service level
moves only while `irq = "none"`, the handler runs to its end once entered, and the
transceiver moves between any two register accesses of the handler. The
transceiver is external: RX_START, TRX_END, the frame filter, the automatic
acknowledgement and one buffer for both directions, as the driver uses them.
Frames are model values; `Filtered` says whether frames for other stations are on
the air. `FrameQueue` is a bounded FIFO queue between a producer and a consumer;
`TxFifo` and `RxFifo` map the ring contents between the two indexes to it.

`RadioFrame` is the header of a frame octet by octet, in every addressing mode the
code reads, with the length octet and the check sequence.

Bounds: a receive ring of three slots and a transmit ring of two (both two for
liveness), so that empty, full and wrapped occur; one frame in each direction, told
apart from an unfilled slot and from a frame spoilt while it was read. With a
single frame the runs show that none is lost, repeated or spoilt in the ring, but
cannot tell two frames exchanged; that the order is kept rests on the proofs, which
cover any set of frames and any size. For liveness all frames are alike. Frame
lengths include zero, the longest that fits, and one more.

`QueuedIsAttended` is about stations on a channel of their own (`Filtered` = FALSE):
a foreign frame that is filtered out raises RX_START but no TRX_END, so `radio_tx`
is put off until the next event. `QueuedIsSent` is checked with such frames on the
air and therefore assumes that frames keep arriving. Its fairness: the hardware
takes interrupts and ends what it begins, the RIT level gets time between interrupts
(strong fairness of each level), and the channel is not so full that `radio_tx`
always finds a frame arriving (`ChannelNotFull`).

## Below TCP: EmacRx, EmacTx, Phy, Etharp, Heap, Timeouts, Dhcp, Dns, Sntp

`EmacRx` is the receive ring: the DMA fills descriptors from `RxProduceIndex` on,
`lpc_low_level_input` takes frames at `RxConsumeIndex` and `lpc_rx_queue` puts a
new pbuf in the emptied descriptor, if there is one. `FramesInOrder` maps the
ring to `EtherLink`: frames come up once each and in order, except those an overrun
drops. `EmacTx` is the send ring with the reference counts of the pbufs it lends to
the DMA. What the DMA may read has never been freed. References are another
matter: for `TxProduceIndex` above `TxConsumeIndex`, `lpc_tx_ready` counts more free
descriptors than there are, and a chain is queued over pbufs in the ring, whose
references nobody drops any more (`emac_tx_overfilled`). The ghost `overfilled` says
that this has happened; `NoLostReference` is about the time before. `Phy` is the
status state machine over the management interface.

`Etharp` is the table without `ARP_QUEUEING`: one waiting packet per entry. `claim`
(what each host announced last) and `owned` (for which host the table owns a packet)
are ghosts. `Heap` is the tiling of the memory by areas. `Timeouts` is the list of
relative times, with the distance of each entry to the clock as a ghost; users start
and stop any number of entries of one handler, and a handler called by
`sys_check_timeouts` may start another from within its loop, as SNTP's does. When
the pool of entries (`PoolSize`) is empty, lwIP's assertion stops the program, and
the model has no step. `Dhcp` has all states that are compiled in, both timers and
the messages; it keeps the requests and replies of the present transaction number
only, since `dhcp_recv` drops the others. Not in it: that a change of address aborts
the TCP connections of the old one (`netif.c:328`; a `Reset` in `Upload`), an
acknowledgement without a lease time, and times so near to 2^32 seconds that
rounding them to minutes wraps (`dhcp.c:937`). `Sntp` has requests, retries,
time-outs, the interface going up and down, and the resolver's table of two entries
(`Dns`).

Bounds: rings of three and four descriptors (an empty one among full ones, wrap); an
ARP table of two entries for three hosts, so that entries are given up; a heap with
room for four of the smallest areas; two cyclic timers, TCP's and a user's, with a
pool of five entries, and a clock (`U32` = 7) that wraps every few of their periods;
counters of DHCP that wrap at three and leases beyond that; two DNS servers and two
retries. Faults come in sets (`DhcpFaultSets`, `SntpFaultSets`), so that each
combination is tried without all at once.

Fairness of `network_progress`: `net_service` keeps being called (weak fairness of
what it polls: taking frames, timers, the PHY's steps), the EMAC goes on sending
and reads over the management interface end, a cable is put in; and of requests
made again and again one is answered in the end (strong fairness of the offer, the
acknowledgement, the DNS and the SNTP answer), as pbufs also return to the driver.

## The connection: TcpSend, TcpRecv, Upload, HttpTx, HttpRx, Base64

`TcpSend` is the sending half of an established connection: unsent and unacked
queues, both windows, retransmission, the persist timer, giving up, closing; over a
network that loses, repeats and reorders. `TcpRecv` is the receiving half: in-order
and out-of-sequence segments, trimming, the window, delayed acknowledgements,
lack of memory. Sequence numbers are taken modulo `SeqSpace`; sending starts just
below the wrap. Receiving does not: the comparison with the end of the window in
`tcp_in.c:1439` is not safe for a window that wraps. `tcp_window_wrap` starts just
below the wrap and finds a segment of one octet on the out-of-sequence queue with a
length of three; `connection`, where `RcvSound` holds, starts at 1.

State of `Upload`: `active`, `upload_countdown`, the struct `server_tcp`, the
control blocks `pcb` with their states, the free `pool`; ghosts `bogus` (a free
block was freed again) and `request` (blocks handed to TCP). Actions: `Tick`
(`upload()` and `server_tcp_service()`), `Connected`, `Reset`, `GiveUp` and
`TimeWaitOver` (the slow timer), and `Segment` (an acknowledgement, of data or of
the FIN, data, a FIN, or several of these in one segment). A freed control block
stays readable through `server_tcp.pcb`, which nothing clears, as in memory.
`Troubles` chooses what may go wrong. `UploadSound` holds under all of them, but
says nothing once a block has been freed twice: memp's list would then give it out
twice, while `pool` is a set.
`CalmSound` and `UploadsRepeat` are about the troubles the code copes with (the
server resets connections or stops answering, `Calm` in `MCConnection`). What
fails under one of the others can be seen by setting `Troubles` in
`MCUploadCloses.cfg` (for `UploadsRecur`) or `MCUploadRefused.cfg` (for the
invariants):

| trouble | fails | because |
|---|---|---|
| `refusal` | `NoDoubleFree` | `server_tcp_err` closes the block whose error is being reported |
| `server_closes` | `UploadsRecur` | `connected` stays set after the close, so the countdown is restarted at every tick |
| `late_data` | `NoDoubleFree`, `UploadEndIsCalled`, `UploadsRecur` | lwIP aborts a connection that gets data after `tcp_close`; the error callback closes the freed block again, or, when the segment also completes the close, there is no callback and `active` stays set |
| `piggyback` | `UploadEndIsCalled`, `UploadsRecur` | `server_tcp_sent` closes with the segment's data unread: TIME_WAIT, then an abort without a callback |
| `no_memory` | `PcbsReturn`, `NoDoubleFree`, `UploadsRecur` | a failed `tcp_connect` leaves its block allocated, until none is left; a failed `tcp_close` is not repeated, and later data aborts the connection as above |
| `stall` | `UploadsRecur` | `connected` stays set after the close, so every tick fails to write, closes again and restarts the countdown |

`HttpTx` compares what follows the header with the length announced, a record that
could not be read included, and the gain as printed with its formula (for even
`pga_gain` from 194 on the code prints one decibel too much; `GainIsSent` leaves
those out). `HttpRx` is the matcher, over answers cut anywhere and values that
imitate the pattern. `Base64` is checked bit by bit.

Bounds: two control blocks (one lingers while the next is used, or is killed for
it), waits of one to three ticks, a limit of one failed write, two records, two
pieces per block (so that a write may be cut short); three octets of data in
segments of two, a peer window of two that closes, one lost or repeated packet or
failed allocation; a stream of seven octets in segments of at most three, a window
of five.

Fairness of `connection`. Sending: a running timer is due in the end, and a packet
arrives unless it is one of the few that are lost. Receiving: the server retransmits
what is not acknowledged, memory comes back. Uploads: ticks keep coming, time and
again there are records and the link is up when an upload is due (strong fairness,
because an empty batch restarts the countdown), and lwIP's timers end every wait
of a connection that is not established; nothing is assumed of the server.

## Gateway

The sensor keeps a record until it sees the acknowledgement and sends it again when
none comes. `block_uploaded` acknowledges a sound frame first and stores it then,
ignoring what `put_sample` returns. State: what the sensors hold, the two rings as
queues, the record the callback is storing, the variables of `RecordStore`, and
`origin`, the reading behind each record put. Mishaps: lost and damaged frames, an
early end of an upload, a full store, a failing card, a power failure; two of them
in the run, any number in the proofs. `DiscardedIsKept`: a discarded record is
being stored, pending or in the database unless the card failed on it, or
`put_sample` refused it, or the power failed before the next save (`undone`).
Fairness: sensors try again, the RIT interrupt comes, the radio transmits, uploads
recur.

## Proofs

Each proof module extends the modules of its components and uses only the named
assumptions there on the constants. Every inductive invariant is proved by one
lemma or step per action; TLC checked it on the runs' instances first.

| module | assumption | theorems |
|---|---|---|
| `MemoryProofs` | `SizesAssumption` | `Invariance`, `TypesKept`, `NoRecordLost`, `SavedIndexesSuffice`, `NoUnreadOverwrite`, `AckFreesOne`, `StoreImplemented`; `TornPagesAreDetected` |
| `TimeProofs` | `ClockAssumption`; `SntpAssumption`, `DnsAssumption` | `ClockInvariant`, `ClockReadsExactly`; `SntpInvariance`, `SntpIsSound` |
| `EmacTxProofs` | `TxAssumption` | `TxInvariance`, `TxIsSound` |
| `EmacRxProofs` | `RxAssumption`, none for `Phy` | `RxInvariance`, `RxRingSound`, `FramesComeInOrder`; `MacRemembered` |
| `EtharpProofs` | `EtharpAssumption` | `ArpInvariance`, `ArpTableSound` |
| `DhcpProofs` | `DhcpAssumption` | `DhcpInvariance`, `DhcpClientSound`, `BoundByItsAnswer` |
| `UploadProofs` | `UploadAssumption` | `UploadInvariance`, `UploadIsSound`; `CalmInvariance`, `CalmUploads` (`Troubles` at most resets and silence) |
| `GatewayProofs` | `RadifAssumption`; `GatewayAssumption` | `Invariance`, `NoInterruptLost`, `QueuedAttended` (`Filtered` = FALSE), `TxRingIsFifo`, `RxRingIsFifo`, `CallbackFrameKept`; `GatewayInvariance`, `DiscardedKept`, `GatewayUsesStore` |

* **Memory.** `NothingLost` is not inductive: an acknowledgement may drop the block
  at `read_index` only because that block was in the request. `SendingInv` and
  `AnsweringInv` say so: the blocks between `read_index` and the output position
  are in the body (then in the database), failed, or hold nothing; and they lie
  strictly below `write_index` or below the end of the ring, so that `read_index`
  never overtakes `write_index`. `DiskInv` says that a record is on one block only
  and that outside the occupied part nothing waits, which keeps `DurableKept` true
  while old saved indexes cover blocks since reused. `StoreImplemented` maps every
  call to a step of `RecordStore` or to a stutter, from the same invariant.
  `TornPagesAreDetected` needs only that pages and indexes are words: it goes
  through the places at which the power may fail in writing the eight of them.
* **Clock.** `ClockInv`: the stored time is the true one, or trails it by less than
  a round of the timer, and then the timer is below its last reading.
* **Sntp.** `RequestsBounded` counts pending timeouts and lookups against the starts
  of the client. Each C function adds a known number of them to the state it is
  called in (`Adds`); a timeout that expires and a lookup that ends take one away
  first; an answer adds one only if no timeout was pending, and then there are at
  most the two lookups besides. `SntpInv` adds that a client whose interface is up
  has been started and that a lookup has its timer running, which `dns_check_entry`
  counts down before it looks at it.
* **Radif.** `BootInv` (until STARTUP is done the transceiver is off and the rings
  are empty), `RingInv` (a slot about to be published is whole and there is room;
  handler and callback hold a frame when they think so), `NoLostInterrupt` and
  `WakeInv` (while a frame waits, some interrupt or the end of what the transceiver
  does will bring `radio_tx` about). The refinements rest on lemmas that filling a
  slot outside the contents changes nothing, publishing appends and consuming
  removes the head.
* **EmacRx.** Between calls at most one descriptor is without a pbuf, the one at
  `RxConsumeIndex`, and it keeps the DMA from going further. The refinement of
  `EtherLink` needs that the contents are counted round the ring modulo its size.
* **EmacTx.** `TxInv`: the three indexes follow one another round the ring and what
  the EMAC has yet to read holds pbufs (`Ordered`); each count is at least what the
  descriptors, the stack and a copy about to be queued refer to, and exactly that
  until the ring is overfilled (`Balanced`); what is about to be queued is still
  referred to (`Sendable`). Reclaiming runs along the ring by a recursive function
  (`FreeFrom`); what it does to the counts is proved by induction on the number of
  descriptors, as membership in a set that holds 0 and the successors of its members
  (`Induct`, from the well-foundedness of the numbers).
* **Phy.** `lpc_update_phy_sts` sets only what differs from what it remembers;
  `PhyInv` adds to `MacAsRemembered` that all of these are statuses.
* **Etharp.** `Accounted` relates entries and packets both ways, and `Told` says
  that stable entries have what their host announced last; both have to hold in the
  states between the calls of `find_entry`, `update_arp_entry` and
  `free_entry`, so each of these has a lemma about an arbitrary state.
* **Dhcp.** `UpLeased`, `Timed` and `AsksNow`, the last of which says that while
  the client asks to keep its address the present transaction number is that of
  requests of the present state. `Timed` does not hold inside `dhcp_timeout` and
  `dhcp_recv`, which stop the timer first; `DhcpCore` is what does.
* **Upload.** The phase, the index and the buffer say how many blocks TCP has been
  given and which one is in the buffer (`InRequest`): `RequestWellFormed` alone does
  not say what comes next. `Current` (a connection that can call back is that of
  the active upload) and `Linked` (what counts as connected has, or had, a
  connection) must hold in every state in which lwIP calls `server_tcp.c`, so
  there is one lemma per C function about the states it leaves. `CalmGood` adds,
  for uploads that are at worst reset or left without an answer, in which states a
  control block may be, that the phase tells the state of the connection of an
  active upload, and that this connection has its callbacks. It is checked by
  `CalmSound` on the instance `Calm` of `MCConnection`.
* **Gateway.** `AckedIsStored`: a discarded record, or one whose acknowledgement
  waits in the transmit ring, was accepted or is the one being stored.
  `GatewayUsesStore` says that the composition does to the store only what
  `RecordStore` allows, and `StoreImplemented` that `memory.c` does no other.

Only model-checked:

* all liveness and the fairness it needs (`PendingUploaded`, `CallsEnd`,
  `BootCompletes`, `QueuedIsSent`, `LinkProgress`, `DhcpProgress`, `SntpProgress`,
  `StreamsArrive`, `RecordsArrive`, `UploadsRepeat`), which the prover does not do;
* `SavedOften`, a bound on the size of a set that grows over many steps;
* `Timeouts` and `Heap` (recursion along a list), `HttpRx` and `Base64` (what a fold
  over a text computes): induction over data;
* `TcpSend`, `TcpRecv`, `Sd`, `HttpTx`, `RadioFrame`: not attempted.

## Not modelled

The record format and its checksum (a record is sound or it is not), the console,
debug output, clock set-up and the card test (I/O without state that other parts
depend on), IP reassembly, TCP listening and options, statistics counters, log
output and the radio commands nothing issues. A database that stores a record twice
looks the same as one that stores it once.
