# TLA+ models of ipstack

ipstack is a user-space TCP/IP stack over a TUN device. This directory holds
TLA+ modules that model it, the TLC configurations that check them, and
`PROJECT.json`, which lists the components, the runs, the mapping from
definitions to source lines, the findings and the hazards.

## The system

| Part | Source | What it does |
|---|---|---|
| Demultiplexer task | `src/lib.rs` 87-187 | One task owns the device. A `select!` loop reads packets from the device and routes them by tuple to the inbox of a flow (creating the flow on a vacant entry), and takes segments from the shared outbox and writes them to the device. |
| `IpStackTcpStream` | `src/stream/tcp.rs` | One TCP flow as the consumer holds it. It has no task of its own: the state machine moves when the consumer calls `poll_read`, `poll_write`, `poll_flush` or `poll_shutdown`. |
| `Tcb`, `SeqNum` | `stream/tcb.rs`, `stream/seqnum.rs` (not in the source tree) | Per-flow TCP state and decisions; wrapping 32-bit sequence numbers. |
| Packet codec, UDP stream, raw packet, errors | not in the source tree | Parsing and serialisation, datagram flows. |
| `IpStackConfig`, `IpStack::accept` | `src/lib.rs` 49-80, 188-194 | Settings; the queue of accepted flows. |
| The consumer's tasks | outside the repository | Whoever holds a stream polls it. A task that gets `Pending` polls again only when the waker it left behind is woken. |

The demultiplexer and a stream share two unbounded channels: the stream's
inbox (`stream_sender` / `stream_receiver`) and the outbox
(`up_packet_sender` / `pkt_receiver`). The demultiplexer and the consumer
share the accept channel. Nothing else is shared.

## Modules

| Module | Models | State and actions |
|---|---|---|
| `SeqNum` | sequence arithmetic | Operators only: `Wrap`, `SeqAdd`, `SeqSub`, `Distance`, and the order by signed difference. `Modulus` stands for 2^32. |
| `SeqNumWindow` | a reference check of `SeqNum` | Two registers walk round the ring beside the integers they stand for. |
| `Tcb` | the TCB | A TCB is a record; each method is an operator from record to record, with the Rust name (`new`, `add_ack`, `change_last_ack`, `add_unordered_packet`, `get_unordered_packets`, `check_pkt_type`, ...). |
| `TcpStream` | `IpStackTcpStream` | Variables are the fields of the struct (`tcb`, `packet_to_send`, `shutdown`, `write_notify`), the two channels (`inbox`, `outbox`, `upstream`), the place of the consumer in `poll_read` (`pc`), whether the stream exists (`life`) and two history variables (`delivered`, `written`). One action per way a pass of the `poll_read` loop can end, per outcome of `poll_write`, `poll_shutdown` and `Drop`. |
| `TcpFlow` | one flow end to end | Adds the peer (a record with what it may send next, `Offers`, among it the `Forged` and `Stale` acknowledgements of a peer that is wrong about what it got, and what a segment does to it, `Hears`) and the demultiplexer's steps for this tuple: `Accept`, `Refuse`, `Forward`, `ForwardFails`, `TunWrite`, `DeviceFails`. Holds `Init`, `Next`, `Spec` and the properties. |
| `ByteStream` | what a stream promises | The abstract specification: two byte streams (`offered`/`read` from the peer to the consumer, `accepted`/`arrived` from the consumer to the peer), each handed over in order, each byte once and none skipped, and nothing read once shutdown is asked for. It is not a model of code. |
| `TcpTasks` | the tasks that poll one stream | Extends `TcpFlow` with a reader and a writer task (`task`), the task inside `poll_read` (`caller`) and the two wakers the stream leaves outside itself: with the inbox (line 251, `inbox_waker`) and with the deadline (line 209, `timer_waker`). Every step of `TcpFlow` is taken by the task that would take it: `PollRead(t)`, `PollWrite`, `AskShutdown`, `ShutdownReturns`; `Delivers` and `Fires` wake the task whose waker they find. |
| `IpStack` | the demultiplexer over several tuples | The flow table (`streams`), every flow ever opened with its inbox and what became of it (`flows`), the accept channel (`accepts`, `listener`), the outbox, the device and the task. One action per branch of the `select!` loop (`ReadShort`, `ReadUnparsed`, `ReadRaw`, `ReadOccupied`, `ReadVacantSyn`, `ReadVacantRefused`, `ReadVacantUdp`, `TakeSentinel`, `TakeUnserialisable`, `WriteDevice`, `WriteFails`) and per call of the consumer (`accept`, `AcceptError`, `DropListener`, `Recv`, `Emit`, `Signal`, `DropStream`, `RawSend`). The constant `PacketInformation` is the setting of `IpStackConfig` that makes line 102 skip four bytes. A flow is an inbox and a key here; what a TCP flow does with its segments is `TcpFlow`. |
| `MCTcpFlow`, `MCTcpTasks`, `MCSeqNumWindow` | | Values of constants for TLC. `IpStack` is checked as it is. |

`Tcb` states the occupancy of the reordering buffer and the first matching
row of the classification table with operators TLC evaluates natively
(`Cardinality`, `SelectSeq`): for a fairness condition TLC evaluates
`ENABLED` without keeping the value of a definition, and a fold inside
`Drain` is then evaluated thousands of times per state.

### How `TcpStream` follows `poll_read`

`poll_read` is a loop, and one pass of the loop is one step of the model.
The operators `Polled`, `Live`, `Timely`, `Awake`, `Drained`, `Receiving`
and `Dispatched` say that a pass has come past lines 194, 204, 218, 225,
235, 252 and 266; `Refreshed`, `Rearmed`, `Drain` and `Taken` are the TCB at
those points. Each action names its lines. `poll_flush` is modelled where
`poll_read` calls it (`EstRetransmission`, `FlushPanics`); a call by the
consumer finds `retransmission` empty and changes nothing, and the two
blocks that test `retransmission` at the top of `poll_read` and in
`poll_write` are never entered, because every pass that sets the field
empties it before it ends.

### Environment steps wait for the call to return

`poll_read` is synchronous, so no other call of the consumer runs between
two passes. The demultiplexer and the clock do run beside it. The model lets
them step only when `pc = "idle"`. This loses no behaviour of the stream: a
segment appended to the inbox between two passes could as well have been
appended before the call (earlier passes either did not look at the inbox or
took its head); a segment taken from the head of the outbox could have been
taken after the call (passes only append); the deadline cannot pass between
two passes that each move it (line 218). A device failure between two passes
differs from one before the call only in which segment is lost with the
error, and the flow is finished either way.

### How `TcpTasks` follows the wakers

A task is `awake` (its runtime will poll it), `parked` (its last call
returned `Pending`) or `done`. The consumer is taken to be split as
`tokio::io::split` splits it: the reader calls `poll_read` until it gets the
end of the stream or an error; the writer calls `poll_write` and then
`poll_shutdown`, and `poll_shutdown` is a `poll_read` with the writer's
context (line 440). A pass of `poll_read` leaves the caller's waker with the
deadline when it comes past line 209 and with the inbox when it finds the
inbox empty at line 251; each of the two keeps one waker, the last. The
writer that parks in `poll_write` is woken by the pass that takes
`write_notify` (lines 279, 315, 323), the task that waits in `poll_shutdown`
by the pass that sets `shutdown` to `Ready` (lines 36-41). `poll_flush`
called by the consumer is no step: it changes nothing.

A task stops when a call tells it to: the reader at the end of the stream
or an error, the writer at an error of `poll_write` and at `Ok(0)`, which
`write_all` and `copy` take for a sink that accepts nothing more. `Ok(0)`
is what `poll_write` returns once the peer has kept its window closed long
enough for the average of line 387 to decay (`ZeroWindow.cfg`), so a run
with a closed window has an end.

### How `IpStack` follows the `select!` loop

One iteration of the loop is one step: a packet read from the device and
routed (lines 101-156), or a packet taken from the outbox and written or
used as the teardown signal (lines 157-179). A send on the accept channel
that fails ends the task (`?` at lines 135, 146, 153), as a failed device
write does (line 177); the task takes the table and the outbox with it.
With packet information on, a read of fewer than four bytes makes the slice
of line 104 panic, and the task is gone in the same way (`ReadShort`). A
read that returns an error skips the branch and changes nothing.
UDP streams and raw packets are not in the source tree: that a UDP stream
sends a packet with TTL 0 when it ends, and that a raw packet can be sent,
is taken from the specification.

### Decisions where the specification leaves room

`tcb.rs` and `seqnum.rs` are modelled from the specification.

* `check_pkt_type` reads the table of section 4.2 top to bottom; a segment
  no row describes is `Invalid`.
* `get_unordered_packets` removes the contiguous run and returns it; `ack`
  is advanced by the caller (tcp.rs line 229, step 7 of section 4.3). Read
  literally, section 4.2 would advance it twice.
* `change_last_ack` keeps an in-flight segment that an ACK covers in part
  ("drop any inflight entry fully covered").
* The send window assumed before the peer advertises one is the constant
  `InitSendWindow`.
* `reset_timeout` moves the deadline in place, as the reset of a tokio
  `Sleep` does: the waker that line 209 left with the deadline stays with it
  when lines 218 and 385 move it. `Fires` of `TcpTasks` and the property
  `ReaderCompletes` rest on this reading. With a timer that is replaced at
  every reset the waker would be lost with the old one, and a reader whose
  peer is silent would not be woken once the writer has written.

### What the map names

`PROJECT.json` maps the definitions that translate lines of the source: the
state, the points of a pass, the actions and the helpers. It does not map
the formulas that only put mapped actions together or state an assumption:
`Next` and `Spec` of `TcpFlow`, `TasksInit`, `TasksNext`, `TasksSafety` and
`TasksSpec`, `Notified` and `Unnoticed` of `TcpTasks`, `Spec` of `IpStack`.
`poll_read` and `poll_write` of `TcpStream` are mapped to the line each
function starts at; their disjuncts carry the lines. `DropListener` of
`IpStack` is a step of the consumer, who drops the `IpStack` value, and has
no line of its own. `WriteNotified` is mapped to lines 279-281 and stands
for the same three lines at 315-317 and 323-325; `Finish` is mapped to lines
214-215 and stands for the same pair at 201-202 and 260-261 and for the
call of line 196.

## Runs

All flow runs use a 6-bit sequence space (`Modulus = 64`) with the peer's
initial sequence number at 62, so that `ack`, the keys of the reordering
buffer and every comparison of `check_pkt_type` cross the wrap. Windows and
the reordering buffer hold 4 bytes; a segment carries at most 2 bytes
(`Mtu - HeaderLen`). `PeerMay` and `Events` choose what the environment may
do in a run.

| Run | Module, cfg | Environment | Properties | Result |
|---|---|---|---|---|
| `seqnum_window` | `MCSeqNumWindow` | window of at most 7 on a ring of 16, walked to 40 | `TypeOK`, `AgreesWithIntegers` | holds |
| `inbound` | `MCTcpFlow`, `Inbound.cfg` | peer sends 3 bytes in up to 5 segments, any order and cut; consumer reads into 1 or 4 bytes and may shut down; the device write may fail | `TypeOK`, `AdvertisedWindowFits`, `AckCountsDelivered`, `ImplementsByteStream` (refinement) | holds, 107,701 states |
| `outbound` | `MCTcpFlow`, `Outbound.cfg` | consumer writes 3 bytes; segments may be lost; peer advertises 1 or 4, repeats ACKs, sends keep-alives and a byte of its own that carries the acknowledgement; cap 1 | `UnackedStaysInFlight`, `ControlSegmentsInSequence`, `ImplementsByteStream` (refinement) | holds, 224,212 states |
| `teardown` | `MCTcpFlow`, `Teardown.cfg` | a byte from the peer, two writes of the consumer; FIN, RST, keep-alives, loss, shutdown, timeout | `ShutdownWaitsForAcks`, `NeverAcksUnsent`, `ClosedIsSilent`, `FinEndsWhatWasWritten` | holds, 242,758 states |
| `failure` | `MCTcpFlow`, `Failure.cfg` | stray first segments, repeated SYN, ACKs for bytes never sent and ACKs for less than was acknowledged, drop, timeout, device failure | `SequenceCountsAcceptedBytes`, `AcknowledgedIsSent` | holds, 276,954 states |
| `demux` | `IpStack`, `Demux.cfg` | 3 reads from the device on 4 tuples, packet information on, so a read may be too short; 3 packets from streams; listener accepts or is dropped; device write may fail | `TypeOK`, `OnlyItsSentinelEvicts`, `SignalledFlowIsEvicted` (liveness) | holds, 646,487 states |
| `wakeups` | `MCTcpTasks`, `Wakeups.cfg` | reader and writer task on one flow; send buffer full after one byte; the peer advertises 0 or 4; FIN, RST, shutdown, timeout, device failure | `WriterHasWaker`, `ShutdownCompletes`, `ReaderCompletes` (both liveness) | holds, 132,522 states |
| `fin_over_gap` | `MCTcpFlow`, `FinOverGap.cfg` | in-order peer, data then FIN | `DeliveredInOrder` | violated |
| `partial_ack` | `MCTcpFlow`, `PartialAck.cfg` | loss, window shrinks from 4 to 1 | `FlushFindsSegment` | violated |
| `refusal` | `MCTcpFlow`, `Refusal.cfg` | a first segment without SYN | `RefusalAnswersInSequence` | violated |
| `inflight_cap` | `MCTcpFlow`, `InflightCap.cfg` | consumer writes 3 bytes, cap 1 | `InflightWithinCap` | violated |
| `lost_wakeup` | `MCTcpTasks`, `LostWakeup.cfg` | writer parked on a full send buffer; peer sends data | `ParkedWriterHasReason` | violated |

To repeat a run: `tlc -workers 2 -config Wakeups.cfg MCTcpTasks`.

The `inbound` run has no FIN from the peer: with one, the consumer is
handed a byte out of order (run `fin_over_gap`). FIN is part of `teardown`.

In the `failure` run the peer may send `Forged` segments: bare ACKs whose
acknowledgement number lies one or two past what it has received, and so
past `seq` whenever nothing is in flight. `check_pkt_type` calls them
`Invalid` and line 264 leaves them behind before any branch reaches
`change_last_ack` (lines 270, 286, 311, 321, 340, 353).
`AcknowledgedIsSent` is invariant 1 of the design (`last_ack <= seq`, in
modular order): with the test of line 264 taken out, the first forged ACK
moves `last_ack` past `seq`.

The peer may also send `Stale` segments: bare ACKs for one less than it has
received, as an ACK that a later one has overtaken, one that stops inside a
segment, or one that does not cover the SYN. `check_pkt_type` takes them for
a request to retransmit as long as they lie within a window below `seq`, so
they reach `change_last_ack` and `poll_flush`. The two invariants of the run
hold with them; what they do to `poll_flush` is `StaleAck.cfg` below.

### What is acknowledged and what the FIN ends

`AckCountsDelivered` (run `inbound`) ties `ack` to the history variable
`delivered` for as long as data flows: `ack` is the peer's first sequence
number plus the bytes handed to the consumer. Line 227 takes the contiguous
run out of the reordering buffer on every pass and lines 228-231 count it and
hand it over only when no shutdown is pending; a drain that counted what it
took would acknowledge bytes the consumer never gets, and the peer would not
send them again. The statement is made for as long as the demultiplexer
lives: when the ACK of lines 231-233 cannot be sent, the call returns the
error after `ack` has moved and the buffer was filled, and the consumer does
not look at the bytes (`ReadDeliverFails`). Nothing the stream sends reaches
the peer from then on, so the count that is one run ahead is never seen.

`ControlSegmentsInSequence` (run `outbound`) is about the answers of
`poll_read`, the segments that are not PSH|ACK. The PSH|ACK segments are
those of `poll_write`, which go out under `seq`, and of `poll_flush`, which
go out under the sequence number of the in-flight entry (line 416) and, when
the peer has closed its window, with no payload at all: an empty segment
under an old sequence number is then what the code means to send.

`FinEndsWhatWasWritten` (run `teardown`) is about the FIN of lines 236-241,
which answers the peer's FIN whatever is in flight. Written bytes that were
lost are then never resent, and the consumer was told `Ok` for them. What
keeps this from being silent corruption is the sequence number of the FIN:
it lies behind every accepted byte, so a peer that misses one does not take
the FIN, and `poll_write` accepts nothing once the state has left
`Established` (line 382). The flow then ends by reset or timeout, not by a
stream that looks complete and is not.

### Refinement

`TcpFlow` instantiates `ByteStream` with

| `ByteStream` | `TcpFlow` |
|---|---|
| `offered` | `peer.nxt`, the end of what the peer has sent |
| `read` | `delivered`, what `poll_read` has put into the consumer's buffer |
| `accepted` | `written`, the bytes `poll_write` has returned `Ok` for |
| `arrived` | `peer.rcvd`, what the peer took because it started where its copy ended |
| `reading` | `shutdown = "None"` |

and `ImplementsByteStream` is `Stream!Spec`: every step of the flow is a
step of the byte stream or leaves its five variables alone. This is more
than the invariant `DeliveredInOrder` and its counterpart for the peer,
which it implies: a step may not take back or rewrite what was handed over, and the
pass of `poll_read` that finds a shutdown asked for hands over nothing
(the filter of line 227). The abstract specification has no liveness part:
the code promises no delivery to a peer that does not answer.

Between them the passing runs take every action of the next-state relations
of `TcpFlow`, `TcpTasks` and `IpStack`.

Deadlock is not checked: a flow whose peer has sent all it may, whose outbox
is empty and whose stream is dropped or has panicked has nothing left to do;
the demultiplexer's task ends (a failed device write, a dropped listener);
both tasks of the consumer return.

### What the violations show

* **`fin_over_gap`** (tcp.rs 331, 268-273). The ACK that completes the
  handshake carries byte 0; the stream uses its ACK field and drops the
  byte. Byte 1 is buffered behind the gap. The FIN advances `ack` by one
  without a look at its sequence number, `ack` now equals the key of byte 1,
  and `poll_read` delivers byte 1 without byte 0. The same happens whenever a
  segment before the FIN is missing.
* **`partial_ack`** (tcp.rs 416, 428). A written segment of two bytes is
  lost. A repeated ACK advertising window 1 makes `poll_flush` resend it cut
  to one byte. The peer acknowledges that byte; the entry in
  `inflight_packets` still starts one byte earlier. The next repeated ACK
  asks for a segment starting at `last_ack`; there is none, and the stream
  panics.
* **`refusal`** (tcp.rs 86). The refusing RST|ACK is built from a fresh TCB
  and carries sequence number 0; the specification asks for the incoming
  acknowledgement number.
* **`inflight_cap`** (tcp.rs 387-404). The cap is tested before the segment
  is added, and the segment is not limited by the room left.

* **`lost_wakeup`** (tcp.rs 340, 388). The writer writes a byte, the send
  buffer is full, the next `poll_write` leaves its waker in `write_notify`
  and returns `Pending`. The peer acknowledges the byte on a segment that
  carries data (PSH|ACK). Line 340 adopts the acknowledgement and the
  in-flight list empties, but `write_notify` is looked at only where a bare
  ACK is handled (lines 279, 315, 323): the flow could take bytes and the
  writer sleeps until the peer sends a bare ACK, which it need not do.

### What the liveness properties show

`ShutdownCompletes` and `ReaderCompletes` are the two halves of one
question: does a task that got `Pending` hear of the end of the flow?

* The task in `poll_shutdown` does, whoever runs the pass that closes the
  flow, because that pass wakes the waker kept in `shutdown`. The one
  exception is a demultiplexer that has ended: the pass that meets the
  passed deadline then returns at line 213, before the state changes and
  before `shutdown.ready()`, and the property excuses exactly that
  (`upstream = "closed"`). `ShutdownHangs.cfg` checks it without the excuse.
* The task in `poll_read` does as long as nobody asks for shutdown. Its
  waker is with the inbox and with the deadline; `poll_write` of the other
  task moves the deadline (line 385) and the waker stays with it, so with a
  peer that says nothing more the deadline wakes the reader and the pass it
  runs ends the flow, or fails with the demultiplexer gone. Once
  `poll_shutdown` has been called the reader's wakers are replaced
  (`ReaderStarved.cfg`), and the property claims nothing.

### Checks kept beside the recorded runs

Eleven more statements were checked while the model was written. TLC finds each
violated under the configuration named; the configurations are kept with the
project and are not among the runs of `PROJECT.json`.

| cfg (module) | Property | What TLC finds |
|---|---|---|
| `TupleReuse.cfg` (`IpStack`) | `ClosedInboxIsEvicted` | A stream is dropped; the next packet of its tuple fails at line 115 and the entry stays in the table: only a sentinel removes one, and no TCP stream sends it. A new SYN on that tuple never opens a flow. |
| `ListenerDrop.cfg` (`IpStack`) | `HeldStreamsKeepTheirTask` | The consumer drops the listener and keeps a stream; the next new flow fails to be offered (lines 135, 146, 153) and the `?` ends the task with the device intact: the held stream is cut off. |
| `StaleBuffered.cfg` (`MCTcpFlow`) | `BufferedAtOrAfterAck` | Two overlapping segments are buffered; the drain of the longer one moves `ack` past the start of the other, which is never drained or removed and keeps its share of the advertised window. |
| `ZeroWindow.cfg` (`MCTcpFlow`) | `WriteTakesBytes` | The peer advertises 0 until the average of line 387 has decayed below 2; `0 < avg / 2` is then false, and `poll_write` sends an empty segment, records it in flight and returns `Ok(0)`. |
| `SmallReadBuffer.cfg` (`MCTcpFlow`) | `ReadFitsBuffer` | A segment of 2 bytes is drained into a buffer of 1: `put_slice` at line 230 panics. The drained run is as long as the buffered segments, whatever the buffer holds. |
| `ShutdownHangs.cfg` (`MCTcpTasks`) | `ShutdownCompletesWhateverFails` | The writer waits in `poll_shutdown`, the reader in `poll_read`; a device write fails and the demultiplexer ends. The deadline passes and wakes the reader, whose pass cannot send the RST|ACK and returns the error at line 213, before `change_state(Closed)` and `shutdown.ready()`. The reader is done, nothing moves the deadline again, and the writer sleeps for ever. |
| `ShortRead.cfg` (`IpStack`) | `HeldStreamsKeepTheirTask` | With packet information on, the device yields fewer than four bytes (an empty read at its end is enough): `buffer[4..n]` at line 104 panics in the spawned task, whose `JoinHandle` nobody holds. The device is intact and the stream the consumer holds is cut off. |
| `ReaderStarved.cfg` (`MCTcpTasks`) | `ReaderHasWaker` | The reader parks with its waker at the inbox and the deadline; the writer calls `poll_shutdown`, whose `poll_read` (line 440) replaces both by the writer's. A segment or the deadline now wakes the writer alone; bytes its pass buffers are not drained while a shutdown is pending (line 227), and the reader is told of nothing more. `ShutdownCompletes` holds nevertheless: the pass that ends the flow wakes the shutdown waiter whoever runs it. |
| `QuietEnd.cfg` (`MCTcpTasks`) | `ReaderIsToldTheError` | The deadline passes while the writer is in `poll_shutdown`: the `poll_read` inside it (line 440) closes the flow and gets `TimedOut`, which `poll_shutdown` returns to the writer. The reader's next `poll_read` takes the quiet return of lines 195-198, `Ok` with nothing read: a flow that timed out (or was reset) reads as the end of the peer's stream. |
| `StaleAck.cfg` (`MCTcpFlow`) | `FlushFindsSegment` | The peer answers the SYN-ACK with an ACK for 0, which does not cover the SYN. Line 270 calls `change_last_ack(0)`, which changes nothing, and the state becomes `Established` with `last_ack` 0 and `seq` 1. The same ACK again is a request to retransmit from 0; nothing in flight starts there and `poll_flush` panics (line 428) before the consumer has written a byte. |
| `PeerWindow.cfg` (`MCTcpFlow`) | `InflightWithinPeerWindow` | The peer advertises a window of 1. `poll_write` cuts each segment to the window (lines 111-115) and does not subtract what is in flight: two writes put 2 bytes in flight against a credit of 1. |

### Bounds

| Constant | Values | Why it is enough |
|---|---|---|
| `MaxPeerBytes`, `MaxSegLen`, `MaxPeerSegs` | 3, 2, 5 (`inbound`) | Three data segments after the handshake give a gap, its filling, an overlap and a repetition. |
| `MaxWriteBytes` | 3 (`outbound`), 2 (`teardown`, `wakeups`) | Two segments in flight and a third write that parks; in `teardown` a FIN that waits for two acknowledgements, of which either may be lost. |
| `Windows` | {1, 4} (`outbound`), {0, 4} (`wakeups`), {4} elsewhere | A window below the segment length cuts a retransmission. `outbound` has no closed window: once the average of line 387 has decayed every `poll_write` adds an empty segment to the in-flight list (`ZeroWindow.cfg`), and the consumer of `TcpFlow`, unlike the writer of `TcpTasks`, does not stop at `Ok(0)`, so the states have no end. In `wakeups` a closed window parks the writer on the window, not on the cap, and three segments that advertise 0 (the ACK of the handshake and two more) bring the average of line 387 to where `poll_write` returns `Ok(0)`. |
| `SendBufferCap` | 1 or 2; 0 in the runs of `TcpTasks` | Reached by one segment; with 0 the writer parks after its first byte. |
| `ReadBufferSize`, `MaxWindow` | 4 | The buffer fills with two segments. |
| `ReadBufLens` | {1, 4} (`inbound`), {4} elsewhere | A consumer buffer smaller and larger than a segment. |
| `MaxPeerSegs` | 4 (`wakeups`), 5 (`failure`) | SYN, the ACK of the handshake, an ACK that wakes the writer, a segment that ends the flow; or a window that closes with the handshake and stays closed, or reopens. In `failure`: the handshake and three ACKs, forged or stale, around a write. |
| `Hosts`, `MaxReads`, `MaxQueued` | 2 hosts, 3, 3 (`demux`) | Four tuples (TCP and UDP, both directions): two successive flows on one tuple beside a flow on another, and a sentinel behind two packets in the outbox. One more packet from the device takes the run past five minutes. |

`wakeups` has no loss of outbound segments: a peer that need not answer
gives the writer and the reader the same silence, and with loss the run
takes more than three minutes.

## Fairness

* `IpStack`: `WF_vars(OutboxBranch)`. `select!` polls its branches in random
  order, so a packet in the outbox is not passed over for ever by a device
  that always has something to read. The branch is one step of the model,
  so the fairness also takes it that a `device.write_all` that was started
  (line 177) returns, with success or with an error; a device that blocks a
  write for ever stops the loop, and `SignalledFlowIsEvicted` says nothing of
  it. Nothing else is assumed of the device, and nothing of the consumer.
* `TcpTasks`: `WF` on `PollRead(t)` for both tasks, on `ShutdownReturns` and
  on `Fires`. A task that has been woken is polled by its runtime; a call
  that is inside `poll_read` finishes its pass; a deadline that is not moved
  passes. Nothing is assumed of the peer, the network or the
  demultiplexer, and nothing makes the writer write or ask for shutdown.
  Fairness of `Fires` does not make a deadline pass that is moved again
  and again: the step is enabled only while the deadline is armed, and
  what moves it (a pass of `poll_read`, a `poll_write`) is bounded by the
  segments of the peer and the bytes of the writer.
* The flow runs check safety only, over `Spec` of `TcpFlow` without
  fairness.

## Not modelled

* Bytes on the wire: headers, checksums, TTL values other than `DROP_TTL`
  and `TTL`, the contents of the 4-byte prefix of the packet information
  (lines 36-47, 169-176), parsing (`packet.rs`). A packet that does not
  parse is one choice of `ReadUnparsed`, a read shorter than the prefix one
  of `ReadShort`.
* `IpStackConfig`: its settings are constants of the modules (`Mtu`,
  `PacketInformation`) or a step (`Elapse` for `tcp_timeout`); the setters
  change no state of a running stack, and `udp_timeout` is read by the UDP
  stream alone.
* What a call returned, beyond what the state tells: every pass that closes
  a flow returns an error (lines 203, 216, 262) and every call on a closed
  flow returns `Ok` with nothing read (lines 195-198), so a task that ends
  on a closed flow was not told the error (`ReaderIsToldTheError`). Which
  error it was is not kept.
* The getters of the stream (tcp.rs 94-108): they read two addresses. With
  the settings record and the imports they are the lines of the source no
  definition stands for.
* `IpStackError`: the model tells apart that a call failed, not with what.
* What a UDP stream does besides ending with a TTL-0 packet, and the
  contents of raw packets: `udp.rs` is outside the source tree and the
  specification says no more about it than `IpStack` uses.
* The composition of `IpStack` with the state machine of each flow: in
  `IpStack` a flow is its inbox and its key, in `TcpFlow` the demultiplexer
  is the environment of one flow. The two meet at the inbox and the outbox,
  whose contents `IpStack` does not look into.
* Time: a deadline is "not yet" or "passed"; the moving average of the
  window is kept, durations are not.

## Plan

1. **The end of the stream in `ByteStream`**: what the consumer is told
   when a flow ends (end of stream, reset, timeout) and that it is told
   only after the bytes before it, with the reader of `TcpTasks` as the one
   who is told.
2. **Duplicated segments on the way out** and a larger `demux`.
3. **A peer that acknowledges inside a segment while the consumer writes**:
   `Stale` with two segments in flight, beyond the five peer segments of
   `failure`.
