------------------------------- MODULE TcpFlow -------------------------------
(***************************************************************************)
(* One TCP flow from end to end: the remote peer, the part of the          *)
(* demultiplexer that serves the flow's tuple (IpStack::new in lib.rs),    *)
(* the stream (module TcpStream) and its consumer.                         *)
(*                                                                         *)
(* The peer is the environment.  It is a record, and what it may send next *)
(* (Offers), what sending does to it (Sent) and what a segment written to  *)
(* the device does to it (Hears) are operators over that record.  A        *)
(* segment the peer sends is read from the device and dispatched in the    *)
(* same step; a segment the demultiplexer writes to the device is heard by *)
(* the peer in the same step, or by nobody if the network may lose it.     *)
(* Loss and reordering on the way in are a peer that sends data it has not *)
(* sent the start of.  PeerMay and Events say which of these a run allows. *)
(***************************************************************************)
EXTENDS TcpStream

CONSTANTS
    PeerIsn,        \* the peer's initial sequence number
    MaxPeerBytes,   \* bound: the peer's stream is the bytes 0 .. MaxPeerBytes - 1
    MaxSegLen,      \* bound: the longest payload the peer sends
    MaxPeerSegs,    \* bound: how many segments the peer sends
    Windows,        \* the window sizes the peer advertises
    PeerMay,        \* what else the peer and the network between may do
    Events          \* what the consumer, the clock and the device may do

PeerChoices ==
    {"stray", "syn_again", "keep_alive", "fin", "reset", "reorder", "loss",
     "forged_ack", "stale_ack"}

EventChoices == {"shutdown", "drop", "timeout", "device_failure"}

ASSUME /\ PeerIsn \in SeqNums
       /\ MaxPeerBytes \in Nat /\ MaxSegLen \in Nat /\ MaxPeerSegs \in Nat
       /\ Windows \subseteq 0 .. MaxWindow
       /\ PeerMay \subseteq PeerChoices
       /\ Events \subseteq EventChoices

\* Every byte identity of the model: offsets of the peer's stream and
\* numbers of the consumer's bytes.
Bytes == 0 .. (IF MaxPeerBytes > MaxWriteBytes THEN MaxPeerBytes ELSE MaxWriteBytes)

-----------------------------------------------------------------------------
(* The peer *)

PeerInit ==
    [ st |-> "Idle", nxt |-> 0, wnd |-> 0, rcvd |-> <<>>, fin |-> FALSE, segs |-> 0 ]

\* The sequence number of the byte at an offset of the peer's stream.
PeerSeq(off) == Wrap(PeerIsn + 1 + off)

\* What the peer acknowledges: our SYN, the bytes it took, our FIN.
PeerAck(p) == Wrap(1 + Len(p.rcvd) + IF p.fin THEN 1 ELSE 0)

Segment(flags, seq, ack, win, payload) ==
    [ flags |-> flags, seq |-> seq, ack |-> ack, win |-> win, payload |-> payload ]

Syns(p) == {Segment({SYN}, PeerIsn, 0, w, <<>>) : w \in Windows}

\* A first segment that opens nothing.
Strays(p) == {Segment(f, PeerSeq(0), 1, p.wnd, <<>>) : f \in {{ACK}, {RST}}}

\* Bare ACKs; each may advertise another window.
Acks(p) ==
    {Segment({ACK}, PeerSeq(p.nxt + IF p.st = "FinSent" THEN 1 ELSE 0), PeerAck(p), w, <<>>) :
        w \in Windows}

\* Bare ACKs for more than the peer has got, and so perhaps for more than
\* was ever sent.
Forged(p) ==
    {Segment({ACK}, PeerSeq(p.nxt), SeqAdd(PeerAck(p), d), p.wnd, <<>>) : d \in 1 .. 2}

\* A bare ACK for one less than the peer has got: one that a later ACK has
\* overtaken, one that stops inside a segment, or one that does not even
\* cover our SYN.
Stale(p) == {Segment({ACK}, PeerSeq(p.nxt), SeqSub(PeerAck(p), 1), p.wnd, <<>>)}

KeepAlives(p) ==
    {Segment({ACK}, SeqSub(PeerSeq(p.nxt), 1), PeerAck(p), p.wnd, <<>>)}

\* New data and retransmissions, cut wherever the peer likes.
Data(p) ==
    LET cuts == {c \in (0 .. (IF "reorder" \in PeerMay THEN MaxPeerBytes ELSE p.nxt)) \X (1 .. MaxSegLen) :
                    c[1] + c[2] <= MaxPeerBytes}
    IN  {Segment(f, PeerSeq(c[1]), PeerAck(p), p.wnd, [i \in 1 .. c[2] |-> c[1] + i - 1]) :
            f \in {{ACK}, {PSH, ACK}}, c \in cuts}

Fins(p) == {Segment({FIN, ACK}, PeerSeq(p.nxt), PeerAck(p), p.wnd, <<>>)}

Rsts(p) == {Segment({RST}, PeerSeq(p.nxt), 0, 0, <<>>)}

\* A kind of segment the configuration lets the peer send.
Allowed(choice, segments) == IF choice \in PeerMay THEN segments ELSE {}

\* The segments the peer may send next.
Offers(p) ==
    IF p.segs >= MaxPeerSegs THEN {}
    ELSE CASE p.st = "Idle"    -> Syns(p) \cup Allowed("stray", Strays(p))
           [] p.st = "SynSent" -> Allowed("syn_again", Syns(p))
           [] p.st = "Estab"   -> Acks(p) \cup Data(p)
                                     \cup Allowed("keep_alive", KeepAlives(p))
                                     \cup Allowed("forged_ack", Forged(p))
                                     \cup Allowed("stale_ack", Stale(p))
                                     \cup Allowed("fin", Fins(p))
                                     \cup Allowed("reset", Rsts(p))
           [] p.st = "FinSent" -> Acks(p) \cup Fins(p) \cup Allowed("reset", Rsts(p))
           [] OTHER            -> {}

\* The peer after it has sent a segment.
Sent(p, seg) ==
    LET end == Distance(SeqAdd(seg.seq, Len(seg.payload)), PeerSeq(0))
    IN  [ p EXCEPT
            !.segs = @ + 1,
            !.wnd = seg.win,
            !.nxt = IF seg.payload # <<>> /\ end > @ THEN end ELSE @,
            !.st = CASE SYN \in seg.flags -> "SynSent"
                     [] FIN \in seg.flags -> "FinSent"
                     [] RST \in seg.flags /\ @ # "Idle" -> "Reset"
                     [] OTHER -> @ ]

\* The peer after a segment of ours has reached it: it takes what starts
\* exactly where its copy of our stream ends, and nothing else.
Hears(p, seg) ==
    LET expected == seg.seq = Wrap(1 + Len(p.rcvd)) /\ ~p.fin
                        /\ p.st \in {"Estab", "FinSent"}
    IN  CASE RST \in seg.flags -> [p EXCEPT !.st = "Reset"]
          [] seg.flags = {SYN, ACK} /\ p.st = "SynSent" -> [p EXCEPT !.st = "Estab"]
          [] expected /\ seg.payload # <<>> -> [p EXCEPT !.rcvd = @ \o seg.payload]
          [] expected /\ FIN \in seg.flags -> [p EXCEPT !.fin = TRUE]
          [] OTHER -> p

-----------------------------------------------------------------------------
(* The demultiplexer, for this flow's tuple *)

\* The device yields a segment of the peer (lib.rs lines 101-111).
Arrives(seg) ==
    /\ upstream = "open" /\ pc = "idle"
    /\ peer' = Sent(peer, seg)

\* Vacant entry, the stream is made: lib.rs lines 129-136.
Accept == life = "none" /\ \E seg \in Offers(peer) : Arrives(seg) /\ NewAccepted(seg)

\* Vacant entry, the stream is refused: lib.rs lines 137-141.
Refuse == life = "none" /\ \E seg \in Offers(peer) : Arrives(seg) /\ NewRefused(seg)

\* Occupied entry: lib.rs lines 113-115.  The entry is never removed, for
\* no stream of this version sends the segment with TTL 0 that removes it.
Forward ==
    /\ life = "open"
    /\ \E seg \in Offers(peer) : Arrives(seg) /\ inbox' = Append(inbox, seg)
    /\ UNCHANGED <<life, tcb, packet_to_send, shutdown, write_notify, pc,
                   outbox, upstream, delivered, written>>

\* Occupied entry of a stream that is gone: the send fails and the error
\* is dropped, lib.rs lines 115-127.  What the peer goes on to send to
\* such a stream is of no interest, and the peer is left as it is.
ForwardFails ==
    /\ life \in {"dropped", "panicked", "overrun"}
    /\ upstream = "open" /\ pc = "idle"
    /\ Offers(peer) # {}
    /\ UNCHANGED vars

\* A segment of the outbox is written to the device: lib.rs lines 157-177.
TunWrite ==
    /\ upstream = "open" /\ pc = "idle" /\ outbox # <<>>
    /\ outbox' = Tail(outbox)
    /\ peer' \in {Hears(peer, Head(outbox))} \cup Allowed("loss", {peer})
    /\ UNCHANGED <<life, tcb, packet_to_send, shutdown, write_notify, pc, inbox,
                   upstream, delivered, written>>

\* The write to the device fails and the task of the demultiplexer ends:
\* lib.rs line 177.
DeviceFails ==
    /\ "device_failure" \in Events
    /\ upstream = "open" /\ pc = "idle" /\ outbox # <<>>
    /\ outbox' = Tail(outbox)
    /\ upstream' = "closed"
    /\ UNCHANGED <<life, tcb, packet_to_send, shutdown, write_notify, pc, inbox,
                   delivered, written, peer>>

-----------------------------------------------------------------------------

Init ==
    /\ life = "none" /\ tcb = NULL /\ packet_to_send = NULL
    /\ shutdown = "None" /\ write_notify = FALSE /\ pc = "idle"
    /\ inbox = <<>> /\ outbox = <<>> /\ upstream = "open"
    /\ delivered = <<>> /\ written = 0
    /\ peer = PeerInit

Next ==
    \/ Accept \/ Refuse \/ Forward \/ ForwardFails
    \/ TunWrite \/ DeviceFails
    \/ poll_read \/ poll_write
    \/ "shutdown" \in Events /\ PollShutdown
    \/ "drop" \in Events /\ Drop
    \/ "timeout" \in Events /\ Elapse

Spec == Init /\ [][Next]_vars

-----------------------------------------------------------------------------

TypeOK ==
    /\ StreamTypeOK(Bytes)
    /\ peer.st \in {"Idle", "SynSent", "Estab", "FinSent", "Reset"}
    /\ peer.nxt \in 0 .. MaxPeerBytes
    /\ peer.wnd \in 0 .. MaxWindow
    /\ peer.rcvd \in Seq(Bytes)
    /\ peer.fin \in BOOLEAN
    /\ peer.segs \in 0 .. MaxPeerSegs

\* poll_read hands the consumer the peer's bytes in the order of the peer's
\* stream, each once and none skipped: whatever order the segments arrive
\* in, how they overlap and how often they are repeated, the run that
\* lines 227-230 deliver starts where the last one ended.
DeliveredInOrder ==
    IsPrefix(delivered, [i \in 1 .. peer.nxt |-> i - 1])

\* What the stream acknowledges is what the consumer has been handed, no
\* more and no less, up to the end of the data phase: ack moves at line 229
\* alone, by the run that line 230 hands over, and a run that line 227 takes
\* from the reordering buffer while a shutdown is pending is neither handed
\* over nor counted, so the peer sends it again.  The one run that is counted
\* and not handed over is the one whose ACK cannot be sent (lines 231-233):
\* the demultiplexer is gone by then, and the count reaches nobody.
AckCountsDelivered ==
    /\ life = "open" /\ upstream = "open"
    /\ tcb.state \in {Listen, SynReceived, Established, FinWait1(FALSE)}
    => tcb.ack = PeerSeq(Len(delivered))

\* The flow seen as module ByteStream sees it.
Stream ==
    INSTANCE ByteStream WITH offered <- peer.nxt, read <- delivered,
                             accepted <- written, arrived <- peer.rcvd,
                             reading <- (shutdown = "None")

\* The flow is a byte stream to both its ends: a step changes what the
\* consumer has read or what the peer has got only by adding the bytes that
\* come next, in a pass of poll_read that found no shutdown asked for (line
\* 227) or from a segment whose sequence number create_rev_packet and
\* poll_flush (lines 116-179, 409-432) got right.
ImplementsByteStream == Stream!Spec

\* No byte that poll_write has accepted and that the peer has not yet
\* acknowledged is forgotten: while the flow is in the data phase it is
\* still in inflight_packets, where poll_flush can find it.
UnackedStaysInFlight ==
    life = "open" /\ tcb.state = Established =>
        \A b \in 1 .. written :
            SeqGe(Wrap(b), tcb.last_ack) =>
                \E i \in DOMAIN tcb.inflight_packets :
                    b \in ToSet(tcb.inflight_packets[i].payload)

\* The stream takes no acknowledgement for what it has not sent, whatever
\* the ACK field of a segment says: change_last_ack drops in-flight segments
\* on the word of the peer, and every branch that calls it comes after the
\* segments that check_pkt_type finds Invalid have been left behind (lines
\* 264-266).
AcknowledgedIsSent ==
    life = "open" => SeqLe(tcb.last_ack, tcb.seq)

\* The window a segment advertises never exceeds the free space of the
\* reordering buffer: poll_write and the passes of poll_read that answer
\* use recv_window as lines 206-207 last left it, and the buffer has only
\* been emptied since.
AdvertisedWindowFits ==
    life = "open" =>
        /\ pc = "idle" => tcb.recv_window <= get_available_read_buffer_size(tcb)
        /\ packet_to_send # NULL =>
                packet_to_send.win <= get_available_read_buffer_size(tcb)

\* An answer of poll_read waiting in the outbox (SYN|ACK, ACK, FIN|ACK,
\* RST|ACK: every segment that is not PSH|ACK) never carries a sequence
\* number older than the data queued before it: the answer a pass prepares
\* (packet_to_send) is emitted by the next pass of the same call, before
\* poll_write can send anything.  The PSH|ACK segments are those of
\* poll_write and of poll_flush, and poll_flush sends under an old sequence
\* number by design, with no payload when the window is closed.
ControlSegmentsInSequence ==
    \A i, j \in DOMAIN outbox :
        i < j /\ PSH \notin outbox[j].flags =>
            SeqLe(SeqAdd(outbox[i].seq, Len(outbox[i].payload)), outbox[j].seq)

\* Once the TCB is Closed the stream emits nothing more: every pass of
\* poll_read returns at lines 195-198 and poll_write at line 383.
ClosedIsSilent ==
    [][life = "open" /\ tcb.state = Closed => Len(outbox') <= Len(outbox)]_vars

\* The sequence number of the stream counts the SYN and the bytes poll_write
\* has accepted, and a segment in flight holds the bytes that belong to its
\* sequence number, also when the send of line 403 fails between building
\* the segment and recording it.
SequenceCountsAcceptedBytes ==
    life = "open" /\ tcb.state \in {SynReceived, Established, FinWait1(TRUE)} =>
        /\ tcb.seq = Wrap(1 + written)
        /\ \A i \in DOMAIN tcb.inflight_packets :
              LET p == tcb.inflight_packets[i]
              IN  p.payload = [k \in 1 .. Len(p.payload) |-> p.seq + k - 1]

\* A shutdown of the consumer sends the FIN only when the peer has all that
\* was written: after the FIN nothing is sent again (poll_flush wants
\* Established), so lines 242-244 must wait for the last acknowledgement
\* although segments and acknowledgements may be lost on the way.
ShutdownWaitsForAcks ==
    life = "open" /\ tcb.state = FinWait1(FALSE) => Len(peer.rcvd) = written

\* The peer takes our FIN only behind every byte poll_write has accepted,
\* and none is accepted after it: the FIN that answers the peer's own (lines
\* 236-241) goes out while segments may still be in flight or lost, and it
\* is its sequence number, with the state check of line 382, that keeps the
\* peer from taking a stream cut short for a whole one.
FinEndsWhatWasWritten ==
    peer.fin => Len(peer.rcvd) = written

\* A first segment that is refused is answered by a RST|ACK whose sequence
\* number is the acknowledgement number of the segment it answers
\* (IpStackTcpStream::new, line 86).
RefusalAnswersInSequence ==
    [][life = "none" /\ Len(outbox') > Len(outbox) =>
          \E seg \in Strays(peer) : Last(outbox').seq = seg.ack]_vars

\* The bytes in inflight_packets never exceed the send-buffer cap: poll_write
\* parks (line 387) rather than go over it.
InflightWithinCap ==
    life = "open" => PayloadBytes(tcb.inflight_packets) <= SendBufferCap

\* The bytes in flight stay within the window the peer last advertised: a
\* write sends no more than the credit that is left (lines 111-115 and 399).
InflightWithinPeerWindow ==
    [][written' > written =>
          PayloadBytes(tcb'.inflight_packets) <= tcb.send_window]_vars

\* Every segment in the reordering buffer starts at or after the expected
\* sequence number, so that the drain of line 227 reaches it: segments are
\* buffered at lines 312 and 348 and leave only as part of a contiguous run.
BufferedAtOrAfterAck ==
    life = "open" => \A p \in tcb.unordered_packets : SeqGe(p.seq, tcb.ack)

\* No segment but a reset acknowledges what the peer has not sent, although
\* the peer's FIN is counted twice (lines 331 and 239) or in advance (line
\* 354): every answer is built before the count that goes too far.
NeverAcksUnsent ==
    \A i \in DOMAIN outbox :
        RST \notin outbox[i].flags /\ peer.st # "Reset" =>
            SeqLe(outbox[i].ack,
                  SeqAdd(PeerSeq(peer.nxt), IF peer.st = "FinSent" THEN 1 ELSE 0))

\* poll_read hands over no more than the consumer's buffer holds: the copy
\* of line 230 never panics.
ReadFitsBuffer == life # "overrun"

\* Every segment poll_write records in flight carries at least one byte:
\* with no room in the peer's window the call parks (line 387) and does
\* not return Ok(0).
WriteTakesBytes ==
    life = "open" =>
        \A i \in DOMAIN tcb.inflight_packets : tcb.inflight_packets[i].payload # <<>>

\* The flush of a retransmission always finds the segment it is asked for;
\* the branch of poll_flush that panics (line 428) is never taken.
FlushFindsSegment == life # "panicked"

=============================================================================
