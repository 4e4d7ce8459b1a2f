------------------------------ MODULE TcpStream ------------------------------
(***************************************************************************)
(* One TCP flow as the consumer holds it: IpStackTcpStream.  The stream    *)
(* has no task of its own; its state machine moves only when the consumer  *)
(* polls it (poll_read, poll_write, poll_shutdown), and it talks to the    *)
(* demultiplexer through two unbounded channels, inbox and outbox.         *)
(*                                                                         *)
(* poll_read is a loop.  One pass of the loop is one step here, and pc     *)
(* says whether the call is still inside the loop ("reading") or has       *)
(* returned ("idle").  The call is synchronous, so nothing else of the     *)
(* consumer runs between two passes.  The demultiplexer and the clock do   *)
(* run beside it, but their steps commute with a pass they fall behind:    *)
(* the inbox is only appended to, the outbox only taken from at its head,  *)
(* and every pass moves the deadline before it looks at the clock again.   *)
(* So every step but a pass waits for pc to be "idle".                     *)
(*                                                                         *)
(* A segment is a record [flags, seq, ack, win, payload].  Addresses,      *)
(* ports, checksums and the TTL are the same on every segment of a flow    *)
(* and are left out.                                                       *)
(***************************************************************************)
EXTENDS Tcb

CONSTANTS
    NULL,           \* Option::None
    Mtu,            \* IpStackConfig::mtu
    HeaderLen,      \* length of the IP header plus the TCP header
    ReadBufLens,    \* the room the consumer's buffer may have in a poll_read
    MaxWriteBytes   \* bound: the consumer writes the bytes 1 .. MaxWriteBytes

ASSUME /\ Mtu \in Nat /\ HeaderLen \in Nat /\ MaxWriteBytes \in Nat
       /\ ReadBufLens \subseteq Nat /\ ReadBufLens # {}

VARIABLES
    life,           \* "none": no stream for the flow yet; "open"; "dropped";
                    \* "panicked": the flush met the unrecoverable branch;
                    \* "overrun": put_slice met a buffer too short
    tcb,            \* the Tcb of the stream, NULL before there is a stream
    packet_to_send, \* a segment prepared in one pass and emitted by the next
    shutdown,       \* "None", "Pending" (a waker is kept) or "Ready"
    write_notify,   \* TRUE while the waker of a parked writer is kept
    pc,             \* "reading" inside the loop of poll_read, else "idle"
    inbox,          \* stream_sender -> stream_receiver, filled by the demultiplexer
    outbox,         \* up_packet_sender -> pkt_receiver, drained by the demultiplexer
    upstream,       \* "closed" once the demultiplexer has dropped pkt_receiver
    delivered,      \* history: the bytes handed to the consumer by poll_read
    written,        \* history: how many bytes poll_write has accepted
    peer            \* the remote endpoint; no step of the stream reads or writes it

streamVars ==
    <<life, tcb, packet_to_send, shutdown, write_notify, pc,
      inbox, outbox, upstream, delivered, written>>

vars == <<streamVars, peer>>

SYN == "SYN"
ACK == "ACK"
FIN == "FIN"
PSH == "PSH"
RST == "RST"

-----------------------------------------------------------------------------
(* Building a segment *)

\* The payload a segment may carry: the peer's window or what the MTU leaves.
calculate_payload_max_len(t) ==
    Min({t.send_window, IF Mtu > HeaderLen THEN Mtu - HeaderLen ELSE 0})

\* A mutant of create_rev_packet: the sequence number asked for is ignored.
create_rev_packet_current_seq(t, flags, seq, payload) ==
    [ flags |-> flags, seq |-> t.seq, ack |-> t.ack, win |-> t.recv_window,
      payload |-> SubSeq(payload, 1, Min({Len(payload), calculate_payload_max_len(t)})) ]

\* The segment carries the sequence number asked for, or ours when none is
\* given, always our ack and our window, and as much payload as fits.
create_rev_packet(t, flags, seq, payload) ==
    [ flags |-> flags, seq |-> IF seq = NULL THEN t.seq ELSE seq,
      ack |-> t.ack, win |-> t.recv_window,
      payload |-> SubSeq(payload, 1, Min({Len(payload), calculate_payload_max_len(t)})) ]

-----------------------------------------------------------------------------
(* Construction and destruction *)

\* IpStackTcpStream::new on a SYN: the stream exists, its TCB waits in Listen.
NewAccepted(tcp) ==
    /\ life = "none"
    /\ SYN \in tcp.flags
    /\ life' = "open"
    /\ tcb' = new(SeqAdd(tcp.seq, 1))
    /\ UNCHANGED <<packet_to_send, shutdown, write_notify, pc, inbox, outbox,
                   upstream, delivered, written>>

\* IpStackTcpStream::new on anything else: no stream; a first segment that is
\* not a RST is answered by RST|ACK from a TCB that was never used.
NewRefused(tcp) ==
    /\ life = "none"
    /\ SYN \notin tcp.flags
    /\ outbox' = IF RST \in tcp.flags \/ upstream = "closed"
                 THEN outbox
                 ELSE Append(outbox, create_rev_packet(new(SeqAdd(tcp.seq, 1)),
                                                       {RST, ACK}, NULL, <<>>))
    /\ UNCHANGED <<life, tcb, packet_to_send, shutdown, write_notify, pc, inbox,
                   upstream, delivered, written>>

\* The consumer lets go of the stream; destroy_messenger is never set, so
\* nobody is told.
Drop ==
    /\ life = "open" /\ pc = "idle"
    /\ life' = "dropped"
    /\ UNCHANGED <<tcb, packet_to_send, shutdown, write_notify, pc, inbox, outbox,
                   upstream, delivered, written, peer>>

-----------------------------------------------------------------------------
(* poll_read: what one pass has established when it reaches a line *)

\* Lines 192-194: the segment prepared by the pass before goes out first.
Flushed == IF packet_to_send = NULL THEN <<>> ELSE <<packet_to_send>>

Polled == life = "open" /\ (packet_to_send = NULL \/ upstream = "open")

\* A mutant of Live: the early return of a Closed flow is missing.
LiveThoughClosed == Polled /\ tcb.state # FinWait2(FALSE)

\* Lines 195-204 did not return.
Live == Polled /\ tcb.state \notin {Closed, FinWait2(FALSE)}

\* A mutant of Refreshed: the advertised window is never brought up to date.
RefreshedNever == tcb

\* Lines 206-207: the free space, cast to the width of the window field.
Refreshed ==
    change_recv_window(tcb, get_available_read_buffer_size(tcb) % (MaxWindow + 1))

\* Lines 209-218 did not return: the deadline has not passed, and is moved.
Timely == Live /\ tcb.timeout = "armed"

Rearmed == reset_timeout(Refreshed)

\* Lines 220-225 did not continue.
Awake == Timely /\ tcb.state # Listen

\* A mutant of Drain: the run is counted where it leaves the buffer.
DrainCounting ==
    LET run == get_unordered_packets(Rearmed)
    IN  [run EXCEPT !.tcb = add_ack(@, Len(run.bytes))]

\* Line 227: the reordering buffer gives up its contiguous run whatever the
\* shutdown state is; the run reaches the consumer only if it is None.
Drain == get_unordered_packets(Rearmed)

\* A mutant of Handed: the run goes to a consumer that asked for shutdown.
HandedThoughShut == Drain.bytes # <<>>

\* The filter of line 227: there is a run, and no shutdown has been asked for.
Handed == Drain.bytes # <<>> /\ shutdown = "None"

\* Lines 227-235 did not return.
Drained == Awake /\ ~Handed

\* A mutant of FinDue: the FIN does not wait for what is in flight.
FinDueUnacked == shutdown = "Pending" /\ tcb.state = Established

\* Lines 242-244.
FinDue ==
    /\ shutdown = "Pending"
    /\ tcb.state = Established
    /\ tcb.last_ack = tcb.seq

\* The inbox has a segment and line 251 is reached.
Receiving ==
    /\ inbox # <<>>
    /\ Drained
    /\ tcb.state # FinWait1(TRUE)
    /\ ~FinDue

Status == check_pkt_type(Drain.tcb, Head(inbox), Head(inbox).payload)

\* A mutant of Dispatched: a segment found Invalid is dispatched like any other.
DispatchedUnchecked(state, flags) ==
    Receiving /\ tcb.state = state /\ Head(inbox).flags = flags /\ RST \notin flags

\* Lines 259-266 let the segment through to the dispatch on state and flags.
Dispatched(state, flags) ==
    /\ Receiving
    /\ tcb.state = state
    /\ Head(inbox).flags = flags
    /\ RST \notin flags
    /\ Status # "Invalid"

\* The pairs of state and flags that lines 268-371 have a branch for.
Handled ==
    ({SynReceived} \X {{ACK}})
        \cup ({Established} \X {{ACK}, {FIN, ACK}, {PSH, ACK}})
        \cup ({FinWait1(FALSE), FinWait2(TRUE)} \X {{ACK}, {FIN, ACK}})

\* How a pass ends: the TCB it leaves, the segment it prepared, the segments
\* it sent after the flushed one, and whether the loop goes round again.
Pass(t, prepared, sent, again) ==
    /\ tcb' = t
    /\ packet_to_send' = prepared
    /\ outbox' = outbox \o Flushed \o sent
    /\ pc' = IF again THEN "reading" ELSE "idle"
    /\ UNCHANGED <<life, upstream, written, peer>>

\* A mutant of Consume: the pass returns where the code continues.
ConsumeAndReturn(t, prepared, wake) ==
    /\ inbox' = Tail(inbox)
    /\ write_notify' = (write_notify /\ ~wake)
    /\ Pass(t, prepared, <<>>, FALSE)
    /\ UNCHANGED <<shutdown, delivered>>

\* A pass that took a segment from the inbox and loops: the TCB it leaves,
\* the answer it prepared, and whether it took and woke the writer's waker.
Consume(t, prepared, wake) ==
    /\ inbox' = Tail(inbox)
    /\ write_notify' = (write_notify /\ ~wake)
    /\ Pass(t, prepared, <<>>, TRUE)
    /\ UNCHANGED <<shutdown, delivered>>

\* A mutant of Finish: the flow is Closed and the shutdown waiter is not told.
FinishSilently(t, sent) ==
    /\ Pass(change_state(t, Closed), NULL, sent, FALSE)
    /\ UNCHANGED <<shutdown, write_notify, delivered>>

\* A pass that ends the flow: Closed, and the shutdown waiter is released.
Finish(t, sent) ==
    /\ shutdown' = "Ready"
    /\ Pass(change_state(t, Closed), NULL, sent, FALSE)
    /\ UNCHANGED <<write_notify, delivered>>

-----------------------------------------------------------------------------
(* poll_read: the passes that end before the inbox is looked at *)

\* Line 193: the demultiplexer is gone; the prepared segment is lost with
\* the error.
ReadEmitFails ==
    /\ life = "open" /\ packet_to_send # NULL /\ upstream = "closed"
    /\ packet_to_send' = NULL
    /\ pc' = "idle"
    /\ UNCHANGED <<life, tcb, shutdown, write_notify, inbox, outbox, upstream,
                   delivered, written, peer>>

\* Lines 195-198.
ReadClosed ==
    /\ Polled /\ tcb.state = Closed
    /\ shutdown' = "Ready"
    /\ Pass(tcb, NULL, <<>>, FALSE)
    /\ UNCHANGED <<write_notify, inbox, delivered>>

\* Lines 200-204.
ReadAborted ==
    /\ Polled /\ tcb.state = FinWait2(FALSE)
    /\ Finish(tcb, <<>>)
    /\ UNCHANGED inbox

\* Lines 209-217, the RST|ACK is sent.
ReadTimedOut ==
    /\ Live /\ tcb.timeout = "fired" /\ upstream = "open"
    /\ Finish(Refreshed, <<create_rev_packet(Refreshed, {RST, ACK}, NULL, <<>>)>>)
    /\ UNCHANGED inbox

\* Lines 209-213, the send fails: the call returns before the state changes.
ReadTimedOutFails ==
    /\ Live /\ tcb.timeout = "fired" /\ upstream = "closed"
    /\ Pass(Refreshed, NULL, <<>>, FALSE)
    /\ UNCHANGED <<shutdown, write_notify, inbox, delivered>>

\* Lines 220-225.
ReadListen ==
    /\ Timely /\ tcb.state = Listen
    /\ Pass(change_state(add_seq_one(Rearmed), SynReceived),
            create_rev_packet(Rearmed, {SYN, ACK}, NULL, <<>>), <<>>, TRUE)
    /\ UNCHANGED <<shutdown, write_notify, inbox, delivered>>

\* Line 229: the TCB after the consumer has been given the run.
Taken == add_ack(Drain.tcb, Len(Drain.bytes))

\* Line 230: the consumer's buffer has room for the whole run.
Fits == \E room \in ReadBufLens : Len(Drain.bytes) <= room

\* Lines 227-234.
ReadDeliver ==
    /\ Awake /\ Handed /\ upstream = "open"
    /\ Fits
    /\ delivered' = delivered \o Drain.bytes
    /\ Pass(Taken, NULL, <<create_rev_packet(Taken, {ACK}, NULL, <<>>)>>, FALSE)
    /\ UNCHANGED <<shutdown, write_notify, inbox>>

\* Lines 227-233, the send fails: the buffer was filled, but the call returns
\* the error and the consumer never looks at the bytes.
ReadDeliverFails ==
    /\ Awake /\ Handed /\ upstream = "closed"
    /\ Fits
    /\ Pass(Taken, NULL, <<>>, FALSE)
    /\ UNCHANGED <<shutdown, write_notify, inbox, delivered>>

\* Lines 227-230: the run is longer than the room in the consumer's buffer
\* and put_slice panics, after ack has moved past the run.
ReadOverruns ==
    /\ Awake /\ Handed
    /\ \E room \in ReadBufLens : Len(Drain.bytes) > room
    /\ life' = "overrun"
    /\ tcb' = Taken
    /\ outbox' = outbox \o Flushed
    /\ packet_to_send' = NULL
    /\ pc' = "idle"
    /\ UNCHANGED <<shutdown, write_notify, inbox, upstream, delivered, written, peer>>

\* A mutant of ReadFinWait1: the FIN is built after the peer's FIN is counted again.
ReadFinWait1Counted ==
    /\ Awake /\ tcb.state = FinWait1(TRUE) /\ Drained
    /\ Pass(change_state(add_ack(add_seq_one(Drain.tcb), 1), FinWait2(TRUE)),
            create_rev_packet(add_ack(Drain.tcb, 1), {FIN, ACK}, NULL, <<>>), <<>>, TRUE)
    /\ UNCHANGED <<shutdown, write_notify, inbox, delivered>>

\* Lines 236-241: our FIN answers the peer's.
ReadFinWait1 ==
    /\ Awake /\ tcb.state = FinWait1(TRUE) /\ Drained
    /\ Pass(change_state(add_ack(add_seq_one(Drain.tcb), 1), FinWait2(TRUE)),
            create_rev_packet(Drain.tcb, {FIN, ACK}, NULL, <<>>), <<>>, TRUE)
    /\ UNCHANGED <<shutdown, write_notify, inbox, delivered>>

\* Lines 242-250: the consumer asked for shutdown and nothing is in flight.
ReadSendFin ==
    /\ Awake /\ tcb.state # FinWait1(TRUE) /\ FinDue /\ Drained
    /\ Pass(change_state(add_seq_one(Drain.tcb), FinWait1(FALSE)),
            create_rev_packet(Drain.tcb, {FIN, ACK}, NULL, <<>>), <<>>, TRUE)
    /\ UNCHANGED <<shutdown, write_notify, inbox, delivered>>

\* Line 251 is reached and the inbox is empty.
Starved ==
    /\ inbox = <<>>
    /\ Awake /\ tcb.state # FinWait1(TRUE) /\ ~FinDue /\ Drained

\* Line 374: nothing to receive, the call returns Pending.
ReadPending ==
    /\ Starved
    /\ Pass(Drain.tcb, NULL, <<>>, FALSE)
    /\ UNCHANGED <<shutdown, write_notify, inbox, delivered>>

-----------------------------------------------------------------------------
(* poll_read: the passes that take a segment from the inbox *)

\* Lines 259-263.
RecvRst ==
    /\ Receiving /\ RST \in Head(inbox).flags
    /\ inbox' = Tail(inbox)
    /\ Finish(Drain.tcb, <<>>)

\* Lines 264-266.
RecvInvalid ==
    /\ Receiving /\ RST \notin Head(inbox).flags /\ Status = "Invalid"
    /\ Consume(Drain.tcb, NULL, FALSE)

\* The state has no branch for these flags, or the branch for PSH|ACK finds
\* something else than new data (lines 337-339): the segment is used up.
RecvIgnored ==
    /\ Receiving /\ RST \notin Head(inbox).flags /\ Status # "Invalid"
    /\ \/ <<tcb.state, Head(inbox).flags>> \notin Handled
       \/ Dispatched(Established, {PSH, ACK}) /\ Status # "NewPacket"
    /\ Consume(Drain.tcb, NULL, FALSE)

\* The TCB once the ACK field and the window of the segment are adopted.
Acknowledged(t, p) == change_send_window(change_last_ack(t, p.ack), p.win)

\* Lines 268-273.
SynReceivedAck ==
    /\ Dispatched(SynReceived, {ACK})
    /\ Consume(change_state(Acknowledged(Drain.tcb, Head(inbox)), Established),
               NULL, FALSE)

\* Lines 277-283.
EstWindowUpdate ==
    /\ Dispatched(Established, {ACK}) /\ Status = "WindowUpdate"
    /\ Consume(change_send_window(Drain.tcb, Head(inbox).win), NULL, TRUE)

\* Lines 285-290: answered by a bare ACK; the writer's waker is left alone.
EstKeepAlive ==
    /\ Dispatched(Established, {ACK}) /\ Status = "KeepAlive"
    /\ LET t == Acknowledged(Drain.tcb, Head(inbox))
       IN  Consume(t, create_rev_packet(t, {ACK}, NULL, <<>>), FALSE)

\* The segments in flight that start at the sequence number asked for.
Requested(t, s) == SelectSeq(t.inflight_packets, LAMBDA p : p.seq = s)

\* Lines 291-298 with poll_flush, lines 410-417: the segment in flight that
\* starts at the duplicated ACK goes out again under its own sequence number,
\* cut to what the window now allows.  An error of the send is dropped.
EstRetransmission ==
    /\ Dispatched(Established, {ACK}) /\ Status = "RetransmissionRequest"
    /\ LET t == change_send_window(Drain.tcb, Head(inbox).win)
           found == Requested(t, Head(inbox).ack)
       IN  /\ found # <<>>
           /\ inbox' = Tail(inbox)
           /\ Pass(t, NULL,
                   IF upstream = "open"
                   THEN <<create_rev_packet(t, {PSH, ACK}, found[1].seq, found[1].payload)>>
                   ELSE <<>>,
                   TRUE)
    /\ UNCHANGED <<shutdown, write_notify, delivered>>

\* Lines 291-294 with poll_flush, lines 418-428: no segment in flight starts
\* at the duplicated ACK, and the stream panics.
FlushPanics ==
    /\ Dispatched(Established, {ACK}) /\ Status = "RetransmissionRequest"
    /\ LET t == change_send_window(Drain.tcb, Head(inbox).win)
       IN  /\ Requested(t, Head(inbox).ack) = <<>>
           /\ tcb' = t
    /\ life' = "panicked"
    /\ inbox' = Tail(inbox)
    /\ outbox' = outbox \o Flushed
    /\ packet_to_send' = NULL
    /\ pc' = "idle"
    /\ UNCHANGED <<shutdown, write_notify, upstream, delivered, written, peer>>

\* Lines 299-319: data under a bare ACK goes to the reordering buffer
\* wherever in the window it starts.
EstNewPacket ==
    /\ Dispatched(Established, {ACK}) /\ Status = "NewPacket"
    /\ LET p == Head(inbox)
           t == add_unordered_packet(change_last_ack(Drain.tcb, p.ack), p.seq, p.payload)
       IN  Consume(change_send_window(t, p.win), NULL, TRUE)

\* Lines 320-327.
EstAck ==
    /\ Dispatched(Established, {ACK}) /\ Status = "Ack"
    /\ Consume(Acknowledged(Drain.tcb, Head(inbox)), NULL, TRUE)

\* Lines 330-335: the peer's FIN is counted and acknowledged at once.
EstFin ==
    /\ Dispatched(Established, {FIN, ACK})
    /\ LET t == add_ack(Drain.tcb, 1)
       IN  Consume(change_state(t, FinWait1(TRUE)),
                   create_rev_packet(t, {ACK}, NULL, <<>>), FALSE)

\* Lines 336-350, data at the expected sequence number.
EstPush ==
    /\ Dispatched(Established, {PSH, ACK}) /\ Status = "NewPacket"
    /\ LET p == Head(inbox)
           t == change_send_window(change_last_ack(Drain.tcb, p.ack), p.win)
       IN  /\ t.ack = p.seq
           /\ Consume(add_unordered_packet(t, p.seq, p.payload), NULL, FALSE)

\* Lines 336-344, data ahead of the expected sequence number: only its ACK
\* field is used.
EstPushAhead ==
    /\ Dispatched(Established, {PSH, ACK}) /\ Status = "NewPacket"
    /\ Drain.tcb.ack # Head(inbox).seq
    /\ Consume(change_last_ack(Drain.tcb, Head(inbox).ack), NULL, FALSE)

\* Lines 352-356: the ACK of our FIN; the peer's FIN is counted in advance.
Fw1Ack ==
    /\ Dispatched(FinWait1(FALSE), {ACK})
    /\ LET t == add_ack(change_last_ack(Drain.tcb, Head(inbox).ack), 1)
       IN  Consume(change_state(t, FinWait2(TRUE)), NULL, FALSE)

\* Lines 357-362: the peer's FIN crosses ours.
Fw1Fin ==
    /\ Dispatched(FinWait1(FALSE), {FIN, ACK})
    /\ LET t == add_ack(Drain.tcb, 1)
       IN  Consume(change_state(change_send_window(t, Head(inbox).win), FinWait2(TRUE)),
                   create_rev_packet(t, {ACK}, NULL, <<>>), FALSE)

\* Lines 365-366.
Fw2Ack ==
    /\ Dispatched(FinWait2(TRUE), {ACK})
    /\ Consume(change_state(Drain.tcb, FinWait2(FALSE)), NULL, FALSE)

\* Lines 367-369.
Fw2Fin ==
    /\ Dispatched(FinWait2(TRUE), {FIN, ACK})
    /\ Consume(change_state(Drain.tcb, FinWait2(FALSE)),
               create_rev_packet(Drain.tcb, {ACK}, NULL, <<>>), FALSE)

-----------------------------------------------------------------------------
(* poll_write and poll_shutdown *)

\* Line 387: the peer's window has fallen under half its average, or more
\* than the cap is in flight.
MustPark(t) ==
    t.send_window < t.avg_send_window \div 2 \/ is_send_buffer_full(t)

\* A mutant of Writing: the state is not looked at.
WritingInAnyState == life = "open" /\ pc = "idle" /\ written < MaxWriteBytes

\* Lines 382-385: the call gets past the state check and moves the deadline.
Writing ==
    /\ life = "open" /\ pc = "idle"
    /\ tcb.state = Established
    /\ written < MaxWriteBytes

\* Lines 387-390.
WriteParks ==
    /\ Writing /\ MustPark(tcb)
    /\ write_notify' = TRUE
    /\ tcb' = reset_timeout(tcb)
    /\ UNCHANGED <<life, packet_to_send, shutdown, pc, inbox, outbox, upstream,
                   delivered, written, peer>>

\* The bytes the consumer offers: the next n it has not written yet.
Offered(n) == [i \in 1 .. n |-> written + i]

\* Lines 399-406: one PSH|ACK with as much of the buffer as fits, recorded
\* in flight under the sequence number it was sent with.
Write(n) ==
    /\ Writing /\ ~MustPark(tcb) /\ upstream = "open"
    /\ n <= MaxWriteBytes - written
    /\ LET t == reset_timeout(tcb)
           packet == create_rev_packet(t, {PSH, ACK}, NULL, Offered(n))
       IN  /\ outbox' = Append(outbox, packet)
           /\ tcb' = add_inflight_packet(t, t.seq, packet.payload)
           /\ written' = written + Len(packet.payload)
    /\ UNCHANGED <<life, packet_to_send, shutdown, write_notify, pc, inbox,
                   upstream, delivered, peer>>

\* A mutant of WriteFails: the segment is recorded before the send is tried.
WriteFailsRecorded ==
    /\ Writing /\ ~MustPark(tcb) /\ upstream = "closed"
    /\ tcb' = add_inflight_packet(reset_timeout(tcb), tcb.seq, <<written + 1>>)
    /\ UNCHANGED <<life, packet_to_send, shutdown, write_notify, pc, inbox, outbox,
                   upstream, delivered, written, peer>>

\* Lines 399-403, the send fails: nothing is recorded.
WriteFails ==
    /\ Writing /\ ~MustPark(tcb) /\ upstream = "closed"
    /\ tcb' = reset_timeout(tcb)
    /\ UNCHANGED <<life, packet_to_send, shutdown, write_notify, pc, inbox, outbox,
                   upstream, delivered, written, peer>>

\* Lines 437-440: the first call keeps the waker, then the call is a poll_read.
PollShutdown ==
    /\ life = "open" /\ pc = "idle"
    /\ shutdown = "None"
    /\ shutdown' = "Pending"
    /\ pc' = "reading"
    /\ UNCHANGED <<life, tcb, packet_to_send, write_notify, inbox, outbox, upstream,
                   delivered, written, peer>>

\* The deadline of the TCB passes.
Elapse ==
    /\ life = "open" /\ pc = "idle" /\ tcb.timeout = "armed"
    /\ tcb' = [tcb EXCEPT !.timeout = "fired"]
    /\ UNCHANGED <<life, packet_to_send, shutdown, write_notify, pc, inbox, outbox,
                   upstream, delivered, written, peer>>

-----------------------------------------------------------------------------

\* What the consumer can make the stream do.
poll_read ==
    \/ ReadEmitFails \/ ReadClosed \/ ReadAborted
    \/ ReadTimedOut \/ ReadTimedOutFails
    \/ ReadListen \/ ReadDeliver \/ ReadDeliverFails \/ ReadOverruns
    \/ ReadFinWait1 \/ ReadSendFin \/ ReadPending
    \/ RecvRst \/ RecvInvalid \/ RecvIgnored
    \/ SynReceivedAck
    \/ EstWindowUpdate \/ EstKeepAlive \/ EstRetransmission \/ FlushPanics
    \/ EstNewPacket \/ EstAck \/ EstFin \/ EstPush \/ EstPushAhead
    \/ Fw1Ack \/ Fw1Fin \/ Fw2Ack \/ Fw2Fin

poll_write == WriteParks \/ WriteFails \/ \E n \in 1 .. MaxWriteBytes : Write(n)

Segments(bytes) ==
    [ flags : SUBSET {SYN, ACK, FIN, PSH, RST}, seq : SeqNums, ack : SeqNums,
      win : 0 .. MaxWindow, payload : Seq(bytes) ]

StreamTypeOK(bytes) ==
    /\ life \in {"none", "open", "dropped", "panicked", "overrun"}
    /\ IF life = "none" THEN tcb = NULL ELSE IsTcb(tcb, bytes)
    /\ packet_to_send \in Segments(bytes) \cup {NULL}
    /\ shutdown \in {"None", "Pending", "Ready"}
    /\ write_notify \in BOOLEAN
    /\ pc \in {"idle", "reading"}
    /\ inbox \in Seq(Segments(bytes))
    /\ outbox \in Seq(Segments(bytes))
    /\ upstream \in {"open", "closed"}
    /\ delivered \in Seq(bytes)
    /\ written \in 0 .. MaxWriteBytes

=============================================================================
