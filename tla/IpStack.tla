------------------------------- MODULE IpStack -------------------------------
(***************************************************************************)
(* The demultiplexer task of IpStack::new and the listener IpStack::accept *)
(* over several flows.  The task owns the device and the flow table        *)
(* streams; it reads packets from the device, creates or feeds flows, and  *)
(* drains the outbox all flows share.  What a stream does with its packets *)
(* is module TcpFlow; here a flow is its table entry, its inbox and the    *)
(* place of the stream object: in the accept queue, with the consumer, or  *)
(* dropped.  UDP streams and raw packets are not part of the source tree:  *)
(* their steps (Signal, RawSend) follow the specification.                 *)
(***************************************************************************)
EXTENDS Naturals, Sequences, FiniteSets, TLC

CONSTANTS
    Hosts,          \* addresses with their ports
    RAW,            \* the mark of a packet that is neither TCP nor UDP
    PacketInformation,  \* IpStackConfig::packet_information, on unix
    MaxReads,       \* bound on the packets the device yields
    MaxQueued       \* bound on the packets ever put in the outbox

ASSUME /\ MaxReads \in Nat /\ MaxQueued \in Nat /\ RAW \notin Hosts
       /\ PacketInformation \in BOOLEAN

VARIABLES
    streams,        \* line 94: the flow table, network tuple -> flow
    flows,          \* every flow created so far, in order of creation
    accepts,        \* line 91: the accept channel
    outbox,         \* line 97: the packet channel from the streams to the task
    device,         \* "up" | "failed": whether a device write has failed
    task,           \* "running" | "ended": the task spawned at line 93
    listener,       \* "open" | "dropped": the IpStack value with accept_receiver
    written,        \* packets written to the device
    held_raw,       \* raw packets in the hands of the consumer
    reads,          \* packets read from the device
    queued          \* packets ever put in the outbox

vars == <<streams, flows, accepts, outbox, device, written, task, listener, held_raw, reads, queued>>

\* NetworkTuple: the two endpoints and the protocol.
Tuples == {k \in [src : Hosts, dst : Hosts, tcp : BOOLEAN] : k.src # k.dst}

reverse_network_tuple(k) == [k EXCEPT !.src = k.dst, !.dst = k.src]

\* Lines 28-34: the TTL of a teardown signal and of every other packet.
DROP_TTL == 0
TTL == 64

\* What the task looks at in a packet from the outbox (line 159).
Outbound == [tuple : Tuples \cup {RAW}, ttl : {DROP_TTL, TTL}]

FlowOf(k) == IF k \in DOMAIN streams THEN streams[k] ELSE 0

Registered(f) == f \in DOMAIN flows /\ FlowOf(flows[f].key) = f

SentinelQueued(f) ==
    \E i \in DOMAIN outbox :
        outbox[i] = [tuple |-> reverse_network_tuple(flows[f].key), ttl |-> DROP_TTL]

Init ==
    /\ streams = <<>> /\ flows = <<>> /\ accepts = <<>> /\ outbox = <<>>
    /\ device = "up" /\ task = "running" /\ listener = "open"
    /\ written = 0 /\ held_raw = 0 /\ reads = 0 /\ queued = 0

-----------------------------------------------------------------------------
(* The device branch of the select loop. *)

Reading == task = "running" /\ reads < MaxReads /\ reads' = reads + 1

\* The task returns: the table, the device and the outbox receiver go with it.
Ended == task' = "ended" /\ streams' = <<>> /\ outbox' = <<>>

\* accept_sender.send(item)? of lines 135, 146 and 153, after the table has
\* become table: with the listener gone the send fails and `?` ends the task.
Offer(item, table) ==
    \/ /\ listener = "open"
       /\ accepts' = Append(accepts, item) /\ streams' = table
       /\ UNCHANGED <<outbox, task>>
    \/ /\ listener = "dropped"
       /\ Ended /\ UNCHANGED accepts

\* A mutant of Opened: a stream whose accept event could not be sent lives on.
OpenedUnheard(k, first) ==
    Append(flows, [key |-> k, at |-> "queued", inbox |-> first,
                   signalled |-> FALSE, missed |-> FALSE])

\* The stream of a new flow goes into the accept event and is dropped with it
\* when the send of the event fails.
Opened(k, first) ==
    Append(flows, [key |-> k, at |-> IF listener = "open" THEN "queued" ELSE "dropped",
                   inbox |-> first, signalled |-> FALSE, missed |-> FALSE])

\* Lines 101-104: the device yields fewer bytes than the 4 of the packet
\* information, an empty read included; buffer[4..n] panics and the task
\* is gone.
ReadShort ==
    /\ Reading /\ PacketInformation /\ Ended
    /\ UNCHANGED <<flows, accepts, device, written, listener, held_raw, queued>>

\* Lines 104-108: what does not parse is skipped.
ReadUnparsed ==
    /\ Reading
    /\ UNCHANGED <<streams, flows, accepts, outbox, device, written, task, listener, held_raw, queued>>

\* Lines 152-154.
ReadRaw ==
    /\ Reading /\ Offer(RAW, streams)
    /\ UNCHANGED <<flows, device, written, listener, held_raw, queued>>

\* Lines 113-128: the packet goes to the inbox of the tuple's flow; a closed
\* inbox is met with a trace line and nothing else.
ReadOccupied(k) ==
    /\ Reading /\ k \in DOMAIN streams
    /\ flows' = [flows EXCEPT ![streams[k]] =
                    IF @.at = "dropped" THEN [@ EXCEPT !.missed = TRUE]
                                        ELSE [@ EXCEPT !.inbox = @ + 1]]
    /\ UNCHANGED <<streams, accepts, outbox, device, written, task, listener, held_raw, queued>>

\* Lines 131-136: a SYN on a free tuple makes a stream, which is registered
\* and then offered.
ReadVacantSyn(k) ==
    /\ Reading /\ k.tcp /\ k \notin DOMAIN streams
    /\ flows' = Opened(k, 0)
    /\ Offer(Len(flows) + 1, (k :> (Len(flows) + 1)) @@ streams)
    /\ UNCHANGED <<device, written, listener, held_raw, queued>>

\* Lines 132, 137-141: any other segment on a free tuple is refused, with a
\* RST|ACK through the outbox unless it is a reset itself.
ReadVacantRefused(k, answers) ==
    /\ Reading /\ k.tcp /\ k \notin DOMAIN streams
    /\ answers => queued < MaxQueued
    /\ outbox' = IF answers
                 THEN Append(outbox, [tuple |-> reverse_network_tuple(k), ttl |-> TTL])
                 ELSE outbox
    /\ queued' = IF answers THEN queued + 1 ELSE queued
    /\ UNCHANGED <<streams, flows, accepts, device, written, task, listener, held_raw>>

\* Lines 143-147: the first datagram of a tuple goes to the new stream itself.
ReadVacantUdp(k) ==
    /\ Reading /\ ~k.tcp /\ k \notin DOMAIN streams
    /\ flows' = Opened(k, 1)
    /\ Offer(Len(flows) + 1, (k :> (Len(flows) + 1)) @@ streams)
    /\ UNCHANGED <<device, written, listener, held_raw, queued>>

DeviceBranch ==
    \/ ReadShort \/ ReadUnparsed \/ ReadRaw
    \/ \E k \in Tuples :
        \/ ReadOccupied(k) \/ ReadVacantSyn(k) \/ ReadVacantUdp(k)
        \/ \E answers \in BOOLEAN : ReadVacantRefused(k, answers)

-----------------------------------------------------------------------------
(* The outbox branch of the select loop. *)

Taking == task = "running" /\ outbox # <<>>

Without(table, k) == [t \in DOMAIN table \ {k} |-> table[t]]

\* A mutant of Evicted: the tuple of the packet is not reversed.
EvictedForward(k) == Without(streams, k)

\* Line 160: the table without the flow whose tuple is the reverse of k.
Evicted(k) == Without(streams, reverse_network_tuple(k))

\* A mutant of IsSentinel: the TTL is not looked at.
IsSentinelAnyTtl(p) == p.tuple # RAW

\* Line 159: a TCP or UDP packet with TTL 0.
IsSentinel(p) == p.tuple # RAW /\ p.ttl = 0

\* Lines 157-162: the teardown signal of a flow is not written.
TakeSentinel ==
    /\ Taking /\ IsSentinel(Head(outbox))
    /\ streams' = Evicted(Head(outbox).tuple)
    /\ outbox' = Tail(outbox)
    /\ UNCHANGED <<flows, accepts, device, written, task, listener, held_raw, reads, queued>>

Writable == Taking /\ ~IsSentinel(Head(outbox))

\* Lines 164-168: a packet that does not serialise is skipped.
TakeUnserialisable ==
    /\ Writable
    /\ outbox' = Tail(outbox)
    /\ UNCHANGED <<streams, flows, accepts, device, written, task, listener, held_raw, reads, queued>>

\* Lines 169-177: the packet is written to the device.
WriteDevice ==
    /\ Writable
    /\ outbox' = Tail(outbox) /\ written' = written + 1
    /\ UNCHANGED <<streams, flows, accepts, device, task, listener, held_raw, reads, queued>>

\* Line 177: the write fails and `?` ends the task.
WriteFails ==
    /\ Writable
    /\ device' = "failed" /\ Ended
    /\ UNCHANGED <<flows, accepts, written, listener, held_raw, reads, queued>>

OutboxBranch == TakeSentinel \/ TakeUnserialisable \/ WriteDevice \/ WriteFails

-----------------------------------------------------------------------------
(* The consumer: the listener and the streams it holds. *)

\* Lines 188-190: the next accept event, a stream or a raw packet.
accept ==
    /\ listener = "open" /\ accepts # <<>>
    /\ accepts' = Tail(accepts)
    /\ IF Head(accepts) = RAW
       THEN held_raw' = held_raw + 1 /\ UNCHANGED flows
       ELSE flows' = [flows EXCEPT ![Head(accepts)].at = "held"] /\ UNCHANGED held_raw
    /\ UNCHANGED <<streams, outbox, device, written, task, listener, reads, queued>>

\* Lines 191-193: the task has ended and the queue is empty.
AcceptError ==
    /\ listener = "open" /\ accepts = <<>> /\ task = "ended"
    /\ UNCHANGED vars

\* The consumer drops the IpStack value: the accept events still queued are
\* dropped, and the streams in them.
DropListener ==
    /\ listener = "open"
    /\ listener' = "dropped" /\ accepts' = <<>>
    /\ flows' = [f \in DOMAIN flows |->
                    IF flows[f].at = "queued" THEN [flows[f] EXCEPT !.at = "dropped"]
                                              ELSE flows[f]]
    /\ UNCHANGED <<streams, outbox, device, written, task, held_raw, reads, queued>>

Held(f) == f \in DOMAIN flows /\ flows[f].at = "held"

Sending == task = "running" /\ queued < MaxQueued /\ queued' = queued + 1

\* The stream takes a packet from its inbox (stream_receiver of tcp.rs, line 251).
Recv(f) ==
    /\ Held(f) /\ flows[f].inbox > 0
    /\ flows' = [flows EXCEPT ![f].inbox = @ - 1]
    /\ UNCHANGED <<streams, accepts, outbox, device, written, task, listener, held_raw, reads, queued>>

\* The stream sends a packet of its flow (packet_sender of tcp.rs, line 193).
Emit(f) ==
    /\ Held(f) /\ Sending
    /\ outbox' = Append(outbox, [tuple |-> reverse_network_tuple(flows[f].key), ttl |-> TTL])
    /\ UNCHANGED <<streams, flows, accepts, device, written, task, listener, held_raw, reads>>

\* A UDP stream signals its teardown, once, with a packet of TTL 0.
Signal(f) ==
    /\ Held(f) /\ ~flows[f].key.tcp /\ ~flows[f].signalled /\ Sending
    /\ flows' = [flows EXCEPT ![f].signalled = TRUE]
    /\ outbox' = Append(outbox, [tuple |-> reverse_network_tuple(flows[f].key), ttl |-> DROP_TTL])
    /\ UNCHANGED <<streams, accepts, device, written, task, listener, held_raw, reads>>

\* Drop of the stream (tcp.rs, lines 444-450): its inbox closes.
DropStream(f) ==
    /\ Held(f)
    /\ flows' = [flows EXCEPT ![f].at = "dropped"]
    /\ UNCHANGED <<streams, accepts, outbox, device, written, task, listener, held_raw, reads, queued>>

\* The consumer answers a raw packet through its outbox handle.
RawSend(ttl) ==
    /\ held_raw > 0 /\ Sending
    /\ held_raw' = held_raw - 1
    /\ outbox' = Append(outbox, [tuple |-> RAW, ttl |-> ttl])
    /\ UNCHANGED <<streams, flows, accepts, device, written, task, listener, reads>>

Consumer ==
    \/ accept \/ AcceptError \/ DropListener
    \/ \E f \in 1 .. MaxReads : Recv(f) \/ Emit(f) \/ Signal(f) \/ DropStream(f)
    \/ \E ttl \in {DROP_TTL, TTL} : RawSend(ttl)

-----------------------------------------------------------------------------

Next == DeviceBranch \/ OutboxBranch \/ Consumer

\* select! polls its branches in random order, so a branch that stays ready
\* is taken: the outbox is served however many packets the device offers.
Spec == Init /\ [][Next]_vars /\ WF_vars(OutboxBranch)

-----------------------------------------------------------------------------

Flow == [key : Tuples, at : {"queued", "held", "dropped"}, inbox : Nat,
         signalled : BOOLEAN, missed : BOOLEAN]

\* The variables keep their shapes; every table entry names a flow of its
\* tuple, and the accept queue holds exactly the streams nobody has taken.
TypeOK ==
    /\ flows \in Seq(Flow) /\ outbox \in Seq(Outbound)
    /\ DOMAIN streams \subseteq Tuples
    /\ \A k \in DOMAIN streams : streams[k] \in DOMAIN flows /\ flows[streams[k]].key = k
    /\ accepts \in Seq(DOMAIN flows \cup {RAW})
    /\ \A f \in DOMAIN flows :
        flows[f].at = "queued" <=> \E i \in DOMAIN accepts : accepts[i] = f
    /\ device \in {"up", "failed"} /\ task \in {"running", "ended"}
    /\ listener \in {"open", "dropped"}
    /\ written \in 0 .. queued /\ held_raw \in Nat /\ reads \in 0 .. MaxReads /\ queued \in 0 .. MaxQueued

Latest(f) == \A g \in DOMAIN flows : flows[g].key = flows[f].key => g <= f

\* While the task runs, the latest flow of a tuple is in the table exactly
\* until the sentinel it sent has been taken from the outbox (lines 159-161),
\* and no earlier flow is: no packet of its own or of another flow, and no raw
\* packet with TTL 0, removes an entry, and a tuple has a new flow only after
\* the one before has left.
OnlyItsSentinelEvicts ==
    task = "running" =>
        \A f \in DOMAIN flows :
            Registered(f) <=> Latest(f) /\ (~flows[f].signalled \/ SentinelQueued(f))

\* A flow that has signalled its teardown leaves the table, so that the next
\* packet on its tuple opens a new flow: the sentinel is behind other packets
\* in the outbox (line 157) and names the flow by the reverse of its own
\* tuple (line 160).
SignalledFlowIsEvicted ==
    \A f \in 1 .. MaxReads :
        [](f \in DOMAIN flows /\ flows[f].signalled
              => <>(task = "ended" \/ ~Registered(f)))

\* As long as no device write has failed, the streams the consumer holds have
\* a running task behind them, whatever the listener and the other flows do:
\* line 177 is the failure that may end the task (lines 135, 146 and 153 end
\* it as well).
HeldStreamsKeepTheirTask ==
    (\E f \in DOMAIN flows : Held(f)) /\ device = "up" => task = "running"

\* An entry whose inbox has refused a packet is gone from the table: the
\* failed send of line 115 is where the task finds out that a stream was
\* dropped.
ClosedInboxIsEvicted ==
    \A k \in DOMAIN streams : ~flows[streams[k]].missed

=============================================================================
