--------------------------------- MODULE Tcb ---------------------------------
(***************************************************************************)
(* The Transmission Control Block of one TCP flow: pure state and pure     *)
(* decisions, used only by the flow's stream (module TcpStream).  A TCB is *)
(* a record; every operator below is one method of the Rust Tcb and        *)
(* yields the record the method leaves behind.  The methods keep their     *)
(* Rust names.                                                             *)
(*                                                                         *)
(* A payload is a sequence of byte identities: the model tells bytes apart *)
(* by their position in the stream they belong to, never by their value.   *)
(***************************************************************************)
EXTENDS SeqNum, Sequences, FiniteSets, SequencesExt

CONSTANTS
    ReadBufferSize,     \* capacity of the reordering buffer, in bytes
    SendBufferCap,      \* cap on the bytes in flight before writes park
    MaxWindow,          \* largest value of the 16-bit window field
    InitSendWindow      \* send window assumed before the peer advertises one

ASSUME /\ ReadBufferSize \in Nat /\ SendBufferCap \in Nat
       /\ MaxWindow \in Nat /\ 2 * MaxWindow < Modulus
       /\ InitSendWindow \in 0 .. MaxWindow

Listen == <<"Listen">>
SynReceived == <<"SynReceived">>
Established == <<"Established">>
FinWait1(peer_fin_observed) == <<"FinWait1", peer_fin_observed>>
FinWait2(awaiting_final_ack) == <<"FinWait2", awaiting_final_ack>>
Closed == <<"Closed">>

TcpState ==
    {Listen, SynReceived, Established, Closed}
        \cup {FinWait1(b) : b \in BOOLEAN} \cup {FinWait2(b) : b \in BOOLEAN}

PacketStatus ==
    {"Invalid", "KeepAlive", "WindowUpdate", "RetransmissionRequest", "NewPacket", "Ack"}

\* Tcb::new: our sequence numbers start at 0, the flow waits in Listen.
new(ack) ==
    [ seq |-> 0, last_ack |-> 0, ack |-> ack,
      recv_window |-> ReadBufferSize % (MaxWindow + 1),
      send_window |-> InitSendWindow, avg_send_window |-> InitSendWindow,
      inflight_packets |-> <<>>, unordered_packets |-> {},
      state |-> Listen, timeout |-> "armed" ]

add_seq_one(t) == [t EXCEPT !.seq = SeqAdd(@, 1)]

\* A mutant of add_ack: the sum is not reduced to the width of a sequence number.
add_ack_unwrapped(t, n) == [t EXCEPT !.ack = @ + n]

add_ack(t, n) == [t EXCEPT !.ack = SeqAdd(@, n)]

change_state(t, s) == [t EXCEPT !.state = s]

change_recv_window(t, w) == [t EXCEPT !.recv_window = w]

\* The deadline moves to one timeout interval from now.
reset_timeout(t) == [t EXCEPT !.timeout = "armed"]

\* Each observation of the peer's window moves the average an eighth of the way.
change_send_window(t, w) ==
    [t EXCEPT !.send_window = w, !.avg_send_window = (7 * @ + w) \div 8]

PayloadBytes(packets) ==
    FoldFunction(LAMBDA p, sum : Len(p.payload) + sum, 0, packets)

\* Writes park once the bytes in flight exceed the cap.
is_send_buffer_full(t) == PayloadBytes(t.inflight_packets) > SendBufferCap

\* The segment joins the in-flight list and our sequence number moves past it.
add_inflight_packet(t, seq, payload) ==
    [t EXCEPT !.inflight_packets = Append(@, [seq |-> seq, payload |-> payload]),
              !.seq = SeqAdd(@, Len(payload))]

\* A mutant of change_last_ack: a segment the ACK covers in part is dropped too.
change_last_ack_dropping_started(t, ack) ==
    IF SeqGt(ack, t.last_ack)
    THEN [t EXCEPT !.last_ack = ack,
                   !.inflight_packets = SelectSeq(@, LAMBDA p : SeqGe(p.seq, ack))]
    ELSE t

\* A cumulative ACK beyond last_ack is adopted, and every in-flight segment it
\* covers in full is dropped; any other acknowledgement changes nothing.
change_last_ack(t, ack) ==
    IF SeqGt(ack, t.last_ack)
    THEN [t EXCEPT !.last_ack = ack,
                   !.inflight_packets =
                       SelectSeq(@, LAMBDA p : SeqGt(SeqAdd(p.seq, Len(p.payload)), ack))]
    ELSE t

\* The reordering buffer maps a sequence number to one payload.
add_unordered_packet(t, seq, payload) ==
    [t EXCEPT !.unordered_packets =
        {p \in @ : p.seq # seq} \cup {[seq |-> seq, payload |-> payload]}]

\* Free space of the reordering buffer: its size less the bytes it holds.
get_available_read_buffer_size(t) ==
    LET held == UNION {{p} \X DOMAIN p.payload : p \in t.unordered_packets}
        used == Cardinality(held)
    IN  IF used >= ReadBufferSize THEN 0 ELSE ReadBufferSize - used

\* The buffered segments that follow one another without a gap from seq on.
RECURSIVE ContiguousFrom(_, _)
ContiguousFrom(packets, seq) ==
    IF \E p \in packets : p.seq = seq
    THEN LET p == CHOOSE q \in packets : q.seq = seq
         IN  <<p>> \o ContiguousFrom(packets \ {p}, SeqAdd(seq, Len(p.payload)))
    ELSE <<>>

\* The longest contiguous run of bytes at the expected sequence number leaves
\* the buffer; bytes is empty where the method returns None.  The caller
\* advances ack by what it takes.
get_unordered_packets(t) ==
    LET run == ContiguousFrom(t.unordered_packets, t.ack)
    IN  [ bytes |-> FlattenSeq([i \in DOMAIN run |-> run[i].payload]),
          tcb   |-> [t EXCEPT !.unordered_packets = @ \ ToSet(run)] ]

\* The classification table of an incoming segment, read top to bottom: the
\* first row whose condition holds names the status, and a segment no row
\* describes is Invalid.
check_pkt_type(t, header, payload) ==
    LET ack_in_range == /\ SeqGt(header.ack, SeqSub(t.last_ack, MaxWindow))
                        /\ SeqLe(header.ack, t.seq)
        seq_in_window == /\ SeqGe(header.seq, SeqSub(t.ack, 1))
                         /\ SeqLe(header.seq, SeqAdd(t.ack, t.recv_window))
        bare == payload = <<>>
        duplicate == header.ack = t.last_ack /\ bare
        rows == << <<"Invalid", ~ack_in_range \/ ~seq_in_window>>,
                   <<"KeepAlive", header.seq = SeqSub(t.ack, 1) /\ bare>>,
                   <<"WindowUpdate", duplicate /\ header.ack = t.seq>>,
                   <<"RetransmissionRequest", duplicate /\ header.ack # t.seq>>,
                   <<"NewPacket", SeqGe(header.seq, t.ack) /\ ~bare>>,
                   <<"Ack", SeqGt(header.ack, t.last_ack) /\ bare>>,
                   <<"Invalid", TRUE>> >>
    IN  Head(SelectSeq(rows, LAMBDA row : row[2]))[1]

-----------------------------------------------------------------------------

Packets(bytes) == [seq : SeqNums, payload : Seq(bytes)]

\* The records a TCB may be, over payloads of the given byte identities.
IsTcb(t, bytes) ==
    /\ DOMAIN t = DOMAIN new(0)
    /\ t.seq \in SeqNums /\ t.last_ack \in SeqNums /\ t.ack \in SeqNums
    /\ t.recv_window \in 0 .. MaxWindow
    /\ t.send_window \in 0 .. MaxWindow
    /\ t.avg_send_window \in 0 .. MaxWindow
    /\ t.inflight_packets \in Seq(Packets(bytes))
    /\ t.unordered_packets \subseteq Packets(bytes)
    /\ t.state \in TcpState
    /\ t.timeout \in {"armed", "fired"}

=============================================================================
