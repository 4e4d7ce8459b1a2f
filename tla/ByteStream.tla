----------------------------- MODULE ByteStream -----------------------------
(***************************************************************************)
(* What a TCP stream of the stack is to the two ends that use it: "a       *)
(* connected byte stream".  The remote peer offers the bytes 0, 1, 2 ...   *)
(* and the consumer reads them; the consumer writes the bytes 1, 2, 3 ...  *)
(* and they arrive at the peer.  Each direction hands over its bytes in    *)
(* order, each once and none skipped, and never one that has not been      *)
(* put in.  A consumer that has asked for shutdown reads nothing more.     *)
(* Nothing here says that a byte put in comes out: segments may be lost    *)
(* and either end may stop.                                                *)
(***************************************************************************)
EXTENDS Naturals, Sequences

VARIABLES
    offered,    \* how many bytes the peer has sent: the bytes 0 .. offered - 1
    read,       \* the bytes the consumer has read
    accepted,   \* how many bytes the consumer has written: the bytes 1 .. accepted
    arrived,    \* the bytes the peer has got
    reading     \* FALSE once the consumer has asked for shutdown or the flow is done

vars == <<offered, read, accepted, arrived, reading>>

\* The n bytes that follow a stream s whose first byte is numbered first.
Following(s, first, n) == [i \in 1 .. n |-> first + Len(s) + i - 1]

Init ==
    /\ offered = 0 /\ read = <<>>
    /\ accepted = 0 /\ arrived = <<>>
    /\ reading = TRUE

Offer ==
    /\ offered' > offered
    /\ UNCHANGED <<read, accepted, arrived, reading>>

Read ==
    /\ reading
    /\ \E n \in 1 .. offered - Len(read) : read' = read \o Following(read, 0, n)
    /\ UNCHANGED <<offered, accepted, arrived, reading>>

Write ==
    /\ accepted' > accepted
    /\ UNCHANGED <<offered, read, arrived, reading>>

Arrive ==
    /\ \E n \in 1 .. accepted - Len(arrived) : arrived' = arrived \o Following(arrived, 1, n)
    /\ UNCHANGED <<offered, read, accepted, reading>>

StopReading ==
    /\ reading /\ ~reading'
    /\ UNCHANGED <<offered, read, accepted, arrived>>

Next == Offer \/ Read \/ Write \/ Arrive \/ StopReading

Spec == Init /\ [][Next]_vars

=============================================================================
