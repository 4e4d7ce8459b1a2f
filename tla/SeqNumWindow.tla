---------------------------- MODULE SeqNumWindow ----------------------------
(***************************************************************************)
(* Checks the sequence-number operators against their reference: the same  *)
(* arithmetic on unbounded integers.  Two registers, a trailing edge lo    *)
(* and a leading edge hi (the roles last_ack and seq play in a TCB), slide *)
(* around the wrap; trueLo and trueHi are the integers they stand for.     *)
(***************************************************************************)
EXTENDS SeqNum

CONSTANTS
    MaxStep,        \* largest delta added in one step
    MaxTrue         \* bound on the unwrapped leading edge

ASSUME MaxStep \in 1 .. Half - 1 /\ MaxTrue \in Nat

VARIABLES lo, hi, trueLo, trueHi

vars == <<lo, hi, trueLo, trueHi>>

Init ==
    /\ lo = 0 /\ hi = 0
    /\ trueLo = 0 /\ trueHi = 0

\* The leading edge advances, keeping the window narrower than half the ring.
Advance(n) ==
    /\ trueHi + n <= MaxTrue
    /\ trueHi + n - trueLo < Half
    /\ hi' = SeqAdd(hi, n)
    /\ trueHi' = trueHi + n
    /\ UNCHANGED <<lo, trueLo>>

\* The trailing edge catches up by n, never passing the leading edge.
CatchUp(n) ==
    /\ trueLo + n <= trueHi
    /\ lo' = SeqAdd(lo, n)
    /\ trueLo' = trueLo + n
    /\ UNCHANGED <<hi, trueHi>>

\* The walk has reached its bound and starts over.
Restart ==
    /\ trueHi = MaxTrue
    /\ lo' = 0 /\ hi' = 0 /\ trueLo' = 0 /\ trueHi' = 0

Next ==
    \/ \E n \in 1 .. MaxStep : Advance(n)
    \/ \E n \in 1 .. MaxStep : CatchUp(n)
    \/ Restart

Spec == Init /\ [][Next]_vars

-----------------------------------------------------------------------------

TypeOK ==
    /\ lo \in SeqNums /\ hi \in SeqNums
    /\ trueLo \in 0 .. MaxTrue /\ trueHi \in 0 .. MaxTrue

\* SeqNum comparison and distance agree with the integers the registers
\* stand for, on both sides of the wrap: the order is that of the signed
\* 32-bit difference, never the linear order of the raw values.
AgreesWithIntegers ==
    /\ lo = Wrap(trueLo) /\ hi = Wrap(trueHi)
    /\ Distance(hi, lo) = trueHi - trueLo
    /\ SeqLe(lo, hi)
    /\ SeqLt(lo, hi) <=> trueLo < trueHi
    /\ \A n \in 0 .. trueHi - trueLo :
          /\ SeqLe(SeqAdd(lo, n), hi)
          /\ SeqGe(SeqSub(hi, n), lo)

=============================================================================
