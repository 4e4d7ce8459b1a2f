------------------------------- MODULE SeqNum -------------------------------
(***************************************************************************)
(* TCP sequence numbers: unsigned integers of a fixed width with wrapping  *)
(* arithmetic, compared by the sign of their wrapped difference.  The      *)
(* stack uses a 32-bit SeqNum; Modulus stands for 2^32 and the model       *)
(* checks a smaller power of two so that the wrap is reached.              *)
(***************************************************************************)
EXTENDS Integers

CONSTANT Modulus        \* 2^w for a w-bit sequence number

ASSUME Modulus \in Nat /\ Modulus >= 4 /\ Modulus % 2 = 0

SeqNums == 0 .. Modulus - 1

Half == Modulus \div 2

\* A mutant of Wrap: the register is taken to be as wide as the integers.
Unwrapped(n) == n

\* The value an unsigned w-bit register holds after an operation yields n.
Wrap(n) == n % Modulus

\* seq + n, for a small non-negative delta.
SeqAdd(a, n) == Wrap(a + n)

\* seq - n.
SeqSub(a, n) == Wrap(a - n)

\* The unsigned wrapped difference a - b: how far a is ahead of b.
Distance(a, b) == Wrap(a - b)

\* The wrapped difference read as a signed w-bit integer.
SignedDiff(a, b) ==
    IF Distance(a, b) >= Half THEN Distance(a, b) - Modulus ELSE Distance(a, b)

\* A mutant of SeqLt: the linear order of the raw values, wrong across the wrap.
SeqLtLinear(a, b) == a < b

SeqLt(a, b) == SignedDiff(a, b) < 0

SeqLe(a, b) == SignedDiff(a, b) <= 0

SeqGt(a, b) == SeqLt(b, a)

SeqGe(a, b) == SeqLe(b, a)

=============================================================================
