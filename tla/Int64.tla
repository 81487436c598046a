------------------------------- MODULE Int64 --------------------------------
(***************************************************************************)
(* Go's signed integers, of Width bits: the code's have 64.                *)
(***************************************************************************)
EXTENDS Integers

CONSTANT Width

ASSUME WidthAssumption == Width \in Nat /\ Width >= 5

\* What the proofs use of powers, a fact of arithmetic their provers do not know.
ASSUME PowerFact ==
  2^0 = 1 /\ \A n \in 0..Width - 1 : 2^n \in Nat \ {0} /\ 2^(n + 1) = 2 * 2^n

MaxInt == 2^(Width - 1) - 1
Ints == -MaxInt - 1..MaxInt

\* Arithmetic and conversions wrap around in two's complement.
Wrap(x) == ((x + 2^(Width - 1)) % 2^Width) - 2^(Width - 1)

\* Division truncates towards zero.
Quotient(x, n) == IF x >= 0 THEN x \div n ELSE -((-x) \div n)
=============================================================================
