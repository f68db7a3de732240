------------------------------- MODULE AymWord -------------------------------
(***************************************************************************)
(* The arithmetic of a Word (defs.h), the 64-bit union every register and  *)
(* every stack and memory cell of the machine holds.  A word is modelled   *)
(* by its unsigned value, 0 .. 2^WordBits - 1; Signed is its as_i64 view.  *)
(* The C operators are given the meaning the Makefile's build (gcc -O0 on  *)
(* x86-64) gives them: two's complement wrap-around, division truncated    *)
(* towards zero, shift counts taken modulo the width.                      *)
(***************************************************************************)
EXTENDS Integers

CONSTANTS
  WordBits,  \* width of a Word: 64 in the program
  IntBits,   \* width of an int, of which a Word's low half is read: 32
  Pow2       \* the table of the powers of two up to 2^WordBits

\* Flags go up to 8 + 4 + 2 + 1, so that a word must hold 15.  The powers are
\* a table rather than a recursive function so that they can be reasoned about.
ASSUME WordAssumption ==
  /\ WordBits \in Nat \ {0}
  /\ IntBits \in 1 .. WordBits
  /\ Pow2 \in [0 .. WordBits -> Nat \ {0}]
  /\ Pow2[0] = 1
  /\ \A i \in 0 .. WordBits - 1 : Pow2[i + 1] = 2 * Pow2[i]
  /\ Pow2[WordBits] > 15

WordSize == Pow2[WordBits]
Word == 0 .. WordSize - 1

ToWord(i) == i % WordSize
Signed(w) == IF 2 * w < WordSize THEN w ELSE w - WordSize
Negative(w) == 2 * w >= WordSize

\* The int member of the operand union, and a word cast to a 32-bit enum.
LowInt(w) ==
  LET low == w % Pow2[IntBits]
  IN  IF 2 * low < Pow2[IntBits] THEN low ELSE low - Pow2[IntBits]
LowUnsigned(w) == w % Pow2[IntBits]

Bit(w, i) == (w \div Pow2[i]) % 2

-----------------------------------------------------------------------------
(* Division truncated towards zero, and its remainder.                       *)

Magnitude(i) == IF i < 0 THEN -i ELSE i

TruncDiv(a, b) ==
  LET q == Magnitude(a) \div Magnitude(b)
  IN  IF (a < 0) = (b < 0) THEN q ELSE -q

TruncMod(a, b) == a - b * TruncDiv(a, b)

\* The hardware traps (SIGFPE) on a zero divisor and on INT_MIN / -1.
DivTraps(a, b) ==
  b = 0 \/ (2 * a = WordSize /\ b = WordSize - 1)

-----------------------------------------------------------------------------
(* Shifts and rotations; the count is a word, taken modulo the width.        *)

Count(w) == w % WordBits

ShiftLeft(w, c) == ToWord(w * Pow2[Count(c)])
ShiftRight(w, c) == ToWord(Signed(w) \div Pow2[Count(c)])   \* arithmetic
ShiftDown(w, c) == w \div Pow2[Count(c)]                    \* logical

\* (w << c) | (w >> (WordBits - c)): the bits of the two shifts are disjoint, so
\* that | adds.  A rotation by 0 shifts right by the whole width, which the
\* hardware takes for 0: w | w.
RotateLeft(w, c) ==
  IF Count(c) = 0 THEN w
  ELSE ToWord(ShiftLeft(w, c) + ShiftDown(w, WordBits - Count(c)))
RotateRight(w, c) ==
  IF Count(c) = 0 THEN w
  ELSE ToWord(ShiftDown(w, c) + ShiftLeft(w, WordBits - Count(c)))

-----------------------------------------------------------------------------
(* Bitwise operations.                                                       *)

Complement(w) == WordSize - 1 - w
IsXor(x, a, b) == \A i \in 0 .. WordBits - 1 : Bit(x, i) = (Bit(a, i) + Bit(b, i)) % 2
Disjoint(a, b) == \A i \in 0 .. WordBits - 1 : Bit(a, i) * Bit(b, i) = 0   \* (a & b) == 0
=============================================================================
