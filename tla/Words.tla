------------------------------- MODULE Words -------------------------------
(***************************************************************************)
(* Machine words of w bits as the numbers 0 .. 2^w - 1.  A shift by w or    *)
(* more is undefined in C and outside the domain here.                     *)
(***************************************************************************)
EXTENDS Integers

Span(w) == 2^w

Word(w) == 0..Span(w)-1

Wrap(x, w) == x % Span(w)

\* the number a word stands for when it is signed, and back
Signed(x, w) == IF x >= 2^(w-1) THEN x - Span(w) ELSE x

Negative(x, w) == x >= 2^(w-1)

Neg(x, w) == Wrap(-x, w)

Shl(x, k, w) == [n \in 0..w-1 |-> Wrap(x * 2^n, w)][k]
Shr(x, k, w) == [n \in 0..w-1 |-> x \div 2^n][k]
Sar(x, k, w) == Wrap([n \in 0..w-1 |-> Signed(x, w) \div 2^n][k], w)

\* a double word
Lo(x, w) == x % Span(w)
Hi(x, w) == x \div Span(w)
Join(hi, lo, w) == hi * Span(w) + lo

\* what C's / and % give for signed words: the quotient is cut towards zero
Quot(a, b) == LET q == (IF a < 0 THEN -a ELSE a) \div (IF b < 0 THEN -b ELSE b)
              IN IF (a < 0) = (b < 0) THEN q ELSE -q
Rem(a, b) == a - b * Quot(a, b)
=============================================================================
