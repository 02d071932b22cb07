------------------------------- MODULE MCKlib -------------------------------
(***************************************************************************)
(* Klib on memories of five bytes and formats of up to four characters.    *)
(***************************************************************************)
EXTENDS Klib

MCIntMin == -128

MCMem == [0..4 -> {0, 1, 2}]
MCCounts == 0..4

Upto(n, S) == UNION {[1..k -> S] : k \in 0..n}

\* formats whose last conversion is complete
MCFormats ==
  {f \in Upto(4, {"%", "d", "s", "c", "U"}) :
     LET open[i \in 0..Len(f)] ==          \* a % that still wants its letter
           i > 0 /\ f[i] = "%" /\ ~open[i-1]
     IN ~open[Len(f)]}

Arg(s, d, c) == [s |-> s, d |-> d, c |-> c]

MCArgs == {<<a, b>> : a, b \in {Arg(<<>>, 0, "a"), Arg(<<"a">>, -128, "%"),
                                Arg(<<"a", "%", "d">>, 127, "d"), Arg(<<"d">>, -7, "a")}}

MCTexts == Upto(4, {" ", "\t", "0", "7", "-", "+", "a"})

=============================================================================
