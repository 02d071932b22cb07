------------------------------ MODULE KlibStdio ------------------------------
(***************************************************************************)
(* klib's formatted output, stdio.c: vsnprintf and what calls it.  Text is *)
(* a sequence of characters without its final NUL.  An argument is a       *)
(* record of what va_arg finds when it looks for a char *, an int or a     *)
(* char: its fields s, d and c.                                            *)
(***************************************************************************)
EXTENDS Integers, Sequences
LOCAL INSTANCE SequencesExt

CONSTANTS INT_MIN,    \* the smallest int
          SIZE_MAX,   \* the largest size_t
          PrintfBuf   \* the size of printf's buffer

ASSUME StdioAssumption == /\ INT_MIN \in Int /\ INT_MIN < 0
                          /\ SIZE_MAX \in Nat /\ PrintfBuf \in Nat \ {0}

Cut(s, n) == SubSeq(s, 1, IF n < Len(s) THEN n ELSE Len(s))

Char == <<"0", "1", "2", "3", "4", "5", "6", "7", "8", "9">>

\* buf of int2str, which is filled from its last digit on and read backwards
Digits(tmp) ==
  LET buf[t \in 0..tmp] ==
        IF t = 0 THEN <<>> ELSE Append(buf[t \div 10], Char[(t % 10) + 1])
  IN buf[tmp]

abs(x) == IF x < 0 THEN -x ELSE x

\* int2str(p, v, n) stores these characters at p.
int2str(v, n) ==
  CASE n = 0       -> <<>>
    [] v = 0       -> <<"0">>
    [] v = INT_MIN -> Cut(<<"-">> \o Digits(-v), n)     \* a literal
    [] OTHER       ->
         LET sign == IF v < 0 THEN <<"-">> ELSE <<>>
         IN sign \o Cut(Digits(abs(v)), n - Len(sign))

\* the first position from i on whose character is not in S
Past(s, i, S) == CHOOSE j \in i..Len(s)+1 : /\ j > Len(s) \/ s[j] \notin S
                                            /\ \A k \in i..j-1 : s[k] \in S

\* atoi skips blanks, of white space only those, and reads digits without a sign.
atoi(s) ==
  LET from == Past(s, 1, {" "})
      digits == SubSeq(s, from, Past(s, from, ToSet(Char)) - 1)
      Digit(ch) == (CHOOSE d \in 1..10 : Char[d] = ch) - 1
  IN FoldLeft(LAMBDA x, ch : x * 10 + Digit(ch), 0, digits)

\* mutant: no room is kept for the NUL
LimitWhole(n) == IF n = 0 THEN SIZE_MAX ELSE n

\* n - 1, of type size_t
Limit(n) == IF n = 0 THEN SIZE_MAX ELSE n - 1

(* The characters vsnprintf stores before the final NUL.  text[i, k, c] is what  *)
(* it stores from the i-th character of the format and the k-th argument on,  *)
(* when it has stored c.  *)
Stored(n, fmt, ap) ==
  LET Room(c) == Limit(n) - c
      text[i \in 1..Len(fmt)+1, k \in 1..Len(ap)+1, c \in 0..Limit(n)] ==
        LET Put(s, skip, args) == s \o text[i + skip, k + args, c + Len(s)]
        IN CASE Room(c) = 0 \/ i > Len(fmt) -> <<>>
             [] fmt[i] # "%"     -> Put(<<fmt[i]>>, 1, 0)
             [] fmt[i+1] = "%"   -> Put(<<"%">>, 2, 0)
             [] fmt[i+1] = "s"   -> Put(Cut(ap[k].s, Room(c)), 2, 1)
             [] fmt[i+1] = "d"   -> Put(int2str(ap[k].d, Room(c)), 2, 1)
             [] fmt[i+1] = "c"   -> Put(<<ap[k].c>>, 2, 1)
             [] OTHER            -> Put(<<>>, 2, 0)
  IN text[1, 1, 0]

\* the buffer's first characters, NUL included, and the result
vsnprintf(n, fmt, ap) ==
  [out |-> Append(Stored(n, fmt, ap), "NUL"), ret |-> Len(Stored(n, fmt, ap))]

snprintf(n, fmt, ap) == vsnprintf(n, fmt, ap)

\* vsprintf passes -1 for the size
vsprintf(fmt, ap) == vsnprintf(SIZE_MAX, fmt, ap)

sprintf(fmt, ap) == vsprintf(fmt, ap)

\* what printf hands to putch
printf(fmt, ap) ==
  LET r == vsnprintf(PrintfBuf, fmt, ap) IN SubSeq(r.out, 1, r.ret)
=============================================================================
