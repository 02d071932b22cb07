-------------------------------- MODULE Klib --------------------------------
(***************************************************************************)
(* A program that calls klib, what the C and POSIX standards say of the    *)
(* calls, and where klib departs from them.                                *)
(* From any small memory it calls one function of string.h; with no memory  *)
(* of its own it formats, allocates and draws random numbers.               *)
(***************************************************************************)
EXTENDS KlibString, KlibStdio, KlibStdlib, FiniteSets
LOCAL INSTANCE SequencesExt

CONSTANTS Mem,      \* memories: functions from 0..n-1 to bytes
          Counts,   \* values of a size_t argument
          Formats,  \* formats
          Args,     \* sequences of arguments
          Texts     \* texts for atoi

VARIABLES mem,   \* the memory, or <<>> in a program without one
          last   \* the last call with its result, and the memory before it

klib_vars == <<mem, last, stdlib_vars>>

Call(fn, x, y, n) == [fn |-> fn, x |-> x, y |-> y, n |-> n]

KlibInit == /\ StdlibInit /\ mem \in {<<>>} \cup Mem
            /\ last = [call |-> Call("none", 0, 0, 0), ret |-> 0, old |-> mem]

-----------------------------------------------------------------------------
(* The standard's terms.  *)

Take(s, n) == SubSeq(s, 1, IF n < Len(s) THEN n ELSE Len(s))

BytesAt(m, a, n) == [i \in 1..n |-> m[a+i-1]]

Terminated(m, a) == a \in DOMAIN m /\ \E b \in DOMAIN m : b >= a /\ m[b] = NUL

\* the string at a, at most n characters of it
Str(m, a, n) ==
  LET end == {b \in a..a+n-1 : b \notin DOMAIN m \/ m[b] = NUL} \cup {a + n}
  IN BytesAt(m, a, (CHOOSE e \in end : \A f \in end : e <= f) - a)

Whole(m, a) == Str(m, a, Cardinality(DOMAIN m))

\* m after the bytes s were written at a, and nothing else
Wrote(m, a, s) ==
  [b \in DOMAIN m |-> IF b - a + 1 \in DOMAIN s THEN s[b-a+1] ELSE m[b]]

Area(m, a, n) == a..a+n-1 \subseteq DOMAIN m

Disjoint(a, n, b, k) == a + n <= b \/ b + k <= a

\* the sign of s - t in the order of their first different byte
Order(s, t) ==
  LET at == {i \in 1..Len(s) : i > Len(t) \/ s[i] # t[i]} \cup {Len(s) + 1}
      i == CHOOSE j \in at : \A k \in at : j <= k
      Byte(u) == IF i > Len(u) THEN 0 ELSE u[i]
  IN IF Byte(s) < Byte(t) THEN -1 ELSE IF Byte(s) > Byte(t) THEN 1 ELSE 0

Sign(x) == IF x < 0 THEN -1 ELSE IF x > 0 THEN 1 ELSE 0

-----------------------------------------------------------------------------
(* The calls.  May is what the standard asks of the arguments; a null pointer *)
(* for strlen is klib's own.  MovesWell is what klib's memmove needs beyond   *)
(* the standard: the areas do not overlap, or the destination is the upper    *)
(* one and they share at most half of what is moved.                          *)

MovesWell(c) == \/ Disjoint(c.x, c.n, c.y, c.n) \/ c.x = c.y
                \/ c.x > c.y /\ c.n <= 2 * (c.x - c.y)

MayMove(m, c) == Area(m, c.x, c.n) /\ Area(m, c.y, c.n)

May(m, c) ==
  CASE c.fn = "strlen" -> c.x = c.y /\ c.n = 0 /\ (Terminated(m, c.x) \/ c.x = NULL)
    [] c.fn \in {"strcpy", "stpcpy"} ->
         LET k == Len(Whole(m, c.y)) + 1
         IN /\ c.n = 0 /\ Terminated(m, c.y)
            /\ Area(m, c.x, k) /\ Disjoint(c.x, k, c.y, k)
    [] c.fn = "strcat" ->
         LET j == Len(Whole(m, c.x))  k == Len(Whole(m, c.y)) + 1
         IN /\ c.n = 0 /\ Terminated(m, c.x) /\ Terminated(m, c.y)
            /\ Area(m, c.x, j + k) /\ Disjoint(c.x, j + k, c.y, k)
    [] c.fn \in {"strncpy", "stpncpy"} ->
         LET k == Len(Str(m, c.y, c.n))
         IN /\ Terminated(m, c.y) \/ Area(m, c.y, c.n)
            /\ Area(m, c.x, c.n) /\ Disjoint(c.x, c.n, c.y, k + 1)
    [] c.fn = "strcmp" -> c.n = 0 /\ Terminated(m, c.x) /\ Terminated(m, c.y)
    [] c.fn = "strncmp" -> \A a \in {c.x, c.y} : Terminated(m, a) \/ Area(m, a, c.n)
    [] c.fn = "memset" -> Area(m, c.x, c.n) /\ c.y >= 0
    [] c.fn = "memcpy" -> MayMove(m, c) /\ Disjoint(c.x, c.n, c.y, c.n)
    [] c.fn \in {"memmove", "memcmp"} -> MayMove(m, c)
    [] c.fn = "memchr" -> Area(m, c.x, c.n) /\ c.y >= 0

Functions == {"strlen", "strcpy", "stpcpy", "strcat", "strncpy", "stpncpy",
  "strcmp", "strncmp", "memset", "memcpy", "memmove", "memcmp", "memchr"}

Apply(m, c) ==
  CASE c.fn = "strlen"  -> Result(m, strlen(m, c.x))
    [] c.fn = "strcpy"  -> strcpy(m, c.x, c.y)
    [] c.fn = "stpcpy"  -> stpcpy(m, c.x, c.y)
    [] c.fn = "strcat"  -> strcat(m, c.x, c.y)
    [] c.fn = "strncpy" -> strncpy(m, c.x, c.y, c.n)
    [] c.fn = "stpncpy" -> stpncpy(m, c.x, c.y, c.n)
    [] c.fn = "strcmp"  -> strcmp(m, c.x, c.y)
    [] c.fn = "strncmp" -> strncmp(m, c.x, c.y, c.n)
    [] c.fn = "memset"  -> memset(m, c.x, c.y, c.n)
    [] c.fn = "memcpy"  -> memcpy(m, c.x, c.y, c.n)
    [] c.fn = "memmove" -> memmove(m, c.x, c.y, c.n)
    [] c.fn = "memcmp"  -> memcmp(m, c.x, c.y, c.n)
    [] c.fn = "memchr"  -> memchr(m, c.x, c.y, c.n)

StringCall ==
  /\ mem # <<>> /\ last.call.fn = "none"
  /\ \E fn \in Functions, x, y \in DOMAIN mem \cup {NULL}, n \in Counts :
       LET c == Call(fn, x, y, n)
       IN /\ May(mem, c)
          /\ mem' = Apply(mem, c).mem
          /\ last' = [call |-> c, ret |-> Apply(mem, c).ret, old |-> mem]
  /\ UNCHANGED stdlib_vars

\* x is the format and y the arguments
PrintCall ==
  /\ mem = <<>> /\ blocks = <<>> /\ draws.n = 0 /\ last.call.fn = "none"
  /\ \/ \E fmt \in Formats, ap \in Args, n \in Counts :
          last' = [call |-> Call("snprintf", fmt, ap, n), old |-> mem,
                   ret |-> snprintf(n, fmt, ap)]
     \/ \E fmt \in Formats, ap \in Args :
          \/ last' = [call |-> Call("sprintf", fmt, ap, 0), old |-> mem,
                      ret |-> sprintf(fmt, ap)]
          \/ last' = [call |-> Call("printf", fmt, ap, 0), old |-> mem,
                      ret |-> printf(fmt, ap)]
     \/ \E s \in Texts :
          last' = [call |-> Call("atoi", s, 0, 0), old |-> mem, ret |-> atoi(s)]
  /\ UNCHANGED <<mem, stdlib_vars>>

StdlibCall == /\ mem = <<>> /\ last.call.fn = "none"
              /\ StdlibNext /\ UNCHANGED <<mem, last>>

KlibNext == StringCall \/ PrintCall \/ StdlibCall

KlibSpec == KlibInit /\ [][KlibNext]_klib_vars

-----------------------------------------------------------------------------
(* Does the result r on the memory m of call c, made on old, meet C and POSIX? *)

Meets(c, old, m, r) ==
  LET src == Whole(old, c.y)
      Writes(s, ret) == m = Wrote(old, c.x, s) /\ r = ret
      Padded == Take(src \o [i \in 1..c.n |-> NUL], c.n)
  IN CASE c.fn = "strlen"  -> r = IF c.x = NULL THEN 0 ELSE Len(Whole(old, c.x))
       [] c.fn = "strcpy"  -> Writes(Append(src, NUL), c.x)
       [] c.fn = "stpcpy"  -> Writes(Append(src, NUL), c.x + Len(src))
       [] c.fn = "strcat"  -> Writes(Whole(old, c.x) \o Append(src, NUL), c.x)
       [] c.fn = "strncpy" -> Writes(Padded, c.x)
       [] c.fn = "stpncpy" -> Writes(Padded, c.x + Len(Take(src, c.n)))
       [] c.fn = "strcmp"  -> Sign(r) = Order(Whole(old, c.x), src) /\ m = old
       [] c.fn = "strncmp" -> /\ m = old
                              /\ Sign(r) = Order(Str(old, c.x, c.n), Str(old, c.y, c.n))
       [] c.fn = "memset"  -> Writes([i \in 1..c.n |-> c.y % (UCHAR_MAX + 1)], c.x)
       [] c.fn \in {"memcpy", "memmove"} -> Writes(BytesAt(old, c.y, c.n), c.x)
       [] c.fn = "memcmp"  -> /\ m = old
                              /\ Sign(r) = Order(BytesAt(old, c.x, c.n), BytesAt(old, c.y, c.n))
       [] c.fn = "memchr"  ->
            LET at == {a \in c.x..c.x+c.n-1 : old[a] = c.y % (UCHAR_MAX + 1)}
            IN m = old /\ IF at = {} THEN r = NULL
                          ELSE r \in at /\ \A a \in at : r <= a

(* The decimal digits of v, by their places.  *)
Decimal(v) ==
  LET a == IF v < 0 THEN -v ELSE v
      places == CHOOSE k \in 1..12 : a < 10^k /\ (k = 1 \/ a >= 10^(k-1))
  IN (IF v < 0 THEN <<"-">> ELSE <<>>)
       \o [i \in 1..places |-> Char[((a \div 10^(places-i)) % 10) + 1]]

(* What the conversions of fmt stand for, without any limit.  U, for unsigned,  *)
(* stands for those of the standard that klib does not have: it prints nothing *)
(* and leaves the argument to the next conversion.                            *)
Expand(fmt, ap, klib) ==
  LET text[i \in 1..Len(fmt)+1, k \in 1..Len(ap)+1] ==
        IF i > Len(fmt) THEN <<>>
        ELSE IF fmt[i] # "%" THEN <<fmt[i]>> \o text[i+1, k]
        ELSE CASE fmt[i+1] = "%" -> <<"%">> \o text[i+2, k]
               [] fmt[i+1] = "s" -> ap[k].s \o text[i+2, k+1]
               [] fmt[i+1] = "d" -> Decimal(ap[k].d) \o text[i+2, k+1]
               [] fmt[i+1] = "c" -> <<ap[k].c>> \o text[i+2, k+1]
               [] fmt[i+1] = "U" ->
                    IF klib THEN text[i+2, k]
                    ELSE Decimal(ap[k].d % (-2 * INT_MIN)) \o text[i+2, k+1]
  IN text[1, 1]

(* stpncpy pads the destination with NULs; klib's writes the first one and     *)
(* leaves what is behind it.                                                  *)
Unpadded(c, old, m) ==
  [a \in DOMAIN m |-> IF a \in c.x + Len(Whole(old, c.y)) + 1 .. c.x + c.n - 1
                      THEN NUL ELSE m[a]]
LeavesRest(c, old, m) ==
  \A a \in c.x + Len(Whole(old, c.y)) + 1 .. c.x + c.n - 1 : m[a] = old[a]

(* string.h: every function returns what the standards say, writes the bytes  *)
(* they say and no other byte, on every memory and argument they allow, with  *)
(* two exceptions: stpncpy leaves the rest of the destination as it was       *)
(* instead of padding it, and memmove is right only as far as MovesWell.      *)
StringsIso ==
  LET c == last.call
  IN c.fn \in Functions /\ (c.fn = "memmove" => MovesWell(c)) =>
       IF c.fn = "stpncpy"
       THEN LeavesRest(c, last.old, mem)
              /\ Meets(c, last.old, Unpadded(c, last.old, mem), last.ret)
       ELSE Meets(c, last.old, mem, last.ret)

(* memmove "deals with overlap areas" (string.c:96): the bytes at the          *)
(* destination are those that were at the source, whatever the two share.     *)
MemmoveIso ==
  last.call.fn = "memmove" => Meets(last.call, last.old, mem, last.ret)

(* What atoi reads, by the standard: white space, a sign, digits.  *)
Numeral(ds) ==
  CHOOSE v \in 0..10^Len(ds)-1 :
    \A i \in DOMAIN ds : Char[((v \div 10^(Len(ds)-i)) % 10) + 1] = ds[i]

StandardAtoi(s) ==
  LET w == Past(s, 1, {" ", "\t"})
      signed == w <= Len(s) /\ s[w] \in {"+", "-"}
      from == IF signed THEN w + 1 ELSE w
      v == Numeral(SubSeq(s, from, Past(s, from, ToSet(Char)) - 1))
  IN IF signed /\ s[w] = "-" THEN -v ELSE v

(* Formatted output and atoi against the standard.  What klib leaves in the    *)
(* buffer is what the format stands for, cut to the buffer with its NUL, but   *)
(* for the conversions it does not have; a buffer of 0 bytes counts as one     *)
(* without limit, and the result counts what is in the buffer.  So snprintf    *)
(* agrees with the standard exactly if it knows the conversions and all of the *)
(* text and its NUL fit, printf if they fit into its own buffer.  atoi reads   *)
(* the standard's number where only blanks precede it, and otherwise, behind a *)
(* sign or other white space, 0.                                              *)
TextIso ==
  LET c == last.call
      iso == Expand(c.x, c.y, FALSE)
      full == Expand(c.x, c.y, TRUE)
      C(text, ret) == [out |-> Append(text, "NUL"), ret |-> ret]
      Standard == IF c.n = 0 THEN [out |-> <<>>, ret |-> Len(iso)]
                  ELSE C(Take(iso, c.n - 1), Len(iso))
      Plain(s) == LET i == Past(s, 1, {" "})
                  IN i > Len(s) \/ s[i] \notin {"\t", "+", "-"}
  IN /\ c.fn = "snprintf" =>
          LET kept == IF c.n = 0 THEN full ELSE Take(full, c.n - 1)
          IN /\ last.ret = C(kept, Len(kept))
             /\ last.ret = Standard <=> full = iso /\ Len(iso) < c.n
     /\ c.fn = "sprintf" => last.ret = C(full, Len(full))
     /\ c.fn = "printf"  => /\ last.ret = Take(full, PrintfBuf - 1)
                            /\ last.ret = iso <=> full = iso /\ Len(iso) < PrintfBuf
     /\ c.fn = "atoi"    => last.ret = IF Plain(c.x) THEN StandardAtoi(c.x) ELSE 0

(* string.h, and stdio.h and stdlib.h as far as they are about text.           *)
KlibIso == StringsIso /\ TextIso
=============================================================================
