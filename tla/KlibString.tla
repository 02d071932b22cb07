----------------------------- MODULE KlibString -----------------------------
(***************************************************************************)
(* klib's string.c and memchr of stdlib.c.  A function of the library is   *)
(* an operator from a memory m (a function from addresses to bytes) and    *)
(* the arguments to a record of the memory it leaves and what it returns.  *)
(* An access outside the memory is an application outside m's domain.      *)
(* Areas that the C standard forbids to overlap are assumed not to.        *)
(***************************************************************************)
EXTENDS Integers
LOCAL INSTANCE Bitwise
LOCAL INSTANCE FiniteSetsExt

CONSTANTS UCHAR_MAX,  \* the largest byte
          SS          \* sizeof(size_t)

ASSUME CharAssumption == UCHAR_MAX \in Nat \ {0} /\ SS \in Nat \ {0}

NUL == 0
NULL == -1            \* the pointer 0; addresses of m are 0 and up

Result(m, r) == [mem |-> m, ret |-> r]

\* the loop dst[i] = src[i] for i = 0, 1, ..., n - 1
CopyUp(m, d, s, n) ==
  LET after[i \in 0..n] ==
        IF i = 0 THEN m ELSE [after[i-1] EXCEPT ![d+i-1] = after[i-1][s+i-1]]
  IN after[n]

\* the loop of memcpy, for i = n - 1, ..., 0
CopyDown(m, d, s, n) ==
  LET after[i \in 0..n] ==
        IF i = 0 THEN m ELSE [after[i-1] EXCEPT ![d+n-i] = after[i-1][s+n-i]]
  IN after[n]

Fill(m, d, n, c) == [a \in DOMAIN m |-> IF a \in d..d+n-1 THEN c ELSE m[a]]

\* the first i at which a loop stops; it looks no further
First(N, Stop(_)) == CHOOSE i \in 0..N : Stop(i) /\ \A j \in 0..i-1 : ~Stop(j)

MaxAddr(m) == Max(DOMAIN m)

strlen(m, s) ==
  IF s = NULL THEN 0 ELSE First(MaxAddr(m) - s, LAMBDA i : m[s+i] = NUL)

strcpy(m, d, s) == Result(CopyUp(m, d, s, strlen(m, s) + 1), d)

stpcpy(m, d, s) ==
  Result(CopyUp(m, d, s, strlen(m, s) + 1), d + strlen(m, s))

\* how many of the first n characters at s come before a NUL
NulBefore(m, s, n) ==
  IF n = 0 THEN 0
  ELSE First(n, LAMBDA i : i = n \/ m[s+i] = NUL)

\* stops at the NUL it copied, if that is within n: no padding
stpncpy(m, d, s, n) ==
  LET k == NulBefore(m, s, n)
  IN Result(CopyUp(m, d, s, IF k < n THEN k + 1 ELSE n), d + k)

strncpy(m, d, s, n) ==
  LET k == NulBefore(m, s, n)
  IN Result(Fill(CopyUp(m, d, s, k), d + k, n - k, NUL), d)

strcat(m, d, s) == Result(strcpy(m, d + strlen(m, d), s).mem, d)

\* mutant: the loop may use up all n characters and compare the one after
strncmpLate(m, l, r, n) ==
  LET i == First(n, LAMBDA j : \/ j = n
                               \/ m[l+j] = NUL
                               \/ m[r+j] = NUL
                               \/ m[l+j] # m[r+j])
  IN IF i = n /\ {l+i, r+i} \subseteq DOMAIN m
     THEN Result(m, m[l+i] - m[r+i])
     ELSE Result(m, IF i = n THEN 0 ELSE m[l+i] - m[r+i])

\* n is decremented before the loop, so at most n - 1 characters are skipped
strncmp(m, l, r, n) ==
  IF n = 0 THEN Result(m, 0)
  ELSE LET i == First(n - 1, LAMBDA j : \/ j = n - 1
                                        \/ m[l+j] = NUL
                                        \/ m[r+j] = NUL
                                        \/ m[l+j] # m[r+j])
       IN Result(m, m[l+i] - m[r+i])

\* strncmp with the largest size_t
strcmp(m, l, r) == strncmp(m, l, r, MaxAddr(m) + 2)

memset(m, s, c, n) == Result(Fill(m, s, n, c % (UCHAR_MAX + 1)), s)

\* Areas that overlap are left as they are.
memcpy(m, out, in, n) ==
  Result(IF \/ out > in /\ in + n - 1 < out
            \/ in > out /\ out + n - 1 < in
         THEN CopyDown(m, out, in, n) ELSE m,
         out)

memmove(m, d, s, n) ==
  LET Two(d1, s1, n1, d2, s2, n2) ==
        Result(memcpy(memcpy(m, d1, s1, n1).mem, d2, s2, n2).mem, d)
  IN CASE d = s -> Result(m, d)
       [] s > d /\ d + n - 1 >= s ->
            LET o == d + n - s IN Two(d, s, o, s + o, d + o, n - o)
       [] d > s /\ s + n - 1 >= d ->
            LET o == s + n - d IN Two(d + n - o, d, o, d, s, n - o)
       [] OTHER -> Result(memcpy(m, d, s, n).mem, d)

memcmp(m, a, b, n) ==
  LET i == First(n, LAMBDA j : j = n \/ m[a+j] # m[b+j])
  IN Result(m, IF i = n THEN 0 ELSE m[a+i] - m[b+i])

-----------------------------------------------------------------------------
(* memchr looks at whole words once it reached an aligned address.  *)

WordMod == (UCHAR_MAX + 1)^SS
ONES == (WordMod - 1) \div UCHAR_MAX
HIGHS == ONES * (UCHAR_MAX \div 2 + 1)

\* HASZERO(x): has the word x a zero byte?
HASZERO(x) == (((x - ONES) % WordMod) & (WordMod - 1 - x)) & HIGHS # 0

\* the little-endian word at address w
WordAt(m, w) ==
  LET part[i \in 0..SS] ==
        IF i = 0 THEN 0 ELSE part[i-1] + m[w+i-1] * (UCHAR_MAX + 1)^(i-1)
  IN part[SS]

memchr(m, src, ch, n) ==
  LET c == ch % (UCHAR_MAX + 1)
      Hit(i) == i = n \/ m[src+i] = c
      p == First(n, LAMBDA i : (src + i) % SS = 0 \/ Hit(i))
      Stop(j) == \/ n - p - j * SS < SS
                 \/ HASZERO(WordAt(m, src + p + j * SS) ^^ (ONES * c))
      w == IF Hit(p) THEN p ELSE p + SS * First(n, Stop)
      i == w + First(n - w, LAMBDA j : Hit(w + j))
  IN Result(m, IF i = n THEN NULL ELSE src + i)
=============================================================================
