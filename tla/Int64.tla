------------------------------- MODULE Int64 -------------------------------
(***************************************************************************)
(* klib's 64-bit division and bit counting, int64.c, for words of W bits    *)
(* in the place of 32.                                                     *)
(***************************************************************************)
EXTENDS Words
LOCAL INSTANCE Bitwise

CONSTANT W       \* n_uword_bits

ASSUME WAssumption == W \in {4, 8, 16, 32}

LOCAL DW == 2 * W

\* __clzsi2, __ctzsi2: t halves the part of x that is looked at, down to two bits
__clzsi2(a, w) ==
  LET \* r and the last two bits of x, when x has b bits left
      part[b \in 1..w, x \in Word(w)] ==
        IF b = 2 THEN IF x >= 2 THEN 0 ELSE 2 - x
        ELSE LET h == b \div 2
                 t == IF x \div 2^h = 0 THEN h ELSE 0
             IN t + part[h, x \div 2^(h - t)]
  IN part[w, a]

__ctzsi2(a, w) ==
  LET part[b \in 1..w, x \in Word(w)] ==
        IF b = 2 THEN IF x % 2 = 1 THEN 0 ELSE 2 - ((x % 4) \div 2)
        ELSE LET h == b \div 2
                 t == IF x % 2^h = 0 THEN h ELSE 0
             IN t + part[h, x \div 2^t]
  IN part[w, a]

__ctzdi2(a) == IF Lo(a, W) = 0 THEN __ctzsi2(Hi(a, W), W) + W ELSE __ctzsi2(Lo(a, W), W)
__clzdi2(a) == IF Hi(a, W) = 0 THEN __clzsi2(Lo(a, W), W) + W ELSE __clzsi2(Hi(a, W), W)

-----------------------------------------------------------------------------
(* __udivmoddi4 returns the quotient and the remainder it stores.  *)

Pair(q, r) == [quot |-> q, rem |-> r]

IsPow2(x) == (x & (x - 1)) = 0

\* q and r of n after a shift by sr, one branch for each place of sr
ShiftIn(nh, nl, sr) ==
  CASE sr = W -> [q |-> Join(nl, 0, W), r |-> nh]
    [] sr < W -> [q |-> Join(Shl(nl, W - sr, W), 0, W),
                  r |-> Join(Shr(nh, sr, W), Shl(nh, W - sr, W) | Shr(nl, sr, W), W)]
    [] sr > W -> [q |-> Join(Shl(nh, DW - sr, W) | Shr(nl, sr - W, W),
                             Shl(nl, DW - sr, W), W),
                  r |-> Shr(nh, sr - W, W)]

\* mutant: the divisor has to be smaller than the remainder, not equal
LoopStrict(start, d, sr) ==
  LET after[k \in 0..sr] ==
        IF k = 0 THEN [q |-> start.q, r |-> start.r, carry |-> 0]
        ELSE LET s == after[k-1]
                 r == Wrap(2 * s.r, DW) + Shr(s.q, DW - 1, DW)
                 q == Wrap(2 * s.q, DW) + s.carry
             IN IF r > d THEN [q |-> q, r |-> r - d, carry |-> 1]
                ELSE [q |-> q, r |-> r, carry |-> 0]
  IN Pair(Wrap(2 * after[sr].q, DW) + after[sr].carry, after[sr].r)

\* the loop: sr times shift r:q left by one bit and subtract d from r if it fits
Loop(start, d, sr) ==
  LET Shift(s) ==
        [q |-> Wrap(2 * s.q, DW) + s.carry, r |-> Wrap(2 * s.r, DW) + Shr(s.q, DW - 1, DW)]
      Fits(r) == Negative(Wrap(d - r - 1, DW), DW)
      after[k \in 0..sr] ==
        IF k = 0 THEN [q |-> start.q, r |-> start.r, carry |-> 0]
        ELSE LET s == Shift(after[k-1])
             IN IF Fits(s.r) THEN [q |-> s.q, r |-> Wrap(s.r - d, DW), carry |-> 1]
                ELSE [q |-> s.q, r |-> s.r, carry |-> 0]
      end == after[sr]
  IN Pair(Wrap(2 * end.q, DW) + end.carry, end.r)

__udivmoddi4(a, b) ==
  LET nh == Hi(a, W)  nl == Lo(a, W)
      dh == Hi(b, W)  dl == Lo(b, W)
      \* sr is unsigned: a divisor with more bits than the dividend makes it large
      sr == Wrap(__clzsi2(dh, W) - __clzsi2(nh, W), W)
      sr1 == 1 + W + __clzsi2(dl, W) - __clzsi2(nh, W)
      Slow(k) == Loop(ShiftIn(nh, nl, k), b, k)
  IN CASE nh = 0 /\ dh = 0 -> Pair(nl \div dl, nl % dl)
       [] nh = 0 /\ dh # 0 -> Pair(0, nl)
       [] nh # 0 /\ dl = 0 /\ nl = 0 -> Pair(nh \div dh, Join(nh % dh, 0, W))
       [] nh # 0 /\ dl = 0 /\ nl # 0 /\ IsPow2(dh) ->
            Pair(Shr(nh, __ctzsi2(dh, W), W), Join(nh & (dh - 1), nl, W))
       [] nh # 0 /\ dl = 0 /\ nl # 0 /\ ~IsPow2(dh) ->
            IF sr > W - 2 THEN Pair(0, a) ELSE Slow(sr + 1)
       [] nh # 0 /\ dl # 0 /\ dh = 0 /\ IsPow2(dl) ->
            LET k == __ctzsi2(dl, W)
            IN IF dl = 1 THEN Pair(a, 0)
               ELSE Pair(Join(Shr(nh, k, W), Shl(nh, W - k, W) | Shr(nl, k, W), W),
                         nl & (dl - 1))
       [] nh # 0 /\ dl # 0 /\ dh = 0 /\ ~IsPow2(dl) -> Slow(sr1)
       [] nh # 0 /\ dl # 0 /\ dh # 0 ->
            IF sr > W - 1 THEN Pair(0, a) ELSE Slow(sr + 1)

__udivdi3(a, b) == __udivmoddi4(a, b).quot

__umoddi3(a, b) == __udivmoddi4(a, b).rem

\* (a ^ s) - s with s the sign: the absolute value, or its negation back
Flip(a, s) == IF s THEN Neg(a, DW) ELSE a

__divdi3(a, b) ==
  LET s_a == Negative(a, DW)  s_b == Negative(b, DW)
  IN Flip(__udivmoddi4(Flip(a, s_a), Flip(b, s_b)).quot, s_a # s_b)

__divmoddi4(a, b) == LET d == __divdi3(a, b) IN Pair(d, Wrap(a - d * b, DW))

__moddi3(a, b) ==
  LET s == Negative(a, DW)
  IN Flip(__udivmoddi4(Flip(a, s), Flip(b, Negative(b, DW))).rem, s)
=============================================================================
