---------------------------- MODULE RiscvLibgcc ----------------------------
(***************************************************************************)
(* The integer routines of the RISC-V builds, am/src/riscv/npc/libgcc,      *)
(* which ysyxsoc holds an identical copy of.  Words have XLEN bits, half of *)
(* them what is called int on the 64-bit machine.                          *)
(***************************************************************************)
EXTENDS Words
LOCAL INSTANCE Bitwise

CONSTANT XLEN

ASSUME XlenAssumption == XLEN \in {4, 8, 16, 32, 64}

LOCAL Half == XLEN \div 2

\* a0 and a1 when a routine returns; div.S leaves the remainder in a1
Regs(a0, a1) == [a0 |-> a0, a1 |-> a1]

Udivdi3(a0, a1) ==
  LET \* .L1: double the divisor until it reaches the dividend or its sign bit
      grown[k \in 0..XLEN-1] ==       \* a2 and a3 after k rounds
        IF k = 0 THEN [a2 |-> a1, a3 |-> 1]
        ELSE [a2 |-> Wrap(2 * grown[k-1].a2, XLEN), a3 |-> Wrap(2 * grown[k-1].a3, XLEN)]
      Ends(k) == \/ Negative(grown[k].a2, XLEN) \/ grown[k].a2 = 0
                 \/ k > 0 /\ a0 <= grown[k].a2
      k1 == CHOOSE k \in 0..XLEN-1 : Ends(k) /\ \A j \in 0..k-1 : ~Ends(j)
      start == IF a1 >= a0 THEN grown[0] ELSE grown[k1]
      \* .L3: subtract and halve until the bit a3 falls out
      rest[rem \in Word(XLEN), q \in Word(XLEN), a2 \in Word(XLEN), a3 \in Word(XLEN)] ==
        IF a3 = 0 THEN Regs(q, rem)
        ELSE IF rem < a2 THEN rest[rem, q, a2 \div 2, a3 \div 2]
        ELSE rest[rem - a2, q | a3, a2 \div 2, a3 \div 2]
  IN IF a1 = 0 THEN Regs(Wrap(-1, XLEN), a0)
     ELSE rest[a0, 0, start.a2, start.a3]

Umoddi3(a0, a1) == Udivdi3(a0, a1).a1

Minus(x) == Neg(x, XLEN)
Below0(x) == Negative(x, XLEN)

Divdi3(a0, a1) ==
  CASE Below0(a0) /\ ~Below0(a1) /\ a1 # 0 -> Minus(Udivdi3(Minus(a0), a1).a0)
    [] Below0(a0) /\ (Below0(a1) \/ a1 = 0) -> Udivdi3(Minus(a0), Minus(a1)).a0
    [] ~Below0(a0) /\ Below0(a1) -> Minus(Udivdi3(a0, Minus(a1)).a0)
    [] ~Below0(a0) /\ ~Below0(a1) -> Udivdi3(a0, a1).a0

\* mutant: the remainder takes the sign of the divisor
Moddi3Divisor(a0, a1) ==
  LET d == IF Below0(a1) THEN Minus(a1) ELSE a1
      n == IF Below0(a0) THEN Minus(a0) ELSE a0
  IN IF Below0(a1) THEN Minus(Udivdi3(n, d).a1) ELSE Udivdi3(n, d).a1

Moddi3(a0, a1) ==
  LET d == IF Below0(a1) THEN Minus(a1) ELSE a1
  IN IF Below0(a0) THEN Minus(Udivdi3(Minus(a0), d).a1) ELSE Udivdi3(a0, d).a1

\* the 32-bit routines of the 64-bit machine; sext.w extends the sign
Sext(x) == Wrap(Signed(Lo(x, Half), Half), XLEN)

Udivsi3(a0, a1) ==
  Sext(Udivdi3(Join(Lo(a0, Half), 0, Half), Join(Lo(a1, Half), 0, Half)).a0)

Umodsi3(a0, a1) == Sext(Udivdi3(Lo(a0, Half), Lo(a1, Half)).a1)

Divsi3(a0, a1) ==
  LET t0 == Wrap(-1, XLEN)
  IN IF a1 = t0 /\ a0 = Wrap(t0 * 2^(Half - 1), XLEN) THEN a0 ELSE Divdi3(a0, a1)

Muldi3(a0, a1) ==
  LET sum[a \in Word(XLEN), b \in Word(XLEN), acc \in Word(XLEN)] ==
        LET new == IF b % 2 = 1 THEN Wrap(acc + a, XLEN) ELSE acc
        IN IF b \div 2 = 0 THEN new ELSE sum[Wrap(2 * a, XLEN), b \div 2, new]
  IN sum[a0, a1, 0]

-----------------------------------------------------------------------------
(* Double words of two XLEN-bit words.  *)

\* the product of the low words, bit by bit of v: w is the sum so far, u and
\* tmp the low and high word of u shifted left
LowProduct(u, v) ==
  LET step[s \in [u : Word(XLEN), v : Word(XLEN), low : Word(XLEN),
                  high : Word(XLEN), tmp : Word(XLEN)]] ==
        LET low == Wrap(s.low + s.u, XLEN)
            carry == IF low < s.low THEN 1 ELSE 0
            odd == s.v % 2 = 1
            t == [u |-> Wrap(2 * s.u, XLEN), v |-> s.v \div 2,
                  low  |-> IF odd THEN low ELSE s.low,
                  high |-> IF odd THEN Wrap(carry + s.tmp + s.high, XLEN) ELSE s.high,
                  tmp  |-> Shr(s.u, XLEN - 1, XLEN) | Wrap(2 * s.tmp, XLEN)]
        IN IF t.v = 0 THEN Join(t.high, t.low, XLEN) ELSE step[t]
  IN step[[u |-> u, v |-> v, low |-> 0, high |-> 0, tmp |-> 0]]

Multi3(u, v) ==
  LET w == LowProduct(Lo(u, XLEN), Lo(v, XLEN))
      Cross(a, b) == IF b = 0 THEN 0 ELSE Muldi3(a, b)
      high == Hi(w, XLEN) + Cross(Lo(v, XLEN), Hi(u, XLEN))
                          + Cross(Lo(u, XLEN), Hi(v, XLEN))
  IN Join(Wrap(high, XLEN), Lo(w, XLEN), XLEN)

Ashldi3(u, b) ==
  LET bm == XLEN - b
  IN CASE b = 0 -> u
       [] b # 0 /\ bm <= 0 -> Join(Shl(Lo(u, XLEN), -bm, XLEN), 0, XLEN)
       [] b # 0 /\ bm > 0 -> Join(Shl(Hi(u, XLEN), b, XLEN) | Shr(Lo(u, XLEN), bm, XLEN),
                                  Shl(Lo(u, XLEN), b, XLEN), XLEN)
=============================================================================
