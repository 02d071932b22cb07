------------------------------- MODULE Arith -------------------------------
(***************************************************************************)
(* The integer arithmetic that replaces missing instructions: klib's        *)
(* int64.c, the RISC-V libgcc and rvmini's macros, against the operations   *)
(* they stand for.  A program computes one of them.                        *)
(***************************************************************************)
EXTENDS Int64, RiscvLibgcc, RvMini, FiniteSets, TLC

\* multi3 and ashldi3 work on two words: an instance with words of W bits
LOCAL Small == INSTANCE RiscvLibgcc WITH XLEN <- W

CONSTANTS Values,     \* operands of an instruction
          Few,        \* operands of an instruction on all registers
          RdSet, RsSet \* destination and source registers of an instruction

VARIABLES task,       \* what is computed
          result      \* what came out, or NoResult

arith_vars == <<task, result>>

LOCAL DW == 2 * W

NoResult == [none |-> 0]

-----------------------------------------------------------------------------
(* rvmini: one instruction in a program with the registers r, a word of data  *)
(* at Data, and a byte Above in use at sp.                                   *)

SP == TablesEnd + 64
Data == SP + 4

Memory(y) == [a \in (_check_same_array.._check_same_array+Q-1) \cup SP-28..Data+3 |->
                IF a >= Data THEN ByteOf(y, a - Data) ELSE 0]

Before(x, y) ==
  [r |-> [n \in {"x0", "sp", "gp", "tp", "ra", "s0", "s1", "a0", "a1"} |->
            CASE n = "x0" -> 0 [] n = "sp" -> SP [] n = "a0" -> x [] n = "a1" -> y
              [] n = "s0" -> Wrap(y + 1, XL) [] n = "s1" -> Wrap(3 * x + 7, XL)
              [] n = "ra" -> Data [] OTHER -> Wrap(x + y, XL)],
   m |-> Memory(y), to |-> NoJump]

RType == {"sub", "slt", "sltu", "and", "or", "xor", "sll", "srl", "sra", "seq",
          "sgt", "sgtu"}
IType == {"slti", "sltiu", "andi", "ori", "xori", "slli", "srli", "srai"}
Unary == {"not", "neg", "seqz", "snez", "sltz", "sgtz"}
Loads == {"lb", "lhu", "lh"}
Branches == {"beq", "bne", "blt", "bge", "bltu", "bgeu", "bgt", "ble", "bgtu", "bleu"}
Jumps == {"jal", "call", "tail"}
Target == 5

Macro(i, rd, rs1, rs2, imm) ==
  CASE i = "sub" -> sub(rd, rs1, rs2)    [] i = "slt" -> slt(rd, rs1, rs2)
    [] i = "sltu" -> sltu(rd, rs1, rs2)  [] i = "and" -> and(rd, rs1, rs2)
    [] i = "or" -> or(rd, rs1, rs2)      [] i = "xor" -> xor(rd, rs1, rs2)
    [] i = "sll" -> sll(rd, rs1, rs2)    [] i = "srl" -> srl(rd, rs1, rs2)
    [] i = "sra" -> sra(rd, rs1, rs2)    [] i = "seq" -> seq(rd, rs1, rs2)
    [] i = "sgt" -> sgt(rd, rs1, rs2)    [] i = "sgtu" -> sgtu(rd, rs1, rs2)
    [] i = "slti" -> slti(rd, rs1, imm)  [] i = "sltiu" -> sltiu(rd, rs1, imm)
    [] i = "andi" -> andi(rd, rs1, imm)  [] i = "ori" -> ori(rd, rs1, imm)
    [] i = "xori" -> xori(rd, rs1, imm)  [] i = "slli" -> slli(rd, rs1, imm)
    [] i = "srli" -> srli(rd, rs1, imm)  [] i = "srai" -> srai(rd, rs1, imm)
    [] i = "not" -> not(rd, rs1)         [] i = "neg" -> neg(rd, rs1)
    [] i = "seqz" -> seqz(rd, rs1)       [] i = "snez" -> snez(rd, rs1)
    [] i = "sltz" -> sltz(rd, rs1)       [] i = "sgtz" -> sgtz(rd, rs1)
    [] i = "lb" -> lb(rd, imm, "ra")     [] i = "lhu" -> lhu(rd, imm, "ra")
    [] i = "lh" -> lh(rd, imm, "ra")     [] i = "sh" -> sh(rs1, imm, "ra")
    [] i = "beq" -> beq(rs1, rs2, Target)   [] i = "bne" -> bne(rs1, rs2, Target)
    [] i = "blt" -> blt(rs1, rs2, Target)   [] i = "bge" -> bge(rs1, rs2, Target)
    [] i = "bltu" -> bltu(rs1, rs2, Target) [] i = "bgeu" -> bgeu(rs1, rs2, Target)
    [] i = "bgt" -> bgt(rs1, rs2, Target)   [] i = "ble" -> ble(rs1, rs2, Target)
    [] i = "bgtu" -> bgtu(rs1, rs2, Target) [] i = "bleu" -> bleu(rs1, rs2, Target)
    [] i = "jal" -> jal(rd, Target)  [] i = "call" -> call(Target)
    [] i = "tail" -> tail(Target)

\* what RV32 says of the instruction, for operands a and b
Value(i, a, b) ==
  LET s == Signed(a, XL)  t == Signed(b, XL)
      Bool(p) == IF p THEN 1 ELSE 0
      Bits(P(_, _)) ==
        LET sum[k \in 0..XL] == IF k = 0 THEN 0
              ELSE sum[k-1] + 2^(k-1) * P((a \div 2^(k-1)) % 2, (b \div 2^(k-1)) % 2)
        IN sum[XL]
  IN CASE i \in {"sub"} -> Wrap(a - b, XL)
       [] i \in {"slt", "slti"} -> Bool(s < t)     [] i = "sgt" -> Bool(s > t)
       [] i \in {"sltu", "sltiu"} -> Bool(a < b)   [] i = "sgtu" -> Bool(a > b)
       [] i \in {"and", "andi"} -> Bits(LAMBDA p, q : p * q)
       [] i \in {"or", "ori"} -> Bits(LAMBDA p, q : IF p + q > 0 THEN 1 ELSE 0)
       [] i \in {"xor", "xori"} -> Bits(LAMBDA p, q : (p + q) % 2)
       [] i \in {"sll", "slli"} -> Wrap(a * 2^(b % XL), XL)
       [] i \in {"srl", "srli"} -> a \div 2^(b % XL)
       [] i \in {"sra", "srai"} -> Wrap(s \div 2^(b % XL), XL)
       [] i = "seq" -> Bool(a = b)
       [] i = "not" -> Wrap(-1 - a, XL)  [] i = "neg" -> Wrap(-a, XL)
       [] i = "seqz" -> Bool(a = 0)      [] i = "snez" -> Bool(a # 0)
       [] i = "sltz" -> Bool(s < 0)      [] i = "sgtz" -> Bool(s > 0)

Taken(i, a, b) ==
  LET s == Signed(a, XL)  t == Signed(b, XL)
  IN CASE i = "beq" -> a = b    [] i = "bne" -> a # b
       [] i = "blt" -> s < t    [] i = "bge" -> s >= t
       [] i = "bltu" -> a < b   [] i = "bgeu" -> a >= b
       [] i = "bgt" -> s > t    [] i = "ble" -> s <= t
       [] i = "bgtu" -> a > b   [] i = "bleu" -> a <= b

-----------------------------------------------------------------------------
(* The program.  It has chosen a routine; Compute chooses operands and runs it. *)

Pairs == {"div", "riscv", "double", "bits"}

Instruction(i, rd, rs1, rs2) == [kind |-> i, rd |-> rd, rs1 |-> rs1, rs2 |-> rs2]

Assembles(t) ==
  /\ t.kind \in {"and", "or", "xor"} => ~LogicAborts(t.rd, t.rs1, t.rs2)
  /\ t.kind \in {"andi", "ori", "xori"} => ~LogicAborts(t.rd, t.rs1, "tp")
  /\ t.kind \notin RType \cup Branches => t.rs2 = "x0"
  /\ t.kind \in Branches \cup {"call", "tail", "sh"} => t.rd = "x0"
  /\ t.kind \in Loads \cup Jumps => t.rs1 = "x0"
  /\ t.kind = "seq" => t.rd = "tp"      \* a helper of the branches
  /\ t.rd = "tp" => t.kind = "seq"

ArithInit ==
  /\ result = NoResult
  /\ \/ \E k \in Pairs, a \in Word(DW) : task = [kind |-> k, a |-> a]
     \/ \E i \in RType \cup IType \cup Unary \cup Loads \cup Branches \cup Jumps \cup {"sh"},
           rd \in RdSet \cup {"tp"}, rs1, rs2 \in RsSet :
          /\ task = Instruction(i, rd, rs1, rs2)
          /\ Assembles(task)

ComputePair(b) ==
  LET a == task.a
  IN /\ task.kind \in Pairs /\ task' = [kind |-> task.kind, a |-> a, b |-> b]
     /\ result' =
          CASE task.kind = "div" ->
                 [udivmod |-> __udivmoddi4(a, b), divmod |-> __divmoddi4(a, b),
                  div |-> __divdi3(a, b), mod |-> __moddi3(a, b),
                  udiv |-> __udivdi3(a, b), umod |-> __umoddi3(a, b)]
            [] task.kind = "riscv" ->
                 [udiv |-> Udivdi3(a, b), umod |-> Umoddi3(a, b), div |-> Divdi3(a, b),
                  mod |-> Moddi3(a, b), mul |-> Muldi3(a, b),
                  udivw |-> Udivsi3(a, b), umodw |-> Umodsi3(a, b),
                  divw |-> Divsi3(Sext(a), Sext(b)), modw |-> Moddi3(Sext(a), Sext(b))]
            [] task.kind = "double" ->
                 [mul |-> Small!Multi3(a, b), shl |-> Small!Ashldi3(a, b % DW)]
            [] task.kind = "bits" ->
                 [clz |-> __clzdi2(a), ctz |-> __ctzdi2(a)]

Run(x, y, imm) ==
  /\ task.kind \notin Pairs
  /\ task' = task @@ [x |-> x, y |-> y, imm |-> imm]
  /\ result' = Exec(Before(x, y), Macro(task.kind, task.rd, task.rs1, task.rs2, imm))

\* one choice of registers sees all operands, the others a few
Operands == IF task.kind \notin Pairs /\ (task.kind = "seq" \/ task.rd = "a0")
               /\ task.rs1 = "a0" /\ task.rs2 \in {"a1", "x0"} THEN Values ELSE Few

Immediates == IF task.kind \in {"slli", "srli", "srai"} THEN 0..XL-1
              ELSE IF task.kind \in Loads \cup {"sh"} THEN {0, 1, 2}
              ELSE IF task.kind \in IType THEN Few ELSE {0}

Compute ==
  /\ result = NoResult
  /\ \/ \E b \in (IF task.kind = "bits" THEN {0} ELSE Word(DW)) :
          (task.kind = "div" => b # 0) /\ (task.kind = "bits" => task.a # 0)
          /\ ComputePair(b)
     \/ \E x, y \in Operands, imm \in Immediates : Run(x, y, imm)

ArithSpec == ArithInit /\ [][Compute]_arith_vars

-----------------------------------------------------------------------------
Done(k) == result # NoResult /\ task.kind = k

(* int64.c: quotient and remainder are those of C, for every dividend and every *)
(* divisor but 0, INT_MIN / -1 wrapping around; and the bit counts.             *)
DivisionIsC ==
  LET a == task.a  b == task.b
      s == Signed(a, DW)  t == Signed(b, DW)
      q == Wrap(Quot(s, t), DW)  r == Wrap(Rem(s, t), DW)
  IN /\ Done("div") => result = [udivmod |-> Pair(a \div b, a % b), divmod |-> Pair(q, r),
                                 div |-> q, mod |-> r, udiv |-> a \div b, umod |-> a % b]
     /\ Done("bits") => /\ 2^(DW - 1 - result.clz) <= a /\ a < 2^(DW - result.clz)
                        /\ a % 2^result.ctz = 0 /\ (a \div 2^result.ctz) % 2 = 1

(* libgcc: div.S gives what the division instructions of RISC-V give, for all     *)
(* operands and for 0 as a divisor too; products and shifts are exact modulo the  *)
(* width.                                                                        *)
LibgccIsRiscv ==
  LET a == task.a  b == task.b
      s == Signed(a, DW)  t == Signed(b, DW)
      la0 == Lo(a, W)  lb0 == Lo(b, W)
      ls == Signed(la0, W)  lt == Signed(lb0, W)
      Minus1 == Wrap(-1, DW)
  IN /\ Done("riscv") =>
          /\ result.udiv.a1 = result.umod
          /\ result.mul = Wrap(a * b, DW)
          /\ IF b = 0 THEN /\ result.udiv = Regs(Minus1, a) /\ result.div = Minus1
                           /\ result.mod = a
             ELSE /\ result.udiv = Regs(a \div b, a % b)
                  /\ result.div = Wrap(Quot(s, t), DW) /\ result.mod = Wrap(Rem(s, t), DW)
          /\ IF lb0 = 0
             THEN result.udivw = Minus1 /\ result.umodw = Sext(la0)
                  /\ result.divw = Minus1 /\ result.modw = Sext(la0)
             ELSE /\ result.udivw = Sext(la0 \div lb0) /\ result.umodw = Sext(la0 % lb0)
                  /\ result.modw = Wrap(Rem(ls, lt), DW)
                  /\ result.divw = Sext(Wrap(Quot(ls, lt), W))
     /\ Done("double") => /\ result.mul = Wrap(a * b, DW)
                          /\ result.shl = Wrap(a * 2^(b % DW), DW)

(* What the compiler calls for double words is right in both libraries.        *)
RoutinesAreC == DivisionIsC /\ LibgccIsRiscv

(* rvmini: what a macro leaves is what its instruction would: the destination, or *)
(* the place jumped to, or the stored halfword; every other register but the two  *)
(* temporaries tp and gp, and all memory in use, is as before.                    *)
LeavesWhat(i, rd, rs1, rs2, imm, x, y) ==
  LET s == Before(x, y)
      a == s.r[rs1]  b == IF i \in IType THEN imm ELSE s.r[rs2]
      Half(k) == ByteOf(y, k) + Q * ByteOf(y, k + 1)
      value == CASE i = "lb" -> Wrap(Signed(ByteOf(y, imm), B), XL)
                 [] i = "lhu" -> Half(imm)
                 [] i = "lh" -> Wrap(Signed(Half(imm), 2 * B), XL)
                 [] i \in {"jal", "call"} -> After
                 [] OTHER -> Value(i, a, b)
      dest == CASE i = "call" -> "ra" [] i \in Branches \cup {"tail", "sh"} -> "x0"
                [] OTHER -> rd
  IN /\ \A n \in (DOMAIN s.r \ {"tp", "gp"}) \cup {dest} :
          result.r[n] = IF n = dest /\ n # "x0" THEN value ELSE s.r[n]
     /\ result.to = CASE i \in Jumps -> Target
                      [] i \in Branches -> IF Taken(i, a, b) THEN Target ELSE NotTaken
                      [] OTHER -> NoJump
     /\ \A m \in SP..Data+3 :
          result.m[m] = IF i = "sh" /\ m \in Data+imm..Data+imm+1
                        THEN ByteOf(a, m - Data - imm) ELSE s.m[m]

(* seqz writes its result and then takes s0 from the stack (inst-replace.h:268),  *)
(* so that with s0 as its destination it sets nothing at all.                     *)
Sets(i, rd) == IF i = "seqz" /\ rd = "s0" THEN "x0" ELSE rd

(* Every macro, with destination and sources of every kind, does what its         *)
(* instruction asks, but for seqz into s0: that leaves s0 as it was.              *)
MacrosFaithful ==
  (result # NoResult /\ task.kind \notin Pairs)
    => LeavesWhat(task.kind, Sets(task.kind, task.rd), task.rs1, task.rs2, task.imm,
                  task.x, task.y)
=============================================================================
