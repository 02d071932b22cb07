------------------------------- MODULE RvMini -------------------------------
(***************************************************************************)
(* tools/rvmini: the assembler macros that let RV32 programs run on a       *)
(* processor with add, addi, lui, lw, lbu, sw, sb and jalr only.  A macro    *)
(* is the sequence of these instructions it expands to, Exec runs it.      *)
(*                                                                         *)
(* A byte has B bits and a word four bytes; B is 8 on the machine.  24, 16  *)
(* and 8 bits of the source are 3 B, 2 B and B here, 0xff is Q - 1.  The    *)
(* shift amounts 0..4*B-1 have to fit a byte.                              *)
(***************************************************************************)
EXTENDS Words, Sequences
LOCAL INSTANCE SequencesExt
LOCAL INSTANCE Bitwise

CONSTANT B

ASSUME BAssumption == B \in {4, 8}

Q == 2^B
XL == 4 * B                  \* bits of a word

\* The addresses of the tables; la loads one.
_slt1_table == 0
_sltu1_table == 8
_or1_table == 16
_same_result_table == 20
_check_8bit_0_table == 32
_check_same_array == _check_8bit_0_table + Q
_and8_table == _check_same_array + Q
_or8_table == _and8_table + Q * Q
_xor8_table == _or8_table + Q * Q
_sll8_table == _xor8_table + Q * Q
_srl8_table == _sll8_table + XL * Q * 4
_sra8_table == _srl8_table + XL * Q * 4
TablesEnd == _sra8_table + XL * Q * 4

ByteOf(x, k) == (x \div Q^k) % Q

\* gen-lut.c: row j, column i
Table(name, j, i) ==
  CASE name = "and" -> j & i
    [] name = "or"  -> j | i
    [] name = "xor" -> j ^^ i
    [] name = "sll" -> Shl(i, j, XL)
    [] name = "srl" -> Shr(i * Q^3, j, XL)
    [] name = "sra" -> Sar(i * Q^3, j, XL)

\* the bytes of the read-only data
ROM ==
  LET Of(base, seq) == [a \in base..base+Len(seq)-1 |-> seq[a-base+1]]
      Eight(base, name) ==
        [a \in base..base+Q*Q-1 |-> Table(name, (a - base) \div Q, (a - base) % Q)]
      Words4(base, name) ==
        [a \in base..base+XL*Q*4-1 |->
           LET e == (a - base) \div 4
           IN ByteOf(Table(name, e \div Q, e % Q), (a - base) % 4)]
      parts == << Of(_slt1_table, <<0, 1, 0, 0, 1, 1, 0, 1>>),
                  Of(_sltu1_table, <<0, 1, 1, 1, 0, 0, 0, 1>>),
                  Of(_or1_table, <<0, 1, 1, 1>>),
                  Of(_same_result_table, <<1, 0, 0, 0, 0, 0, 0, 0>>),
                  [a \in _check_8bit_0_table.._check_8bit_0_table+Q-1 |->
                     IF a = _check_8bit_0_table THEN 0 ELSE 1],
                  Eight(_and8_table, "and"), Eight(_or8_table, "or"),
                  Eight(_xor8_table, "xor"), Words4(_sll8_table, "sll"),
                  Words4(_srl8_table, "srl"), Words4(_sra8_table, "sra") >>
  IN [a \in 0..TablesEnd-1 |->
        LET in == {k \in 1..Len(parts) : a \in DOMAIN parts[k]}
        IN IF in = {} THEN 0 ELSE parts[CHOOSE k \in in : TRUE][a]]

-----------------------------------------------------------------------------
(* The processor.  A state has the registers r, the bytes m that can be        *)
(* written, and the address it jumped to, or NoJump.                         *)

Ins(op, rd, rs, rt, imm) ==
  << [op |-> op, rd |-> rd, rs |-> rs, rt |-> rt, imm |-> imm] >>

add(rd, rs1, rs2)  == Ins("add", rd, rs1, rs2, 0)
addi(rd, rs1, imm) == Ins("addi", rd, rs1, "x0", imm)
lw(rd, off, base)  == Ins("lw", rd, base, "x0", off)
lbu(rd, off, base) == Ins("lbu", rd, base, "x0", off)
sw(rs, off, base)  == Ins("sw", "x0", base, rs, off)
sb(rs, off, base)  == Ins("sb", "x0", base, rs, off)
jalr(rd, rs)       == Ins("jalr", rd, rs, "x0", 0)

NoJump == -1
After == 1                   \* the address jalr leaves in rd

Load(s, a) == IF a \in DOMAIN s.m THEN s.m[a] ELSE ROM[a]

Step(s, i) ==
  LET Put(v) == IF i.rd = "x0" THEN s ELSE [s EXCEPT !.r[i.rd] = Wrap(v, XL)]
      at == Wrap(s.r[i.rs] + i.imm, XL)
      Store(n) == [s EXCEPT !.m = [a \in DOMAIN @ |->
                     IF a \in at..at+n-1 THEN ByteOf(s.r[i.rt], a - at) ELSE @[a]]]
  IN CASE i.op = "add"  -> Put(s.r[i.rs] + s.r[i.rt])
       [] i.op = "addi" -> Put(at)
       [] i.op = "lbu"  -> Put(Load(s, at))
       [] i.op = "lw"   -> Put(Load(s, at) + Q * Load(s, at + 1)
                               + Q^2 * Load(s, at + 2) + Q^3 * Load(s, at + 3))
       [] i.op = "sb"   -> Store(1)
       [] i.op = "sw"   -> Store(4)
       [] i.op = "jalr" -> [Put(After) EXCEPT !.to = at]

\* instructions behind a jump are not reached
Exec(s, program) ==
  FoldLeft(LAMBDA t, i : IF t.to = NoJump THEN Step(t, i) ELSE t, s, program)

\* lui and addi with the two halves of an address or an immediate
la(r, addr) == addi(r, "x0", addr)
li(r, imm) == addi(r, "x0", imm)
mv(rd, rs) == addi(rd, rs, 0)
jr(rs) == jalr("x0", rs)

-----------------------------------------------------------------------------
(* The slots below sp.  *)

SP_VAR_BYTE(n, byte) == -(n * 4) + byte
VAR_A == 4
VAR_B == 5
VAR_C == 6
VAR_D == 7
StoreVar(r, n) == sw(r, SP_VAR_BYTE(n, 0), "sp")
LoadVar(r, n) == lw(r, SP_VAR_BYTE(n, 0), "sp")
StoreByte(r, n, byte) == sb(r, SP_VAR_BYTE(n, byte), "sp")
LoadByte(r, n, byte) == lbu(r, SP_VAR_BYTE(n, byte), "sp")
PUSH(r, n) == StoreVar(r, n)
POP(r, n) == LoadVar(r, n)

\* the bytes from high to 0, handled one after the other
EachByte(high, P(_)) == FlattenSeq([k \in 1..high+1 |-> P(high + 1 - k)])

getbyte(rd, rs1, byte) == StoreVar(rs1, VAR_C) \o LoadByte(rd, VAR_C, byte)

\* sh: the second byte goes through tp
sh(rs, off, base) == sb(rs, off, base) \o getbyte("tp", rs, 1) \o sb("tp", off + 1, base)

\* rd + rd + ... for a shift of less than two bytes
Doublings(rd, rs1, n) ==
  add(rd, rs1, rs1) \o FlattenSeq([k \in 1..n-1 |-> add(rd, rd, rd)])

ShiftShort(rd, rs1, imm) ==
  IF imm = 0 THEN (IF rd = rs1 THEN <<>> ELSE mv(rd, rs1)) ELSE Doublings(rd, rs1, imm)

slli(rd, rs1, imm) ==
  CASE imm < 2 * B -> ShiftShort(rd, rs1, imm)
    [] imm >= 3 * B -> StoreVar("x0", VAR_A) \o StoreByte(rs1, VAR_A, 3)
                         \o LoadVar(rd, VAR_A) \o ShiftShort(rd, rd, imm - 3 * B)
    [] OTHER -> StoreVar("x0", VAR_A) \o sh(rs1, SP_VAR_BYTE(VAR_A, 2), "sp")
                  \o LoadVar(rd, VAR_A) \o ShiftShort(rd, rd, imm - 2 * B)

msb(rd, rs1) == getbyte(rd, rs1, 3) \o slli(rd, rd, 1) \o getbyte(rd, rd, 1)

-----------------------------------------------------------------------------
(* Arithmetic and logic.  *)

not(rd, rs1) ==
  PUSH("gp", 3) \o StoreVar(rs1, VAR_C) \o la("tp", _xor8_table + (Q - 1) * Q)
    \o EachByte(3, LAMBDA k : LoadByte("gp", VAR_C, k) \o add("gp", "gp", "tp")
                                \o lbu("gp", 0, "gp") \o StoreByte("gp", VAR_D, k))
    \o POP("gp", 3) \o LoadVar(rd, VAR_D)

sub(rd, rs1, rs2) == not("tp", rs2) \o add(rd, rs1, "tp") \o addi(rd, rd, 1)

\* mutant: the saved registers are restored last
slt_templatePopsLast(lut, rd, rs1, rs2) ==
  PUSH("s0", 1) \o PUSH("s1", 2)
    \o StoreVar(rs2, VAR_A) \o mv("s0", rs1) \o LoadVar("s1", VAR_A)
    \o msb("gp", "s0") \o slli("gp", "gp", 1)
    \o msb("tp", "s1") \o add("gp", "gp", "tp") \o slli("gp", "gp", 1)
    \o sub("tp", "s0", "s1") \o msb("tp", "tp") \o add("gp", "gp", "tp")
    \o la("tp", lut) \o add("tp", "tp", "gp") \o lbu(rd, 0, "tp")
    \o POP("s1", 2) \o POP("s0", 1)

\* gp becomes the three signs, of s0, of s1 and of their difference
slt_template(lut, rd, rs1, rs2) ==
  PUSH("s0", 1) \o PUSH("s1", 2)
    \o StoreVar(rs2, VAR_A) \o mv("s0", rs1) \o LoadVar("s1", VAR_A)
    \o msb("gp", "s0") \o slli("gp", "gp", 1)
    \o msb("tp", "s1") \o add("gp", "gp", "tp") \o slli("gp", "gp", 1)
    \o sub("tp", "s0", "s1") \o msb("tp", "tp") \o add("gp", "gp", "tp")
    \o la("tp", lut) \o add("tp", "tp", "gp")
    \o POP("s1", 2) \o POP("s0", 1) \o lbu(rd, 0, "tp")

slt(rd, rs1, rs2) == slt_template(_slt1_table, rd, rs1, rs2)
sltu(rd, rs1, rs2) == slt_template(_sltu1_table, rd, rs1, rs2)

logic8_byte_internal(lut_reg, k) ==
  LoadByte("tp", VAR_A, k) \o StoreByte("tp", VAR_D, 1)
    \o LoadByte("tp", VAR_B, k) \o StoreByte("tp", VAR_D, 0)
    \o LoadVar("tp", VAR_D) \o add("tp", lut_reg, "tp") \o lbu("tp", 0, "tp")
    \o StoreByte("tp", VAR_C, k)

\* the assembler stops at registers these macros cannot handle
LogicAborts(rd, rs1, rs2) ==
  \/ {rd, rs1, rs2} \cap {"sp", "gp"} # {} \/ "tp" \in {rd, rs1}

logic(lut, rd, rs1, rs2) ==
  IF rd = "x0" THEN <<>>
  ELSE StoreVar(rs1, VAR_A) \o StoreVar(rs2, VAR_B) \o la(rd, lut) \o StoreVar("x0", VAR_D)
         \o EachByte(3, LAMBDA k : logic8_byte_internal(rd, k)) \o LoadVar(rd, VAR_C)

and(rd, rs1, rs2) == logic(_and8_table, rd, rs1, rs2)
or(rd, rs1, rs2) == logic(_or8_table, rd, rs1, rs2)
xor(rd, rs1, rs2) == logic(_xor8_table, rd, rs1, rs2)

\* rd becomes 0 if byte k of the two variables is the same: the second store
\* clears the mark the first one made
check_8bit_same(table, rd, k) ==
  LoadByte(rd, VAR_A, k) \o add("tp", table, rd) \o addi(rd, "x0", 1) \o sb(rd, 0, "tp")
    \o LoadByte(rd, VAR_B, k) \o add(rd, table, rd) \o sb("x0", 0, rd) \o lbu(rd, 0, "tp")

seq(rd, rs1, rs2) ==
  StoreVar(rs1, VAR_A) \o StoreVar(rs2, VAR_B) \o PUSH("s0", 1) \o PUSH("s1", 2)
    \o la("s0", _check_same_array) \o check_8bit_same("s0", "gp", 0)
    \o FlattenSeq([k \in 1..3 |-> check_8bit_same("s0", "s1", k) \o add("gp", "gp", "s1")])
    \o la("tp", _same_result_table) \o add("tp", "tp", "gp") \o lbu(rd, 0, "tp")
    \o POP("s1", 2) \o POP("s0", 1)

check_8bit_0(table, rd, k) == LoadByte(rd, VAR_A, k) \o add(rd, table, rd) \o lbu(rd, 0, rd)

seqz(rd, rs1) ==
  StoreVar(rs1, VAR_A) \o PUSH("s0", 1)
    \o la("s0", _check_8bit_0_table) \o check_8bit_0("s0", "gp", 0)
    \o FlattenSeq([k \in 1..3 |-> check_8bit_0("s0", "tp", k) \o add("gp", "gp", "tp")])
    \o la("tp", _same_result_table) \o add("tp", "tp", "gp") \o lbu(rd, 0, "tp")
    \o POP("s0", 1)

neg(rd, rs) == sub(rd, "x0", rs)
snez(rd, rs) == sltu(rd, "x0", rs)
sltz(rd, rs) == msb(rd, rs)
sgt(rd, rs1, rs2) == slt(rd, rs2, rs1)
sgtu(rd, rs1, rs2) == sltu(rd, rs2, rs1)
sgtz(rd, rs) == slt(rd, "x0", rs)

\* def_itype: the immediate goes through tp
slti(rd, rs1, imm) == li("tp", imm) \o slt(rd, rs1, "tp")
sltiu(rd, rs1, imm) == li("tp", imm) \o sltu(rd, rs1, "tp")
andi(rd, rs1, imm) == li("tp", imm) \o and(rd, rs1, "tp")
ori(rd, rs1, imm) == li("tp", imm) \o or(rd, rs1, "tp")
xori(rd, rs1, imm) == li("tp", imm) \o xor(rd, rs1, "tp")

-----------------------------------------------------------------------------
(* Shifts.  The tables have a row for each amount and a word for each byte.  *)

\* rs1 modulo the bits of a word: a row of the table of &
getshamt(rd, rs1) ==
  StoreByte(rs1, VAR_B, 0) \o LoadByte(rd, VAR_B, 0)
    \o la("tp", _and8_table + (XL - 1) * Q) \o add(rd, rd, "tp") \o lbu(rd, 0, rd)

\* s0 := the row of table that rs2 selects
Row(table, rs2) ==
  getshamt("s0", rs2) \o StoreVar("x0", VAR_B) \o StoreByte("s0", VAR_B, 1)
    \o LoadVar("s0", VAR_B) \o slli("s0", "s0", 2) \o la("tp", table)
    \o add("s0", "s0", "tp")

get_shift_byte_in_tp(base, k) ==
  LoadByte("tp", VAR_A, k) \o slli("tp", "tp", 2) \o add("tp", base, "tp")
    \o lw("tp", 0, "tp")

sll(rd, rs1, rs2) ==
  PUSH("s0", 1) \o StoreVar(rs1, VAR_A) \o Row(_sll8_table, rs2)
    \o StoreVar("x0", VAR_B)
    \o get_shift_byte_in_tp("s0", 3) \o StoreByte("tp", VAR_B, 3) \o LoadVar("gp", VAR_B)
    \o get_shift_byte_in_tp("s0", 2) \o sh("tp", SP_VAR_BYTE(VAR_B, 2), "sp")
    \o LoadVar("tp", VAR_B) \o add("gp", "gp", "tp")
    \o get_shift_byte_in_tp("s0", 1) \o slli("tp", "tp", B) \o add("gp", "gp", "tp")
    \o get_shift_byte_in_tp("s0", 0) \o POP("s0", 1) \o add(rd, "gp", "tp")

\* the sum of the bytes that the shifted bytes 2, 1 and 0 leave in byte 2, 1 and 0
LowBytes ==
  get_shift_byte_in_tp("s0", 2) \o StoreVar("tp", VAR_B)
    \o get_shift_byte_in_tp("s0", 1) \o StoreVar("tp", VAR_C)
    \o get_shift_byte_in_tp("s0", 0) \o StoreVar("tp", VAR_D)
    \o LoadByte("gp", VAR_B, 1) \o LoadByte("tp", VAR_C, 2) \o add("gp", "gp", "tp")
    \o LoadByte("tp", VAR_D, 3) \o add("gp", "gp", "tp") \o StoreVar("gp", VAR_D)
    \o LoadByte("gp", VAR_B, 2) \o LoadByte("tp", VAR_C, 3) \o add("gp", "gp", "tp")
    \o StoreByte("gp", VAR_D, 1)
    \o LoadByte("gp", VAR_B, 3) \o StoreByte("gp", VAR_D, 2) \o LoadVar("gp", VAR_D)

\* row loads s0 with the row of _srl8_table
shift_right_template(rd, rs1, row, is_arith) ==
  PUSH("s0", 1) \o StoreVar(rs1, VAR_A) \o row \o LowBytes
    \o (IF is_arith THEN la("tp", _sra8_table - _srl8_table) \o add("s0", "s0", "tp")
                    ELSE <<>>)
    \o get_shift_byte_in_tp("s0", 3) \o POP("s0", 1) \o add(rd, "gp", "tp")

srl(rd, rs1, rs2) == shift_right_template(rd, rs1, Row(_srl8_table, rs2), FALSE)
sra(rd, rs1, rs2) == shift_right_template(rd, rs1, Row(_srl8_table, rs2), TRUE)

ImmRow(table, imm) == table + imm * Q * 4

srli(rd, rs1, imm) ==
  IF imm = 3 * B THEN getbyte(rd, rs1, 3)
  ELSE shift_right_template(rd, rs1, la("s0", ImmRow(_srl8_table, imm)), FALSE)

srai(rd, rs1, imm) ==
  IF imm = 3 * B
  THEN StoreVar(rs1, VAR_A) \o la("tp", ImmRow(_sra8_table, imm))
         \o LoadByte(rd, VAR_A, 3) \o slli(rd, rd, 2) \o add("tp", "tp", rd)
         \o lw(rd, 0, "tp")
  ELSE shift_right_template(rd, rs1, la("s0", ImmRow(_srl8_table, imm)), TRUE)

-----------------------------------------------------------------------------
(* Loads of bytes and halfwords.  *)

lb(rd, off, base) ==
  StoreVar("x0", VAR_A) \o lbu(rd, off, base) \o StoreByte(rd, VAR_A, 3)
    \o LoadVar(rd, VAR_A) \o srai(rd, rd, 3 * B)

lhu(rd, off, base) ==
  StoreVar("x0", VAR_A) \o lbu("tp", off + 1, base) \o StoreByte("tp", VAR_A, 1)
    \o LoadVar("tp", VAR_A) \o lbu(rd, off, base) \o add(rd, rd, "tp")

lh(rd, off, base) ==
  StoreVar("x0", VAR_A) \o lbu("gp", off + 1, base) \o StoreByte("gp", VAR_A, 3)
    \o LoadVar("gp", VAR_A) \o srai("gp", "gp", 2 * B)
    \o lbu(rd, off, base) \o add(rd, rd, "gp")

-----------------------------------------------------------------------------
(* Jumps and branches.  *)

call_template(r, addr) == la(r, addr) \o jalr(r, r)
j(addr) == call_template("tp", addr)
jal(rd, addr) == IF rd = "x0" THEN j(addr) ELSE call_template(rd, addr)
call(addr) == call_template("ra", addr)
tail(addr) == la("tp", addr) \o jr("tp") \o call_template("ra", addr)

\* the address behind the branch
NotTaken == 2

\* jumps through the slot that tp, which is 0 or 1, selects
branch_resolve(target, is_tp_high_sel_target) ==
  slli("tp", "tp", 2) \o add("tp", "sp", "tp")
    \o la("gp", IF is_tp_high_sel_target THEN target ELSE NotTaken) \o StoreVar("gp", VAR_A)
    \o la("gp", IF is_tp_high_sel_target THEN NotTaken ELSE target) \o StoreVar("gp", VAR_B)
    \o lw("tp", -VAR_B * 4, "tp") \o jr("tp")

Equal(rs1, rs2) ==
  IF rs2 = "x0" THEN seqz("tp", rs1)
  ELSE IF rs1 = "x0" THEN seqz("tp", rs2) ELSE seq("tp", rs1, rs2)

\* tp := rs2 <= 0
NotPositive(rs2) ==
  msb("gp", rs2) \o addi("tp", rs2, -1) \o msb("tp", "tp") \o add("gp", "gp", "tp")
    \o la("tp", _or1_table) \o add("tp", "gp", "tp") \o lbu("tp", 0, "tp")

beq(rs1, rs2, target) == Equal(rs1, rs2) \o branch_resolve(target, TRUE)
bne(rs1, rs2, target) == Equal(rs1, rs2) \o branch_resolve(target, FALSE)

blt(rs1, rs2, target) ==
  CASE rs2 = "x0" -> msb("tp", rs1) \o branch_resolve(target, TRUE)
    [] rs2 # "x0" /\ rs1 = "x0" -> NotPositive(rs2) \o branch_resolve(target, FALSE)
    [] rs2 # "x0" /\ rs1 # "x0" -> slt("tp", rs1, rs2) \o branch_resolve(target, TRUE)

bge(rs1, rs2, target) ==
  IF rs1 = "x0" THEN NotPositive(rs2) \o branch_resolve(target, TRUE)
  ELSE slt("tp", rs1, rs2) \o branch_resolve(target, FALSE)

bltu(rs1, rs2, target) == sltu("tp", rs1, rs2) \o branch_resolve(target, TRUE)
bgeu(rs1, rs2, target) == sltu("tp", rs1, rs2) \o branch_resolve(target, FALSE)

bgt(rs, rt, target) == blt(rt, rs, target)
ble(rs, rt, target) == bge(rt, rs, target)
bgtu(rs, rt, target) == bltu(rt, rs, target)
bleu(rs, rt, target) == bgeu(rt, rs, target)
=============================================================================
