-------------------------- MODULE MipsInstructions --------------------------
(***************************************************************************)
(* What the instructions of the simulated MIPS compute                     *)
(* (machine/mipssim.cc, OneInstruction, Decode and Mult), as functions of  *)
(* the registers.  Words have four bytes of ByteBits bits and are kept as  *)
(* unsigned numbers; the code has ByteBits = 8.                            *)
(***************************************************************************)
EXTENDS Integers, Sequences, Bitwise

CONSTANTS
    ByteBits,
    Link            \* R31, the last general register

Bits == 4 * ByteBits
Half == 2 * ByteBits
Word == 0..(2^Bits - 1)
SIGN_BIT == 2^(Bits - 1)
Register == 0..Link

ASSUME MipsAssumption == ByteBits \in Nat \ {0} /\ Link \in Nat \ 0..2

ToWord(n) == n % 2^Bits
Negative(x) == x >= SIGN_BIT
Signed(x) == IF Negative(x) THEN x - 2^Bits ELSE x
SignExtend(x, n) == LET y == x % 2^n IN IF y >= 2^(n - 1) THEN ToWord(y - 2^n) ELSE y
Complement(x) == 2^Bits - 1 - x
Sll(x, n) == ToWord(x * 2^n)
Sra(x, n) == ToWord(Signed(x) \div 2^n)
IndexToAddr(x) == ToWord(4 * x)

-----------------------------------------------------------------------------
(***************************************************************************)
(* Mult: shift and add, a bit of `a' at a time, on the absolute values;    *)
(* the sign of the result is put back at the end.                          *)
(***************************************************************************)
MultStep(s) ==
    LET odd == s.a % 2 = 1
        lo == IF odd THEN ToWord(s.lo + s.bLo) ELSE s.lo
        carry == IF odd /\ lo < s.bLo THEN 1 ELSE 0
        hi == IF odd THEN ToWord(s.hi + carry + s.bHi) ELSE s.hi
    IN  IF s.done \/ (odd /\ s.a \div 2 = 0)
        THEN IF s.done THEN s ELSE [s EXCEPT !.lo = lo, !.hi = hi, !.done = TRUE]
        ELSE [s EXCEPT !.lo = lo, !.hi = hi, !.a = Sra(@, 1), !.bLo = Sll(@, 1),
                       !.bHi = Sll(@, 1) + (IF Negative(s.bLo) THEN 1 ELSE 0)]

Mult(a, b, signedArith) ==
    LET Abs(x) == IF signedArith /\ Negative(x) THEN ToWord(-x) ELSE x
        start == [a |-> Abs(a), bLo |-> Abs(b), bHi |-> 0, lo |-> 0, hi |-> 0, done |-> FALSE]
        loop[i \in 0..Bits] == IF i = 0 THEN start ELSE MultStep(loop[i - 1])
        s == loop[Bits]
        lo == ToWord(Complement(s.lo) + 1)
    IN  IF a = 0 \/ b = 0
        THEN [hi |-> 0, lo |-> 0]
        ELSE IF signedArith /\ Negative(a) # Negative(b)
        THEN [hi |-> ToWord(Complement(s.hi) + (IF lo = 0 THEN 1 ELSE 0)), lo |-> lo]
        ELSE [hi |-> s.hi, lo |-> s.lo]

\* Mutant: a division that rounds down.
QuotientFloor(a, b) == IF b < 0 THEN (-a) \div (-b) ELSE a \div b

\* OP_DIV: C's division, which truncates; OP_DIVU.
Quotient(a, b) ==
    LET x == IF a < 0 THEN -a ELSE a
        y == IF b < 0 THEN -b ELSE b
    IN  IF (a < 0) = (b < 0) THEN x \div y ELSE -(x \div y)

Div(a, b) == IF b = 0 THEN [hi |-> 0, lo |-> 0]
             ELSE [lo |-> ToWord(Quotient(a, b)), hi |-> ToWord(a - b * Quotient(a, b))]

-----------------------------------------------------------------------------
(***************************************************************************)
(* Instructions.  Decode extends the immediate of the I format.            *)
(***************************************************************************)
Loads == {"LB", "LBU", "LH", "LHU", "LW", "LWL", "LWR"}
Stores == {"SB", "SH", "SW", "SWL", "SWR"}
Immediate == {"ADDI", "ADDIU", "ANDI", "ORI", "XORI", "SLTI", "SLTIU", "LUI"}
Branches == {"BEQ", "BNE", "BGEZ", "BGEZAL", "BLTZ", "BLTZAL", "BGTZ", "BLEZ"}
Jumps == {"J", "JAL", "JR", "JALR"}
HiLo == {"MULT", "MULTU", "DIV", "DIVU", "MTHI", "MTLO"}
ThreeRegisters == {"ADD", "ADDU", "SUB", "SUBU", "AND", "OR", "XOR", "NOR", "SLT", "SLTU",
                   "SLL", "SLLV", "SRA", "SRAV", "SRL", "SRLV", "MFHI", "MFLO"}
Traps == {"SYSCALL", "RES", "UNIMP"}
OpCode == Loads \cup Stores \cup Immediate \cup Branches \cup Jumps \cup HiLo
            \cup ThreeRegisters \cup Traps

Decode(i) == IF i.op \in Loads \cup Stores \cup Immediate \cup Branches
             THEN [i EXCEPT !.extra = SignExtend(@, Half)]
             ELSE i

SameSign(x, y) == Negative(x) = Negative(y)
Bool(b) == IF b THEN 1 ELSE 0

\* SRL and SRLV shift an int, and OR reads rs twice: so does the code.
Three(op, a, b, extra, hi, lo) ==
    LET n == IF op \in {"SLLV", "SRAV", "SRLV"} THEN a % Bits ELSE extra % Bits IN
    CASE op \in {"ADD", "ADDU"} -> ToWord(a + b)
      [] op \in {"SUB", "SUBU"} -> ToWord(a - b)
      [] op = "AND" -> a & b
      [] op = "OR" -> a | a
      [] op = "XOR" -> a ^^ b
      [] op = "NOR" -> Complement(a | b)
      [] op = "SLT" -> Bool(Signed(a) < Signed(b))
      [] op = "SLTU" -> Bool(a < b)
      [] op \in {"SLL", "SLLV"} -> Sll(b, n)
      [] op \in {"SRA", "SRAV", "SRL", "SRLV"} -> Sra(b, n)
      [] op = "MFHI" -> hi
      [] op = "MFLO" -> lo

Immed(op, a, extra) ==
    LET half == extra % 2^Half IN
    CASE op \in {"ADDI", "ADDIU"} -> ToWord(a + extra)
      [] op = "ANDI" -> a & half
      [] op = "ORI" -> a | half
      [] op = "XORI" -> a ^^ half
      [] op = "SLTI" -> Bool(Signed(a) < Signed(extra))
      [] op = "SLTIU" -> Bool(a < extra)
      [] op = "LUI" -> Sll(extra, Half)

\* Mutant: operands of different signs are taken to overflow.
OverflowsMixed(op, a, b, extra) ==
    CASE op = "ADD" -> ~SameSign(a, b) /\ ~SameSign(a, ToWord(a + b))
      [] op = "ADDI" -> SameSign(a, extra) /\ ~SameSign(extra, ToWord(a + extra))
      [] op = "SUB" -> ~SameSign(a, b) /\ ~SameSign(a, ToWord(a - b))
      [] OTHER -> FALSE

Overflows(op, a, b, extra) ==
    CASE op = "ADD" -> SameSign(a, b) /\ ~SameSign(a, ToWord(a + b))
      [] op = "ADDI" -> SameSign(a, extra) /\ ~SameSign(extra, ToWord(a + extra))
      [] op = "SUB" -> ~SameSign(a, b) /\ ~SameSign(a, ToWord(a - b))
      [] OTHER -> FALSE

Taken(op, a, b) ==
    CASE op = "BEQ" -> a = b
      [] op = "BNE" -> a # b
      [] op \in {"BGEZ", "BGEZAL"} -> ~Negative(a)
      [] op \in {"BLTZ", "BLTZAL"} -> Negative(a)
      [] op = "BGTZ" -> Signed(a) > 0
      [] op = "BLEZ" -> Signed(a) <= 0

ToHiLo(op, a, b, hi, lo) ==
    CASE op = "MULT" -> Mult(a, b, TRUE)
      [] op = "MULTU" -> Mult(a, b, FALSE)
      [] op = "DIV" -> Div(Signed(a), Signed(b))
      [] op = "DIVU" -> Div(a, b)
      [] op = "MTHI" -> [hi |-> a, lo |-> lo]
      [] op = "MTLO" -> [hi |-> hi, lo |-> a]

-----------------------------------------------------------------------------
(***************************************************************************)
(* Memory: ReadMem and WriteMem of 1, 2 or 4 bytes, little endian.         *)
(***************************************************************************)
Size(op) == CASE op \in {"LB", "LBU", "SB"} -> 1
              [] op \in {"LH", "LHU", "SH"} -> 2
              [] OTHER -> 4

Misaligned(op, addr) == addr % Size(op) # 0

ReadMem(mem, addr, size) ==
    LET sum[n \in 0..size] == IF n = 0 THEN 0
                              ELSE sum[n - 1] + mem[addr + n - 1] * 2^(ByteBits * (n - 1))
    IN  sum[size]

WriteMem(mem, addr, size, value) ==
    [x \in DOMAIN mem |-> IF x \in addr..(addr + size - 1)
                          THEN (value \div 2^(ByteBits * (x - addr))) % 2^ByteBits
                          ELSE mem[x]]

\* What a load leaves in rt; `old' is the value LWR merges with.
Loaded(op, value, old) ==
    CASE op = "LB" -> SignExtend(value, ByteBits)
      [] op = "LH" -> SignExtend(value, Half)
      [] op = "LWR" -> 2^ByteBits * (old \div 2^ByteBits) + value \div 2^(3 * ByteBits)
      [] OTHER -> value

Stored(op, value, x) ==
    IF op = "SWR"
    THEN (value % 2^(3 * ByteBits)) + ToWord(x * 2^(3 * ByteBits))
    ELSE x

-----------------------------------------------------------------------------
(***************************************************************************)
(* Execute: the state after instruction i, which is at the program counter *)
(* before `next', but for the load that it starts (load, value).  `view'   *)
(* has the registers LWL and LWR merge with.  A trap leaves all else       *)
(* unused.  "abort" is the end of the simulator: an assertion of LWL, LWR, *)
(* SWL and SWR, or the host's division trap.                               *)
(***************************************************************************)
Trap(i, a, b) ==
    LET addr == ToWord(a + i.extra) IN
    CASE i.op = "SYSCALL" -> "syscall"
      [] i.op \in {"RES", "UNIMP"} -> "illegal"
      [] Overflows(i.op, a, b, i.extra) -> "overflow"
      [] i.op \in Loads \cup Stores /\ Misaligned(i.op, addr) ->
           IF i.op \in {"LWL", "LWR", "SWL", "SWR"} THEN "abort" ELSE "address"
      [] i.op = "DIV" /\ a = SIGN_BIT /\ b = 2^Bits - 1 -> "abort"
      [] OTHER -> "none"

\* A jump keeps the upper four bits of the address, which are 0 in Nachos.
Execute(i, r, view, hi, lo, mem, next) ==
    LET a == r[i.rs]
        b == r[i.rt]
        addr == ToWord(a + i.extra)
        s == [r |-> r, hi |-> hi, lo |-> lo, mem |-> mem, after |-> ToWord(next + 4),
              load |-> 0, value |-> 0]
        linked == [r EXCEPT ![IF i.op = "JALR" THEN i.rd ELSE Link] = ToWord(next + 4)]
        regs == IF i.op \in {"BGEZAL", "BLTZAL", "JAL", "JALR"} THEN linked ELSE r
    IN  CASE i.op \in ThreeRegisters ->
               [s EXCEPT !.r[i.rd] = Three(i.op, a, b, i.extra, hi, lo)]
          [] i.op \in Immediate -> [s EXCEPT !.r[i.rt] = Immed(i.op, a, i.extra)]
          [] i.op \in HiLo -> LET hl == ToHiLo(i.op, a, b, hi, lo)
                              IN  [s EXCEPT !.hi = hl.hi, !.lo = hl.lo]
          [] i.op \in Branches ->
               [s EXCEPT !.r = regs,
                         !.after = IF Taken(i.op, regs[i.rs], regs[i.rt])
                                   THEN ToWord(next + IndexToAddr(i.extra)) ELSE @]
          [] i.op \in {"J", "JAL"} -> [s EXCEPT !.r = regs, !.after = IndexToAddr(i.extra)]
          [] i.op \in {"JR", "JALR"} -> [s EXCEPT !.r = regs, !.after = regs[i.rs]]
          [] i.op \in Loads ->
               [s EXCEPT !.load = i.rt,
                         !.value = Loaded(i.op, ReadMem(mem, addr, Size(i.op)), view[i.rt])]
          [] i.op \in Stores ->
               [s EXCEPT !.mem = WriteMem(mem, addr, Size(i.op),
                                   Stored(i.op, ReadMem(mem, addr, Size(i.op)), b))]
          [] OTHER -> s

=============================================================================
