-------------------------------- MODULE Mips --------------------------------
(***************************************************************************)
(* The simulated processor (machine/mipssim.cc, machine.cc): instructions  *)
(* with delayed loads, page faults that start an instruction again,        *)
(* system calls, and the interrupts that come after an instruction.  The   *)
(* instructions of the program are chosen when they are first fetched.     *)
(*                                                                         *)
(* A load reaches its register after the next instruction, but an          *)
(* exception or an interrupt finishes it first.  Programs are those of the *)
(* cross compiler, which puts no instruction that uses the register after  *)
(* a load: `fresh' is the register that the instruction before loaded.     *)
(***************************************************************************)
EXTENDS MipsInstructions

CONSTANTS
    Program,        \* the instructions a program may have
    StartRegisters, StartMemory,
    SyscallValues,  \* what a system call may return
    MaxSteps        \* bound on the instructions executed

VARIABLES
    text,           \* address -> the instruction, once fetched
    r, hi, lo, mem, pc, next,
    load, value,    \* LoadReg and LoadValueReg
    status, fresh, steps

vars == <<text, r, hi, lo, mem, pc, next, load, value, status, fresh, steps>>

Init ==
    /\ text = <<>>
    /\ r \in StartRegisters /\ mem \in StartMemory
    /\ hi = 0 /\ lo = 0
    /\ pc = 0 /\ next = 4
    /\ load = 0 /\ value = 0
    /\ status = "running" /\ fresh = 0 /\ steps = 0

-----------------------------------------------------------------------------
\* The registers an instruction reads, and writes at once.
Reads(i) ==
    CASE i.op \in {"J", "JAL", "LUI", "MFHI", "MFLO", "RES", "UNIMP"} -> {}
      [] i.op = "SYSCALL" -> Register
      [] i.op \in Loads \cup Immediate \cup {"JR", "JALR"} -> {i.rs}
      [] i.op \in {"SLL", "SRA", "SRL"} -> {i.rt}
      [] OTHER -> {i.rs, i.rt}
Writes(i) ==
    CASE i.op \in ThreeRegisters \cup {"JALR"} -> {i.rd}
      [] i.op \in Immediate -> {i.rt}
      [] i.op \in {"JAL", "BGEZAL", "BLTZAL"} -> {Link}
      [] OTHER -> {}

\* The first lines of OneInstruction.
Fetch(i) ==
    /\ status = "running" /\ pc % 4 = 0 /\ steps < MaxSteps
    /\ IF pc \in DOMAIN text THEN text[pc] = i ELSE i \in Program
    /\ fresh \notin (Reads(i) \cup Writes(i)) \ {0}
    /\ text' = [x \in DOMAIN text \cup {pc} |-> IF x = pc THEN i ELSE text[x]]

\* Machine::DelayedLoad, on registers x.
DelayedLoad(x) == [x EXCEPT ![load] = value, ![0] = 0]

\* Mutant: LWR does not see the load in progress.
Unforwarded == r
\* The registers LWL and LWR merge with: a load in progress comes first.
Forwarded == [r EXCEPT ![load] = value]

\* OneInstruction, when nothing stops it.
OneInstruction ==
    \E i \in Program :
        LET d == Decode(i)
            s == Execute(d, r, Forwarded, hi, lo, mem, next)
        IN  /\ Fetch(i)
            /\ Trap(d, r[d.rs], r[d.rt]) = "none"
            /\ r' = DelayedLoad(s.r)
            /\ load' = s.load /\ value' = s.value
            /\ hi' = s.hi /\ lo' = s.lo /\ mem' = s.mem
            /\ pc' = next /\ next' = s.after
            /\ fresh' = s.load
            /\ steps' = steps + 1
            /\ UNCHANGED status

\* Machine::RaiseException and the interrupts: DelayedLoad(0, 0).
FinishLoad ==
    /\ r' = DelayedLoad(r)
    /\ load' = 0 /\ value' = 0

\* Mutant: the load in progress is dropped.
DropLoad ==
    /\ load' = 0 /\ value' = 0
    /\ UNCHANGED <<text, r, hi, lo, mem, pc, next, status, fresh, steps>>

\* A page fault, of the fetch or of a data access, or an interrupt.
FaultOrInterrupt ==
    /\ status = "running"
    /\ FinishLoad
    /\ UNCHANGED <<text, hi, lo, mem, pc, next, status, fresh, steps>>

\* OP_SYSCALL, and the end of ExceptionHandler.
Syscall ==
    \E i \in Program, rv \in SyscallValues :
        /\ Fetch(i)
        /\ i.op = "SYSCALL"
        /\ r' = [DelayedLoad(r) EXCEPT ![2] = rv]
        /\ load' = 0 /\ value' = 0
        /\ pc' = next /\ next' = ToWord(next + 4)
        /\ fresh' = 0
        /\ steps' = steps + 1
        /\ UNCHANGED <<hi, lo, mem, status>>

\* Every other exception halts the machine.
Unexpected ==
    \E i \in Program :
        LET d == Decode(i) IN
        /\ Fetch(i)
        /\ Trap(d, r[d.rs], r[d.rt]) \notin {"none", "syscall"}
        /\ FinishLoad
        /\ status' = "stopped"
        /\ steps' = steps + 1
        /\ UNCHANGED <<hi, lo, mem, pc, next, fresh>>

Misfetch ==
    /\ status = "running" /\ pc % 4 # 0
    /\ FinishLoad
    /\ status' = "stopped"
    /\ UNCHANGED <<text, hi, lo, mem, pc, next, fresh, steps>>

Next == OneInstruction \/ FaultOrInterrupt \/ Syscall \/ Unexpected \/ Misfetch

Spec == Init /\ [][Next]_vars

-----------------------------------------------------------------------------
(***************************************************************************)
(* Page faults and interrupts at any instruction, in the delay slot of a   *)
(* load or of a branch too, and system calls anywhere but in the delay     *)
(* slot of a load, are invisible: the program runs as on the machine       *)
(* without them, whose registers are these with the load in progress done. *)
(***************************************************************************)
I == INSTANCE MipsIsa WITH r <- DelayedLoad(r)

IsaImplemented == I!Spec

(***************************************************************************)
(* MULT and MULTU give the double-length product and DIV and DIVU quotient *)
(* and remainder of the words as signed and as unsigned numbers, for every *)
(* pair of words, and ADD, ADDI and SUB trap exactly when the result does  *)
(* not fit.  A signed quotient is truncated: the remainder has the sign of *)
(* the dividend.  (Stated of the states before the first instruction: it   *)
(* is about no state at all.)                                              *)
(***************************************************************************)
Product(p) == p.hi * 2^Bits + p.lo
Fits(n) == n \in -SIGN_BIT..(SIGN_BIT - 1)
Abs(n) == IF n < 0 THEN -n ELSE n
Divides(q, m, a, b) == q * b + m = a /\ Abs(m) < Abs(b) /\ (m = 0 \/ (m < 0 <=> a < 0))
Stops(op, a, b) == Trap([op |-> op, extra |-> 0], a, b) # "none"

ArithmeticRight ==
    text = <<>> =>
    \A a, b \in Word :
        /\ Product(ToHiLo("MULTU", a, b, hi, lo)) = a * b
        /\ Product(ToHiLo("MULT", a, b, hi, lo)) = (Signed(a) * Signed(b)) % 2^(2 * Bits)
        /\ Overflows("ADD", a, b, 0) <=> ~Fits(Signed(a) + Signed(b))
        /\ Overflows("ADDI", a, 0, b) <=> ~Fits(Signed(a) + Signed(b))
        /\ Overflows("SUB", a, b, 0) <=> ~Fits(Signed(a) - Signed(b))
        /\ b # 0 => LET d == ToHiLo("DIVU", a, b, hi, lo) IN Divides(d.lo, d.hi, a, b)
        /\ b # 0 /\ ~Stops("DIV", a, b) =>
              LET d == ToHiLo("DIV", a, b, hi, lo)
              IN  Divides(Signed(d.lo), Signed(d.hi), Signed(a), Signed(b))
=============================================================================
