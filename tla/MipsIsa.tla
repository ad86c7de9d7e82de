------------------------------- MODULE MipsIsa -------------------------------
(***************************************************************************)
(* The machine a compiler writes for: every instruction is executed once,  *)
(* a load takes effect at once, and there are neither page faults nor      *)
(* interrupts.  Branches keep their delay slot.                            *)
(***************************************************************************)
EXTENDS MipsInstructions

CONSTANT Program    \* what may be at an address

VARIABLES text, r, hi, lo, mem, pc, next, status

vars == <<text, r, hi, lo, mem, pc, next, status>>

Init ==
    /\ text = <<>>
    /\ r \in [Register -> Word] /\ r[0] = 0
    /\ hi = 0 /\ lo = 0
    /\ mem \in [Word -> 0..(2^ByteBits - 1)]
    /\ pc = 0 /\ next = 4
    /\ status = "running"

\* An instruction is chosen when it is first fetched, and stays.
Fetch ==
    /\ status = "running" /\ pc % 4 = 0
    /\ DOMAIN text' = DOMAIN text \cup {pc}
    /\ \A x \in DOMAIN text : text'[x] = text[x]
    /\ text'[pc] \in Program

Fetched == Decode(text'[pc])
Trapped == Trap(Fetched, r[Fetched.rs], r[Fetched.rt])

Step ==
    LET s == Execute(Fetched, r, r, hi, lo, mem, next) IN
    /\ Fetch
    /\ Trapped = "none"
    /\ r' = [s.r EXCEPT ![s.load] = IF s.load = 0 THEN @ ELSE s.value, ![0] = 0]
    /\ hi' = s.hi /\ lo' = s.lo /\ mem' = s.mem
    /\ pc' = next /\ next' = s.after
    /\ UNCHANGED status

\* A system call leaves its result in register 2.
Syscall ==
    /\ Fetch
    /\ Trapped = "syscall"
    /\ \E rv \in Word : r' = [r EXCEPT ![2] = rv]
    /\ pc' = next /\ next' = ToWord(next + 4)
    /\ UNCHANGED <<hi, lo, mem, status>>

Stop ==
    /\ Fetch
    /\ Trapped \notin {"none", "syscall"}
    /\ status' = "stopped"
    /\ UNCHANGED <<r, hi, lo, mem, pc, next>>

Misfetch ==
    /\ status = "running"
    /\ pc % 4 # 0
    /\ status' = "stopped"
    /\ UNCHANGED <<text, r, hi, lo, mem, pc, next>>

Next == Step \/ Syscall \/ Stop \/ Misfetch

Spec == Init /\ [][Next]_vars
=============================================================================
