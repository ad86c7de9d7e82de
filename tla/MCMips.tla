------------------------------- MODULE MCMips -------------------------------
(***************************************************************************)
(* Mips for TLC: words of four one-bit bytes and four registers.  Every    *)
(* operation occurs with two choices of registers, so that it does and     *)
(* does not touch what the other one loaded.                               *)
(***************************************************************************)
EXTENDS Mips

Instructions ==
    {[op |-> o, rs |-> 1, rt |-> 2, rd |-> 1, extra |-> 1] : o \in OpCode}
      \cup {[op |-> o, rs |-> 3, rt |-> 1, rd |-> 2, extra |-> 3] :
              o \in Loads \cup Stores \cup {"ADDU", "OR", "ORI", "BEQ", "JALR", "DIV", "SYSCALL"}}
      \cup {[op |-> o, rs |-> 0, rt |-> 2, rd |-> 2, extra |-> 0] : o \in Loads \cup Stores}

Registers ==
    {[x \in Register |-> <<0, 7, 2, 1>>[x + 1]], [x \in Register |-> <<0, 11, 15, 13>>[x + 1]],
     [x \in Register |-> <<0, 8, 15, 9>>[x + 1]]}
Memory == {[x \in Word |-> IF x \in {0, 3, 5, 12, 14} THEN 1 ELSE 0]}
=============================================================================
