---------------------------- MODULE MCPostOffice ----------------------------
(***************************************************************************)
(* PostOffice for TLC: two machines, two threads on one of them and one    *)
(* on the other, and three letters, two of them for one box.               *)
(***************************************************************************)
EXTENDS PostOffice, TLC

CONSTANTS m1, m2, t1, t2, t3, b1

MCMachineOf == (t1 :> m1) @@ (t2 :> m1) @@ (t3 :> m2)
MCLetter == {[to |-> m1, box |-> b1, no |-> 1], [to |-> m1, box |-> b1, no |-> 2],
             [to |-> m2, box |-> b1, no |-> 3]}
=============================================================================
