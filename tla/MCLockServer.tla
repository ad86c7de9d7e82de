---------------------------- MODULE MCLockServer ----------------------------
(***************************************************************************)
(* LockServer for TLC: the client threads a, b and d, and where they run.  *)
(***************************************************************************)
EXTENDS LockServer, TLC

CONSTANTS a, b, d, m1, m2, m3

\* Every client is on a machine of its own.
Apart == [c \in Client |-> IF c = a THEN m1 ELSE IF c = b THEN m2 ELSE m3]

\* All clients are processes that Exec started on one machine.
Together == [c \in Client |-> m1]

\* A client that is on its own machine may be exchanged together with it.
ClientSymmetry ==
    {p @@ [m \in {Apart[c] : c \in Client} |->
              Apart[p[CHOOSE c \in Client : Apart[c] = m]]] : p \in Permutations(Client)}
=============================================================================
