-------------------------------- MODULE Mail --------------------------------
(***************************************************************************)
(* What the post office promises (network/post.h): mail that the network   *)
(* does not lose reaches its box once, and mail for a machine arrives in   *)
(* the order in which it was sent.                                         *)
(***************************************************************************)
EXTENDS Naturals, Sequences

CONSTANTS
    Machine,        \* the machines
    Box,            \* the mailboxes of a machine
    Thread,         \* the threads that send and receive
    Letter,         \* the mail that may be sent: records that say where it goes
    None            \* no mail

VARIABLES
    transit,        \* machine -> the mail on its way to it
    box,            \* machine -> box -> the mail in it
    got             \* thread -> the letter it received last

vars == <<transit, box, got>>

Init ==
    /\ transit = [m \in Machine |-> <<>>]
    /\ box = [m \in Machine |-> [b \in Box |-> <<>>]]
    /\ got = [t \in Thread |-> None]

Post(l) ==
    /\ transit' = [transit EXCEPT ![l.to] = Append(@, l)]
    /\ UNCHANGED <<box, got>>

Deliver(m) ==
    /\ transit[m] # <<>>
    /\ box' = [box EXCEPT ![m][Head(transit[m]).box] = Append(@, Head(transit[m]))]
    /\ transit' = [transit EXCEPT ![m] = Tail(@)]
    /\ UNCHANGED got

Take(t, m, b) ==
    /\ box[m][b] # <<>>
    /\ got' = [got EXCEPT ![t] = Head(box[m][b])]
    /\ box' = [box EXCEPT ![m][b] = Tail(@)]
    /\ UNCHANGED transit

Next ==
    \/ \E l \in Letter : Post(l)
    \/ \E m \in Machine : Deliver(m)
    \/ \E t \in Thread, m \in Machine, b \in Box : Take(t, m, b)

Spec == Init /\ [][Next]_vars
=============================================================================
