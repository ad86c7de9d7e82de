----------------------------- MODULE PostOffice -----------------------------
(***************************************************************************)
(* The post office and the network driver below it (network/post.cc,       *)
(* machine/network.cc, threads/synchlist.cc) on several machines.          *)
(*                                                                         *)
(* Threads of a machine send and receive; a postal worker moves arriving   *)
(* packets into mailboxes; the interrupts SendDone and CheckPktAvail may   *)
(* come between any two steps.  A thread that is not asleep may take its   *)
(* next step: which one the scheduler picks is left open (module Synch).   *)
(* A SynchList operation holds the list's lock from its first step to its  *)
(* end or its Wait and does not sleep in between, so it is one step.       *)
(*                                                                         *)
(* Sockets of the host keep packets in order.  The driver drops packets at *)
(* random, and the host may refuse one.                                    *)
(***************************************************************************)
EXTENDS Naturals, Sequences, FiniteSets

CONSTANTS
    Machine,        \* the machines
    Box,            \* the mailboxes of a machine
    Thread,         \* the threads that send and receive
    Letter,         \* the mail that may be sent, each once
    None,           \* no letter, no thread, no box
    MachineOf       \* thread -> its machine

ASSUME PostAssumption ==
    /\ \A l \in Letter : l.to \in Machine /\ l.box \in Box
    /\ None \notin Letter \cup Thread \cup Box
    /\ MachineOf \in [Thread -> Machine]

VARIABLES
    pc,             \* thread -> what it is doing
    mail,           \* thread -> the letter it is sending
    got,            \* thread -> the letter it received last
    at,             \* thread -> the box it receives from
    unsent,         \* the letters nobody has sent yet
    sendLock,       \* machine -> the thread that holds sendLock
    messageSent,    \* machine -> the semaphore's value
    pending,        \* machine -> scheduled SendDone interrupts
    wire,           \* machine -> packets in its socket
    inbox,          \* machine -> the packet the driver holds, or None
    messageAvailable, \* machine -> the semaphore's value
    hand,           \* machine -> the packet its postal worker holds, or None
    list            \* machine -> box -> the messages of its SynchList

sending == <<unsent, sendLock, messageSent, pending>>
arriving == <<inbox, messageAvailable, hand>>
vars == <<pc, mail, got, at, unsent, sendLock, messageSent, pending, wire, inbox,
          messageAvailable, hand, list>>

Init ==
    /\ pc = [t \in Thread |-> "idle"]
    /\ mail = [t \in Thread |-> None]
    /\ got = [t \in Thread |-> None]
    /\ at = [t \in Thread |-> None]
    /\ unsent = Letter
    /\ sendLock = [m \in Machine |-> None]
    /\ messageSent = [m \in Machine |-> 0]
    /\ pending = [m \in Machine |-> 0]
    /\ wire = [m \in Machine |-> <<>>]
    /\ inbox = [m \in Machine |-> None]
    /\ messageAvailable = [m \in Machine |-> 0]
    /\ hand = [m \in Machine |-> None]
    /\ list = [m \in Machine |-> [b \in Box |-> <<>>]]

-----------------------------------------------------------------------------
(***************************************************************************)
(* PostOffice::Send: take sendLock, hand the packet to the driver, wait    *)
(* for its interrupt, release the lock.                                    *)
(***************************************************************************)
Send(t, l) ==
    /\ pc[t] = "idle"
    /\ l \in unsent
    /\ unsent' = unsent \ {l}
    /\ mail' = [mail EXCEPT ![t] = l]
    /\ pc' = [pc EXCEPT ![t] = "acquire"]
    /\ UNCHANGED <<got, at, sendLock, messageSent, pending, wire, arriving, list>>

\* Mutant: the lock is not waited for.
AcquireAtOnce(t) ==
    /\ pc[t] = "acquire"
    /\ sendLock' = [sendLock EXCEPT ![MachineOf[t]] = t]
    /\ pc' = [pc EXCEPT ![t] = "driver"]
    /\ UNCHANGED <<mail, got, at, unsent, messageSent, pending, wire, arriving, list>>

AcquireSendLock(t) ==
    /\ pc[t] = "acquire"
    /\ sendLock[MachineOf[t]] = None
    /\ sendLock' = [sendLock EXCEPT ![MachineOf[t]] = t]
    /\ pc' = [pc EXCEPT ![t] = "driver"]
    /\ UNCHANGED <<mail, got, at, unsent, messageSent, pending, wire, arriving, list>>

(***************************************************************************)
(* Network::Send schedules SendDone whatever happens to the packet.        *)
(* sendBusy is left out: the driver tests it and never sets it.            *)
(***************************************************************************)
NetworkSend(t) ==
    /\ pc[t] = "driver"
    /\ pending' = [pending EXCEPT ![MachineOf[t]] = @ + 1]
    /\ \/ wire' = [wire EXCEPT ![mail[t].to] = Append(@, mail[t])]
       \/ UNCHANGED wire
    /\ pc' = [pc EXCEPT ![t] = "sent"]
    /\ UNCHANGED <<mail, got, at, unsent, sendLock, messageSent, arriving, list>>

\* Mutant: sendLock is not released.
EndSendKeepsLock(t) ==
    LET m == MachineOf[t] IN
    /\ pc[t] = "sent"
    /\ messageSent[m] > 0
    /\ messageSent' = [messageSent EXCEPT ![m] = @ - 1]
    /\ pc' = [pc EXCEPT ![t] = "idle"]
    /\ mail' = [mail EXCEPT ![t] = None]
    /\ UNCHANGED <<got, at, unsent, sendLock, pending, wire, arriving, list>>

EndSend(t) ==
    LET m == MachineOf[t] IN
    /\ pc[t] = "sent"
    /\ messageSent[m] > 0
    /\ messageSent' = [messageSent EXCEPT ![m] = @ - 1]
    /\ sendLock' = [sendLock EXCEPT ![m] = None]
    /\ pc' = [pc EXCEPT ![t] = "idle"]
    /\ mail' = [mail EXCEPT ![t] = None]
    /\ UNCHANGED <<got, at, unsent, pending, wire, arriving, list>>

\* The interrupt: Network::SendDone and PostOffice::PacketSent.
SendDone(m) ==
    /\ pending[m] > 0
    /\ pending' = [pending EXCEPT ![m] = @ - 1]
    /\ messageSent' = [messageSent EXCEPT ![m] = @ + 1]
    /\ UNCHANGED <<pc, mail, got, at, unsent, sendLock, wire, arriving, list>>

-----------------------------------------------------------------------------
(***************************************************************************)
(* The polling interrupt: Network::CheckPktAvail and, for a packet,        *)
(* PostOffice::IncomingPacket.  A packet waits in the socket while the     *)
(* driver holds one.                                                       *)
(***************************************************************************)
\* Mutant: a packet that is held is overwritten.
CheckPktAlways(m) ==
    /\ wire[m] # <<>>
    /\ inbox' = [inbox EXCEPT ![m] = Head(wire[m])]
    /\ wire' = [wire EXCEPT ![m] = Tail(@)]
    /\ messageAvailable' = [messageAvailable EXCEPT ![m] = @ + 1]
    /\ UNCHANGED <<pc, mail, got, at, sending, hand, list>>

CheckPktAvail(m) ==
    /\ inbox[m] = None
    /\ wire[m] # <<>>
    /\ inbox' = [inbox EXCEPT ![m] = Head(wire[m])]
    /\ wire' = [wire EXCEPT ![m] = Tail(@)]
    /\ messageAvailable' = [messageAvailable EXCEPT ![m] = @ + 1]
    /\ UNCHANGED <<pc, mail, got, at, sending, hand, list>>

\* The postal worker: P, Network::Receive ...
WorkerReceive(m) ==
    /\ hand[m] = None
    /\ messageAvailable[m] > 0
    /\ messageAvailable' = [messageAvailable EXCEPT ![m] = @ - 1]
    /\ hand' = [hand EXCEPT ![m] = inbox[m]]
    /\ inbox' = [inbox EXCEPT ![m] = None]
    /\ UNCHANGED <<pc, mail, got, at, sending, wire, list>>

Asleep(m, b) == {t \in Thread : MachineOf[t] = m /\ at[t] = b /\ pc[t] = "asleep"}
Woken(m, b) == {t \in Thread : MachineOf[t] = m /\ at[t] = b /\ pc[t] = "get"}

\* Mutant: only the first message of an empty box wakes a thread.
PutWakesFirst(m) ==
    LET b == hand[m].box IN
    /\ hand[m] # None
    /\ list' = [list EXCEPT ![m][b] = Append(@, hand[m])]
    /\ hand' = [hand EXCEPT ![m] = None]
    /\ IF Asleep(m, b) = {} \/ list[m][b] # <<>>
       THEN UNCHANGED pc
       ELSE \E t \in Asleep(m, b) : pc' = [pc EXCEPT ![t] = "get"]
    /\ UNCHANGED <<mail, got, at, sending, wire, inbox, messageAvailable>>

\* ... and MailBox::Put, which is SynchList::Append.
WorkerPut(m) ==
    LET b == hand[m].box IN
    /\ hand[m] # None
    /\ list' = [list EXCEPT ![m][b] = Append(@, hand[m])]
    /\ hand' = [hand EXCEPT ![m] = None]
    /\ IF Asleep(m, b) = {}
       THEN UNCHANGED pc
       ELSE \E t \in Asleep(m, b) : pc' = [pc EXCEPT ![t] = "get"]
    /\ UNCHANGED <<mail, got, at, sending, wire, inbox, messageAvailable>>

-----------------------------------------------------------------------------
(***************************************************************************)
(* PostOffice::Receive, which is MailBox::Get and SynchList::Remove: the   *)
(* list is tested, again after every Wait, and its head removed.           *)
(***************************************************************************)
Receive(t, b) ==
    /\ pc[t] = "idle"
    /\ at' = [at EXCEPT ![t] = b]
    /\ pc' = [pc EXCEPT ![t] = "get"]
    /\ UNCHANGED <<mail, got, sending, wire, arriving, list>>

GetWaits(t) ==
    /\ pc[t] = "get"
    /\ list[MachineOf[t]][at[t]] = <<>>
    /\ pc' = [pc EXCEPT ![t] = "asleep"]
    /\ UNCHANGED <<mail, got, at, sending, wire, arriving, list>>

Get(t) ==
    LET m == MachineOf[t] IN
    /\ pc[t] = "get"
    /\ list[m][at[t]] # <<>>
    /\ got' = [got EXCEPT ![t] = Head(list[m][at[t]])]
    /\ list' = [list EXCEPT ![m][at[t]] = Tail(@)]
    /\ pc' = [pc EXCEPT ![t] = "idle"]
    /\ at' = [at EXCEPT ![t] = None]
    /\ UNCHANGED <<mail, sending, wire, arriving>>

-----------------------------------------------------------------------------
Worker(m) == WorkerReceive(m) \/ WorkerPut(m)
InSend(t) == AcquireSendLock(t) \/ NetworkSend(t) \/ EndSend(t)

Next ==
    \/ \E t \in Thread : \/ \E l \in Letter : Send(t, l)
                         \/ \E b \in Box : Receive(t, b)
                         \/ InSend(t) \/ GetWaits(t) \/ Get(t)
    \/ \E m \in Machine : SendDone(m) \/ CheckPktAvail(m) \/ Worker(m)

(***************************************************************************)
(* Interrupts come, the worker and the threads get the CPU; sendLock is    *)
(* handed over first come, first served, which strong fairness stands for. *)
(***************************************************************************)
Fairness ==
    /\ \A m \in Machine : WF_vars(SendDone(m)) /\ WF_vars(CheckPktAvail(m))
                            /\ WF_vars(Worker(m))
    /\ \A t \in Thread : /\ SF_vars(AcquireSendLock(t))
                         /\ WF_vars(NetworkSend(t) \/ EndSend(t))
                         /\ WF_vars(Get(t) \/ GetWaits(t))

Spec == Init /\ [][Next]_vars /\ Fairness

-----------------------------------------------------------------------------
(***************************************************************************)
(* The post office implements Mail: mail is on its way while it is in the  *)
(* socket, in the driver or in the hands of the postal worker.             *)
(***************************************************************************)
Held(x) == IF x = None THEN <<>> ELSE <<x>>

M == INSTANCE Mail WITH
        transit <- [m \in Machine |-> Held(hand[m]) \o Held(inbox[m]) \o wire[m]],
        box <- list

MailImplemented == M!Spec

(***************************************************************************)
(* A machine has one packet at a time with the driver, although the driver *)
(* never notices a second one, and a thread that ends a Send was waiting   *)
(* for its own packet.                                                     *)
(***************************************************************************)
OneSendAtATime ==
    \A m \in Machine :
        pending[m] + messageSent[m]
          = Cardinality({t \in Thread : MachineOf[t] = m /\ pc[t] = "sent"
                                          /\ sendLock[m] = t})

(***************************************************************************)
(* No thread sleeps at a box that has mail for it: there is no more mail   *)
(* than threads that were woken and have not looked yet.                   *)
(***************************************************************************)
NoMailForgotten ==
    \A m \in Machine, b \in Box :
        Asleep(m, b) # {} => Len(list[m][b]) <= Cardinality(Woken(m, b))

(***************************************************************************)
(* Every packet that the network took reaches its mailbox, and every Send  *)
(* returns.                                                                *)
(***************************************************************************)
OnItsWay(l) ==
    \/ \E m \in Machine : l \in {hand[m], inbox[m]}
    \/ \E m \in Machine : \E i \in DOMAIN wire[m] : wire[m][i] = l

MailArrives ==
    /\ \A l \in Letter : OnItsWay(l) ~> ~OnItsWay(l)
    /\ \A t \in Thread : pc[t] = "acquire" ~> pc[t] = "idle"
=============================================================================
