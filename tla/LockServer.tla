----------------------------- MODULE LockServer -----------------------------
(***************************************************************************)
(* The lock and condition variable server of network/nettest.cc and the    *)
(* system calls of userprog/exception.cc that are its clients.             *)
(*                                                                         *)
(* A client thread sends one request to mailbox 0 of the server and blocks *)
(* in PostOffice::Receive on its own mailbox until a reply arrives.  The   *)
(* server handles one request after the other.  A reply that has to wait,  *)
(* for a lock or for a signal, is a ReplyMsg in the queue of the lock or   *)
(* the condition variable; here the queue holds the client it is for.      *)
(* numWaiters is the length of that queue.                                 *)
(*                                                                         *)
(* There is one server (numServers = 1, the default), so the id of a lock  *)
(* is its position in the table.  An id travels as a signed char.          *)
(*                                                                         *)
(* A table keeps the pointer of an object that has been deleted.  What     *)
(* happens when the server uses such a pointer is undefined: the model     *)
(* records it in undefined and goes no further.                            *)
(***************************************************************************)
EXTENDS Integers, Sequences

CONSTANTS
    Client,         \* client threads, each with a mailbox of its own
    Machine,        \* machines that client threads run on
    MachineOf,      \* client -> its machine
    LockName,       \* names of locks
    CVName,         \* names of condition variables
    NULL,           \* no machine, no name
    CharRange,      \* number of values of a char (256)
    Ops,            \* the calls that the programs make
    Disciplined,    \* programs use locks and conditions as synch.h demands
    MaxLost         \* bound on the packets that the network loses

AllOps == {"createLock", "destroyLock", "acquire", "release", "createCV",
           "destroyCV", "wait", "signal", "broadcast"}

ASSUME LockServerAssumption ==
    /\ MachineOf \in [Client -> Machine]
    /\ NULL \notin Machine \cup LockName \cup CVName
    /\ CharRange \in Nat /\ CharRange > 0
    /\ Ops \subseteq AllOps
    /\ Disciplined \in BOOLEAN
    /\ MaxLost \in Nat

VARIABLES
    serverLockTable,    \* the ServerLocks, position 0 first
    serverCVTable,      \* the ServerCVs
    undefined,          \* the server has used a deleted object
    lost,               \* number of packets that the network has lost
    call,               \* client -> the system call it is in, or NoCall
    requests,           \* clients whose request is on its way to the server
    replies,            \* client -> replies on their way to its mailbox
    known,              \* client -> lock ids that CreateLock returned to it
    knownCV,            \* client -> ids that CreateCondition returned to it
    held                \* client -> lock ids it may rely on (auxiliary):
                        \* Acquire or Wait returned, no Release or Wait since

tables == <<serverLockTable, serverCVTable>>
programVars == <<known, knownCV, held>>
vars == <<serverLockTable, serverCVTable, undefined, lost, call, requests,
          replies, known, knownCV, held>>

-----------------------------------------------------------------------------
ServerLock == [name : LockName, owner : Machine \cup {NULL}, available : BOOLEAN,
               waitQueue : Seq(Client), toBeDeleted : BOOLEAN, freed : BOOLEAN]

ServerCV == [name : CVName, serverLockIndex : Int, waitQueue : Seq(Client),
             toBeDeleted : BOOLEAN, freed : BOOLEAN]

NewServerLock(n) ==
    [name |-> n, owner |-> NULL, available |-> TRUE, waitQueue |-> <<>>,
     toBeDeleted |-> FALSE, freed |-> FALSE]

NewServerCV(n) ==
    [name |-> n, serverLockIndex |-> -1, waitQueue |-> <<>>,
     toBeDeleted |-> FALSE, freed |-> FALSE]

LockIndexes == 0 .. Len(serverLockTable) - 1
CVIndexes == 0 .. Len(serverCVTable) - 1
LockAt(i) == serverLockTable[i + 1]
CVAt(i) == serverCVTable[i + 1]
SetLock(i, l) == serverLockTable' = [serverLockTable EXCEPT ![i + 1] = l]
SetCV(i, v) == serverCVTable' = [serverCVTable EXCEPT ![i + 1] = v]

\* The int that arrives when an int is sent as a char.
AsChar(n) ==
    LET byte == n % CharRange
    IN  IF 2 * byte < CharRange THEN byte ELSE byte - CharRange

\* The reply 255 that says no more than that the call is over.
Ok == -1

NoCall == [op |-> "none", name |-> NULL, lock |-> -1, cv |-> -1, had |-> FALSE]

Calls == [op : AllOps \cup {"none"}, name : LockName \cup CVName \cup {NULL},
          lock : Int, cv : Int, had : BOOLEAN]

Init ==
    /\ serverLockTable = <<>>
    /\ serverCVTable = <<>>
    /\ undefined = FALSE
    /\ lost = 0
    /\ call = [c \in Client |-> NoCall]
    /\ requests = {}
    /\ replies = [c \in Client |-> <<>>]
    /\ known = [c \in Client |-> {}]
    /\ knownCV = [c \in Client |-> {}]
    /\ held = [c \in Client |-> {}]

-----------------------------------------------------------------------------
(***************************************************************************)
(* The clients.  A system call sends its request and then waits.  A        *)
(* program passes the ids that it has been given; an undisciplined one may *)
(* pass the -1 of a failed call, release or wait with a lock that it does  *)
(* not hold, and acquire one that it holds (and then waits for itself).    *)
(***************************************************************************)
MayHold(c) == IF Disciplined THEN held[c] ELSE known[c] \cup {-1}
MayAcquire(c) == IF Disciplined THEN known[c] \ held[c] ELSE known[c]

CreateLock_Syscall(c) == {[NoCall EXCEPT !.op = "createLock", !.name = n] : n \in LockName}
DestroyLock_Syscall(c) == {[NoCall EXCEPT !.op = "destroyLock", !.lock = i] : i \in known[c]}
Acquire_Syscall(c) == {[NoCall EXCEPT !.op = "acquire", !.lock = i] : i \in MayAcquire(c)}

Release_Syscall(c) ==
    {[NoCall EXCEPT !.op = "release", !.lock = i, !.had = i \in held[c]] : i \in MayHold(c)}

CreateCondition_Syscall(c) == {[NoCall EXCEPT !.op = "createCV", !.name = n] : n \in CVName}
DestroyCondition_Syscall(c) == {[NoCall EXCEPT !.op = "destroyCV", !.cv = v] : v \in knownCV[c]}

Wait_Syscall(c) ==
    {[op |-> "wait", name |-> NULL, lock |-> i, cv |-> v, had |-> i \in held[c]]
        : v \in knownCV[c], i \in MayHold(c)}

Signal_Syscall(c) ==
    {[op |-> "signal", name |-> NULL, lock |-> i, cv |-> v, had |-> FALSE]
        : v \in knownCV[c], i \in MayHold(c)}

Broadcast_Syscall(c) ==
    {[op |-> "broadcast", name |-> NULL, lock |-> i, cv |-> v, had |-> FALSE]
        : v \in knownCV[c], i \in MayHold(c)}

\* The requests that client c may send.
Requests(c) ==
    UNION {CreateLock_Syscall(c), DestroyLock_Syscall(c), Acquire_Syscall(c),
           Release_Syscall(c), CreateCondition_Syscall(c), DestroyCondition_Syscall(c),
           Wait_Syscall(c), Signal_Syscall(c), Broadcast_Syscall(c)}

\* What the calls have in common: PostOffice::Send, then Receive.
Send(c, r) ==
    /\ call[c] = NoCall
    /\ r.op \in Ops
    /\ call' = [call EXCEPT ![c] = r]
    /\ requests' = requests \cup {c}
    /\ held' = [held EXCEPT ![c] = IF r.had THEN @ \ {r.lock} ELSE @]
    /\ UNCHANGED <<tables, undefined, lost, replies, known, knownCV>>

\* What the program learns from a reply v to its call r.
Learn(set, r, op, v) == IF r.op = op THEN set \cup {v} ELSE set

Receive(c) ==
    LET r == call[c]
    IN  /\ r # NoCall
        /\ replies[c] # <<>>
        /\ replies' = [replies EXCEPT ![c] = Tail(@)]
        /\ call' = [call EXCEPT ![c] = NoCall]
        /\ known' = [known EXCEPT ![c] = Learn(@, r, "createLock", Head(replies[c]))]
        /\ knownCV' = [knownCV EXCEPT ![c] = Learn(@, r, "createCV", Head(replies[c]))]
        /\ held' = [held EXCEPT ![c] = IF r.op = "acquire" \/ (r.op = "wait" /\ r.had)
                                       THEN @ \cup {r.lock} ELSE @]
        /\ UNCHANGED <<tables, undefined, lost, requests>>

-----------------------------------------------------------------------------
(***************************************************************************)
(* The server's loop.  It takes a request from its mailbox; TouchesFreed   *)
(* says that handling it uses an object that has been deleted.             *)
(***************************************************************************)
OwnedBy(i, m) == i \in LockIndexes /\ LockAt(i).owner = m

ScansFreed(table, n) ==
    \E i \in DOMAIN table : table[i].freed /\ \A j \in 1 .. i - 1 : table[j].name # n

TouchesFreed(c) ==
    LET r == call[c]
    IN  \/ r.op = "createLock" /\ ScansFreed(serverLockTable, r.name)
        \/ r.op = "createCV" /\ ScansFreed(serverCVTable, r.name)
        \/ r.lock \in LockIndexes /\ LockAt(r.lock).freed
        \/ /\ r.cv \in CVIndexes /\ CVAt(r.cv).freed
           /\ r.op = "destroyCV" \/ OwnedBy(r.lock, MachineOf[c])

Takes(c) ==
    /\ ~undefined
    /\ c \in requests
    /\ requests' = requests \ {c}

Handles(c, op) ==
    /\ Takes(c)
    /\ call[c].op = op
    /\ ~TouchesFreed(c)
    /\ UNCHANGED <<undefined, lost, call, programVars>>

UseAfterFree(c) ==
    /\ Takes(c)
    /\ TouchesFreed(c)
    /\ undefined' = TRUE
    /\ UNCHANGED <<tables, lost, call, replies, programVars>>

Reply(S, v) ==
    replies' = [c \in Client |-> IF c \in S THEN Append(replies[c], v) ELSE replies[c]]

-----------------------------------------------------------------------------
(***************************************************************************)
(* Locks.                                                                  *)
(***************************************************************************)
CreateLock(c) ==
    LET n == call[c].name
    IN  /\ Handles(c, "createLock")
        /\ IF \E i \in LockIndexes : LockAt(i).name = n
           THEN /\ \E i \in LockIndexes : LockAt(i).name = n /\ Reply({c}, AsChar(i))
                /\ UNCHANGED tables
           ELSE /\ serverLockTable' = Append(serverLockTable, NewServerLock(n))
                /\ Reply({c}, AsChar(Len(serverLockTable)))
                /\ UNCHANGED serverCVTable

\* The owner is the machine that the reply goes to.
NewOwner(c) == MachineOf[c]

Acquire(c) ==
    LET i == call[c].lock
        l == LockAt(i)
    IN  /\ Handles(c, "acquire")
        /\ IF i \notin LockIndexes
           THEN Reply({c}, Ok) /\ UNCHANGED tables
           ELSE IF l.available
           THEN /\ SetLock(i, [l EXCEPT !.available = FALSE, !.owner = NewOwner(c)])
                /\ Reply({c}, Ok)
                /\ UNCHANGED serverCVTable
           ELSE /\ SetLock(i, [l EXCEPT !.waitQueue = Append(@, c)])
                /\ UNCHANGED <<serverCVTable, replies>>

\* Mutant: a lock that is handed over becomes available as well.
GivenUpAvailable(l) ==
    IF l.waitQueue = <<>>
    THEN [l EXCEPT !.owner = NULL, !.available = TRUE]
    ELSE [l EXCEPT !.owner = NewOwner(Head(l.waitQueue)), !.waitQueue = Tail(@),
                   !.available = TRUE]

\* Mutant: the newest waiter gets the lock.
GivenUpLast(l) ==
    IF l.waitQueue = <<>>
    THEN [l EXCEPT !.owner = NULL, !.available = TRUE]
    ELSE [l EXCEPT !.owner = NewOwner(l.waitQueue[Len(l.waitQueue)]),
                   !.waitQueue = SubSeq(@, 1, Len(@) - 1)]

\* The lock l after its owner gives it up: the first waiter owns it.
GivenUp(l) ==
    IF l.waitQueue = <<>>
    THEN [l EXCEPT !.owner = NULL, !.available = TRUE]
    ELSE [l EXCEPT !.owner = NewOwner(Head(l.waitQueue)), !.waitQueue = Tail(@)]

\* Mutant: the new owner is not told.
Untold(l) == {}

\* The client that is told so.
Granted(l) == IF l.waitQueue = <<>> THEN {} ELSE {Head(l.waitQueue)}

Release(c) ==
    LET i == call[c].lock
        l == LockAt(i)
    IN  /\ Handles(c, "release")
        /\ IF ~OwnedBy(i, MachineOf[c])
           THEN Reply({c}, Ok) /\ UNCHANGED tables
           ELSE /\ SetLock(i, IF l.waitQueue = <<>> /\ l.toBeDeleted
                              THEN [l EXCEPT !.freed = TRUE]
                              ELSE GivenUp(l))
                /\ Reply({c} \cup Granted(l), Ok)
                /\ UNCHANGED serverCVTable

\* Mutant: a lock that somebody holds counts as unused.
NoWaiters(l) == l.waitQueue = <<>>

Unused(l) == l.waitQueue = <<>> /\ l.available

DestroyLock(c) ==
    LET i == call[c].lock
        l == LockAt(i)
    IN  /\ Handles(c, "destroyLock")
        /\ IF i \notin LockIndexes
           THEN UNCHANGED serverLockTable
           ELSE SetLock(i, IF Unused(l) THEN [l EXCEPT !.freed = TRUE]
                                        ELSE [l EXCEPT !.toBeDeleted = TRUE])
        /\ Reply({c}, Ok)
        /\ UNCHANGED serverCVTable

-----------------------------------------------------------------------------
(***************************************************************************)
(* Condition variables.                                                    *)
(***************************************************************************)
CreateCV(c) ==
    LET n == call[c].name
    IN  /\ Handles(c, "createCV")
        /\ IF \E v \in CVIndexes : CVAt(v).name = n
           THEN /\ \E v \in CVIndexes : CVAt(v).name = n /\ Reply({c}, AsChar(v))
                /\ UNCHANGED tables
           ELSE /\ serverCVTable' = Append(serverCVTable, NewServerCV(n))
                /\ Reply({c}, AsChar(Len(serverCVTable)))
                /\ UNCHANGED serverLockTable

\* A condition may be waited on with the lock it was first waited on with.
Bindable(v, i) == v \in CVIndexes /\ CVAt(v).serverLockIndex \in {-1, i}

\* The caller gives up the lock and its reply is queued, in one step.
Wait(c) ==
    LET v == call[c].cv
        i == call[c].lock
        l == LockAt(i)
    IN  /\ Handles(c, "wait")
        /\ IF OwnedBy(i, MachineOf[c]) /\ Bindable(v, i)
           THEN /\ SetLock(i, GivenUp(l))
                /\ SetCV(v, [CVAt(v) EXCEPT !.serverLockIndex = i,
                                            !.waitQueue = Append(@, c)])
                /\ Reply(Granted(l), Ok)
           ELSE Reply({c}, Ok) /\ UNCHANGED tables

\* Signal and Broadcast do nothing for a caller without the lock.
MayWake(v, i, m) ==
    OwnedBy(i, m) /\ v \in CVIndexes /\ CVAt(v).serverLockIndex = i

\* Mutant: the woken client is told at once, and queued for the lock too.
WakeAndTell(c, v, i, woken, rest) ==
    /\ SetLock(i, [LockAt(i) EXCEPT !.waitQueue = @ \o woken])
    /\ SetCV(v, [CVAt(v) EXCEPT !.waitQueue = rest, !.freed = rest = <<>> /\ CVAt(v).toBeDeleted])
    /\ Reply({c} \cup {woken[k] : k \in DOMAIN woken}, Ok)

\* The woken clients queue for the lock; a doomed condition may go now.
Wake(c, v, i, woken, rest) ==
    /\ SetLock(i, [LockAt(i) EXCEPT !.waitQueue = @ \o woken])
    /\ SetCV(v, [CVAt(v) EXCEPT !.waitQueue = rest, !.freed = rest = <<>> /\ CVAt(v).toBeDeleted])
    /\ Reply({c}, Ok)

Signal(c) ==
    LET v == call[c].cv
        i == call[c].lock
        q == CVAt(v).waitQueue
    IN  /\ Handles(c, "signal")
        /\ IF MayWake(v, i, MachineOf[c])
           THEN IF q = <<>> THEN Wake(c, v, i, <<>>, <<>>)
                            ELSE Wake(c, v, i, <<Head(q)>>, Tail(q))
           ELSE Reply({c}, Ok) /\ UNCHANGED tables

Broadcast(c) ==
    LET v == call[c].cv
        i == call[c].lock
    IN  /\ Handles(c, "broadcast")
        /\ IF MayWake(v, i, MachineOf[c])
           THEN Wake(c, v, i, CVAt(v).waitQueue, <<>>)
           ELSE Reply({c}, Ok) /\ UNCHANGED tables

DestroyCV(c) ==
    LET v == call[c].cv
        cv == CVAt(v)
    IN  /\ Handles(c, "destroyCV")
        /\ IF v \notin CVIndexes
           THEN UNCHANGED serverCVTable
           ELSE SetCV(v, IF cv.waitQueue = <<>> THEN [cv EXCEPT !.freed = TRUE]
                                                ELSE [cv EXCEPT !.toBeDeleted = TRUE])
        /\ Reply({c}, Ok)
        /\ UNCHANGED serverLockTable

-----------------------------------------------------------------------------
\* The network drops a packet (nachos -n).  Nobody sends it again.
LoseRequest(c) ==
    /\ lost < MaxLost
    /\ lost' = lost + 1
    /\ c \in requests
    /\ requests' = requests \ {c}
    /\ UNCHANGED <<tables, undefined, call, replies, programVars>>

LoseReply(c) ==
    /\ lost < MaxLost
    /\ lost' = lost + 1
    /\ replies[c] # <<>>
    /\ replies' = [replies EXCEPT ![c] = Tail(@)]
    /\ UNCHANGED <<tables, undefined, call, requests, programVars>>

Serve(c) ==
    \/ CreateLock(c) \/ Acquire(c) \/ Release(c) \/ DestroyLock(c)
    \/ CreateCV(c) \/ Wait(c) \/ Signal(c) \/ Broadcast(c) \/ DestroyCV(c)
    \/ UseAfterFree(c)

Next ==
    \E c \in Client :
        \/ \E r \in Requests(c) : Send(c, r)
        \/ Receive(c)
        \/ Serve(c)
        \/ LoseRequest(c)
        \/ LoseReply(c)

Spec == Init /\ [][Next]_vars

(***************************************************************************)
(* The server keeps taking mail, in order, so a request is not left behind *)
(* for ever; mail is delivered; and a program that holds a lock gives it   *)
(* up some day.                                                            *)
(***************************************************************************)
GivesUp(c) ==
    \E r \in Requests(c) : r.op \in {"release", "wait"} /\ r.had /\ Send(c, r)

Fairness ==
    \A c \in Client : /\ WF_vars(Serve(c))
                      /\ WF_vars(Receive(c))
                      /\ SF_vars(GivesUp(c))

FairSpec == Spec /\ Fairness
-----------------------------------------------------------------------------
(***************************************************************************)
(* Properties.                                                             *)
(***************************************************************************)
\* The values that the tables, the messages and the programs' ids take.
TypeOK ==
    /\ serverLockTable \in Seq(ServerLock)
    /\ serverCVTable \in Seq(ServerCV)
    /\ undefined \in BOOLEAN
    /\ lost \in Nat
    /\ call \in [Client -> Calls]
    /\ requests \in SUBSET Client
    /\ replies \in [Client -> Seq(Int)]
    /\ known \in [Client -> SUBSET Int]
    /\ knownCV \in [Client -> SUBSET Int]
    /\ held \in [Client -> SUBSET Int]

(***************************************************************************)
(* Two programs never both have a lock: Acquire or Wait returns to one     *)
(* only after the other has called Release or Wait.                        *)
(***************************************************************************)
MutualExclusion ==
    \A c, d \in Client : held[c] \cap held[d] # {} => c = d

InQueue(c, q) == \E k \in 1 .. Len(q) : q[k] = c
Times(c, q) == {k \in 1 .. Len(q) : q[k] = c}

\* The places where the answer to the call of client c is, each as a pair.
AnswerPlaces(c) ==
    UNION {
      {<<"request", 0, 0>> : x \in requests \cap {c}},
      {<<"reply", 0, k>> : k \in 1 .. Len(replies[c])},
      UNION {{<<"lock", i, k>> : k \in Times(c, LockAt(i).waitQueue)} : i \in LockIndexes},
      UNION {{<<"cv", v, k>> : k \in Times(c, CVAt(v).waitQueue)} : v \in CVIndexes}}

(***************************************************************************)
(* Every call is answered once.  A client in a call has exactly one        *)
(* request, queued ReplyMsg or reply, so it is not woken twice by a Signal *)
(* and a Release, and is not dropped between the two queues; a client that *)
(* is in no call has none, so no stale reply ends its next call too early. *)
(* When the network loses packets there may be none left.                  *)
(***************************************************************************)
AnsweredOnce ==
    \A c \in Client :
        /\ \A p, q \in AnswerPlaces(c) : p = q
        /\ call[c] = NoCall => AnswerPlaces(c) = {}
        /\ call[c] # NoCall /\ ~undefined /\ lost = 0 => AnswerPlaces(c) # {}

(***************************************************************************)
(* Client c has lock i, or has just given it up and the server does not    *)
(* know yet, or has been given it and does not know yet.                   *)
(***************************************************************************)
Has(c, i) ==
    \/ i \in held[c]
    \/ /\ call[c].lock = i
       /\ \/ c \in requests /\ call[c].had
          \/ /\ replies[c] # <<>>
             /\ call[c].op = "acquire" \/ (call[c].op = "wait" /\ call[c].had)

(***************************************************************************)
(* What the server keeps about a lock agrees with what the programs do: a  *)
(* lock is taken exactly while one client has it, its owner is the machine *)
(* of that client, and nobody queues for a lock that is available.  So no  *)
(* lock is left with a client that does not know that it has it.           *)
(***************************************************************************)
LockAccounted ==
    \A i \in LockIndexes :
        LET l == LockAt(i)
        IN  /\ \A c \in Client : Has(c, i) => ~l.available /\ l.owner = MachineOf[c]
            /\ \A c, d \in Client : Has(c, i) /\ Has(d, i) => c = d
            /\ l.available => l.waitQueue = <<>>
            /\ ~l.available /\ ~l.freed /\ ~undefined /\ lost = 0 => \E c \in Client : Has(c, i)

(***************************************************************************)
(* DestroyLock and DestroyCV delete nothing that somebody uses: a deleted  *)
(* lock has no holder, and no reply is lost with a deleted object's queue. *)
(***************************************************************************)
DeletedUnused ==
    /\ \A i \in LockIndexes : LockAt(i).freed =>
          LockAt(i).waitQueue = <<>> /\ \A c \in Client : i \notin held[c]
    /\ \A v \in CVIndexes : CVAt(v).freed => CVAt(v).waitQueue = <<>>

(***************************************************************************)
(* A lock goes to the clients that wait for it in the order in which their *)
(* requests (or the signals that woke them) arrived.                       *)
(***************************************************************************)
HandOff ==
    \A i \in LockIndexes :
        LET l == LockAt(i)
            m == LockAt(i)'
        IN  Len(m.waitQueue) < Len(l.waitQueue) =>
              /\ m.waitQueue = Tail(l.waitQueue)
              /\ m.owner = MachineOf[Head(l.waitQueue)]
              /\ Len(replies'[Head(l.waitQueue)]) > Len(replies[Head(l.waitQueue)])

HandOffInOrder == [][HandOff]_vars

(***************************************************************************)
(* Who asks for a lock gets it, if programs give up the locks they get;    *)
(* unless the server has used a deleted object before.                     *)
(***************************************************************************)
AcquireReturns ==
    \A c \in Client : call[c].op = "acquire" ~> call[c].op # "acquire" \/ undefined
=============================================================================
