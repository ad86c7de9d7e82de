---------------------------- MODULE ServerGroup ----------------------------
(***************************************************************************)
(* The servers of network/nettest.cc as a group: how a lock is created     *)
(* when there are several servers, each with a table of its own, and the   *)
(* monitor variables (MVs), with the system calls of userprog/exception.cc *)
(* that ask for them.  What a server does with a lock that exists is       *)
(* module LockServer.                                                      *)
(*                                                                         *)
(* A request goes to a server that rand() picks.  A server that does not   *)
(* know the lock keeps a PendingRequest and asks all the others; one that  *)
(* has the lock answers the client itself; when all of them say no the     *)
(* first server creates it.  A server handles one message after the other, *)
(* and mail from one machine to another keeps its order, so a handler is   *)
(* one step and an inbox is a queue.                                       *)
(*                                                                         *)
(* Two things here are undefined.  The answer of another server is looked  *)
(* up under a byte of a buffer nobody has written: any pending request may *)
(* be taken, or none.  And DestroyMV leaves the pointer of the freed MV in *)
(* the table.  When the server goes out of the table or uses a freed MV,   *)
(* undefined becomes TRUE and the model stops.                             *)
(***************************************************************************)
EXTENDS Integers, Sequences

S == INSTANCE SequencesExt

CONSTANTS
    Client,         \* client threads, each with a mailbox of its own
    LockName,       \* names of locks
    MVName,         \* names of monitor variables
    Value,          \* values a program stores
    NumElements,    \* elements of a monitor variable
    ServerCounts,   \* the numbers of servers that Nachos is started with
    IdRange,        \* how far the ids of two servers are apart (50)
    CharRange,      \* number of values of a char (256)
    MaxCalls        \* bound on the system calls

\* What a client is doing (call) is no name of an MV unless it is in CreateMV.
ASSUME ServerGroupAssumption ==
    /\ ServerCounts \subseteq Nat \ {0}
    /\ NumElements \in Nat \ {0} /\ IdRange \in Nat \ {0}
    /\ CharRange \in Nat \ {0, 1}
    /\ MaxCalls \in Nat
    /\ Value \subseteq Int
    /\ MVName \cap {"idle", "createLock", "setMV", "getMV", "destroyMV"} = {}

VARIABLES
    numServers,             \* the -numServers of every machine
    inbox,                  \* server -> the messages to it
    serverLockTable,        \* server -> its locks
    serverMVTable,          \* server -> its monitor variables
    pendingRequestTable,    \* server -> the questions it has asked
    call,                   \* client -> the call it is in, or Idle
    box,                    \* client -> the answers in its mailbox
    handle,                 \* client -> MV name -> the index it was given
    asked,                  \* client -> lock names it has asked for (auxiliary)
    calls,                  \* system calls so far
    last,                   \* MV name -> the values given last (auxiliary)
    undefined               \* a server has done something undefined

tables == <<serverLockTable, serverMVTable, pendingRequestTable>>
clientVars == <<call, handle, asked, calls>>
vars == <<numServers, inbox, tables, call, box, handle, asked, calls, last, undefined>>

Server == 0 .. numServers - 1
Position == -1 .. NumElements
NoIndex == -2
Idle == "idle"

\* The int that arrives when an int is sent as a char.
AsChar(n) ==
    LET byte == n % CharRange
    IN  IF 2 * byte < CharRange THEN byte ELSE byte - CharRange

ServerMV(name) ==
    [name |-> name, values |-> [p \in 0 .. NumElements - 1 |-> 0], freed |-> FALSE]

PendingRequest(c, name) == [noCount |-> 0, client |-> c, name |-> name]

Init ==
    /\ numServers \in ServerCounts
    /\ inbox = [s \in Server |-> <<>>]
    /\ serverLockTable = [s \in Server |-> <<>>]
    /\ serverMVTable = [s \in Server |-> <<>>]
    /\ pendingRequestTable = [s \in Server |-> <<>>]
    /\ call = [c \in Client |-> Idle]
    /\ box = [c \in Client |-> <<>>]
    /\ handle = [c \in Client |-> [v \in MVName |-> NoIndex]]
    /\ asked = [c \in Client |-> {}]
    /\ calls = 0
    /\ last = [v \in MVName |-> [p \in 0 .. NumElements - 1 |-> 0]]
    /\ undefined = FALSE

-----------------------------------------------------------------------------
(***************************************************************************)
(* The system calls: send a request to some server and wait for the mail.  *)
(* A program passes the index that CreateMV gave it for the name.          *)
(***************************************************************************)
Ask(c, request) ==
    /\ call[c] = Idle
    /\ ~undefined
    /\ calls < MaxCalls
    /\ calls' = calls + 1
    /\ \E s \in Server : inbox' = [inbox EXCEPT ![s] = Append(@, request)]
    /\ UNCHANGED <<numServers, tables, box, handle, last, undefined>>

CreateLock_Syscall(c, name) ==
    /\ asked' = [asked EXCEPT ![c] = @ \cup {name}]
    /\ call' = [call EXCEPT ![c] = "createLock"]
    /\ Ask(c, [op |-> "createLock", client |-> c, name |-> name])

CreateMV_Syscall(c, name) ==
    /\ call' = [call EXCEPT ![c] = name]
    /\ Ask(c, [op |-> "createMV", client |-> c, name |-> name])
    /\ UNCHANGED asked

\* With what the program gave, before it became a char (auxiliary).
UseMV(c, op, name, position, value) ==
    /\ handle[c][name] # NoIndex
    /\ call' = [call EXCEPT ![c] = op]
    /\ Ask(c, [op |-> op, client |-> c, name |-> name, index |-> AsChar(handle[c][name]),
               position |-> AsChar(position), value |-> AsChar(value),
               givenPosition |-> position, givenValue |-> value])
    /\ UNCHANGED asked

SetMV_Syscall(c, name, position, value) == UseMV(c, "setMV", name, position, value)
GetMV_Syscall(c, name, position) == UseMV(c, "getMV", name, position, 0)
DestroyMV_Syscall(c, name) == UseMV(c, "destroyMV", name, 0, 0)

\* The call returns with the first mail in the box, whatever it answers.
Receive(c) ==
    /\ call[c] # Idle
    /\ box[c] # <<>>
    /\ ~undefined
    /\ box' = [box EXCEPT ![c] = Tail(@)]
    /\ call' = [call EXCEPT ![c] = Idle]
    /\ handle' = IF call[c] \in MVName
                 THEN [handle EXCEPT ![c][call[c]] = Head(box[c]).val] ELSE handle
    /\ UNCHANGED <<numServers, inbox, tables, asked, calls, last, undefined>>

-----------------------------------------------------------------------------
(***************************************************************************)
(* The server loop takes the next message.  An answer carries what kind it *)
(* is, and for GetMV what was stored last (auxiliary).                     *)
(***************************************************************************)
Take(s, ops) ==
    /\ ~undefined
    /\ inbox[s] # <<>>
    /\ Head(inbox[s]).op \in ops
    /\ UNCHANGED <<numServers, clientVars>>

Answer(c, kind, val, want) ==
    box' = [box EXCEPT ![c] = Append(@, [kind |-> kind, val |-> AsChar(val), want |-> want])]

Done(s) == inbox' = [inbox EXCEPT ![s] = Tail(@)]

Undefined(s) ==
    /\ undefined' = TRUE
    /\ Done(s)
    /\ UNCHANGED <<tables, box, last>>

\* Mutant: the id is the position in the server's own table.
CreateLockLocalId(s, name) ==
    serverLockTable' = [serverLockTable EXCEPT ![s] =
        Append(@, [name |-> name, id |-> Len(@)])]

CreateLock(s, name) ==
    serverLockTable' = [serverLockTable EXCEPT ![s] =
        Append(@, [name |-> name, id |-> Len(@) + s * IdRange])]

getLockFromTable(s, name) ==
    LET i == S!SelectInSeq(serverLockTable[s], LAMBDA l : l.name = name)
    IN  IF i = 0 THEN -1 ELSE serverLockTable[s][i].id

\* Case 0.
ServeCreateLock(s) ==
    LET request == Head(inbox[s])
        id == getLockFromTable(s, request.name)
        question == [op |-> "haveLock", from |-> s, client |-> request.client,
                     name |-> request.name, id |-> Len(pendingRequestTable[s])]
    IN  /\ Take(s, {"createLock"})
        /\ \/ /\ id # -1
              /\ Answer(request.client, "lock", id, 0)
              /\ Done(s)
              /\ UNCHANGED tables
           \/ /\ id = -1 /\ numServers = 1
              /\ CreateLock(s, request.name)
              /\ LET table == serverLockTable'[s]
                 IN  Answer(request.client, "lock", table[Len(table)].id, 0)
              /\ Done(s)
              /\ UNCHANGED <<serverMVTable, pendingRequestTable>>
           \/ /\ id = -1 /\ numServers > 1
              /\ pendingRequestTable' = [pendingRequestTable EXCEPT ![s] =
                    Append(@, PendingRequest(request.client, request.name))]
              /\ inbox' = [t \in Server |-> IF t = s THEN Tail(inbox[t])
                                            ELSE Append(inbox[t], question)]
              /\ UNCHANGED <<serverLockTable, serverMVTable, box>>
        /\ UNCHANGED <<last, undefined>>

\* Case 13: another server asks.
ServeHaveLock(s) ==
    LET request == Head(inbox[s])
        id == getLockFromTable(s, request.name)
        reply == [op |-> "answer", yes |-> id # -1, id |-> request.id]
    IN  /\ Take(s, {"haveLock"})
        /\ inbox' = [inbox EXCEPT ![s] = Tail(@), ![request.from] = Append(@, reply)]
        /\ IF id # -1 THEN Answer(request.client, "lock", id, 0) ELSE UNCHANGED box
        /\ UNCHANGED <<tables, last, undefined>>

\* updatePendingRequestTable counts a no for the pending request i.
CountNo(s, i) ==
    pendingRequestTable' = [pendingRequestTable EXCEPT ![s][i].noCount = @ + 1]

\* Case 14: responseID is read from the buffer for the response.
ServeAnswer(s) ==
    /\ Take(s, {"answer"})
    /\ \/ /\ Head(inbox[s]).yes
          /\ Done(s)
          /\ UNCHANGED <<tables, box, last, undefined>>
       \/ /\ ~Head(inbox[s]).yes
          /\ Undefined(s)
       \/ /\ ~Head(inbox[s]).yes
          /\ \E i \in DOMAIN pendingRequestTable[s] :
                LET pr == pendingRequestTable[s][i] IN
                /\ CountNo(s, i)
                /\ IF pr.noCount + 1 = numServers - 1
                   THEN /\ CreateLock(s, pr.name)
                        /\ LET table == serverLockTable'[s]
                           IN  Answer(pr.client, "lock", table[Len(table)].id, 0)
                   ELSE UNCHANGED <<serverLockTable, box>>
          /\ Done(s)
          /\ UNCHANGED <<serverMVTable, last, undefined>>

-----------------------------------------------------------------------------
(***************************************************************************)
(* Monitor variables.  CreateMV answers with the position when it finds    *)
(* the name and with an id when it makes a new one; the other calls take   *)
(* what the client sends as a position.                                    *)
(***************************************************************************)
MVAt(s, index) == serverMVTable[s][index + 1]
IsMV(s, index) == index \in 0 .. Len(serverMVTable[s]) - 1
Freed(s, index) == IsMV(s, index) /\ MVAt(s, index).freed
InMV(s, index, position) == IsMV(s, index) /\ position \in 0 .. NumElements - 1

FindMV(s, name) == S!SelectInSeq(serverMVTable[s], LAMBDA mv : mv.freed \/ mv.name = name)

\* Mutant: the name is not looked up.
CreateMVAlways(s, request) ==
    /\ serverMVTable' = [serverMVTable EXCEPT ![s] = Append(@, ServerMV(request.name))]
    /\ Answer(request.client, "index", Len(serverMVTable[s]) + s * IdRange, 0)
    /\ UNCHANGED undefined

CreateMV(s, request) ==
    LET i == FindMV(s, request.name) IN
    \/ /\ i # 0 /\ ~Freed(s, i - 1)
       /\ Answer(request.client, "index", i - 1, 0)
       /\ UNCHANGED <<serverMVTable, undefined>>
    \/ /\ i # 0 /\ Freed(s, i - 1)
       /\ undefined' = TRUE
       /\ UNCHANGED <<serverMVTable, box>>
    \/ /\ i = 0
       /\ serverMVTable' = [serverMVTable EXCEPT ![s] = Append(@, ServerMV(request.name))]
       /\ Answer(request.client, "index", Len(serverMVTable[s]) + s * IdRange, 0)
       /\ UNCHANGED undefined

\* Case 9.
ServeCreateMV(s) ==
    /\ Take(s, {"createMV"})
    /\ CreateMV(s, Head(inbox[s]))
    /\ Done(s)
    /\ UNCHANGED <<serverLockTable, pendingRequestTable, last>>

\* What the program expects to be stored (auxiliary).
Stored(f, position, value) ==
    IF position \in DOMAIN f THEN [f EXCEPT ![position] = value] ELSE f

SetMV(s, index, position, value) ==
    IF InMV(s, index, position)
    THEN [serverMVTable EXCEPT ![s][index + 1].values[position] = value]
    ELSE serverMVTable

\* Case 10.
ServeSetMV(s) ==
    LET request == Head(inbox[s]) IN
    /\ Take(s, {"setMV"})
    /\ ~Freed(s, request.index)
    /\ serverMVTable' = SetMV(s, request.index, request.position, request.value)
    /\ Answer(request.client, "done", 127, 0)
    /\ Done(s)
    /\ last' = [last EXCEPT ![request.name] = Stored(@, request.givenPosition, request.givenValue)]
    /\ UNCHANGED <<serverLockTable, pendingRequestTable, undefined>>

GetMV(s, index, position) ==
    IF InMV(s, index, position) THEN MVAt(s, index).values[position] ELSE -1

\* Case 11.
ServeGetMV(s) ==
    LET request == Head(inbox[s])
        lastOf == last[request.name]
        want == IF request.givenPosition \in DOMAIN lastOf
                THEN lastOf[request.givenPosition] ELSE -1
    IN  /\ Take(s, {"getMV"})
        /\ ~Freed(s, request.index)
        /\ Answer(request.client, "value", GetMV(s, request.index, request.position), want)
        /\ Done(s)
        /\ UNCHANGED <<tables, last, undefined>>

\* The MV is deleted, its pointer stays.
DestroyMV(s, index) ==
    IF IsMV(s, index) THEN [serverMVTable EXCEPT ![s][index + 1].freed = TRUE]
    ELSE serverMVTable

\* Case 12.
ServeDestroyMV(s) ==
    LET request == Head(inbox[s]) IN
    /\ Take(s, {"destroyMV"})
    /\ ~Freed(s, request.index)
    /\ serverMVTable' = DestroyMV(s, request.index)
    /\ Answer(request.client, "done", 127, 0)
    /\ Done(s)
    /\ UNCHANGED <<serverLockTable, pendingRequestTable, last, undefined>>

\* SetMV, GetMV or DestroyMV of an MV that has been deleted.
ServeFreedMV(s) ==
    /\ Take(s, {"setMV", "getMV", "destroyMV"})
    /\ Freed(s, Head(inbox[s]).index)
    /\ Undefined(s)

-----------------------------------------------------------------------------
Call(c) ==
    \/ \E name \in LockName : CreateLock_Syscall(c, name)
    \/ \E name \in MVName :
          \/ CreateMV_Syscall(c, name)
          \/ DestroyMV_Syscall(c, name)
          \/ \E p \in Position :
                GetMV_Syscall(c, name, p) \/ \E v \in Value : SetMV_Syscall(c, name, p, v)

Serve(s) ==
    \/ ServeCreateLock(s) \/ ServeHaveLock(s) \/ ServeAnswer(s)
    \/ ServeCreateMV(s) \/ ServeSetMV(s) \/ ServeGetMV(s) \/ ServeDestroyMV(s)
    \/ ServeFreedMV(s)

Next ==
    \/ \E c \in Client : Call(c) \/ Receive(c)
    \/ \E s \in Server : Serve(s)

Spec == Init /\ [][Next]_vars

-----------------------------------------------------------------------------
(***************************************************************************)
(* No server has used up its ids and begun to use those of the next one,   *)
(* and every id comes through a char.  The code checks neither.            *)
(***************************************************************************)
IdsFit ==
    \A s \in Server : \A i \in DOMAIN serverLockTable[s] :
        i <= IdRange /\ AsChar(serverLockTable[s][i].id) = serverLockTable[s][i].id

(***************************************************************************)
(* A lock id that is on its way to a client belongs to one lock of one     *)
(* server only, and that lock has a name that the client asked for.  This  *)
(* holds even when a no is counted for the wrong request, and for a lock   *)
(* that was made twice, as long as the ids fit.                            *)
(***************************************************************************)
IdNamesOneLock ==
    IdsFit =>
        \A c \in Client : \A k \in DOMAIN box[c] : box[c][k].kind = "lock" =>
            \E s \in Server : \E i \in DOMAIN serverLockTable[s] :
                /\ serverLockTable[s][i].name \in asked[c]
                /\ \A r \in Server : \A j \in DOMAIN serverLockTable[r] :
                      serverLockTable[r][j].id = box[c][k].val <=> r = s /\ j = i

\* Every position in an MV and every index of an MV comes through a char.
MVsFit == 2 * NumElements < CharRange /\ 2 * Len(serverMVTable[0]) <= CharRange

(***************************************************************************)
(* With one server, and until something undefined is done, GetMV answers   *)
(* with the value that SetMV was last given, by any client, under that     *)
(* name at that position, and with -1 outside of the MV.  This is said of  *)
(* the values that come through a char, which is signed: of 0 to 127, and  *)
(* not of 128 to 255, although WRITEUP, line 17, lets "the maximum value   *)
(* of any element of an MV array" be 255.                                  *)
(***************************************************************************)
ReadsLastSet ==
    numServers = 1 /\ ~undefined /\ MVsFit =>
        \A c \in Client : \A k \in DOMAIN box[c] :
            box[c][k].kind = "value" /\ AsChar(box[c][k].want) = box[c][k].want =>
                box[c][k].val = box[c][k].want
=============================================================================
