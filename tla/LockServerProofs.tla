-------------------------- MODULE LockServerProofs --------------------------
(***************************************************************************)
(* Proofs about LockServer, for any number of clients, locks and condition *)
(* variables, for disciplined and undisciplined programs, and with any     *)
(* number of lost packets.                                                 *)
(***************************************************************************)
EXTENDS LockServer, FiniteSetTheorems, TLAPS

NoRepeats(q) == \A k, n \in 1 .. Len(q) : q[k] = q[n] => k = n

-----------------------------------------------------------------------------
(***************************************************************************)
(* Queues of waiting clients.                                              *)
(***************************************************************************)

\* Nobody waits in an empty queue.
LEMMA EmptyQueue ==
    /\ <<>> \in Seq(Client)
    /\ NoRepeats(<<>>)
    /\ \A c : ~InQueue(c, <<>>)
BY DEF InQueue, NoRepeats

\* Somebody waits in a queue that is not empty.
LEMMA NonEmptyQueue ==
    ASSUME NEW q \in Seq(Client), \A c \in Client : ~InQueue(c, q)
    PROVE  q = <<>>
<1> SUFFICES ASSUME q # <<>> PROVE FALSE
    OBVIOUS
<1>1. Len(q) > 0 /\ Len(q) \in Nat /\ 1 \in 1 .. Len(q) /\ q[1] \in Client
    OBVIOUS
<1> QED BY <1>1 DEF InQueue

\* A queue of one client.
LEMMA OneQueue ==
    ASSUME NEW x \in Client
    PROVE  /\ <<x>> \in Seq(Client)
           /\ NoRepeats(<<x>>)
           /\ \A c : InQueue(c, <<x>>) <=> c = x
<1>1. <<x>> \in Seq(Client) /\ Len(<<x>>) = 1 /\ <<x>>[1] = x
    OBVIOUS
<1> QED BY <1>1 DEF InQueue, NoRepeats

\* List::Append adds the one client.
LEMMA AppendQueue ==
    ASSUME NEW q \in Seq(Client), NEW x \in Client
    PROVE  /\ Append(q, x) \in Seq(Client)
           /\ \A c : InQueue(c, Append(q, x)) <=> InQueue(c, q) \/ c = x
           /\ NoRepeats(q) /\ ~InQueue(x, q) => NoRepeats(Append(q, x))
           /\ Len(Append(q, x)) = Len(q) + 1
<1> DEFINE r == Append(q, x)
<1>1. /\ r \in Seq(Client)
      /\ Len(r) = Len(q) + 1
      /\ Len(q) \in Nat
      /\ \A k \in 1 .. Len(q) : r[k] = q[k]
      /\ r[Len(q) + 1] = x
    OBVIOUS
<1>2. \A c : InQueue(c, r) <=> InQueue(c, q) \/ c = x
    BY <1>1 DEF InQueue
<1>3. NoRepeats(q) /\ ~InQueue(x, q) => NoRepeats(r)
    BY <1>1 DEF InQueue, NoRepeats
<1> QED BY <1>1, <1>2, <1>3

\* Moving a whole queue behind another.
LEMMA ConcatQueue ==
    ASSUME NEW q \in Seq(Client), NEW r \in Seq(Client)
    PROVE  /\ q \o r \in Seq(Client)
           /\ \A c : InQueue(c, q \o r) <=> InQueue(c, q) \/ InQueue(c, r)
           /\ /\ NoRepeats(q) /\ NoRepeats(r)
              /\ \A c \in Client : ~(InQueue(c, q) /\ InQueue(c, r))
              => NoRepeats(q \o r)
           /\ Len(q \o r) >= Len(q)
<1> DEFINE s == q \o r
<1>1. /\ s \in Seq(Client)
      /\ Len(q) \in Nat /\ Len(r) \in Nat
      /\ Len(s) = Len(q) + Len(r)
      /\ \A k \in 1 .. Len(q) : s[k] = q[k] /\ q[k] \in Client
      /\ \A k \in 1 .. Len(r) : s[Len(q) + k] = r[k] /\ r[k] \in Client
    OBVIOUS
<1>2. \A k \in 1 .. Len(s) : \/ k \in 1 .. Len(q) /\ s[k] = q[k]
                             \/ k - Len(q) \in 1 .. Len(r) /\ s[k] = r[k - Len(q)]
  <2> SUFFICES ASSUME NEW k \in 1 .. Len(s), k > Len(q)
               PROVE  k - Len(q) \in 1 .. Len(r) /\ s[k] = r[k - Len(q)]
      BY <1>1
  <2>1. k - Len(q) \in 1 .. Len(r) /\ Len(q) + (k - Len(q)) = k
      BY <1>1
  <2> QED BY <1>1, <2>1
<1> HIDE DEF s
<1>3. ASSUME NEW c PROVE InQueue(c, s) <=> InQueue(c, q) \/ InQueue(c, r)
  <2>1. ASSUME InQueue(c, s) PROVE InQueue(c, q) \/ InQueue(c, r)
      BY <1>2, <2>1 DEF InQueue
  <2>2. ASSUME InQueue(c, q) PROVE InQueue(c, s)
      BY <1>1, <2>2 DEF InQueue
  <2>3. ASSUME InQueue(c, r) PROVE InQueue(c, s)
    <3>1. PICK k \in 1 .. Len(r) : r[k] = c
        BY <2>3 DEF InQueue
    <3>2. Len(q) + k \in 1 .. Len(s) /\ s[Len(q) + k] = c
        BY <1>1, <3>1
    <3> QED BY <3>2 DEF InQueue
  <2> QED BY <2>1, <2>2, <2>3
<1>4. ASSUME NoRepeats(q), NoRepeats(r),
             \A c \in Client : ~(InQueue(c, q) /\ InQueue(c, r)),
             NEW k \in 1 .. Len(s), NEW n \in 1 .. Len(s), s[k] = s[n]
      PROVE  k = n
  <2>1. CASE k \in 1 .. Len(q) /\ n \in 1 .. Len(q)
      BY <1>1, <1>4, <2>1 DEF NoRepeats
  <2>2. CASE k \notin 1 .. Len(q) /\ n \notin 1 .. Len(q)
    <3>1. k - Len(q) = n - Len(q)
        BY <1>2, <1>4, <2>2 DEF NoRepeats
    <3> QED BY <1>1, <3>1
  <2>3. CASE k \in 1 .. Len(q) /\ n \notin 1 .. Len(q)
    <3>1. s[k] = q[k] /\ q[k] \in Client /\ InQueue(s[k], q)
        BY <1>1, <2>3 DEF InQueue
    <3>2. InQueue(s[n], r)
        BY <1>2, <2>3 DEF InQueue
    <3> QED BY <1>4, <3>1, <3>2
  <2>4. CASE k \notin 1 .. Len(q) /\ n \in 1 .. Len(q)
    <3>1. s[n] = q[n] /\ q[n] \in Client /\ InQueue(s[n], q)
        BY <1>1, <2>4 DEF InQueue
    <3>2. InQueue(s[k], r)
        BY <1>2, <2>4 DEF InQueue
    <3> QED BY <1>4, <3>1, <3>2
  <2> QED BY <2>1, <2>2, <2>3, <2>4
<1> QED BY <1>1, <1>3, <1>4 DEF NoRepeats, s

\* List::Remove takes the first client away, and only that one.
LEMMA RemoveQueue ==
    ASSUME NEW q \in Seq(Client), q # <<>>
    PROVE  /\ Head(q) \in Client
           /\ Tail(q) \in Seq(Client)
           /\ Len(Tail(q)) < Len(q)
           /\ InQueue(Head(q), q)
           /\ NoRepeats(q) =>
                /\ NoRepeats(Tail(q))
                /\ \A c : InQueue(c, Tail(q)) <=> InQueue(c, q) /\ c # Head(q)
<1> DEFINE r == Tail(q)
<1>1. /\ r \in Seq(Client)
      /\ Len(q) \in Nat /\ Len(q) > 0
      /\ Len(r) = Len(q) - 1
      /\ \A k \in 1 .. Len(r) : r[k] = q[k + 1]
      /\ Head(q) = q[1]
    OBVIOUS
<1>2. InQueue(Head(q), q) /\ Head(q) \in Client
    BY <1>1 DEF InQueue
<1>3. ASSUME NoRepeats(q) PROVE NoRepeats(r)
    BY <1>1, <1>3 DEF NoRepeats
<1>4. ASSUME NoRepeats(q), NEW c
      PROVE  InQueue(c, r) <=> InQueue(c, q) /\ c # Head(q)
  <2>1. ASSUME InQueue(c, r) PROVE InQueue(c, q) /\ c # Head(q)
    <3>1. PICK k \in 1 .. Len(r) : r[k] = c
        BY <2>1 DEF InQueue
    <3>2. q[k + 1] = c /\ k + 1 \in 1 .. Len(q) /\ k + 1 # 1
        BY <1>1, <3>1
    <3> QED BY <1>1, <1>4, <3>2 DEF InQueue, NoRepeats
  <2>2. ASSUME InQueue(c, q), c # Head(q) PROVE InQueue(c, r)
    <3>1. PICK k \in 1 .. Len(q) : q[k] = c
        BY <2>2 DEF InQueue
    <3>2. k - 1 \in 1 .. Len(r) /\ r[k - 1] = c
        BY <1>1, <2>2, <3>1
    <3> QED BY <3>2 DEF InQueue
  <2> QED BY <2>1, <2>2
<1> QED BY <1>1, <1>2, <1>3, <1>4

-----------------------------------------------------------------------------
(***************************************************************************)
(* The tables.                                                             *)
(***************************************************************************)

\* A valid index finds a lock.
LEMMA LockAtType ==
    ASSUME TypeOK, NEW i \in LockIndexes
    PROVE  /\ i \in Nat /\ i < Len(serverLockTable)
           /\ LockAt(i) \in ServerLock
           /\ LockAt(i).waitQueue \in Seq(Client)
<1>1. /\ Len(serverLockTable) \in Nat
      /\ i + 1 \in 1 .. Len(serverLockTable)
      /\ i \in Nat /\ i < Len(serverLockTable)
    BY DEF TypeOK, LockIndexes
<1>2. LockAt(i) \in ServerLock
    BY <1>1 DEF TypeOK, LockAt
<1> QED BY <1>1, <1>2 DEF ServerLock

\* A valid index finds a condition variable.
LEMMA CVAtType ==
    ASSUME TypeOK, NEW v \in CVIndexes
    PROVE  /\ v \in Nat /\ v < Len(serverCVTable)
           /\ CVAt(v) \in ServerCV
           /\ CVAt(v).waitQueue \in Seq(Client)
<1>1. /\ Len(serverCVTable) \in Nat
      /\ v + 1 \in 1 .. Len(serverCVTable)
      /\ v \in Nat /\ v < Len(serverCVTable)
    BY DEF TypeOK, CVIndexes
<1>2. CVAt(v) \in ServerCV
    BY <1>1 DEF TypeOK, CVAt
<1> QED BY <1>1, <1>2 DEF ServerCV

\* Changing one lock leaves the others alone.
LEMMA SetLockTable ==
    ASSUME TypeOK, NEW i \in LockIndexes, NEW l \in ServerLock, SetLock(i, l)
    PROVE  /\ serverLockTable' \in Seq(ServerLock)
           /\ Len(serverLockTable') = Len(serverLockTable)
           /\ LockIndexes' = LockIndexes
           /\ LockAt(i)' = l
           /\ \A j \in LockIndexes : j # i => LockAt(j)' = LockAt(j)
<1>1. /\ Len(serverLockTable) \in Nat
      /\ i + 1 \in 1 .. Len(serverLockTable)
    BY DEF TypeOK, LockIndexes
<1>2. /\ serverLockTable' \in Seq(ServerLock)
      /\ Len(serverLockTable') = Len(serverLockTable)
      /\ \A k \in 1 .. Len(serverLockTable) :
            serverLockTable'[k] = IF k = i + 1 THEN l ELSE serverLockTable[k]
    BY <1>1 DEF TypeOK, SetLock
<1>3. LockIndexes' = LockIndexes
    BY <1>2 DEF LockIndexes
<1>4. \A j \in LockIndexes : j + 1 \in 1 .. Len(serverLockTable) /\ (j # i => j + 1 # i + 1)
    BY <1>1 DEF LockIndexes
<1> QED BY <1>1, <1>2, <1>3, <1>4 DEF LockAt

\* Changing one condition variable leaves the others alone.
LEMMA SetCVTable ==
    ASSUME TypeOK, NEW v \in CVIndexes, NEW w \in ServerCV, SetCV(v, w)
    PROVE  /\ serverCVTable' \in Seq(ServerCV)
           /\ CVIndexes' = CVIndexes
           /\ CVAt(v)' = w
           /\ \A u \in CVIndexes : u # v => CVAt(u)' = CVAt(u)
<1>1. /\ Len(serverCVTable) \in Nat
      /\ v + 1 \in 1 .. Len(serverCVTable)
    BY DEF TypeOK, CVIndexes
<1>2. /\ serverCVTable' \in Seq(ServerCV)
      /\ Len(serverCVTable') = Len(serverCVTable)
      /\ \A k \in 1 .. Len(serverCVTable) :
            serverCVTable'[k] = IF k = v + 1 THEN w ELSE serverCVTable[k]
    BY <1>1 DEF TypeOK, SetCV
<1>3. CVIndexes' = CVIndexes
    BY <1>2 DEF CVIndexes
<1>4. \A u \in CVIndexes : u + 1 \in 1 .. Len(serverCVTable) /\ (u # v => u + 1 # v + 1)
    BY <1>1 DEF CVIndexes
<1> QED BY <1>1, <1>2, <1>3, <1>4 DEF CVAt

\* A new lock comes behind the others.
LEMMA AddLock ==
    ASSUME TypeOK, NEW n \in LockName,
           serverLockTable' = Append(serverLockTable, NewServerLock(n))
    PROVE  /\ serverLockTable' \in Seq(ServerLock)
           /\ Len(serverLockTable') = Len(serverLockTable) + 1
           /\ Len(serverLockTable) \in Nat
           /\ LockIndexes' = LockIndexes \cup {Len(serverLockTable)}
           /\ Len(serverLockTable) \notin LockIndexes
           /\ serverLockTable'[Len(serverLockTable) + 1] = NewServerLock(n)
           /\ \A j \in LockIndexes : LockAt(j)' = LockAt(j)
<1>1. NewServerLock(n) \in ServerLock
    BY EmptyQueue DEF NewServerLock, ServerLock
<1>2. /\ Len(serverLockTable) \in Nat
      /\ serverLockTable' \in Seq(ServerLock)
      /\ Len(serverLockTable') = Len(serverLockTable) + 1
      /\ serverLockTable'[Len(serverLockTable) + 1] = NewServerLock(n)
      /\ \A k \in 1 .. Len(serverLockTable) : serverLockTable'[k] = serverLockTable[k]
    BY <1>1 DEF TypeOK
<1>3. /\ LockIndexes' = LockIndexes \cup {Len(serverLockTable)}
      /\ Len(serverLockTable) \notin LockIndexes
    BY <1>2 DEF LockIndexes
<1>4. \A j \in LockIndexes : j + 1 \in 1 .. Len(serverLockTable)
    BY <1>2 DEF LockIndexes
<1> QED BY <1>2, <1>3, <1>4 DEF LockAt

\* A new condition variable comes behind the others.
LEMMA AddCV ==
    ASSUME TypeOK, NEW n \in CVName,
           serverCVTable' = Append(serverCVTable, NewServerCV(n))
    PROVE  /\ serverCVTable' \in Seq(ServerCV)
           /\ Len(serverCVTable) \in Nat
           /\ CVIndexes' = CVIndexes \cup {Len(serverCVTable)}
           /\ Len(serverCVTable) \notin CVIndexes
           /\ serverCVTable'[Len(serverCVTable) + 1] = NewServerCV(n)
           /\ \A u \in CVIndexes : CVAt(u)' = CVAt(u)
<1>1. NewServerCV(n) \in ServerCV
    BY EmptyQueue DEF NewServerCV, ServerCV
<1>2. /\ Len(serverCVTable) \in Nat
      /\ serverCVTable' \in Seq(ServerCV)
      /\ Len(serverCVTable') = Len(serverCVTable) + 1
      /\ serverCVTable'[Len(serverCVTable) + 1] = NewServerCV(n)
      /\ \A k \in 1 .. Len(serverCVTable) : serverCVTable'[k] = serverCVTable[k]
    BY <1>1 DEF TypeOK
<1>3. /\ CVIndexes' = CVIndexes \cup {Len(serverCVTable)}
      /\ Len(serverCVTable) \notin CVIndexes
    BY <1>2 DEF CVIndexes
<1>4. \A u \in CVIndexes : u + 1 \in 1 .. Len(serverCVTable)
    BY <1>2 DEF CVIndexes
<1> QED BY <1>2, <1>3, <1>4 DEF CVAt

\* An int that is sent as a char arrives as an int that is not larger.
LEMMA AsCharType ==
    ASSUME NEW n \in Nat
    PROVE  /\ AsChar(n) \in Int
           /\ AsChar(n) <= n
           /\ 2 * n < CharRange => AsChar(n) = n
<1>1. CharRange \in Nat /\ CharRange > 0
    BY LockServerAssumption
<1>2. n % CharRange \in 0 .. CharRange - 1
    BY <1>1
<1>3. n % CharRange <= n
    BY <1>1
<1>4. 2 * n < CharRange => n % CharRange = n
    BY <1>1
<1> QED BY <1>1, <1>2, <1>3, <1>4 DEF AsChar

-----------------------------------------------------------------------------
(***************************************************************************)
(* The inductive invariant behind AnsweredOnce.                            *)
(***************************************************************************)
\* The name that a create call carries is a name of that kind.
CallNames ==
    \A c \in Client : /\ call[c].op = "createLock" => call[c].name \in LockName
                      /\ call[c].op = "createCV" => call[c].name \in CVName

\* Client c waits for a lock, or for a signal.
InLock(c) == \E i \in LockIndexes : InQueue(c, LockAt(i).waitQueue)
InCV(c) == \E v \in CVIndexes : InQueue(c, CVAt(v).waitQueue)

\* Who waits for a lock has called for it, and waits once.
LockQueues ==
    \A i \in LockIndexes :
        /\ NoRepeats(LockAt(i).waitQueue)
        /\ \A c \in Client : InQueue(c, LockAt(i).waitQueue) =>
              call[c].lock = i /\ call[c].op \in {"acquire", "wait"}

\* Who waits on a condition variable does so once, with the lock it is bound
\* to, and the condition variable has not been deleted.
CVQueues ==
    \A v \in CVIndexes :
        /\ NoRepeats(CVAt(v).waitQueue)
        /\ CVAt(v).freed => CVAt(v).waitQueue = <<>>
        /\ \A c \in Client : InQueue(c, CVAt(v).waitQueue) =>
              /\ call[c].op = "wait" /\ call[c].cv = v
              /\ call[c].lock = CVAt(v).serverLockIndex
              /\ call[c].lock \in LockIndexes

\* The answer to the call of client c is in one place, and somewhere as long
\* as nothing has been lost.
Placed(c) ==
    /\ c \in requests => replies[c] = <<>>
    /\ c \in requests \/ replies[c] # <<>> => ~InLock(c) /\ ~InCV(c)
    /\ ~(InLock(c) /\ InCV(c))
    /\ Len(replies[c]) <= 1
    /\ c \in requests \/ replies[c] # <<>> \/ InLock(c) \/ InCV(c) => call[c] # NoCall
    /\ call[c] # NoCall /\ ~undefined /\ lost = 0 =>
          c \in requests \/ replies[c] # <<>> \/ InLock(c) \/ InCV(c)

AllPlaced == \A c \in Client : Placed(c)

\* The answer to the call of client c was lost.
Stuck(c) ==
    /\ call[c] # NoCall
    /\ c \notin requests /\ replies[c] = <<>> /\ ~InLock(c) /\ ~InCV(c)

\* What a step may not do to answers: queue one that was not a request or
\* queued before, or find a lost one again.
AnswersMove ==
    \A c \in Client :
        /\ InLock(c)' \/ InCV(c)' => InLock(c) \/ InCV(c) \/ c \in requests
        /\ Stuck(c) => Stuck(c)'

AnswerInv == TypeOK /\ CallNames /\ LockQueues /\ CVQueues /\ AllPlaced

-----------------------------------------------------------------------------
(***************************************************************************)
(* The calls that a program makes.                                         *)
(***************************************************************************)

\* What a request of client c asks for, and with which lock.
LEMMA RequestFacts ==
    ASSUME TypeOK, NEW c \in Client, NEW r \in Requests(c)
    PROVE  /\ r \in Calls
           /\ r # NoCall
           /\ r.op = "createLock" => r.name \in LockName
           /\ r.op = "createCV" => r.name \in CVName
           /\ r.had => r.op \in {"release", "wait"} /\ r.lock \in held[c]
           /\ r.op \in {"release", "wait"} /\ ~r.had => r.lock \notin held[c]
           /\ r.op = "acquire" => r.lock \in known[c]
           /\ r.lock \in known[c] \cup held[c] \cup {-1}
<1>0. /\ known[c] \subseteq Int /\ held[c] \subseteq Int /\ knownCV[c] \subseteq Int
      /\ \A i \in MayHold(c) : i \in known[c] \cup held[c] \cup {-1}
      /\ \A i \in MayAcquire(c) : i \in known[c]
    BY DEF TypeOK, MayHold, MayAcquire
<1>1. CASE r \in CreateLock_Syscall(c)
  <2>1. PICK n \in LockName :
            r = [op |-> "createLock", name |-> n, lock |-> -1, cv |-> -1, had |-> FALSE]
      BY <1>1 DEF CreateLock_Syscall, NoCall
  <2>2. r.op = "createLock" /\ r.name = n /\ r.lock = -1 /\ r.had = (FALSE)
      BY <2>1
  <2>3. r \in Calls
      BY <1>0, <2>1 DEF Calls, AllOps
  <2>4. r # NoCall
      BY <2>2 DEF NoCall
  <2> QED BY <1>0, <2>1, <2>2, <2>3, <2>4
<1>2. CASE r \in DestroyLock_Syscall(c)
  <2>1. PICK i \in known[c] :
            r = [op |-> "destroyLock", name |-> NULL, lock |-> i, cv |-> -1, had |-> FALSE]
      BY <1>2 DEF DestroyLock_Syscall, NoCall
  <2>2. r.op = "destroyLock" /\ r.name = NULL /\ r.lock = i /\ r.had = (FALSE)
      BY <2>1
  <2>3. r \in Calls
      BY <1>0, <2>1 DEF Calls, AllOps
  <2>4. r # NoCall
      BY <2>2 DEF NoCall
  <2> QED BY <1>0, <2>1, <2>2, <2>3, <2>4
<1>3. CASE r \in Acquire_Syscall(c)
  <2>1. PICK i \in MayAcquire(c) :
            r = [op |-> "acquire", name |-> NULL, lock |-> i, cv |-> -1, had |-> FALSE]
      BY <1>3 DEF Acquire_Syscall, NoCall
  <2>2. r.op = "acquire" /\ r.name = NULL /\ r.lock = i /\ r.had = (FALSE)
      BY <2>1
  <2>3. r \in Calls
      BY <1>0, <2>1 DEF Calls, AllOps
  <2>4. r # NoCall
      BY <2>2 DEF NoCall
  <2> QED BY <1>0, <2>1, <2>2, <2>3, <2>4
<1>4. CASE r \in Release_Syscall(c)
  <2>1. PICK i \in MayHold(c) :
            r = [op |-> "release", name |-> NULL, lock |-> i, cv |-> -1, had |-> i \in held[c]]
      BY <1>4 DEF Release_Syscall, NoCall
  <2>2. r.op = "release" /\ r.name = NULL /\ r.lock = i /\ r.had = (i \in held[c])
      BY <2>1
  <2>3. r \in Calls
      BY <1>0, <2>1 DEF Calls, AllOps
  <2>4. r # NoCall
      BY <2>2 DEF NoCall
  <2> QED BY <1>0, <2>1, <2>2, <2>3, <2>4
<1>5. CASE r \in CreateCondition_Syscall(c)
  <2>1. PICK n \in CVName :
            r = [op |-> "createCV", name |-> n, lock |-> -1, cv |-> -1, had |-> FALSE]
      BY <1>5 DEF CreateCondition_Syscall, NoCall
  <2>2. r.op = "createCV" /\ r.name = n /\ r.lock = -1 /\ r.had = (FALSE)
      BY <2>1
  <2>3. r \in Calls
      BY <1>0, <2>1 DEF Calls, AllOps
  <2>4. r # NoCall
      BY <2>2 DEF NoCall
  <2> QED BY <1>0, <2>1, <2>2, <2>3, <2>4
<1>6. CASE r \in DestroyCondition_Syscall(c)
  <2>1. PICK v \in knownCV[c] :
            r = [op |-> "destroyCV", name |-> NULL, lock |-> -1, cv |-> v, had |-> FALSE]
      BY <1>6 DEF DestroyCondition_Syscall, NoCall
  <2>2. r.op = "destroyCV" /\ r.name = NULL /\ r.lock = -1 /\ r.had = (FALSE)
      BY <2>1
  <2>3. r \in Calls
      BY <1>0, <2>1 DEF Calls, AllOps
  <2>4. r # NoCall
      BY <2>2 DEF NoCall
  <2> QED BY <1>0, <2>1, <2>2, <2>3, <2>4
<1>7. CASE r \in Wait_Syscall(c)
  <2>1. PICK v \in knownCV[c], i \in MayHold(c) :
            r = [op |-> "wait", name |-> NULL, lock |-> i, cv |-> v, had |-> i \in held[c]]
      BY <1>7 DEF Wait_Syscall
  <2>2. r.op = "wait" /\ r.name = NULL /\ r.lock = i /\ r.had = (i \in held[c])
      BY <2>1
  <2>3. r \in Calls
      BY <1>0, <2>1 DEF Calls, AllOps
  <2>4. r # NoCall
      BY <2>2 DEF NoCall
  <2> QED BY <1>0, <2>1, <2>2, <2>3, <2>4
<1>8. CASE r \in Signal_Syscall(c)
  <2>1. PICK v \in knownCV[c], i \in MayHold(c) :
            r = [op |-> "signal", name |-> NULL, lock |-> i, cv |-> v, had |-> FALSE]
      BY <1>8 DEF Signal_Syscall
  <2>2. r.op = "signal" /\ r.name = NULL /\ r.lock = i /\ r.had = (FALSE)
      BY <2>1
  <2>3. r \in Calls
      BY <1>0, <2>1 DEF Calls, AllOps
  <2>4. r # NoCall
      BY <2>2 DEF NoCall
  <2> QED BY <1>0, <2>1, <2>2, <2>3, <2>4
<1>9. CASE r \in Broadcast_Syscall(c)
  <2>1. PICK v \in knownCV[c], i \in MayHold(c) :
            r = [op |-> "broadcast", name |-> NULL, lock |-> i, cv |-> v, had |-> FALSE]
      BY <1>9 DEF Broadcast_Syscall
  <2>2. r.op = "broadcast" /\ r.name = NULL /\ r.lock = i /\ r.had = (FALSE)
      BY <2>1
  <2>3. r \in Calls
      BY <1>0, <2>1 DEF Calls, AllOps
  <2>4. r # NoCall
      BY <2>2 DEF NoCall
  <2> QED BY <1>0, <2>1, <2>2, <2>3, <2>4
<1> QED BY <1>1, <1>2, <1>3, <1>4, <1>5, <1>6, <1>7, <1>8, <1>9 DEF Requests

\* The call of a client, field by field.
LEMMA CallType ==
    ASSUME TypeOK, NEW c \in Client
    PROVE  /\ call[c] \in Calls
           /\ call[c].lock \in Int /\ call[c].cv \in Int
           /\ call[c].had \in BOOLEAN
<1>1. call[c] \in Calls
    BY DEF TypeOK
<1> QED BY <1>1 DEF Calls

\* What every handler does apart from its own work.
LEMMA HandlesFacts ==
    ASSUME TypeOK, NEW c \in Client, NEW op, Handles(c, op)
    PROVE  /\ c \in requests /\ ~undefined
           /\ requests' = requests \ {c}
           /\ call[c].op = op
           /\ UNCHANGED <<undefined, lost, call, known, knownCV, held>>
BY DEF Handles, Takes, programVars

\* A lock that is given up goes to the head of its queue.
LEMMA GivenUpFacts ==
    ASSUME NEW l \in ServerLock
    PROVE  /\ GivenUp(l) \in ServerLock
           /\ Granted(l) \subseteq Client
           /\ l.waitQueue = <<>> =>
                /\ GivenUp(l).owner = NULL /\ GivenUp(l).available
                /\ GivenUp(l).waitQueue = <<>> /\ Granted(l) = {}
           /\ l.waitQueue # <<>> =>
                /\ GivenUp(l).owner = MachineOf[Head(l.waitQueue)]
                /\ GivenUp(l).available = l.available
                /\ GivenUp(l).waitQueue = Tail(l.waitQueue)
                /\ Granted(l) = {Head(l.waitQueue)}
           /\ GivenUp(l).freed = l.freed
           /\ GivenUp(l).name = l.name
           /\ NoRepeats(l.waitQueue) =>
                /\ NoRepeats(GivenUp(l).waitQueue)
                /\ \A d : InQueue(d, GivenUp(l).waitQueue) <=>
                             InQueue(d, l.waitQueue) /\ d \notin Granted(l)
                /\ \A d \in Granted(l) : InQueue(d, l.waitQueue)
<1>1. l.waitQueue \in Seq(Client)
    BY DEF ServerLock
<1>2. CASE l.waitQueue = <<>>
  <2>1. GivenUp(l) = [l EXCEPT !.owner = NULL, !.available = TRUE] /\ Granted(l) = {}
      BY <1>2 DEF GivenUp, Granted
  <2>2. GivenUp(l) \in ServerLock
      BY <2>1 DEF ServerLock
  <2>3. /\ GivenUp(l).owner = NULL /\ GivenUp(l).available
        /\ GivenUp(l).waitQueue = <<>> /\ GivenUp(l).freed = l.freed
        /\ GivenUp(l).name = l.name
      BY <1>2, <2>1 DEF ServerLock
  <2> QED BY <1>2, <2>1, <2>2, <2>3, EmptyQueue
<1>3. CASE l.waitQueue # <<>>
  <2> DEFINE h == Head(l.waitQueue)
             q == Tail(l.waitQueue)
  <2>1. /\ GivenUp(l) = [l EXCEPT !.owner = MachineOf[h], !.waitQueue = q]
        /\ Granted(l) = {h}
      BY <1>3 DEF GivenUp, Granted, NewOwner
  <2>2. h \in Client /\ q \in Seq(Client) /\ MachineOf[h] \in Machine
      BY <1>1, <1>3, RemoveQueue, LockServerAssumption
  <2>3. /\ GivenUp(l) \in ServerLock
        /\ GivenUp(l).owner = MachineOf[h] /\ GivenUp(l).available = l.available
        /\ GivenUp(l).waitQueue = q /\ GivenUp(l).freed = l.freed
        /\ GivenUp(l).name = l.name
    <3> HIDE DEF h, q
    <3> QED BY <2>1, <2>2 DEF ServerLock
  <2>4. NoRepeats(l.waitQueue) =>
          /\ NoRepeats(q)
          /\ \A d : InQueue(d, q) <=> InQueue(d, l.waitQueue) /\ d # h
          /\ InQueue(h, l.waitQueue)
      BY <1>1, <1>3, RemoveQueue
  <2> QED BY <1>3, <2>1, <2>2, <2>3, <2>4
<1> QED BY <1>2, <1>3

-----------------------------------------------------------------------------
(***************************************************************************)
(* How answers move.                                                       *)
(***************************************************************************)

\* Changing a lock's queue changes who waits for a lock accordingly.
LEMMA InLockSet ==
    ASSUME TypeOK, LockQueues, NEW i \in LockIndexes, NEW l \in ServerLock, SetLock(i, l)
    PROVE  \A d \in Client : InLock(d)' <=>
              \/ InLock(d) /\ ~InQueue(d, LockAt(i).waitQueue)
              \/ InQueue(d, l.waitQueue)
<1> SUFFICES ASSUME NEW d \in Client
             PROVE  InLock(d)' <=> \/ InLock(d) /\ ~InQueue(d, LockAt(i).waitQueue)
                                   \/ InQueue(d, l.waitQueue)
    OBVIOUS
<1>1. /\ LockIndexes' = LockIndexes
      /\ LockAt(i)' = l
      /\ \A j \in LockIndexes : j # i => LockAt(j)' = LockAt(j)
    BY SetLockTable
<1>2. InLock(d)' <=> \E j \in LockIndexes : InQueue(d, (LockAt(j)').waitQueue)
    BY <1>1 DEF InLock, InQueue
<1>3. \A j \in LockIndexes : /\ InQueue(d, LockAt(j).waitQueue)
                             /\ InQueue(d, LockAt(i).waitQueue)
                             => j = i
    BY DEF LockQueues
<1> QED BY <1>1, <1>2, <1>3 DEF InLock

\* The same for condition variables.
LEMMA InCVSet ==
    ASSUME TypeOK, CVQueues, NEW v \in CVIndexes, NEW w \in ServerCV, SetCV(v, w)
    PROVE  \A d \in Client : InCV(d)' <=>
              \/ InCV(d) /\ ~InQueue(d, CVAt(v).waitQueue)
              \/ InQueue(d, w.waitQueue)
<1> SUFFICES ASSUME NEW d \in Client
             PROVE  InCV(d)' <=> \/ InCV(d) /\ ~InQueue(d, CVAt(v).waitQueue)
                                 \/ InQueue(d, w.waitQueue)
    OBVIOUS
<1>1. /\ CVIndexes' = CVIndexes
      /\ CVAt(v)' = w
      /\ \A u \in CVIndexes : u # v => CVAt(u)' = CVAt(u)
    BY SetCVTable
<1>2. InCV(d)' <=> \E u \in CVIndexes : InQueue(d, (CVAt(u)').waitQueue)
    BY <1>1 DEF InCV, InQueue
<1>3. \A u \in CVIndexes : /\ InQueue(d, CVAt(u).waitQueue)
                           /\ InQueue(d, CVAt(v).waitQueue)
                           => u = v
    BY DEF CVQueues
<1> QED BY <1>1, <1>2, <1>3 DEF InCV

\* A lock whose new queue is right.
LEMMA LockQueuesSet ==
    ASSUME TypeOK, LockQueues, NEW i \in LockIndexes, NEW l \in ServerLock, SetLock(i, l),
           UNCHANGED call, NoRepeats(l.waitQueue),
           \A d \in Client : InQueue(d, l.waitQueue) =>
              call[d].lock = i /\ call[d].op \in {"acquire", "wait"}
    PROVE  LockQueues'
<1>1. /\ LockIndexes' = LockIndexes
      /\ LockAt(i)' = l
      /\ \A j \in LockIndexes : j # i => LockAt(j)' = LockAt(j)
    BY SetLockTable
<1>2. ASSUME NEW j \in LockIndexes
      PROVE  /\ NoRepeats((LockAt(j)').waitQueue)
             /\ \A d \in Client : InQueue(d, (LockAt(j)').waitQueue) =>
                    call[d].lock = j /\ call[d].op \in {"acquire", "wait"}
    BY <1>1 DEF LockQueues
<1> QED BY <1>1, <1>2 DEF LockQueues, NoRepeats, InQueue

\* A condition variable whose new queue is right.
LEMMA CVQueuesSet ==
    ASSUME TypeOK, CVQueues, NEW v \in CVIndexes, NEW w \in ServerCV, SetCV(v, w),
           UNCHANGED call, LockIndexes \subseteq LockIndexes',
           NoRepeats(w.waitQueue), w.freed => w.waitQueue = <<>>,
           \A d \in Client : InQueue(d, w.waitQueue) =>
              /\ call[d].op = "wait" /\ call[d].cv = v
              /\ call[d].lock = w.serverLockIndex /\ call[d].lock \in LockIndexes
    PROVE  CVQueues'
<1>1. /\ CVIndexes' = CVIndexes
      /\ CVAt(v)' = w
      /\ \A u \in CVIndexes : u # v => CVAt(u)' = CVAt(u)
    BY SetCVTable
<1>2. ASSUME NEW u \in CVIndexes
      PROVE  /\ NoRepeats((CVAt(u)').waitQueue)
             /\ (CVAt(u)').freed => (CVAt(u)').waitQueue = <<>>
             /\ \A d \in Client : InQueue(d, (CVAt(u)').waitQueue) =>
                    /\ call[d].op = "wait" /\ call[d].cv = u
                    /\ call[d].lock = (CVAt(u)').serverLockIndex
                    /\ call[d].lock \in LockIndexes'
    BY <1>1 DEF CVQueues
<1> QED BY <1>1, <1>2 DEF CVQueues, NoRepeats, InQueue

(***************************************************************************)
(* A handler of client c sends the replies S, queues ML for a lock and MV  *)
(* for a signal: clients whose answer was where they are taken from.       *)
(***************************************************************************)
LEMMA PlacedMove ==
    ASSUME TypeOK, AllPlaced, NEW c \in Client, c \in requests,
           NEW S \in SUBSET Client, NEW ML, NEW MV, NEW v \in Int,
           requests' = requests \ {c}, UNCHANGED <<call, undefined, lost>>,
           Reply(S, v),
           \A d \in Client : InLock(d)' <=> (InLock(d) /\ d \notin S) \/ d \in ML,
           \A d \in Client : InCV(d)' <=> (InCV(d) /\ d \notin ML) \/ d \in MV,
           \A d \in S : d = c \/ InLock(d),
           \A d \in ML : d = c \/ InCV(d),
           \A d \in MV : d = c,
           c \in S \/ c \in ML \/ c \in MV,
           \A d \in Client : /\ ~(d \in S /\ d \in ML) /\ ~(d \in S /\ d \in MV)
                             /\ ~(d \in ML /\ d \in MV)
    PROVE  /\ AllPlaced' /\ AnswersMove
           /\ replies' \in [Client -> Seq(Int)]
<1>1. ASSUME NEW d \in Client
      PROVE  /\ replies'[d] = IF d \in S THEN Append(replies[d], v) ELSE replies[d]
             /\ replies[d] \in Seq(Int)
             /\ replies'[d] \in Seq(Int)
    BY DEF Reply, TypeOK
<1>2. replies' \in [Client -> Seq(Int)]
    BY <1>1 DEF Reply
<1>3. ASSUME NEW d \in Client
      PROVE  /\ Placed(d)'
             /\ InLock(d)' \/ InCV(d)' => InLock(d) \/ InCV(d) \/ d \in requests
             /\ Stuck(d) => Stuck(d)'
  <2>1. Placed(d) /\ Placed(c)
      BY DEF AllPlaced
  <2>2. d \in S => /\ replies[d] = <<>>
                   /\ Len(replies'[d]) = 1 /\ replies'[d] # <<>>
    <3>1. d \in S => replies[d] = <<>>
        BY <2>1 DEF Placed
    <3>2. d \in S => replies'[d] = Append(<<>>, v)
        BY <1>1, <3>1
    <3>3. Len(Append(<<>>, v)) = 1 /\ Append(<<>>, v) # <<>>
        OBVIOUS
    <3> QED BY <3>1, <3>2, <3>3
  <2>3. d \notin S => replies'[d] = replies[d]
      BY <1>1
  <2>4. d # c => (d \in requests' <=> d \in requests)
      OBVIOUS
  <2>5. c \notin requests'
      OBVIOUS
  <2>6. call'[d] = call[d] /\ (undefined' <=> undefined) /\ lost' = lost
      OBVIOUS
  <2>7. Len(replies'[d]) <= 1
    <3>1. Len(replies[d]) <= 1
        BY <2>1, Zenon DEF Placed
    <3>2. 1 <= 1
        OBVIOUS
    <3> QED BY <2>2, <2>3, <3>1, <3>2, Zenon
  <2>8. /\ InLock(d)' <=> (InLock(d) /\ d \notin S) \/ d \in ML
        /\ InCV(d)' <=> (InCV(d) /\ d \notin ML) \/ d \in MV
        /\ d \in S => d = c \/ InLock(d)
        /\ d \in ML => d = c \/ InCV(d)
        /\ d \in MV => d = c
        /\ d = c => c \in S \/ c \in ML \/ c \in MV
        /\ ~(d \in S /\ d \in ML) /\ ~(d \in S /\ d \in MV) /\ ~(d \in ML /\ d \in MV)
        /\ d = c => d \in requests
      OBVIOUS
  <2>9. Placed(d)'
      BY <2>1, <2>2, <2>3, <2>4, <2>5, <2>6, <2>7, <2>8, Zenon DEF Placed
  <2>10. Stuck(d) => Stuck(d)'
      BY <2>3, <2>4, <2>6, <2>8, Zenon DEF Stuck
  <2> QED BY <2>8, <2>9, <2>10
<1> QED BY <1>2, <1>3 DEF AllPlaced, AnswersMove

-----------------------------------------------------------------------------
(***************************************************************************)
(* The server's handlers keep AnswerInv.                                   *)
(***************************************************************************)

\* What remains to be shown of the types after a handler.
LEMMA HandlerTypes ==
    ASSUME TypeOK, CallNames, NEW c \in Client, requests' = requests \ {c},
           UNCHANGED <<undefined, lost, call, known, knownCV, held>>,
           serverLockTable' \in Seq(ServerLock), serverCVTable' \in Seq(ServerCV),
           replies' \in [Client -> Seq(Int)]
    PROVE  TypeOK' /\ CallNames'
BY DEF TypeOK, CallNames

\* Unchanged tables leave every queue as it is.
LEMMA TablesKept ==
    ASSUME UNCHANGED tables
    PROVE  /\ UNCHANGED <<serverLockTable, serverCVTable>>
           /\ LockIndexes' = LockIndexes /\ CVIndexes' = CVIndexes
           /\ \A d : InLock(d)' <=> InLock(d)
           /\ \A d : InCV(d)' <=> InCV(d)
           /\ UNCHANGED call => (LockQueues => LockQueues') /\ (CVQueues => CVQueues')
<1>1. UNCHANGED <<serverLockTable, serverCVTable>>
    BY DEF tables
<1>2. LockIndexes' = LockIndexes /\ CVIndexes' = CVIndexes
    BY <1>1 DEF LockIndexes, CVIndexes
<1>3. \A j : LockAt(j)' = LockAt(j) /\ CVAt(j)' = CVAt(j)
    BY <1>1 DEF LockAt, CVAt
<1>4. \A d : (InLock(d)' <=> InLock(d)) /\ (InCV(d)' <=> InCV(d))
    BY <1>2, <1>3 DEF InLock, InCV, InQueue
<1>5. UNCHANGED call => (LockQueues => LockQueues') /\ (CVQueues => CVQueues')
    BY <1>2, <1>3 DEF LockQueues, CVQueues, InQueue, NoRepeats
<1> QED BY <1>1, <1>2, <1>4, <1>5

\* Unchanged locks, for handlers that work on condition variables.
LEMMA LocksKept ==
    ASSUME UNCHANGED serverLockTable
    PROVE  /\ LockIndexes' = LockIndexes
           /\ \A d : InLock(d)' <=> InLock(d)
           /\ UNCHANGED call => (LockQueues => LockQueues')
<1>1. LockIndexes' = LockIndexes /\ \A j : LockAt(j)' = LockAt(j)
    BY DEF LockIndexes, LockAt
<1> QED BY <1>1 DEF InLock, InQueue, LockQueues, NoRepeats

\* Unchanged condition variables, for handlers that work on locks.
LEMMA CVsKept ==
    ASSUME UNCHANGED serverCVTable
    PROVE  /\ CVIndexes' = CVIndexes
           /\ \A d : InCV(d)' <=> InCV(d)
           /\ UNCHANGED call /\ LockIndexes \subseteq LockIndexes' => (CVQueues => CVQueues')
<1>1. CVIndexes' = CVIndexes /\ \A j : CVAt(j)' = CVAt(j)
    BY DEF CVIndexes, CVAt
<1> QED BY <1>1 DEF InCV, InQueue, CVQueues, NoRepeats

\* A request that is answered while the queues stay as they are.
LEMMA AnswerPlaced ==
    ASSUME AnswerInv, NEW c \in Client, NEW op, Handles(c, op), NEW v \in Int, Reply({c}, v),
           \A d \in Client : InLock(d)' <=> InLock(d),
           \A d \in Client : InCV(d)' <=> InCV(d)
    PROVE  AllPlaced' /\ AnswersMove /\ replies' \in [Client -> Seq(Int)]
<1>1. /\ c \in requests /\ requests' = requests \ {c}
      /\ UNCHANGED <<call, undefined, lost>>
    BY HandlesFacts DEF AnswerInv
<1>2. ~InLock(c)
    BY <1>1, Zenon DEF AnswerInv, AllPlaced, Placed
<1>3. PICK S \in SUBSET Client : S = {c}
    OBVIOUS
<1>4. PICK E \in SUBSET Client : E = {}
    OBVIOUS
<1>5. \A d \in Client : InLock(d)' <=> (InLock(d) /\ d \notin S) \/ d \in E
    BY <1>2, <1>3, <1>4
<1>6. \A d \in Client : InCV(d)' <=> (InCV(d) /\ d \notin E) \/ d \in E
    BY <1>4
<1>7. /\ \A d \in S : d = c \/ InLock(d)
      /\ \A d \in E : d = c \/ InCV(d)
      /\ \A d \in E : d = c
      /\ c \in S \/ c \in E \/ c \in E
      /\ \A d \in Client : /\ ~(d \in S /\ d \in E) /\ ~(d \in S /\ d \in E)
                           /\ ~(d \in E /\ d \in E)
    BY <1>3, <1>4
<1>8. Reply(S, v) /\ TypeOK /\ AllPlaced
    BY <1>3 DEF AnswerInv
<1> QED BY <1>1, <1>5, <1>6, <1>7, <1>8, PlacedMove

\* A call that the server refuses, or that finds what it would create.
LEMMA AnswerKeeps ==
    ASSUME AnswerInv, NEW c \in Client, NEW op, Handles(c, op), NEW v \in Int, Reply({c}, v),
           UNCHANGED tables
    PROVE  AnswerInv' /\ AnswersMove
<1>1. /\ requests' = requests \ {c}
      /\ UNCHANGED <<undefined, lost, call, known, knownCV, held>>
    BY HandlesFacts DEF AnswerInv
<1>2. AllPlaced' /\ AnswersMove /\ replies' \in [Client -> Seq(Int)]
    BY AnswerPlaced, TablesKept
<1>3. LockQueues' /\ CVQueues'
    BY <1>1, TablesKept DEF AnswerInv
<1>4. TypeOK' /\ CallNames'
    BY <1>1, <1>2, TablesKept, HandlerTypes DEF AnswerInv, TypeOK
<1> QED BY <1>2, <1>3, <1>4 DEF AnswerInv

\* The reply Ok is an int, and so is the index of a table.
LEMMA ReplyTypes ==
    ASSUME TypeOK
    PROVE  /\ Ok \in Int
           /\ \A i \in LockIndexes : i \in Nat /\ AsChar(i) \in Int
           /\ \A v \in CVIndexes : v \in Nat /\ AsChar(v) \in Int
           /\ AsChar(Len(serverLockTable)) \in Int
           /\ AsChar(Len(serverCVTable)) \in Int
<1>1. /\ \A i \in LockIndexes : i \in Nat
      /\ \A v \in CVIndexes : v \in Nat
      /\ Len(serverLockTable) \in Nat /\ Len(serverCVTable) \in Nat
    BY DEF TypeOK, LockIndexes, CVIndexes
<1> QED BY <1>1, AsCharType DEF Ok

\* A handler that changes a lock but not its queue.
LEMMA SetLockKeeps ==
    ASSUME AnswerInv, NEW c \in Client, NEW op, Handles(c, op), NEW v \in Int, Reply({c}, v),
           NEW i \in LockIndexes, NEW l \in ServerLock, SetLock(i, l),
           l.waitQueue = LockAt(i).waitQueue, UNCHANGED serverCVTable
    PROVE  AnswerInv' /\ AnswersMove
<1>1. /\ requests' = requests \ {c}
      /\ UNCHANGED <<undefined, lost, call, known, knownCV, held>>
    BY HandlesFacts DEF AnswerInv
<1>2. \A d \in Client : InLock(d)' <=> InLock(d)
    BY InLockSet DEF AnswerInv, InLock
<1>3. AllPlaced' /\ AnswersMove /\ replies' \in [Client -> Seq(Int)]
    BY <1>2, AnswerPlaced, CVsKept
<1>4. /\ serverLockTable' \in Seq(ServerLock)
      /\ LockIndexes' = LockIndexes
    BY SetLockTable DEF AnswerInv
<1>5. LockQueues'
  <2>1. NoRepeats(l.waitQueue) /\ \A d \in Client : InQueue(d, l.waitQueue) =>
            call[d].lock = i /\ call[d].op \in {"acquire", "wait"}
      BY DEF AnswerInv, LockQueues
  <2> QED BY <1>1, <2>1, LockQueuesSet DEF AnswerInv
<1>6. CVQueues'
    BY <1>1, <1>4, CVsKept DEF AnswerInv
<1>7. TypeOK' /\ CallNames'
    BY <1>1, <1>3, <1>4, HandlerTypes DEF AnswerInv, TypeOK
<1> QED BY <1>3, <1>5, <1>6, <1>7 DEF AnswerInv

\* CreateLock.
LEMMA CreateLockKeeps ==
    ASSUME AnswerInv, NEW c \in Client, CreateLock(c)
    PROVE  AnswerInv' /\ AnswersMove
<1>1. /\ Handles(c, "createLock")
      /\ requests' = requests \ {c}
      /\ call[c].op = "createLock"
      /\ UNCHANGED <<undefined, lost, call, known, knownCV, held>>
    BY HandlesFacts DEF AnswerInv, CreateLock
<1>2. PICK n \in LockName : n = call[c].name
    BY <1>1 DEF AnswerInv, CallNames
<1>3. CASE \E i \in LockIndexes : LockAt(i).name = n
  <2>1. PICK i \in LockIndexes : Reply({c}, AsChar(i))
      BY <1>2, <1>3 DEF CreateLock
  <2>2. PICK v \in Int : v = AsChar(i)
      BY ReplyTypes DEF AnswerInv
  <2>3. UNCHANGED tables
      BY <1>2, <1>3 DEF CreateLock
  <2> QED BY <1>1, <2>1, <2>2, <2>3, AnswerKeeps
<1>4. CASE ~\E i \in LockIndexes : LockAt(i).name = n
  <2>1. /\ serverLockTable' = Append(serverLockTable, NewServerLock(n))
        /\ Reply({c}, AsChar(Len(serverLockTable)))
        /\ UNCHANGED serverCVTable
      BY <1>2, <1>4 DEF CreateLock
  <2>2. PICK v \in Int : v = AsChar(Len(serverLockTable))
      BY ReplyTypes DEF AnswerInv
  <2>3. PICK m \in Nat : m = Len(serverLockTable)
      BY DEF AnswerInv, TypeOK
  <2>4. /\ serverLockTable' \in Seq(ServerLock)
        /\ LockIndexes' = LockIndexes \cup {m}
        /\ (LockAt(m)').waitQueue = <<>>
        /\ \A j \in LockIndexes : LockAt(j)' = LockAt(j)
    <3>1. NewServerLock(n).waitQueue = <<>>
        BY DEF NewServerLock
    <3> QED BY <2>1, <2>3, <3>1, AddLock DEF AnswerInv, LockAt
  <2>5. \A d \in Client : InLock(d)' <=> InLock(d)
    <3>1. \A d : InLock(d)' <=> \E j \in LockIndexes' : InQueue(d, (LockAt(j)').waitQueue)
        BY DEF InLock, InQueue
    <3> QED BY <2>4, <3>1, EmptyQueue DEF InLock
  <2>6. AllPlaced' /\ AnswersMove /\ replies' \in [Client -> Seq(Int)]
      BY <1>1, <2>1, <2>2, <2>5, AnswerPlaced, CVsKept
  <2>7. LockQueues'
    <3>1. ASSUME NEW j \in LockIndexes'
          PROVE  /\ NoRepeats((LockAt(j)').waitQueue)
                 /\ \A d \in Client : InQueue(d, (LockAt(j)').waitQueue) =>
                        call[d].lock = j /\ call[d].op \in {"acquire", "wait"}
        BY <2>4, EmptyQueue DEF AnswerInv, LockQueues
    <3> QED BY <1>1, <3>1 DEF LockQueues, NoRepeats, InQueue
  <2>8. CVQueues'
      BY <1>1, <2>1, <2>4, CVsKept DEF AnswerInv
  <2>9. TypeOK' /\ CallNames'
      BY <1>1, <2>1, <2>4, <2>6, HandlerTypes DEF AnswerInv, TypeOK
  <2> QED BY <2>6, <2>7, <2>8, <2>9 DEF AnswerInv
<1> QED BY <1>3, <1>4

\* CreateCV.
LEMMA CreateCVKeeps ==
    ASSUME AnswerInv, NEW c \in Client, CreateCV(c)
    PROVE  AnswerInv' /\ AnswersMove
<1>1. /\ Handles(c, "createCV")
      /\ requests' = requests \ {c}
      /\ call[c].op = "createCV"
      /\ UNCHANGED <<undefined, lost, call, known, knownCV, held>>
    BY HandlesFacts DEF AnswerInv, CreateCV
<1>2. PICK n \in CVName : n = call[c].name
    BY <1>1 DEF AnswerInv, CallNames
<1>3. CASE \E v \in CVIndexes : CVAt(v).name = n
  <2>1. PICK v \in CVIndexes : Reply({c}, AsChar(v))
      BY <1>2, <1>3 DEF CreateCV
  <2>2. PICK x \in Int : x = AsChar(v)
      BY ReplyTypes DEF AnswerInv
  <2>3. UNCHANGED tables
      BY <1>2, <1>3 DEF CreateCV
  <2> QED BY <1>1, <2>1, <2>2, <2>3, AnswerKeeps
<1>4. CASE ~\E v \in CVIndexes : CVAt(v).name = n
  <2>1. /\ serverCVTable' = Append(serverCVTable, NewServerCV(n))
        /\ Reply({c}, AsChar(Len(serverCVTable)))
        /\ UNCHANGED serverLockTable
      BY <1>2, <1>4 DEF CreateCV
  <2>2. PICK x \in Int : x = AsChar(Len(serverCVTable))
      BY ReplyTypes DEF AnswerInv
  <2>3. PICK m \in Nat : m = Len(serverCVTable)
      BY DEF AnswerInv, TypeOK
  <2>4. /\ serverCVTable' \in Seq(ServerCV)
        /\ CVIndexes' = CVIndexes \cup {m}
        /\ (CVAt(m)').waitQueue = <<>>
        /\ \A u \in CVIndexes : CVAt(u)' = CVAt(u)
    <3>1. NewServerCV(n).waitQueue = <<>>
        BY DEF NewServerCV
    <3> QED BY <2>1, <2>3, <3>1, AddCV DEF AnswerInv, CVAt
  <2>5. \A d \in Client : InCV(d)' <=> InCV(d)
    <3>1. \A d : InCV(d)' <=> \E u \in CVIndexes' : InQueue(d, (CVAt(u)').waitQueue)
        BY DEF InCV, InQueue
    <3> QED BY <2>4, <3>1, EmptyQueue DEF InCV
  <2>6. AllPlaced' /\ AnswersMove /\ replies' \in [Client -> Seq(Int)]
      BY <1>1, <2>1, <2>2, <2>5, AnswerPlaced, LocksKept
  <2>7. CVQueues'
    <3>1. ASSUME NEW u \in CVIndexes'
          PROVE  /\ NoRepeats((CVAt(u)').waitQueue)
                 /\ (CVAt(u)').freed => (CVAt(u)').waitQueue = <<>>
                 /\ \A d \in Client : InQueue(d, (CVAt(u)').waitQueue) =>
                        /\ call[d].op = "wait" /\ call[d].cv = u
                        /\ call[d].lock = (CVAt(u)').serverLockIndex
                        /\ call[d].lock \in LockIndexes
        BY <2>4, EmptyQueue DEF AnswerInv, CVQueues
    <3>2. LockIndexes' = LockIndexes
        BY <2>1, LocksKept
    <3> QED BY <1>1, <3>1, <3>2 DEF CVQueues, NoRepeats, InQueue
  <2>8. LockQueues'
      BY <1>1, <2>1, LocksKept DEF AnswerInv
  <2>9. TypeOK' /\ CallNames'
      BY <1>1, <2>1, <2>4, <2>6, HandlerTypes DEF AnswerInv, TypeOK
  <2> QED BY <2>6, <2>7, <2>8, <2>9 DEF AnswerInv
<1> QED BY <1>3, <1>4

\* DestroyLock.
LEMMA DestroyLockKeeps ==
    ASSUME AnswerInv, NEW c \in Client, DestroyLock(c)
    PROVE  AnswerInv' /\ AnswersMove
<1>1. /\ Handles(c, "destroyLock") /\ Reply({c}, Ok) /\ Ok \in Int
      /\ UNCHANGED serverCVTable
    BY ReplyTypes DEF DestroyLock, AnswerInv
<1>2. PICK i \in Int : i = call[c].lock
    BY CallType DEF AnswerInv
<1>3. CASE i \notin LockIndexes
    BY <1>1, <1>2, <1>3, AnswerKeeps DEF DestroyLock, tables
<1>4. CASE i \in LockIndexes
  <2>1. LockAt(i) \in ServerLock
      BY <1>4, LockAtType DEF AnswerInv
  <2>2. PICK l \in {[LockAt(i) EXCEPT !.freed = TRUE], [LockAt(i) EXCEPT !.toBeDeleted = TRUE]} :
            SetLock(i, l)
      BY <1>2, <1>4 DEF DestroyLock
  <2>3. l \in ServerLock /\ l.waitQueue = LockAt(i).waitQueue
      BY <2>1, <2>2 DEF ServerLock
  <2> QED BY <1>1, <1>4, <2>2, <2>3, SetLockKeeps
<1> QED BY <1>3, <1>4

\* DestroyCV.
LEMMA DestroyCVKeeps ==
    ASSUME AnswerInv, NEW c \in Client, DestroyCV(c)
    PROVE  AnswerInv' /\ AnswersMove
<1>1. /\ Handles(c, "destroyCV") /\ Reply({c}, Ok) /\ Ok \in Int
      /\ requests' = requests \ {c}
      /\ UNCHANGED <<undefined, lost, call, known, knownCV, held>>
      /\ UNCHANGED serverLockTable
    BY ReplyTypes, HandlesFacts DEF DestroyCV, AnswerInv
<1>2. PICK v \in Int : v = call[c].cv
    BY CallType DEF AnswerInv
<1>3. CASE v \notin CVIndexes
    BY <1>1, <1>2, <1>3, AnswerKeeps DEF DestroyCV, tables
<1>4. CASE v \in CVIndexes
  <2>1. CVAt(v) \in ServerCV
      BY <1>4, CVAtType DEF AnswerInv
  <2>2. PICK w \in {[CVAt(v) EXCEPT !.freed = TRUE], [CVAt(v) EXCEPT !.toBeDeleted = TRUE]} :
            SetCV(v, w) /\ (w = [CVAt(v) EXCEPT !.freed = TRUE] => CVAt(v).waitQueue = <<>>)
    <3>1. CASE CVAt(v).waitQueue = <<>>
        BY <1>2, <1>4, <3>1 DEF DestroyCV
    <3>2. CASE CVAt(v).waitQueue # <<>>
      <4>1. [CVAt(v) EXCEPT !.toBeDeleted = TRUE] # [CVAt(v) EXCEPT !.freed = TRUE]
            \/ CVAt(v).freed
          BY <2>1 DEF ServerCV
      <4>2. ~CVAt(v).freed
          BY <1>4, <3>2 DEF AnswerInv, CVQueues
      <4> QED BY <1>2, <1>4, <3>2, <4>1, <4>2 DEF DestroyCV
    <3> QED BY <3>1, <3>2
  <2>3. /\ w \in ServerCV /\ w.waitQueue = CVAt(v).waitQueue
        /\ w.serverLockIndex = CVAt(v).serverLockIndex
        /\ w.freed => CVAt(v).waitQueue = <<>>
    <3>1. CVAt(v).freed => CVAt(v).waitQueue = <<>>
        BY <1>4 DEF AnswerInv, CVQueues
    <3> QED BY <2>1, <2>2, <3>1 DEF ServerCV
  <2>4. \A d \in Client : InCV(d)' <=> InCV(d)
      BY <1>4, <2>2, <2>3, InCVSet DEF AnswerInv, InCV
  <2>5. AllPlaced' /\ AnswersMove /\ replies' \in [Client -> Seq(Int)]
      BY <1>1, <2>4, AnswerPlaced, LocksKept
  <2>6. CVQueues'
    <3>1. /\ NoRepeats(w.waitQueue)
          /\ \A d \in Client : InQueue(d, w.waitQueue) =>
                /\ call[d].op = "wait" /\ call[d].cv = v
                /\ call[d].lock = w.serverLockIndex /\ call[d].lock \in LockIndexes
        BY <1>4, <2>3 DEF AnswerInv, CVQueues
    <3>2. LockIndexes \subseteq LockIndexes'
        BY <1>1, LocksKept
    <3> QED BY <1>1, <1>4, <2>2, <2>3, <3>1, <3>2, CVQueuesSet DEF AnswerInv
  <2>7. LockQueues'
      BY <1>1, LocksKept DEF AnswerInv
  <2>8. TypeOK' /\ CallNames'
      BY <1>1, <1>4, <2>2, <2>3, <2>5, SetCVTable, HandlerTypes DEF AnswerInv, TypeOK
  <2> QED BY <2>5, <2>6, <2>7, <2>8 DEF AnswerInv
<1> QED BY <1>3, <1>4

\* The caller of Acquire is told at once, or queued behind the others.
LEMMA AcquireKeeps ==
    ASSUME AnswerInv, NEW c \in Client, Acquire(c)
    PROVE  AnswerInv' /\ AnswersMove
<1>1. /\ Handles(c, "acquire") /\ Ok \in Int
      /\ c \in requests /\ requests' = requests \ {c}
      /\ call[c].op = "acquire"
      /\ UNCHANGED <<undefined, lost, call, known, knownCV, held>>
    BY ReplyTypes, HandlesFacts DEF Acquire, AnswerInv
<1>2. PICK i \in Int : i = call[c].lock
    BY CallType DEF AnswerInv
<1>3. CASE i \notin LockIndexes
    BY <1>1, <1>2, <1>3, AnswerKeeps DEF Acquire
<1>4. CASE i \in LockIndexes /\ LockAt(i).available
  <2>1. LockAt(i) \in ServerLock
      BY <1>4, LockAtType DEF AnswerInv
  <2>2. PICK l : l = [LockAt(i) EXCEPT !.available = FALSE, !.owner = MachineOf[c]]
      OBVIOUS
  <2>3. SetLock(i, l) /\ Reply({c}, Ok) /\ UNCHANGED serverCVTable
      BY <1>2, <1>4, <2>2 DEF Acquire, NewOwner
  <2>4. l \in ServerLock /\ l.waitQueue = LockAt(i).waitQueue
      BY <2>1, <2>2, LockServerAssumption DEF ServerLock
  <2> QED BY <1>1, <1>4, <2>3, <2>4, SetLockKeeps
<1>5. CASE i \in LockIndexes /\ ~LockAt(i).available
  <2>1. LockAt(i) \in ServerLock /\ LockAt(i).waitQueue \in Seq(Client)
      BY <1>5, LockAtType DEF AnswerInv
  <2>2. PICK q : q = Append(LockAt(i).waitQueue, c)
      OBVIOUS
  <2>3. PICK l : l = [LockAt(i) EXCEPT !.waitQueue = q]
      OBVIOUS
  <2>4. SetLock(i, l) /\ UNCHANGED <<serverCVTable, replies>>
      BY <1>2, <1>5, <2>2, <2>3 DEF Acquire
  <2>5. /\ ~InLock(c) /\ ~InCV(c)
      BY <1>1, Zenon DEF AnswerInv, AllPlaced, Placed
  <2>6. ~InQueue(c, LockAt(i).waitQueue) /\ NoRepeats(LockAt(i).waitQueue)
      BY <1>5, <2>5 DEF InLock, AnswerInv, LockQueues
  <2>7. /\ q \in Seq(Client) /\ NoRepeats(q)
        /\ \A d : InQueue(d, q) <=> InQueue(d, LockAt(i).waitQueue) \/ d = c
      BY <2>1, <2>2, <2>6, AppendQueue
  <2>8. l \in ServerLock /\ l.waitQueue = q
      BY <2>1, <2>3, <2>7 DEF ServerLock
  <2>9. LockQueues'
    <3>1. \A d \in Client : InQueue(d, l.waitQueue) =>
              call[d].lock = i /\ call[d].op \in {"acquire", "wait"}
        BY <1>1, <1>2, <1>5, <2>7, <2>8 DEF AnswerInv, LockQueues
    <3> QED BY <1>1, <1>5, <2>4, <2>7, <2>8, <3>1, LockQueuesSet DEF AnswerInv
  <2>10. LockIndexes' = LockIndexes /\ serverLockTable' \in Seq(ServerLock)
      BY <1>5, <2>4, <2>8, SetLockTable DEF AnswerInv
  <2>11. CVQueues'
      BY <1>1, <2>4, <2>10, CVsKept DEF AnswerInv
  <2>12. AllPlaced' /\ AnswersMove /\ replies' \in [Client -> Seq(Int)]
    <3>1. PICK E \in SUBSET Client : E = {}
        OBVIOUS
    <3>2. PICK M \in SUBSET Client : M = {c}
        OBVIOUS
    <3>3. Reply(E, 0) /\ 0 \in Int
        BY <2>4, <3>1 DEF Reply, AnswerInv, TypeOK
    <3>4. \A d \in Client : InLock(d)' <=> (InLock(d) /\ d \notin E) \/ d \in M
        BY <1>5, <2>4, <2>7, <2>8, <3>1, <3>2, InLockSet DEF AnswerInv, InLock
    <3>5. \A d \in Client : InCV(d)' <=> (InCV(d) /\ d \notin M) \/ d \in E
        BY <2>4, <2>5, <3>1, <3>2, CVsKept
    <3>6. /\ \A d \in E : d = c \/ InLock(d)
          /\ \A d \in M : d = c \/ InCV(d)
          /\ \A d \in E : d = c
          /\ c \in E \/ c \in M \/ c \in E
          /\ \A d \in Client : /\ ~(d \in E /\ d \in M) /\ ~(d \in E /\ d \in E)
                               /\ ~(d \in M /\ d \in E)
        BY <3>1, <3>2
    <3>7. TypeOK /\ AllPlaced /\ UNCHANGED <<call, undefined, lost>>
        BY <1>1 DEF AnswerInv
    <3> QED BY <1>1, <3>3, <3>4, <3>5, <3>6, <3>7, PlacedMove
  <2>13. TypeOK' /\ CallNames'
      BY <1>1, <2>4, <2>10, <2>12, HandlerTypes DEF AnswerInv, TypeOK
  <2> QED BY <2>9, <2>11, <2>12, <2>13 DEF AnswerInv
<1> QED BY <1>3, <1>4, <1>5

\* A lock that its owner gives up, with and without a waiter.
LEMMA GiveUpLock ==
    ASSUME AnswerInv, NEW i \in LockIndexes, SetLock(i, GivenUp(LockAt(i))), UNCHANGED call
    PROVE  /\ LockIndexes' = LockIndexes /\ serverLockTable' \in Seq(ServerLock)
           /\ LockQueues'
           /\ Granted(LockAt(i)) \subseteq Client
           /\ \A d \in Client : InLock(d)' <=> InLock(d) /\ d \notin Granted(LockAt(i))
           /\ \A d \in Granted(LockAt(i)) : InLock(d)
<1>1. PICK l \in ServerLock : l = LockAt(i)
    BY LockAtType DEF AnswerInv
<1>2. NoRepeats(l.waitQueue)
    BY <1>1 DEF AnswerInv, LockQueues
<1>3. PICK m \in ServerLock : m = GivenUp(l)
    BY GivenUpFacts
<1>4. /\ Granted(l) \subseteq Client
      /\ NoRepeats(m.waitQueue)
      /\ \A d : InQueue(d, m.waitQueue) <=> InQueue(d, l.waitQueue) /\ d \notin Granted(l)
      /\ \A d \in Granted(l) : InQueue(d, l.waitQueue)
    BY <1>2, <1>3, GivenUpFacts
<1>5. SetLock(i, m)
    BY <1>1, <1>3
<1>6. LockIndexes' = LockIndexes /\ serverLockTable' \in Seq(ServerLock)
    BY <1>5, SetLockTable DEF AnswerInv
<1>7. LockQueues'
  <2>1. \A d \in Client : InQueue(d, m.waitQueue) =>
            call[d].lock = i /\ call[d].op \in {"acquire", "wait"}
      BY <1>1, <1>4 DEF AnswerInv, LockQueues
  <2> QED BY <1>4, <1>5, <2>1, LockQueuesSet DEF AnswerInv
<1>8. \A d \in Client : InLock(d)' <=> InLock(d) /\ d \notin Granted(l)
  <2>1. \A d \in Client : InLock(d)' <=> \/ InLock(d) /\ ~InQueue(d, l.waitQueue)
                                         \/ InQueue(d, m.waitQueue)
      BY <1>1, <1>5, InLockSet DEF AnswerInv
  <2>2. \A d \in Client : InQueue(d, l.waitQueue) => InLock(d)
      BY <1>1 DEF InLock
  <2> QED BY <1>4, <2>1, <2>2
<1>9. \A d \in Granted(l) : InLock(d)
    BY <1>1, <1>4 DEF InLock
<1> QED BY <1>1, <1>4, <1>6, <1>7, <1>8, <1>9

\* Release answers its caller and, with a waiter, the new owner.
LEMMA ReleaseKeeps ==
    ASSUME AnswerInv, NEW c \in Client, Release(c)
    PROVE  AnswerInv' /\ AnswersMove
<1>1. /\ Handles(c, "release") /\ Ok \in Int
      /\ c \in requests /\ requests' = requests \ {c}
      /\ call[c].op = "release"
      /\ UNCHANGED <<undefined, lost, call, known, knownCV, held>>
    BY ReplyTypes, HandlesFacts DEF Release, AnswerInv
<1>2. PICK i \in Int : i = call[c].lock
    BY CallType DEF AnswerInv
<1>3. CASE ~OwnedBy(i, MachineOf[c])
    BY <1>1, <1>2, <1>3, AnswerKeeps DEF Release
<1>4. CASE OwnedBy(i, MachineOf[c]) /\ LockAt(i).waitQueue = <<>> /\ LockAt(i).toBeDeleted
  <2>1. i \in LockIndexes
      BY <1>4 DEF OwnedBy
  <2>2. LockAt(i) \in ServerLock
      BY <2>1, LockAtType DEF AnswerInv
  <2>3. PICK l : l = [LockAt(i) EXCEPT !.freed = TRUE]
      OBVIOUS
  <2>4. SetLock(i, l) /\ Reply({c}, Ok) /\ UNCHANGED serverCVTable
    <3>1. {c} \cup Granted(LockAt(i)) = {c}
        BY <1>4 DEF Granted
    <3> QED BY <1>2, <1>4, <2>3, <3>1 DEF Release
  <2>5. l \in ServerLock /\ l.waitQueue = LockAt(i).waitQueue
      BY <2>2, <2>3 DEF ServerLock
  <2> QED BY <1>1, <2>1, <2>4, <2>5, SetLockKeeps
<1>5. CASE OwnedBy(i, MachineOf[c]) /\ ~(LockAt(i).waitQueue = <<>> /\ LockAt(i).toBeDeleted)
  <2>1. i \in LockIndexes
      BY <1>5 DEF OwnedBy
  <2>2. /\ SetLock(i, GivenUp(LockAt(i)))
        /\ Reply({c} \cup Granted(LockAt(i)), Ok)
        /\ UNCHANGED serverCVTable
      BY <1>2, <1>5 DEF Release
  <2>3. /\ LockIndexes' = LockIndexes /\ serverLockTable' \in Seq(ServerLock)
        /\ LockQueues'
        /\ Granted(LockAt(i)) \subseteq Client
        /\ \A d \in Client : InLock(d)' <=> InLock(d) /\ d \notin Granted(LockAt(i))
        /\ \A d \in Granted(LockAt(i)) : InLock(d)
      BY <1>1, <2>1, <2>2, GiveUpLock
  <2>4. CVQueues'
      BY <1>1, <2>2, <2>3, CVsKept DEF AnswerInv
  <2>5. ~InLock(c)
      BY <1>1, Zenon DEF AnswerInv, AllPlaced, Placed
  <2>6. AllPlaced' /\ AnswersMove /\ replies' \in [Client -> Seq(Int)]
    <3>1. PICK S \in SUBSET Client : S = {c} \cup Granted(LockAt(i))
        BY <2>3
    <3>2. PICK E \in SUBSET Client : E = {}
        OBVIOUS
    <3>3. PICK v \in Int : v = Ok
        BY <1>1
    <3>4. Reply(S, v)
        BY <2>2, <3>1, <3>3
    <3>5. \A d \in Client : InLock(d)' <=> (InLock(d) /\ d \notin S) \/ d \in E
        BY <2>3, <2>5, <3>1, <3>2
    <3>6. \A d \in Client : InCV(d)' <=> (InCV(d) /\ d \notin E) \/ d \in E
        BY <2>2, <3>2, CVsKept
    <3>7. /\ \A d \in S : d = c \/ InLock(d)
          /\ \A d \in E : d = c \/ InCV(d)
          /\ \A d \in E : d = c
          /\ c \in S \/ c \in E \/ c \in E
          /\ \A d \in Client : /\ ~(d \in S /\ d \in E) /\ ~(d \in S /\ d \in E)
                               /\ ~(d \in E /\ d \in E)
        BY <2>3, <3>1, <3>2
    <3>8. TypeOK /\ AllPlaced /\ UNCHANGED <<call, undefined, lost>>
        BY <1>1 DEF AnswerInv
    <3> QED BY <1>1, <3>4, <3>5, <3>6, <3>7, <3>8, PlacedMove
  <2>7. TypeOK' /\ CallNames'
      BY <1>1, <2>2, <2>3, <2>6, HandlerTypes DEF AnswerInv, TypeOK
  <2> QED BY <2>3, <2>4, <2>6, <2>7 DEF AnswerInv
<1> QED BY <1>3, <1>4, <1>5

\* Wait hands the lock on and queues its caller for a signal.
LEMMA WaitKeeps ==
    ASSUME AnswerInv, NEW c \in Client, Wait(c)
    PROVE  AnswerInv' /\ AnswersMove
<1>1. /\ Handles(c, "wait") /\ Ok \in Int
      /\ c \in requests /\ requests' = requests \ {c}
      /\ call[c].op = "wait"
      /\ UNCHANGED <<undefined, lost, call, known, knownCV, held>>
    BY ReplyTypes, HandlesFacts DEF Wait, AnswerInv
<1>2. PICK i \in Int : i = call[c].lock
    BY CallType DEF AnswerInv
<1>3. PICK v \in Int : v = call[c].cv
    BY CallType DEF AnswerInv
<1>4. CASE ~(OwnedBy(i, MachineOf[c]) /\ Bindable(v, i))
    BY <1>1, <1>2, <1>3, <1>4, AnswerKeeps DEF Wait
<1>5. CASE OwnedBy(i, MachineOf[c]) /\ Bindable(v, i)
  <2>1. /\ i \in LockIndexes /\ v \in CVIndexes
        /\ CVAt(v).serverLockIndex \in {-1, i}
      BY <1>5 DEF OwnedBy, Bindable
  <2>2. PICK q : q = Append(CVAt(v).waitQueue, c)
      OBVIOUS
  <2>3. PICK w : w = [CVAt(v) EXCEPT !.serverLockIndex = i, !.waitQueue = q]
      OBVIOUS
  <2>4. /\ SetLock(i, GivenUp(LockAt(i)))
        /\ SetCV(v, w)
        /\ Reply(Granted(LockAt(i)), Ok)
      BY <1>2, <1>3, <1>5, <2>2, <2>3 DEF Wait
  <2>5. /\ LockIndexes' = LockIndexes /\ serverLockTable' \in Seq(ServerLock)
        /\ LockQueues'
        /\ Granted(LockAt(i)) \subseteq Client
        /\ \A d \in Client : InLock(d)' <=> InLock(d) /\ d \notin Granted(LockAt(i))
        /\ \A d \in Granted(LockAt(i)) : InLock(d)
      BY <1>1, <2>1, <2>4, GiveUpLock
  <2>6. ~InLock(c) /\ ~InCV(c)
      BY <1>1, Zenon DEF AnswerInv, AllPlaced, Placed
  <2>7. CVAt(v) \in ServerCV /\ CVAt(v).waitQueue \in Seq(Client)
      BY <2>1, CVAtType DEF AnswerInv
  <2>8. ~InQueue(c, CVAt(v).waitQueue) /\ NoRepeats(CVAt(v).waitQueue)
      BY <2>1, <2>6 DEF InCV, AnswerInv, CVQueues
  <2>9. /\ q \in Seq(Client) /\ NoRepeats(q)
        /\ \A d : InQueue(d, q) <=> InQueue(d, CVAt(v).waitQueue) \/ d = c
      BY <2>2, <2>7, <2>8, AppendQueue
  <2>10. /\ w \in ServerCV /\ w.waitQueue = q /\ w.serverLockIndex = i
         /\ w.freed = CVAt(v).freed
      BY <2>3, <2>7, <2>9 DEF ServerCV
  <2>11. ~CVAt(v).freed
      BY <1>1, <1>2, <1>3, <1>5, <2>1 DEF Handles, TouchesFreed
  <2>12. \A d \in Client : InQueue(d, CVAt(v).waitQueue) => call[d].lock = i
    <3>1. \A j \in LockIndexes : j # -1
        BY LockAtType DEF AnswerInv
    <3> QED BY <2>1, <3>1 DEF AnswerInv, CVQueues
  <2>13. CVQueues'
    <3>1. \A d \in Client : InQueue(d, w.waitQueue) =>
              /\ call[d].op = "wait" /\ call[d].cv = v
              /\ call[d].lock = w.serverLockIndex /\ call[d].lock \in LockIndexes
        BY <1>1, <1>2, <1>3, <2>1, <2>9, <2>10, <2>12 DEF AnswerInv, CVQueues
    <3>2. LockIndexes \subseteq LockIndexes' /\ (w.freed => w.waitQueue = <<>>)
        BY <2>5, <2>10, <2>11
    <3> QED BY <1>1, <2>1, <2>4, <2>9, <2>10, <3>1, <3>2, CVQueuesSet DEF AnswerInv
  <2>14. AllPlaced' /\ AnswersMove /\ replies' \in [Client -> Seq(Int)]
    <3>1. PICK S \in SUBSET Client : S = Granted(LockAt(i))
        BY <2>5
    <3>2. PICK E \in SUBSET Client : E = {}
        OBVIOUS
    <3>3. PICK M \in SUBSET Client : M = {c}
        OBVIOUS
    <3>4. PICK x \in Int : x = Ok
        BY <1>1
    <3>5. Reply(S, x)
        BY <2>4, <3>1, <3>4
    <3>6. \A d \in Client : InLock(d)' <=> (InLock(d) /\ d \notin S) \/ d \in E
        BY <2>5, <3>1, <3>2
    <3>7. \A d \in Client : InCV(d)' <=> (InCV(d) /\ d \notin E) \/ d \in M
      <4>1. \A d \in Client : InCV(d)' <=> \/ InCV(d) /\ ~InQueue(d, CVAt(v).waitQueue)
                                           \/ InQueue(d, w.waitQueue)
          BY <2>1, <2>4, <2>10, InCVSet DEF AnswerInv
      <4>2. \A d \in Client : InQueue(d, CVAt(v).waitQueue) => InCV(d)
          BY <2>1 DEF InCV
      <4> QED BY <2>9, <2>10, <3>2, <3>3, <4>1, <4>2
    <3>8. /\ \A d \in S : d = c \/ InLock(d)
          /\ \A d \in E : d = c \/ InCV(d)
          /\ \A d \in M : d = c
          /\ c \in S \/ c \in E \/ c \in M
          /\ \A d \in Client : /\ ~(d \in S /\ d \in E) /\ ~(d \in S /\ d \in M)
                               /\ ~(d \in E /\ d \in M)
        BY <2>5, <2>6, <3>1, <3>2, <3>3
    <3>9. TypeOK /\ AllPlaced /\ UNCHANGED <<call, undefined, lost>>
        BY <1>1 DEF AnswerInv
    <3> QED BY <1>1, <3>5, <3>6, <3>7, <3>8, <3>9, PlacedMove
  <2>15. TypeOK' /\ CallNames'
      BY <1>1, <2>1, <2>4, <2>5, <2>10, <2>14, SetCVTable, HandlerTypes DEF AnswerInv
  <2> QED BY <2>5, <2>13, <2>14, <2>15 DEF AnswerInv
<1> QED BY <1>4, <1>5

\* Waking moves clients from the condition's queue to the lock's queue.
LEMMA WakeKeeps ==
    ASSUME AnswerInv, NEW c \in Client, NEW op, Handles(c, op),
           NEW i \in LockIndexes, NEW v \in CVIndexes, CVAt(v).serverLockIndex = i,
           NEW woken \in Seq(Client), NEW rest \in Seq(Client),
           NoRepeats(woken), NoRepeats(rest),
           \A d : InQueue(d, CVAt(v).waitQueue) <=> InQueue(d, woken) \/ InQueue(d, rest),
           \A d : ~(InQueue(d, woken) /\ InQueue(d, rest)),
           Wake(c, v, i, woken, rest)
    PROVE  AnswerInv' /\ AnswersMove
<1>1. /\ c \in requests /\ requests' = requests \ {c}
      /\ UNCHANGED <<undefined, lost, call, known, knownCV, held>>
      /\ Ok \in Int
    BY ReplyTypes, HandlesFacts DEF AnswerInv
<1>2. PICK q : q = LockAt(i).waitQueue \o woken
    OBVIOUS
<1>3. PICK l : l = [LockAt(i) EXCEPT !.waitQueue = q]
    OBVIOUS
<1>4. PICK f \in BOOLEAN : f = (rest = <<>> /\ CVAt(v).toBeDeleted)
    OBVIOUS
<1>5. PICK w : w = [CVAt(v) EXCEPT !.waitQueue = rest, !.freed = f]
    OBVIOUS
<1>6. SetLock(i, l) /\ SetCV(v, w) /\ Reply({c}, Ok)
    BY <1>2, <1>3, <1>4, <1>5 DEF Wake
<1>7. /\ LockAt(i) \in ServerLock /\ LockAt(i).waitQueue \in Seq(Client)
      /\ CVAt(v) \in ServerCV /\ CVAt(v).waitQueue \in Seq(Client)
    BY LockAtType, CVAtType DEF AnswerInv
<1>8. \A d \in Client : InQueue(d, LockAt(i).waitQueue) => InLock(d)
    BY DEF InLock
<1>9. \A d \in Client : InQueue(d, CVAt(v).waitQueue) => InCV(d)
    BY DEF InCV
<1>10. \A d \in Client : ~(InLock(d) /\ InCV(d))
    BY Zenon DEF AnswerInv, AllPlaced, Placed
<1>11. ~InLock(c) /\ ~InCV(c)
    BY <1>1, Zenon DEF AnswerInv, AllPlaced, Placed
<1>12. /\ q \in Seq(Client)
       /\ \A d : InQueue(d, q) <=> InQueue(d, LockAt(i).waitQueue) \/ InQueue(d, woken)
       /\ NoRepeats(q)
  <2>1. NoRepeats(LockAt(i).waitQueue)
      BY DEF AnswerInv, LockQueues
  <2>2. \A d \in Client : ~(InQueue(d, LockAt(i).waitQueue) /\ InQueue(d, woken))
      BY <1>8, <1>9, <1>10
  <2> QED BY <1>2, <1>7, <2>1, <2>2, ConcatQueue
<1>13. l \in ServerLock /\ l.waitQueue = q
    BY <1>3, <1>7, <1>12 DEF ServerLock
<1>14. /\ w \in ServerCV /\ w.waitQueue = rest /\ w.freed = f
       /\ w.serverLockIndex = CVAt(v).serverLockIndex
    BY <1>5, <1>7 DEF ServerCV
<1>15. \A d \in Client : InQueue(d, CVAt(v).waitQueue) =>
           /\ call[d].op = "wait" /\ call[d].cv = v
           /\ call[d].lock = i
    BY DEF AnswerInv, CVQueues
<1>16. LockQueues'
  <2>1. \A d \in Client : InQueue(d, l.waitQueue) =>
            call[d].lock = i /\ call[d].op \in {"acquire", "wait"}
      BY <1>12, <1>13, <1>15 DEF AnswerInv, LockQueues
  <2> QED BY <1>1, <1>6, <1>12, <1>13, <2>1, LockQueuesSet DEF AnswerInv
<1>17. LockIndexes' = LockIndexes /\ serverLockTable' \in Seq(ServerLock)
    BY <1>6, <1>13, SetLockTable DEF AnswerInv
<1>18. CVQueues'
  <2>1. \A d \in Client : InQueue(d, w.waitQueue) =>
            /\ call[d].op = "wait" /\ call[d].cv = v
            /\ call[d].lock = w.serverLockIndex /\ call[d].lock \in LockIndexes
      BY <1>14, <1>15
  <2>2. LockIndexes \subseteq LockIndexes' /\ (w.freed => w.waitQueue = <<>>)
      BY <1>4, <1>14, <1>17
  <2> QED BY <1>1, <1>6, <1>14, <2>1, <2>2, CVQueuesSet DEF AnswerInv
<1>19. AllPlaced' /\ AnswersMove /\ replies' \in [Client -> Seq(Int)]
  <2>1. PICK S \in SUBSET Client : S = {c}
      OBVIOUS
  <2>2. PICK E \in SUBSET Client : E = {}
      OBVIOUS
  <2>3. PICK M \in SUBSET Client : M = {d \in Client : InQueue(d, woken)}
      OBVIOUS
  <2>4. PICK x \in Int : x = Ok
      BY <1>1
  <2>5. Reply(S, x)
      BY <1>6, <2>1, <2>4
  <2>6. \A d \in Client : InLock(d)' <=> (InLock(d) /\ d \notin S) \/ d \in M
    <3>1. \A d \in Client : InLock(d)' <=> \/ InLock(d) /\ ~InQueue(d, LockAt(i).waitQueue)
                                           \/ InQueue(d, l.waitQueue)
        BY <1>6, <1>13, InLockSet DEF AnswerInv
    <3> QED BY <1>8, <1>11, <1>12, <1>13, <2>1, <2>3, <3>1
  <2>7. \A d \in Client : InCV(d)' <=> (InCV(d) /\ d \notin M) \/ d \in E
    <3>1. \A d \in Client : InCV(d)' <=> \/ InCV(d) /\ ~InQueue(d, CVAt(v).waitQueue)
                                         \/ InQueue(d, w.waitQueue)
        BY <1>6, <1>14, InCVSet DEF AnswerInv
    <3> QED BY <1>9, <1>14, <2>2, <2>3, <3>1
  <2>8. /\ \A d \in S : d = c \/ InLock(d)
        /\ \A d \in M : d = c \/ InCV(d)
        /\ \A d \in E : d = c
        /\ c \in S \/ c \in M \/ c \in E
        /\ \A d \in Client : /\ ~(d \in S /\ d \in M) /\ ~(d \in S /\ d \in E)
                             /\ ~(d \in M /\ d \in E)
      BY <1>9, <1>11, <2>1, <2>2, <2>3
  <2>9. TypeOK /\ AllPlaced /\ UNCHANGED <<call, undefined, lost>>
      BY <1>1 DEF AnswerInv
  <2> QED BY <1>1, <2>5, <2>6, <2>7, <2>8, <2>9, PlacedMove
<1>20. TypeOK' /\ CallNames'
    BY <1>1, <1>6, <1>14, <1>17, <1>19, SetCVTable, HandlerTypes DEF AnswerInv
<1> QED BY <1>16, <1>18, <1>19, <1>20 DEF AnswerInv

\* How Signal and Broadcast divide the queue of the condition variable.
LEMMA WakeDivides ==
    ASSUME NEW q \in Seq(Client), NoRepeats(q), q # <<>>
    PROVE  /\ <<Head(q)>> \in Seq(Client) /\ Tail(q) \in Seq(Client)
           /\ NoRepeats(<<Head(q)>>) /\ NoRepeats(Tail(q))
           /\ \A d : InQueue(d, q) <=> InQueue(d, <<Head(q)>>) \/ InQueue(d, Tail(q))
           /\ \A d : ~(InQueue(d, <<Head(q)>>) /\ InQueue(d, Tail(q)))
<1>1. /\ Head(q) \in Client /\ Tail(q) \in Seq(Client) /\ InQueue(Head(q), q)
      /\ NoRepeats(Tail(q))
      /\ \A d : InQueue(d, Tail(q)) <=> InQueue(d, q) /\ d # Head(q)
    BY RemoveQueue
<1>2. PICK h \in Client : h = Head(q)
    BY <1>1
<1>3. /\ <<h>> \in Seq(Client) /\ NoRepeats(<<h>>)
      /\ \A d : InQueue(d, <<h>>) <=> d = h
    BY OneQueue
<1> QED BY <1>1, <1>2, <1>3

\* Signal.
LEMMA SignalKeeps ==
    ASSUME AnswerInv, NEW c \in Client, Signal(c)
    PROVE  AnswerInv' /\ AnswersMove
<1>1. Handles(c, "signal") /\ Ok \in Int
    BY ReplyTypes DEF Signal, AnswerInv
<1>2. PICK i \in Int : i = call[c].lock
    BY CallType DEF AnswerInv
<1>3. PICK v \in Int : v = call[c].cv
    BY CallType DEF AnswerInv
<1>4. CASE ~MayWake(v, i, MachineOf[c])
    BY <1>1, <1>2, <1>3, <1>4, AnswerKeeps DEF Signal
<1>5. CASE MayWake(v, i, MachineOf[c])
  <2>1. i \in LockIndexes /\ v \in CVIndexes /\ CVAt(v).serverLockIndex = i
      BY <1>5 DEF MayWake, OwnedBy
  <2>2. PICK q \in Seq(Client) : q = CVAt(v).waitQueue
      BY <2>1, CVAtType DEF AnswerInv
  <2>3. NoRepeats(q)
      BY <2>1, <2>2 DEF AnswerInv, CVQueues
  <2>4. CASE q = <<>>
    <3>1. Wake(c, v, i, <<>>, <<>>)
        BY <1>2, <1>3, <1>5, <2>2, <2>4 DEF Signal
    <3> QED BY <1>1, <2>1, <2>2, <2>4, <3>1, EmptyQueue, WakeKeeps
  <2>5. CASE q # <<>>
    <3>1. Wake(c, v, i, <<Head(q)>>, Tail(q))
        BY <1>2, <1>3, <1>5, <2>2, <2>5 DEF Signal
    <3> QED BY <1>1, <2>1, <2>2, <2>3, <2>5, <3>1, WakeDivides, WakeKeeps
  <2> QED BY <2>4, <2>5
<1> QED BY <1>4, <1>5

\* Broadcast.
LEMMA BroadcastKeeps ==
    ASSUME AnswerInv, NEW c \in Client, Broadcast(c)
    PROVE  AnswerInv' /\ AnswersMove
<1>1. Handles(c, "broadcast") /\ Ok \in Int
    BY ReplyTypes DEF Broadcast, AnswerInv
<1>2. PICK i \in Int : i = call[c].lock
    BY CallType DEF AnswerInv
<1>3. PICK v \in Int : v = call[c].cv
    BY CallType DEF AnswerInv
<1>4. CASE ~MayWake(v, i, MachineOf[c])
    BY <1>1, <1>2, <1>3, <1>4, AnswerKeeps DEF Broadcast
<1>5. CASE MayWake(v, i, MachineOf[c])
  <2>1. i \in LockIndexes /\ v \in CVIndexes /\ CVAt(v).serverLockIndex = i
      BY <1>5 DEF MayWake, OwnedBy
  <2>2. PICK q \in Seq(Client) : q = CVAt(v).waitQueue
      BY <2>1, CVAtType DEF AnswerInv
  <2>3. NoRepeats(q)
      BY <2>1, <2>2 DEF AnswerInv, CVQueues
  <2>4. Wake(c, v, i, q, <<>>)
      BY <1>2, <1>3, <1>5, <2>2 DEF Broadcast
  <2> QED BY <1>1, <2>1, <2>2, <2>3, <2>4, EmptyQueue, WakeKeeps
<1> QED BY <1>4, <1>5

-----------------------------------------------------------------------------
(***************************************************************************)
(* The clients and the network.                                            *)
(***************************************************************************)

\* A client in whose call nothing is on its way waits in no queue.
LEMMA QueuesOfOthers ==
    ASSUME AnswerInv, NEW c \in Client, ~InLock(c), ~InCV(c), UNCHANGED tables,
           NEW r, call' = [call EXCEPT ![c] = r]
    PROVE  /\ LockQueues' /\ CVQueues'
           /\ \A d : InLock(d)' <=> InLock(d)
           /\ \A d : InCV(d)' <=> InCV(d)
<1>1. \A d \in Client : d # c => call'[d] = call[d]
    BY DEF AnswerInv, TypeOK
<1>2. UNCHANGED <<serverLockTable, serverCVTable>>
    BY DEF tables
<1>3. /\ LockIndexes' = LockIndexes /\ CVIndexes' = CVIndexes
      /\ \A j : LockAt(j)' = LockAt(j) /\ CVAt(j)' = CVAt(j)
    BY <1>2 DEF LockIndexes, CVIndexes, LockAt, CVAt
<1>4. LockQueues'
  <2>1. ASSUME NEW j \in LockIndexes
        PROVE  /\ NoRepeats(LockAt(j).waitQueue)
               /\ \A d \in Client : InQueue(d, LockAt(j).waitQueue) =>
                      call'[d].lock = j /\ call'[d].op \in {"acquire", "wait"}
      BY <1>1 DEF AnswerInv, LockQueues, InLock
  <2> QED BY <1>3, <2>1 DEF LockQueues, NoRepeats, InQueue
<1>5. CVQueues'
  <2>1. ASSUME NEW u \in CVIndexes
        PROVE  /\ NoRepeats(CVAt(u).waitQueue)
               /\ CVAt(u).freed => CVAt(u).waitQueue = <<>>
               /\ \A d \in Client : InQueue(d, CVAt(u).waitQueue) =>
                      /\ call'[d].op = "wait" /\ call'[d].cv = u
                      /\ call'[d].lock = CVAt(u).serverLockIndex
                      /\ call'[d].lock \in LockIndexes
      BY <1>1 DEF AnswerInv, CVQueues, InCV
  <2> QED BY <1>3, <2>1 DEF CVQueues, NoRepeats, InQueue
<1> QED BY <1>4, <1>5, TablesKept

\* A system call begins.
LEMMA SendKeeps ==
    ASSUME AnswerInv, NEW c \in Client, NEW r \in Requests(c), Send(c, r)
    PROVE  AnswerInv' /\ AnswersMove
<1>1. /\ call[c] = NoCall
      /\ call' = [call EXCEPT ![c] = r]
      /\ requests' = requests \cup {c}
      /\ held' = [held EXCEPT ![c] = IF r.had THEN held[c] \ {r.lock} ELSE held[c]]
      /\ UNCHANGED tables
      /\ UNCHANGED <<undefined, lost, replies, known, knownCV>>
    BY DEF Send
<1>2. /\ r \in Calls /\ r # NoCall
      /\ r.op = "createLock" => r.name \in LockName
      /\ r.op = "createCV" => r.name \in CVName
    BY RequestFacts DEF AnswerInv
<1>3. c \notin requests /\ replies[c] = <<>> /\ ~InLock(c) /\ ~InCV(c)
    BY <1>1, Zenon DEF AnswerInv, AllPlaced, Placed
<1>4. TypeOK'
  <2>1. held' \in [Client -> SUBSET Int]
      BY <1>1 DEF AnswerInv, TypeOK
  <2> QED BY <1>1, <1>2, <2>1, TablesKept DEF AnswerInv, TypeOK
<1>5. CallNames'
    BY <1>1, <1>2 DEF AnswerInv, CallNames, TypeOK
<1>6. /\ LockQueues' /\ CVQueues'
      /\ \A d : InLock(d)' <=> InLock(d)
      /\ \A d : InCV(d)' <=> InCV(d)
    BY <1>1, <1>3, QueuesOfOthers
<1>7. ASSUME NEW d \in Client
      PROVE  /\ Placed(d)'
             /\ InLock(d)' \/ InCV(d)' => InLock(d) \/ InCV(d) \/ d \in requests
             /\ Stuck(d) => Stuck(d)'
  <2>1. Placed(d)
      BY DEF AnswerInv, AllPlaced
  <2>2. /\ d # c => (d \in requests' <=> d \in requests) /\ call'[d] = call[d]
        /\ d = c => d \in requests' /\ call'[d] # NoCall
        /\ replies'[d] = replies[d]
        /\ (undefined' <=> undefined) /\ lost' = lost
      BY <1>1, <1>2 DEF AnswerInv, TypeOK
  <2>3. /\ InLock(d)' <=> InLock(d)
        /\ InCV(d)' <=> InCV(d)
      BY <1>6
  <2>4. Placed(d)'
      BY <1>3, <2>1, <2>2, <2>3, Zenon DEF Placed
  <2>5. Stuck(d) => Stuck(d)'
      BY <1>1, <2>2, <2>3, Zenon DEF Stuck
  <2> QED BY <2>3, <2>4, <2>5
<1> QED BY <1>4, <1>5, <1>6, <1>7 DEF AnswerInv, AllPlaced, AnswersMove

\* A system call returns.
LEMMA ReceiveKeeps ==
    ASSUME AnswerInv, NEW c \in Client, Receive(c)
    PROVE  AnswerInv' /\ AnswersMove
<1>1. /\ replies[c] # <<>>
      /\ replies' = [replies EXCEPT ![c] = Tail(replies[c])]
      /\ call' = [call EXCEPT ![c] = NoCall]
      /\ known' = [known EXCEPT ![c] = Learn(known[c], call[c], "createLock", Head(replies[c]))]
      /\ knownCV' = [knownCV EXCEPT ![c] = Learn(knownCV[c], call[c], "createCV", Head(replies[c]))]
      /\ \/ held' = [held EXCEPT ![c] = held[c] \cup {call[c].lock}]
         \/ held' = [held EXCEPT ![c] = held[c]]
      /\ UNCHANGED tables
      /\ UNCHANGED <<undefined, lost, requests>>
    BY DEF Receive
<1>2. c \notin requests /\ ~InLock(c) /\ ~InCV(c) /\ Len(replies[c]) <= 1
    BY <1>1, Zenon DEF AnswerInv, AllPlaced, Placed
<1>3. replies[c] \in Seq(Int) /\ Head(replies[c]) \in Int /\ Tail(replies[c]) = <<>>
  <2>1. replies[c] \in Seq(Int)
      BY DEF AnswerInv, TypeOK
  <2> QED BY <1>1, <1>2, <2>1
<1>4. TypeOK'
  <2>1. NoCall \in Calls
      BY DEF NoCall, Calls
  <2>2. call[c].lock \in Int
      BY CallType DEF AnswerInv
  <2>3. /\ Learn(known[c], call[c], "createLock", Head(replies[c])) \subseteq Int
        /\ Learn(knownCV[c], call[c], "createCV", Head(replies[c])) \subseteq Int
      BY <1>3 DEF Learn, AnswerInv, TypeOK
  <2>4. held' \in [Client -> SUBSET Int]
    <3>1. held[c] \cup {call[c].lock} \in SUBSET Int /\ held[c] \in SUBSET Int
        BY <2>2 DEF AnswerInv, TypeOK
    <3>2. PICK H \in SUBSET Int : held' = [held EXCEPT ![c] = H]
        BY <1>1, <3>1
    <3> QED BY <3>2 DEF AnswerInv, TypeOK
  <2>5. /\ known' \in [Client -> SUBSET Int]
        /\ knownCV' \in [Client -> SUBSET Int]
      BY <1>1, <2>3 DEF AnswerInv, TypeOK
  <2>6. replies' \in [Client -> Seq(Int)] /\ call' \in [Client -> Calls]
      BY <1>1, <1>3, <2>1 DEF AnswerInv, TypeOK
  <2> QED BY <1>1, <2>4, <2>5, <2>6, TablesKept DEF AnswerInv, TypeOK
<1>5. CallNames'
  <2>1. NoCall.op = "none"
      BY DEF NoCall
  <2> QED BY <1>1, <2>1 DEF AnswerInv, CallNames, TypeOK
<1>6. /\ LockQueues' /\ CVQueues'
      /\ \A d : InLock(d)' <=> InLock(d)
      /\ \A d : InCV(d)' <=> InCV(d)
  <2>1. PICK r : r = NoCall
      OBVIOUS
  <2> QED BY <1>1, <1>2, <2>1, QueuesOfOthers
<1>7. ASSUME NEW d \in Client
      PROVE  /\ Placed(d)'
             /\ InLock(d)' \/ InCV(d)' => InLock(d) \/ InCV(d) \/ d \in requests
             /\ Stuck(d) => Stuck(d)'
  <2>1. Placed(d)
      BY DEF AnswerInv, AllPlaced
  <2>2. /\ d # c => replies'[d] = replies[d] /\ call'[d] = call[d]
        /\ d = c => replies'[d] = <<>> /\ call'[d] = NoCall
        /\ (d \in requests' <=> d \in requests)
        /\ (undefined' <=> undefined) /\ lost' = lost
      BY <1>1, <1>3 DEF AnswerInv, TypeOK
  <2>3. /\ InLock(d)' <=> InLock(d)
        /\ InCV(d)' <=> InCV(d)
      BY <1>6
  <2>4. Len(replies'[d]) <= 1
    <3>1. Len(<<>>) <= 1
        OBVIOUS
    <3> QED BY <2>1, <2>2, <3>1, Zenon DEF Placed
  <2>5. Placed(d)'
      BY <1>2, <2>1, <2>2, <2>3, <2>4, Zenon DEF Placed
  <2>6. Stuck(d) => Stuck(d)'
      BY <1>1, <2>2, <2>3, Zenon DEF Stuck
  <2> QED BY <2>3, <2>5, <2>6
<1> QED BY <1>4, <1>5, <1>6, <1>7 DEF AnswerInv, AllPlaced, AnswersMove

\* An answer that is lost is nowhere, not in two places.
LEMMA LossKeeps ==
    ASSUME AnswerInv, NEW c \in Client,
           UseAfterFree(c) \/ LoseRequest(c) \/ LoseReply(c)
    PROVE  AnswerInv' /\ AnswersMove
<1>1. /\ UNCHANGED tables
      /\ UNCHANGED <<call, known, knownCV, held>>
    BY DEF UseAfterFree, LoseRequest, LoseReply, programVars
<1>2. /\ undefined' \in BOOLEAN /\ (undefined => undefined')
      /\ lost' \in Nat
      /\ lost' = 0 => lost = 0
      /\ undefined' \/ lost' # 0
  <2>1. lost \in Nat /\ undefined \in BOOLEAN
      BY DEF AnswerInv, TypeOK
  <2>2. CASE UseAfterFree(c)
      BY <2>1, <2>2 DEF UseAfterFree
  <2>3. CASE LoseRequest(c) \/ LoseReply(c)
    <3>1. lost' = lost + 1 /\ undefined' = undefined
        BY <2>3 DEF LoseRequest, LoseReply
    <3>2. lost' \in Nat /\ lost' # 0
        BY <2>1, <3>1
    <3> QED BY <2>1, <3>1, <3>2
  <2> QED BY <2>2, <2>3
<1>3. \/ requests' = requests \ {c} /\ UNCHANGED replies
      \/ /\ UNCHANGED requests
         /\ replies[c] # <<>> /\ replies' = [replies EXCEPT ![c] = Tail(replies[c])]
    BY DEF UseAfterFree, LoseRequest, LoseReply, Takes
<1>4. replies' \in [Client -> Seq(Int)] /\ requests' \subseteq requests
  <2>1. replies[c] # <<>> => Tail(replies[c]) \in Seq(Int)
    <3>1. replies[c] \in Seq(Int)
        BY DEF AnswerInv, TypeOK
    <3> QED BY <3>1
  <2>2. replies' \in [Client -> Seq(Int)]
      BY <1>3, <2>1 DEF AnswerInv, TypeOK
  <2> QED BY <1>3, <2>2
<1>5. ASSUME NEW d \in Client
      PROVE  /\ Placed(d)'
             /\ InLock(d)' \/ InCV(d)' => InLock(d) \/ InCV(d) \/ d \in requests
             /\ Stuck(d) => Stuck(d)'
  <2>1. Placed(d) /\ Placed(c)
      BY DEF AnswerInv, AllPlaced
  <2>2. Len(replies[d]) <= 1 /\ Len(replies[c]) <= 1
      BY <2>1, Zenon DEF Placed
  <2>3. replies'[d] = <<>> \/ replies'[d] = replies[d]
    <3>1. replies[c] # <<>> => Tail(replies[c]) = <<>>
      <4>1. replies[c] \in Seq(Int)
          BY DEF AnswerInv, TypeOK
      <4> QED BY <2>2, <4>1
    <3> QED BY <1>3, <3>1 DEF AnswerInv, TypeOK
  <2>4. d \in requests' => d \in requests
      BY <1>4
  <2>5. (InLock(d)' <=> InLock(d)) /\ (InCV(d)' <=> InCV(d)) /\ call'[d] = call[d]
      BY <1>1, TablesKept
  <2>6. Len(replies'[d]) <= 1
    <3>1. Len(<<>>) <= 1
        OBVIOUS
    <3> QED BY <2>2, <2>3, <3>1, Zenon
  <2>7. Placed(d)'
      BY <1>2, <2>1, <2>3, <2>4, <2>5, <2>6, Zenon DEF Placed
  <2>8. Stuck(d) => Stuck(d)'
      BY <2>3, <2>4, <2>5, Zenon DEF Stuck
  <2> QED BY <2>5, <2>7, <2>8
<1>6. LockQueues' /\ CVQueues'
    BY <1>1, TablesKept DEF AnswerInv
<1>7. TypeOK' /\ CallNames'
    BY <1>1, <1>2, <1>4, TablesKept DEF AnswerInv, TypeOK, CallNames
<1> QED BY <1>5, <1>6, <1>7 DEF AnswerInv, AllPlaced, AnswersMove

\* Every step keeps AnswerInv.
LEMMA AnswerStep ==
    ASSUME AnswerInv, [Next]_vars
    PROVE  AnswerInv' /\ AnswersMove
<1>1. CASE UNCHANGED vars
  <2>1. UNCHANGED tables /\ UNCHANGED <<undefined, lost, call, requests, replies, known,
                                        knownCV, held>>
      BY <1>1 DEF vars, tables
  <2>2. TypeOK' /\ CallNames'
      BY <2>1, TablesKept DEF AnswerInv, TypeOK, CallNames
  <2>3. \A d : (InLock(d)' <=> InLock(d)) /\ (InCV(d)' <=> InCV(d))
      BY <2>1, TablesKept
  <2>4. AllPlaced'
      BY <2>1, <2>3 DEF AnswerInv, AllPlaced, Placed
  <2>5. AnswersMove
      BY <2>1, <2>3 DEF AnswersMove, Stuck
  <2> QED BY <2>1, <2>2, <2>4, <2>5, TablesKept DEF AnswerInv
<1>2. ASSUME NEW c \in Client, NEW r \in Requests(c), Send(c, r)
      PROVE  AnswerInv' /\ AnswersMove
    BY <1>2, SendKeeps
<1>3. ASSUME NEW c \in Client, Receive(c) \/ LoseRequest(c) \/ LoseReply(c)
      PROVE  AnswerInv' /\ AnswersMove
    BY <1>3, ReceiveKeeps, LossKeeps
<1>4. ASSUME NEW c \in Client, Serve(c)
      PROVE  AnswerInv' /\ AnswersMove
    BY <1>4, CreateLockKeeps, AcquireKeeps, ReleaseKeeps, DestroyLockKeeps, CreateCVKeeps,
       WaitKeeps, SignalKeeps, BroadcastKeeps, DestroyCVKeeps, LossKeeps DEF Serve
<1> QED BY <1>1, <1>2, <1>3, <1>4 DEF Next

\* Initially there are no calls.
LEMMA AnswerInit == Init => AnswerInv
<1> SUFFICES ASSUME Init PROVE AnswerInv
    OBVIOUS
<1>1. NoCall \in Calls /\ NoCall.op = "none"
    BY DEF NoCall, Calls
<1>2. TypeOK
  <2>1. <<>> \in Seq(Int) /\ <<>> \in Seq(ServerLock) /\ <<>> \in Seq(ServerCV)
      OBVIOUS
  <2>2. /\ call \in [Client -> Calls]
        /\ replies \in [Client -> Seq(Int)]
        /\ known \in [Client -> SUBSET Int]
        /\ knownCV \in [Client -> SUBSET Int]
        /\ held \in [Client -> SUBSET Int]
      BY <1>1, <2>1 DEF Init
  <2> QED BY <2>1, <2>2 DEF Init, TypeOK
<1>3. CallNames
    BY <1>1 DEF Init, CallNames
<1>4. LockIndexes = {} /\ CVIndexes = {}
    BY DEF Init, LockIndexes, CVIndexes
<1>5. LockQueues /\ CVQueues
    BY <1>4 DEF LockQueues, CVQueues
<1>6. \A c \in Client : ~InLock(c) /\ ~InCV(c)
    BY <1>4 DEF InLock, InCV
<1>7. AllPlaced
  <2> SUFFICES ASSUME NEW c \in Client PROVE Placed(c)
      BY DEF AllPlaced
  <2>1. c \notin requests /\ replies[c] = <<>> /\ call[c] = NoCall
      BY DEF Init
  <2>2. Len(replies[c]) <= 1
      BY <2>1
  <2> QED BY <1>6, <2>1, <2>2, Zenon DEF Placed
<1> QED BY <1>2, <1>3, <1>5, <1>7 DEF AnswerInv

(***************************************************************************)
(* The inductive invariant: every queue of the server holds clients that   *)
(* are in a call for it, and the answer to a call is in one place.         *)
(***************************************************************************)
THEOREM AnswerInvariance == Spec => []AnswerInv
<1>1. Init => AnswerInv
    BY AnswerInit
<1>2. AnswerInv /\ [Next]_vars => AnswerInv'
    BY AnswerStep
<1> QED BY <1>1, <1>2, PTL DEF Spec

\* The tables, the messages and the programs' ids have their types.
THEOREM TypeCorrect == Spec => []TypeOK
<1>1. AnswerInv => TypeOK
    BY DEF AnswerInv
<1> QED BY <1>1, AnswerInvariance, PTL

-----------------------------------------------------------------------------
(***************************************************************************)
(* Every call is answered once.                                            *)
(***************************************************************************)

\* The four kinds of places where an answer can be.
LEMMA PlaceKinds ==
    ASSUME NEW c \in Client
    PROVE  \A p : p \in AnswerPlaces(c) <=>
              \/ c \in requests /\ p = <<"request", 0, 0>>
              \/ \E k \in 1 .. Len(replies[c]) : p = <<"reply", 0, k>>
              \/ \E i \in LockIndexes : \E k \in 1 .. Len(LockAt(i).waitQueue) :
                    LockAt(i).waitQueue[k] = c /\ p = <<"lock", i, k>>
              \/ \E v \in CVIndexes : \E k \in 1 .. Len(CVAt(v).waitQueue) :
                    CVAt(v).waitQueue[k] = c /\ p = <<"cv", v, k>>
<1> DEFINE A == {<<"request", 0, 0>> : x \in requests \cap {c}}
           B == {<<"reply", 0, k>> : k \in 1 .. Len(replies[c])}
           L(i) == {<<"lock", i, k>> : k \in Times(c, LockAt(i).waitQueue)}
           V(v) == {<<"cv", v, k>> : k \in Times(c, CVAt(v).waitQueue)}
           LL == UNION {L(i) : i \in LockIndexes}
           VV == UNION {V(v) : v \in CVIndexes}
<1>1. AnswerPlaces(c) = UNION {A, B, LL, VV}
    BY Zenon DEF AnswerPlaces
<1>2. ASSUME NEW p
      PROVE  p \in A <=> c \in requests /\ p = <<"request", 0, 0>>
  <2>1. p \in A <=> \E x \in requests \cap {c} : p = <<"request", 0, 0>>
      BY Zenon
  <2> QED BY <2>1
<1>3. ASSUME NEW p
      PROVE  p \in B <=> \E k \in 1 .. Len(replies[c]) : p = <<"reply", 0, k>>
    BY Zenon
<1>4. ASSUME NEW p
      PROVE  p \in LL <=> \E i \in LockIndexes : \E k \in 1 .. Len(LockAt(i).waitQueue) :
                              LockAt(i).waitQueue[k] = c /\ p = <<"lock", i, k>>
  <2>1. ASSUME NEW i
        PROVE  p \in L(i) <=> \E k \in 1 .. Len(LockAt(i).waitQueue) :
                                  LockAt(i).waitQueue[k] = c /\ p = <<"lock", i, k>>
      BY Zenon DEF Times
  <2>2. p \in LL <=> \E i \in LockIndexes : p \in L(i)
    <3> HIDE DEF L
    <3> QED BY Zenon
  <2> HIDE DEF L, LL
  <2> QED BY <2>1, <2>2, Zenon
<1>5. ASSUME NEW p
      PROVE  p \in VV <=> \E v \in CVIndexes : \E k \in 1 .. Len(CVAt(v).waitQueue) :
                              CVAt(v).waitQueue[k] = c /\ p = <<"cv", v, k>>
  <2>1. ASSUME NEW v
        PROVE  p \in V(v) <=> \E k \in 1 .. Len(CVAt(v).waitQueue) :
                                  CVAt(v).waitQueue[k] = c /\ p = <<"cv", v, k>>
      BY Zenon DEF Times
  <2>2. p \in VV <=> \E v \in CVIndexes : p \in V(v)
    <3> HIDE DEF V
    <3> QED BY Zenon
  <2> HIDE DEF V, VV
  <2> QED BY <2>1, <2>2, Zenon
<1> HIDE DEF A, B, LL, VV
<1>6. \A p : p \in AnswerPlaces(c) <=> p \in A \/ p \in B \/ p \in LL \/ p \in VV
    BY <1>1
<1> QED BY <1>2, <1>3, <1>4, <1>5, <1>6, Zenon

\* Two places of the same answer are the same place.
LEMMA OnePlace ==
    ASSUME AnswerInv, NEW c \in Client, NEW p \in AnswerPlaces(c), NEW q \in AnswerPlaces(c)
    PROVE  p = q
<1> DEFINE InRequest(x) == c \in requests /\ x = <<"request", 0, 0>>
           InReply(x) == \E k \in 1 .. Len(replies[c]) : x = <<"reply", 0, k>>
           AtLock(x) == \E i \in LockIndexes : \E k \in 1 .. Len(LockAt(i).waitQueue) :
                            LockAt(i).waitQueue[k] = c /\ x = <<"lock", i, k>>
           AtCV(x) == \E v \in CVIndexes : \E k \in 1 .. Len(CVAt(v).waitQueue) :
                          CVAt(v).waitQueue[k] = c /\ x = <<"cv", v, k>>
<1>1. \A x \in {p, q} : InRequest(x) \/ InReply(x) \/ AtLock(x) \/ AtCV(x)
    BY PlaceKinds
<1>2. \A x : AtLock(x) => InLock(c)
    BY DEF InLock, InQueue
<1>3. \A x : AtCV(x) => InCV(c)
    BY DEF InCV, InQueue
<1>4. \A x : InReply(x) => replies[c] # <<>> /\ x = <<"reply", 0, 1>>
  <2>1. Len(replies[c]) <= 1
      BY Zenon DEF AnswerInv, AllPlaced, Placed
  <2>2. replies[c] \in Seq(Int)
      BY DEF AnswerInv, TypeOK
  <2>3. \A k \in 1 .. Len(replies[c]) : k = 1 /\ replies[c] # <<>>
      BY <2>1, <2>2
  <2> QED BY <2>3
<1>5. ASSUME AtLock(p), AtLock(q) PROVE p = q
  <2>1. PICK i \in LockIndexes : \E k \in 1 .. Len(LockAt(i).waitQueue) :
            LockAt(i).waitQueue[k] = c /\ p = <<"lock", i, k>>
      BY <1>5
  <2>1a. PICK k \in 1 .. Len(LockAt(i).waitQueue) :
            LockAt(i).waitQueue[k] = c /\ p = <<"lock", i, k>>
      BY <2>1
  <2>2. PICK j \in LockIndexes : \E m \in 1 .. Len(LockAt(j).waitQueue) :
            LockAt(j).waitQueue[m] = c /\ q = <<"lock", j, m>>
      BY <1>5
  <2>2a. PICK m \in 1 .. Len(LockAt(j).waitQueue) :
            LockAt(j).waitQueue[m] = c /\ q = <<"lock", j, m>>
      BY <2>2
  <2>3. call[c].lock = i /\ call[c].lock = j
      BY <2>1a, <2>2a DEF AnswerInv, LockQueues, InQueue
  <2>4. NoRepeats(LockAt(i).waitQueue)
      BY DEF AnswerInv, LockQueues
  <2>5. k = m
      BY <2>1a, <2>2a, <2>3, <2>4 DEF NoRepeats
  <2> QED BY <2>1a, <2>2a, <2>3, <2>5
<1>6. ASSUME AtCV(p), AtCV(q) PROVE p = q
  <2>1. PICK v \in CVIndexes : \E k \in 1 .. Len(CVAt(v).waitQueue) :
            CVAt(v).waitQueue[k] = c /\ p = <<"cv", v, k>>
      BY <1>6
  <2>1a. PICK k \in 1 .. Len(CVAt(v).waitQueue) :
            CVAt(v).waitQueue[k] = c /\ p = <<"cv", v, k>>
      BY <2>1
  <2>2. PICK w \in CVIndexes : \E m \in 1 .. Len(CVAt(w).waitQueue) :
            CVAt(w).waitQueue[m] = c /\ q = <<"cv", w, m>>
      BY <1>6
  <2>2a. PICK m \in 1 .. Len(CVAt(w).waitQueue) :
            CVAt(w).waitQueue[m] = c /\ q = <<"cv", w, m>>
      BY <2>2
  <2>3. call[c].cv = v /\ call[c].cv = w
      BY <2>1a, <2>2a DEF AnswerInv, CVQueues, InQueue
  <2>4. NoRepeats(CVAt(v).waitQueue)
      BY DEF AnswerInv, CVQueues
  <2>5. k = m
      BY <2>1a, <2>2a, <2>3, <2>4 DEF NoRepeats
  <2> QED BY <2>1a, <2>2a, <2>3, <2>5
<1>7. /\ c \in requests => replies[c] = <<>> /\ ~InLock(c) /\ ~InCV(c)
      /\ replies[c] # <<>> => ~InLock(c) /\ ~InCV(c)
      /\ ~(InLock(c) /\ InCV(c))
    BY Zenon DEF AnswerInv, AllPlaced, Placed
<1> HIDE DEF InReply, AtLock, AtCV
<1>8. CASE c \in requests
    BY <1>1, <1>2, <1>3, <1>4, <1>7, <1>8
<1>9. CASE replies[c] # <<>>
    BY <1>1, <1>2, <1>3, <1>4, <1>7, <1>9
<1>10. CASE InLock(c)
    BY <1>1, <1>2, <1>3, <1>4, <1>5, <1>7, <1>10
<1>11. CASE InCV(c)
    BY <1>1, <1>2, <1>3, <1>4, <1>6, <1>7, <1>11
<1> QED BY <1>1, <1>2, <1>3, <1>4, <1>8, <1>9, <1>10, <1>11

(***************************************************************************)
(* Every call is answered exactly once, whichever of the requests, queues  *)
(* and replies its answer passes through and however the server's handlers *)
(* move it between a condition's queue and a lock's queue.                 *)
(***************************************************************************)
THEOREM CallsAnsweredOnce == Spec => []AnsweredOnce
<1>1. AnswerInv => AnsweredOnce
  <2> SUFFICES ASSUME AnswerInv, NEW c \in Client
               PROVE  /\ \A p, q \in AnswerPlaces(c) : p = q
                      /\ call[c] = NoCall => AnswerPlaces(c) = {}
                      /\ call[c] # NoCall /\ ~undefined /\ lost = 0 => AnswerPlaces(c) # {}
      BY DEF AnsweredOnce
  <2>1. \A p, q \in AnswerPlaces(c) : p = q
      BY OnePlace
  <2>2. Placed(c)
      BY DEF AnswerInv, AllPlaced
  <2>3. ASSUME call[c] = NoCall PROVE AnswerPlaces(c) = {}
    <3>1. c \notin requests /\ replies[c] = <<>> /\ ~InLock(c) /\ ~InCV(c)
        BY <2>2, <2>3, Zenon DEF Placed
    <3>2. 1 .. Len(replies[c]) = {}
        BY <3>1
    <3>3. /\ \A i \in LockIndexes : \A k \in 1 .. Len(LockAt(i).waitQueue) :
                LockAt(i).waitQueue[k] # c
          /\ \A v \in CVIndexes : \A k \in 1 .. Len(CVAt(v).waitQueue) :
                CVAt(v).waitQueue[k] # c
        BY <3>1 DEF InLock, InCV, InQueue
    <3>4. \A p : p \notin AnswerPlaces(c)
        BY <3>1, <3>2, <3>3, PlaceKinds
    <3> QED BY <3>4
  <2>4. ASSUME call[c] # NoCall, ~undefined, lost = 0 PROVE \E p : p \in AnswerPlaces(c)
    <3>1. c \in requests \/ replies[c] # <<>> \/ InLock(c) \/ InCV(c)
        BY <2>2, <2>4, Zenon DEF Placed
    <3>2. CASE c \in requests
        BY <3>2, PlaceKinds, Zenon
    <3>3. CASE replies[c] # <<>>
      <4>1. replies[c] \in Seq(Int)
          BY DEF AnswerInv, TypeOK
      <4>2. 1 \in 1 .. Len(replies[c])
          BY <3>3, <4>1
      <4> QED BY <4>2, PlaceKinds, Zenon
    <3>4. CASE InLock(c)
      <4>1. PICK i \in LockIndexes : \E k \in 1 .. Len(LockAt(i).waitQueue) : LockAt(i).waitQueue[k] = c
          BY <3>4 DEF InLock, InQueue
      <4>2. PICK k \in 1 .. Len(LockAt(i).waitQueue) : LockAt(i).waitQueue[k] = c
          BY <4>1
      <4>3. <<"lock", i, k>> \in AnswerPlaces(c)
          BY <4>2, PlaceKinds, Zenon
      <4> QED BY <4>3
    <3>5. CASE InCV(c)
      <4>1. PICK v \in CVIndexes : \E k \in 1 .. Len(CVAt(v).waitQueue) : CVAt(v).waitQueue[k] = c
          BY <3>5 DEF InCV, InQueue
      <4>2. PICK k \in 1 .. Len(CVAt(v).waitQueue) : CVAt(v).waitQueue[k] = c
          BY <4>1
      <4>3. <<"cv", v, k>> \in AnswerPlaces(c)
          BY <4>2, PlaceKinds, Zenon
      <4> QED BY <4>3
    <3> QED BY <3>1, <3>2, <3>3, <3>4, <3>5
  <2> QED BY <2>1, <2>3, <2>4
<1> QED BY <1>1, AnswerInvariance, PTL

-----------------------------------------------------------------------------
(***************************************************************************)
(* Locks are handed over in the order of their queue.                      *)
(***************************************************************************)

\* What HandOff says of one lock, when the step leaves its queue no shorter.
LEMMA QueueNotShorter ==
    ASSUME TypeOK, NEW i \in LockIndexes, NEW l \in ServerLock, SetLock(i, l),
           Len(l.waitQueue) >= Len(LockAt(i).waitQueue)
    PROVE  HandOff
<1>1. /\ LockAt(i)' = l
      /\ \A j \in LockIndexes : j # i => LockAt(j)' = LockAt(j)
    BY SetLockTable
<1>2. \A j \in LockIndexes : Len(LockAt(j).waitQueue) \in Nat
    BY LockAtType
<1>3. Len(l.waitQueue) \in Nat
    BY DEF ServerLock
<1>4. \A j \in LockIndexes : ~(Len((LockAt(j)').waitQueue) < Len(LockAt(j).waitQueue))
    BY <1>1, <1>2, <1>3
<1> QED BY <1>4 DEF HandOff

\* A lock that is given up goes to the first waiter, and the waiter is told.
LEMMA HandedToFirst ==
    ASSUME TypeOK, NEW i \in LockIndexes, SetLock(i, GivenUp(LockAt(i))),
           NEW S, Granted(LockAt(i)) \subseteq S, NEW v \in Int, Reply(S, v)
    PROVE  HandOff
<1>1. PICK l \in ServerLock : l = LockAt(i)
    BY LockAtType
<1>2. PICK m \in ServerLock : m = GivenUp(l)
    BY GivenUpFacts
<1>3. /\ LockAt(i)' = m
      /\ \A j \in LockIndexes : j # i => LockAt(j)' = LockAt(j)
    BY <1>1, <1>2, SetLockTable
<1>4. \A j \in LockIndexes : Len(LockAt(j).waitQueue) \in Nat
    BY LockAtType
<1>5. CASE l.waitQueue = <<>>
  <2>1. m.waitQueue = l.waitQueue
      BY <1>2, <1>5, GivenUpFacts
  <2>2. \A j \in LockIndexes : ~(Len((LockAt(j)').waitQueue) < Len(LockAt(j).waitQueue))
      BY <1>1, <1>3, <1>4, <2>1
  <2> QED BY <2>2 DEF HandOff
<1>6. CASE l.waitQueue # <<>>
  <2>1. PICK h \in Client : h = Head(l.waitQueue)
      BY <1>6, RemoveQueue DEF ServerLock
  <2>2. m.waitQueue = Tail(l.waitQueue) /\ m.owner = MachineOf[h] /\ h \in S
      BY <1>1, <1>2, <1>6, <2>1, GivenUpFacts
  <2>3. Len(replies'[h]) > Len(replies[h])
    <3>1. replies[h] \in Seq(Int)
        BY DEF TypeOK
    <3>2. replies'[h] = Append(replies[h], v)
        BY <2>2 DEF Reply
    <3> QED BY <3>1, <3>2
  <2>4. \A j \in LockIndexes : Len((LockAt(j)').waitQueue) < Len(LockAt(j).waitQueue) => j = i
      BY <1>3, <1>4
  <2> QED BY <1>1, <1>3, <2>1, <2>2, <2>3, <2>4 DEF HandOff
<1> QED BY <1>5, <1>6

\* A step that does not touch the locks that there are.
LEMMA LocksUntouched ==
    ASSUME TypeOK, \A j \in LockIndexes : LockAt(j)' = LockAt(j)
    PROVE  HandOff
<1>1. \A j \in LockIndexes : ~(Len((LockAt(j)').waitQueue) < Len(LockAt(j).waitQueue))
    BY LockAtType
<1> QED BY <1>1 DEF HandOff

\* The server's steps hand locks over in order.
LEMMA ServeHandsOff ==
    ASSUME AnswerInv, NEW c \in Client, Serve(c)
    PROVE  HandOff
<1>0. TypeOK /\ Ok \in Int
    BY ReplyTypes DEF AnswerInv
<1>1. PICK i \in Int : i = call[c].lock
    BY CallType, <1>0
<1>2. ASSUME UNCHANGED serverLockTable PROVE HandOff
    BY <1>0, <1>2, LocksUntouched DEF LockAt
<1>3. ASSUME NEW v, NEW j \in LockIndexes, NEW woken \in Seq(Client), NEW rest,
             Wake(c, v, j, woken, rest)
      PROVE  HandOff
  <2>1. LockAt(j) \in ServerLock /\ LockAt(j).waitQueue \in Seq(Client)
      BY <1>0, LockAtType
  <2>2. PICK q \in Seq(Client) : /\ q = LockAt(j).waitQueue \o woken
                                 /\ Len(q) >= Len(LockAt(j).waitQueue)
      BY <2>1, ConcatQueue
  <2>3. PICK l : l = [LockAt(j) EXCEPT !.waitQueue = q]
      OBVIOUS
  <2>4. SetLock(j, l)
      BY <1>3, <2>2, <2>3 DEF Wake
  <2>5. l \in ServerLock /\ l.waitQueue = q
      BY <2>1, <2>3 DEF ServerLock
  <2> QED BY <1>0, <2>2, <2>4, <2>5, QueueNotShorter
<1>4. ASSUME NEW l \in ServerLock, i \in LockIndexes, SetLock(i, l),
             l.waitQueue = LockAt(i).waitQueue
      PROVE  HandOff
  <2>1. Len(LockAt(i).waitQueue) \in Nat
      BY <1>0, <1>4, LockAtType
  <2> QED BY <1>0, <1>4, <2>1, QueueNotShorter
<1>5. CASE CreateLock(c)
  <2>1. call[c].name \in LockName
      BY <1>5 DEF CreateLock, Handles, AnswerInv, CallNames
  <2>2. \/ UNCHANGED tables
        \/ serverLockTable' = Append(serverLockTable, NewServerLock(call[c].name))
      BY <1>5 DEF CreateLock
  <2> QED BY <1>0, <1>2, <2>1, <2>2, AddLock, LocksUntouched DEF tables
<1>6. CASE Acquire(c)
  <2>1. CASE i \notin LockIndexes
      BY <1>1, <1>2, <1>6, <2>1 DEF Acquire, tables
  <2>2. CASE i \in LockIndexes
    <3>1. LockAt(i) \in ServerLock /\ LockAt(i).waitQueue \in Seq(Client)
        BY <1>0, <2>2, LockAtType
    <3>2. CASE LockAt(i).available
      <4>1. PICK l : l = [LockAt(i) EXCEPT !.available = FALSE, !.owner = MachineOf[c]]
          OBVIOUS
      <4>2. l \in ServerLock /\ l.waitQueue = LockAt(i).waitQueue
          BY <3>1, <4>1, LockServerAssumption DEF ServerLock
      <4> QED BY <1>1, <1>4, <1>6, <2>2, <3>2, <4>1, <4>2 DEF Acquire, NewOwner
    <3>3. CASE ~LockAt(i).available
      <4>1. PICK q \in Seq(Client) : /\ q = Append(LockAt(i).waitQueue, c)
                                     /\ Len(q) = Len(LockAt(i).waitQueue) + 1
          BY <3>1, AppendQueue
      <4>2. PICK l : l = [LockAt(i) EXCEPT !.waitQueue = q]
          OBVIOUS
      <4>3. l \in ServerLock /\ l.waitQueue = q
          BY <3>1, <4>2 DEF ServerLock
      <4>4. SetLock(i, l)
          BY <1>1, <1>6, <2>2, <3>3, <4>1, <4>2 DEF Acquire
      <4>5. Len(l.waitQueue) >= Len(LockAt(i).waitQueue)
          BY <3>1, <4>1, <4>3
      <4> QED BY <1>0, <2>2, <4>3, <4>4, <4>5, QueueNotShorter
    <3> QED BY <3>2, <3>3
  <2> QED BY <2>1, <2>2
<1>7. CASE Release(c)
  <2>1. CASE ~OwnedBy(i, MachineOf[c])
      BY <1>1, <1>2, <1>7, <2>1 DEF Release, tables
  <2>2. CASE OwnedBy(i, MachineOf[c])
    <3>1. i \in LockIndexes
        BY <2>2 DEF OwnedBy
    <3>2. LockAt(i) \in ServerLock
        BY <1>0, <3>1, LockAtType
    <3>3. CASE LockAt(i).waitQueue = <<>> /\ LockAt(i).toBeDeleted
      <4>1. PICK l : l = [LockAt(i) EXCEPT !.freed = TRUE]
          OBVIOUS
      <4>2. l \in ServerLock /\ l.waitQueue = LockAt(i).waitQueue
          BY <3>2, <4>1 DEF ServerLock
      <4> QED BY <1>1, <1>4, <1>7, <2>2, <3>1, <3>3, <4>1, <4>2 DEF Release
    <3>4. CASE ~(LockAt(i).waitQueue = <<>> /\ LockAt(i).toBeDeleted)
      <4>1. SetLock(i, GivenUp(LockAt(i))) /\ Reply({c} \cup Granted(LockAt(i)), Ok)
          BY <1>1, <1>7, <2>2, <3>4 DEF Release
      <4> QED BY <1>0, <3>1, <4>1, HandedToFirst
    <3> QED BY <3>3, <3>4
  <2> QED BY <2>1, <2>2
<1>8. CASE DestroyLock(c)
  <2>1. CASE i \notin LockIndexes
      BY <1>1, <1>2, <1>8, <2>1 DEF DestroyLock
  <2>2. CASE i \in LockIndexes
    <3>1. LockAt(i) \in ServerLock
        BY <1>0, <2>2, LockAtType
    <3>2. PICK l \in {[LockAt(i) EXCEPT !.freed = TRUE],
                      [LockAt(i) EXCEPT !.toBeDeleted = TRUE]} : SetLock(i, l)
        BY <1>1, <1>8, <2>2 DEF DestroyLock
    <3>3. l \in ServerLock /\ l.waitQueue = LockAt(i).waitQueue
        BY <3>1, <3>2 DEF ServerLock
    <3> QED BY <1>4, <2>2, <3>2, <3>3
  <2> QED BY <2>1, <2>2
<1>9. CASE CreateCV(c) \/ DestroyCV(c) \/ UseAfterFree(c)
    BY <1>2, <1>9 DEF CreateCV, DestroyCV, UseAfterFree, tables
<1>10. CASE Wait(c)
  <2>1. CASE OwnedBy(i, MachineOf[c]) /\ Bindable(call[c].cv, i)
    <3>1. SetLock(i, GivenUp(LockAt(i))) /\ Reply(Granted(LockAt(i)), Ok)
        BY <1>1, <1>10, <2>1 DEF Wait
    <3>2. i \in LockIndexes
        BY <2>1 DEF OwnedBy
    <3> QED BY <1>0, <3>1, <3>2, HandedToFirst
  <2>2. CASE ~(OwnedBy(i, MachineOf[c]) /\ Bindable(call[c].cv, i))
      BY <1>1, <1>2, <1>10, <2>2 DEF Wait, tables
  <2> QED BY <2>1, <2>2
<1>11. CASE Signal(c) \/ Broadcast(c)
  <2>1. CASE ~MayWake(call[c].cv, i, MachineOf[c])
      BY <1>1, <1>2, <1>11, <2>1 DEF Signal, Broadcast, tables
  <2>2. CASE MayWake(call[c].cv, i, MachineOf[c])
    <3>1. i \in LockIndexes /\ call[c].cv \in CVIndexes
        BY <2>2 DEF MayWake, OwnedBy
    <3>2. PICK q \in Seq(Client) : q = CVAt(call[c].cv).waitQueue
        BY <1>0, <3>1, CVAtType
    <3>3. \E woken \in Seq(Client), rest \in Seq(Client) : Wake(c, call[c].cv, i, woken, rest)
      <4>1. \/ Wake(c, call[c].cv, i, <<>>, <<>>)
            \/ q # <<>> /\ Wake(c, call[c].cv, i, <<Head(q)>>, Tail(q))
            \/ Wake(c, call[c].cv, i, q, <<>>)
          BY <1>1, <1>11, <2>2, <3>2 DEF Signal, Broadcast
      <4>2. q # <<>> => <<Head(q)>> \in Seq(Client) /\ Tail(q) \in Seq(Client)
          BY RemoveQueue, OneQueue
      <4> QED BY <4>1, <4>2, EmptyQueue
    <3> QED BY <1>3, <3>1, <3>3
  <2> QED BY <2>1, <2>2
<1> QED BY <1>5, <1>6, <1>7, <1>8, <1>9, <1>10, <1>11 DEF Serve

(***************************************************************************)
(* The server gives a lock to the client that has waited for it longest,   *)
(* makes that client's machine the owner, and tells it.                    *)
(***************************************************************************)
THEOREM LocksFirstComeFirstServed == Spec => HandOffInOrder
<1>1. ASSUME AnswerInv, [Next]_vars
      PROVE  HandOff
  <2>1. TypeOK
      BY <1>1 DEF AnswerInv
  <2>2. ASSUME UNCHANGED serverLockTable PROVE HandOff
      BY <2>1, <2>2, LocksUntouched DEF LockAt
  <2>3. CASE UNCHANGED vars
      BY <2>2, <2>3 DEF vars
  <2>4. ASSUME NEW c \in Client, Serve(c)
        PROVE  HandOff
      BY <1>1, <2>4, ServeHandsOff
  <2>5. ASSUME NEW c \in Client,
               \/ \E r \in Requests(c) : Send(c, r)
               \/ Receive(c) \/ LoseRequest(c) \/ LoseReply(c)
        PROVE  UNCHANGED serverLockTable
      BY <2>5 DEF Send, Receive, LoseRequest, LoseReply, tables
  <2> QED BY <1>1, <2>2, <2>3, <2>4, <2>5 DEF Next
<1>2. AnswerInv /\ [Next]_vars => [HandOff]_vars
    BY <1>1
<1> QED BY <1>2, AnswerInvariance, PTL DEF Spec, HandOffInOrder

-----------------------------------------------------------------------------
(***************************************************************************)
(* Who has the locks.  The owner that the server records is a machine, so  *)
(* what follows is about machines that run one client each.                *)
(***************************************************************************)
OneClientPerMachine ==
    \A c, d \in Client : MachineOf[c] = MachineOf[d] => c = d

\* The answer to the call of client c says that c has the lock.
Gets(c) == call[c].op = "acquire" \/ (call[c].op = "wait" /\ call[c].had)

\* The ids of the locks, as they arrive.
Ids == {AsChar(k) : k \in LockIndexes}

\* The ids that the programs and the messages have are ids of locks; only a
\* call that gets and gives up nothing may carry -1.
IdsRight ==
    \A c \in Client :
        /\ \A i \in known[c] \cup held[c] : i \in Ids
        /\ call[c].lock \in Ids \cup {-1}
        /\ call[c].op = "acquire" \/ call[c].had => call[c].lock \in Ids
        /\ call[c].op = "createLock" /\ replies[c] # <<>> => Head(replies[c]) \in Ids

\* A client that gives up a lock relies on it no more, and one that waits in
\* a queue for Wait to return had the lock.
CallsRight ==
    \A c \in Client :
        /\ call[c].had => call[c].op \in {"release", "wait"}
        /\ call[c].op \in {"release", "wait"} => call[c].lock \notin held[c]
        /\ call[c].op = "wait" /\ (InLock(c) \/ InCV(c)) => call[c].had

\* What the server keeps about lock i agrees with who has it.
OwnerRight(i) ==
    /\ \A c \in Client : Has(c, i) => ~LockAt(i).available /\ LockAt(i).owner = MachineOf[c]
    /\ LockAt(i).available => LockAt(i).waitQueue = <<>> /\ LockAt(i).owner = NULL
    /\ ~LockAt(i).available /\ ~LockAt(i).freed =>
          \E c \in Client : LockAt(i).owner = MachineOf[c] /\ (Has(c, i) \/ Stuck(c))
    /\ LockAt(i).freed => LockAt(i).waitQueue = <<>> /\ \A c \in Client : ~Has(c, i)

OwnersRight == \A i \in LockIndexes : OwnerRight(i)

OwnerInv == AnswerInv /\ IdsRight /\ CallsRight /\ OwnersRight

-----------------------------------------------------------------------------
(***************************************************************************)
(* How a step changes who has a lock.                                      *)
(***************************************************************************)

\* The id of a lock is below the table's end.
LEMMA IdsBelow ==
    ASSUME TypeOK
    PROVE  \A x \in Ids \cup {-1} : x \in Int /\ x < Len(serverLockTable)
<1>1. Len(serverLockTable) \in Nat
    BY DEF TypeOK
<1>2. \A k \in LockIndexes : AsChar(k) \in Int /\ AsChar(k) < Len(serverLockTable)
  <2>1. \A k \in LockIndexes : k \in Nat /\ k < Len(serverLockTable)
      BY LockAtType
  <2>2. \A k \in LockIndexes : AsChar(k) \in Int /\ AsChar(k) <= k
      BY <2>1, AsCharType
  <2> QED BY <1>1, <2>1, <2>2
<1> QED BY <1>1, <1>2 DEF Ids

\* Ids stay ids when the table grows.
LEMMA IdsStay ==
    ASSUME LockIndexes \subseteq LockIndexes'
    PROVE  \A x \in Ids : x \in Ids'
<1>1. Ids' = {AsChar(k) : k \in LockIndexes'}
    BY DEF Ids, AsChar
<1> QED BY <1>1 DEF Ids

\* A lock that the step leaves alone, but for clients that join its queue.
LEMMA OwnerKept ==
    ASSUME NEW j, OwnerRight(j), NEW l, LockAt(j)' = l,
           l.available = LockAt(j).available, l.owner = LockAt(j).owner,
           l.freed = LockAt(j).freed,
           l.waitQueue = LockAt(j).waitQueue \/ (~l.available /\ ~l.freed),
           \A d \in Client : Has(d, j)' => Has(d, j),
           \A d \in Client : Has(d, j) \/ Stuck(d) => Has(d, j)' \/ Stuck(d)'
    PROVE  OwnerRight(j)'
<1>1. \A d \in Client : Has(d, j)' => ~l.available /\ l.owner = MachineOf[d]
    BY DEF OwnerRight
<1>2. l.available => l.waitQueue = <<>> /\ l.owner = NULL
    BY DEF OwnerRight
<1>3. ~l.available /\ ~l.freed =>
        \E d \in Client : l.owner = MachineOf[d] /\ (Has(d, j)' \/ Stuck(d)')
    BY DEF OwnerRight
<1>4. l.freed => l.waitQueue = <<>> /\ \A d \in Client : ~Has(d, j)'
    BY DEF OwnerRight
<1> QED BY <1>1, <1>2, <1>3, <1>4 DEF OwnerRight

\* Who has lock j after the server has handled c's request and answered S.
LEMMA ServerHas ==
    ASSUME AnswerInv, NEW c \in Client, NEW op, Handles(c, op),
           NEW S \in SUBSET Client, \A d \in S : d = c \/ InLock(d),
           NEW v \in Int, Reply(S, v), NEW j
    PROVE  /\ \A d \in Client : d # c /\ d \notin S => (Has(d, j)' <=> Has(d, j))
           /\ \A d \in S : Has(d, j)' <=> j \in held[d] \/ (call[d].lock = j /\ Gets(d))
           /\ \A d \in S : d # c => (Has(d, j) <=> j \in held[d])
           /\ c \notin S => (Has(c, j)' <=> j \in held[c])
           /\ Has(c, j) <=> j \in held[c] \/ (call[c].lock = j /\ call[c].had)
<1>1. /\ c \in requests /\ requests' = requests \ {c}
      /\ UNCHANGED <<call, held>>
    BY HandlesFacts DEF AnswerInv
<1>2. ASSUME NEW d \in Client
      PROVE  /\ d \in S => replies'[d] # <<>>
             /\ d \notin S => replies'[d] = replies[d]
  <2>1. replies'[d] = IF d \in S THEN Append(replies[d], v) ELSE replies[d]
      BY DEF Reply
  <2>2. replies[d] \in Seq(Int)
      BY DEF AnswerInv, TypeOK
  <2> QED BY <2>1, <2>2
<1>3. \A d \in S : d # c => d \notin requests /\ replies[d] = <<>>
    BY Zenon DEF AnswerInv, AllPlaced, Placed
<1>4. replies[c] = <<>>
    BY <1>1, Zenon DEF AnswerInv, AllPlaced, Placed
<1>5. ASSUME NEW d \in Client, d # c, d \notin S PROVE Has(d, j)' <=> Has(d, j)
    BY <1>1, <1>2, <1>5 DEF Has
<1>6. ASSUME NEW d \in S
      PROVE  Has(d, j)' <=> j \in held[d] \/ (call[d].lock = j /\ Gets(d))
    BY <1>1, <1>2, <1>3 DEF Has, Gets
<1>7. ASSUME NEW d \in S, d # c PROVE Has(d, j) <=> j \in held[d]
    BY <1>3, <1>7 DEF Has
<1>8. ASSUME c \notin S PROVE Has(c, j)' <=> j \in held[c]
    BY <1>1, <1>2, <1>4, <1>8 DEF Has
<1>9. Has(c, j) <=> j \in held[c] \/ (call[c].lock = j /\ call[c].had)
    BY <1>1, <1>4 DEF Has
<1> QED BY <1>5, <1>6, <1>7, <1>8, <1>9

\* The locks that a request is not about stay with those who have them.
LEMMA OtherOwners ==
    ASSUME AnswerInv, OwnersRight, AnswersMove, NEW c \in Client, NEW op, Handles(c, op),
           NEW S \in SUBSET Client, \A d \in S : d = c \/ InLock(d),
           \A d \in S : call[d].lock = call[c].lock,
           NEW v \in Int, Reply(S, v),
           NEW j \in LockIndexes, j # call[c].lock, LockAt(j)' = LockAt(j)
    PROVE  OwnerRight(j)'
<1>1. /\ \A d \in Client : d # c /\ d \notin S => (Has(d, j)' <=> Has(d, j))
      /\ \A d \in S : Has(d, j)' <=> j \in held[d] \/ (call[d].lock = j /\ Gets(d))
      /\ \A d \in S : d # c => (Has(d, j) <=> j \in held[d])
      /\ c \notin S => (Has(c, j)' <=> j \in held[c])
      /\ Has(c, j) <=> j \in held[c] \/ (call[c].lock = j /\ call[c].had)
    BY ServerHas
<1>2. \A d \in Client : Has(d, j)' <=> Has(d, j)
    BY <1>1
<1>3. \A d \in Client : Stuck(d) => Stuck(d)'
    BY DEF AnswersMove
<1>4. OwnerRight(j)
    BY DEF OwnersRight
<1> QED BY <1>2, <1>3, <1>4, OwnerKept

\* A client that asks about a lock its machine owns has that lock, and nobody
\* else has it.
LEMMA CallerOwns ==
    ASSUME OneClientPerMachine, OwnerInv, NEW c \in Client, NEW op, Handles(c, op),
           NEW i \in LockIndexes, i = call[c].lock, LockAt(i).owner = MachineOf[c]
    PROVE  /\ ~LockAt(i).available /\ ~LockAt(i).freed
           /\ \A d \in Client : Has(d, i) => d = c
           /\ Has(c, i)
           /\ op \in {"release", "wait"} => call[c].had /\ i \notin held[c]
<1>1. /\ c \in requests /\ call[c].op = op
      /\ ~LockAt(i).freed
    BY HandlesFacts DEF OwnerInv, AnswerInv, Handles, TouchesFreed
<1>2. OwnerRight(i)
    BY DEF OwnerInv, OwnersRight
<1>3. ~LockAt(i).available
    BY <1>2, LockServerAssumption DEF OwnerRight
<1>4. \A d \in Client : Has(d, i) => d = c
    BY <1>2 DEF OwnerRight, OneClientPerMachine
<1>5. ~Stuck(c)
    BY <1>1 DEF Stuck
<1>6. Has(c, i)
    BY <1>1, <1>2, <1>3, <1>5 DEF OwnerRight, OneClientPerMachine
<1>7. replies[c] = <<>>
    BY <1>1, Zenon DEF OwnerInv, AnswerInv, AllPlaced, Placed
<1>8. op \in {"release", "wait"} => i \notin held[c]
    BY <1>1 DEF OwnerInv, CallsRight
<1>9. op \in {"release", "wait"} => call[c].had
    BY <1>6, <1>7, <1>8 DEF Has
<1> QED BY <1>1, <1>3, <1>4, <1>6, <1>8, <1>9

\* A request that is answered while every lock stays with its owner.
LEMMA AnswerOwners ==
    ASSUME OwnerInv, AnswersMove, NEW c \in Client, NEW op, Handles(c, op),
           NEW v \in Int, Reply({c}, v),
           call[c].lock \in LockIndexes => (Gets(c) <=> call[c].had),
           \A j \in LockIndexes :
              /\ (LockAt(j)').available = LockAt(j).available
              /\ (LockAt(j)').owner = LockAt(j).owner
              /\ (LockAt(j)').freed = LockAt(j).freed
              /\ \/ (LockAt(j)').waitQueue = LockAt(j).waitQueue
                 \/ ~LockAt(j).available /\ ~LockAt(j).freed
    PROVE  \A j \in LockIndexes : OwnerRight(j)'
<1> SUFFICES ASSUME NEW j \in LockIndexes PROVE OwnerRight(j)'
    OBVIOUS
<1>1. PICK S \in SUBSET Client : S = {c}
    OBVIOUS
<1>2. AnswerInv /\ Reply(S, v) /\ \A d \in S : d = c \/ InLock(d)
    BY <1>1 DEF OwnerInv
<1>3. /\ \A d \in Client : d # c /\ d \notin S => (Has(d, j)' <=> Has(d, j))
      /\ \A d \in S : Has(d, j)' <=> j \in held[d] \/ (call[d].lock = j /\ Gets(d))
      /\ Has(c, j) <=> j \in held[c] \/ (call[c].lock = j /\ call[c].had)
    BY <1>2, ServerHas
<1>4. \A d \in Client : Has(d, j)' <=> Has(d, j)
    BY <1>1, <1>3
<1>5. \A d \in Client : Stuck(d) => Stuck(d)'
    BY DEF AnswersMove
<1>6. OwnerRight(j)
    BY DEF OwnerInv, OwnersRight
<1>7. PICK l : l = LockAt(j)'
    OBVIOUS
<1> QED BY <1>4, <1>5, <1>6, <1>7, OwnerKept

\* The ids and calls stay right when the server handles a request.
LEMMA HandlerIds ==
    ASSUME OwnerInv, AnswerInv', AnswersMove, NEW c \in Client, NEW op, Handles(c, op),
           NEW S \in SUBSET Client, \A d \in S : d = c \/ InLock(d),
           NEW v \in Int, Reply(S, v),
           LockIndexes \subseteq LockIndexes',
           op = "createLock" => v \in Ids',
           op = "wait" /\ (InLock(c)' \/ InCV(c)') => call[c].had
    PROVE  IdsRight' /\ CallsRight'
<1>1. /\ c \in requests /\ requests' = requests \ {c} /\ call[c].op = op
      /\ UNCHANGED <<call, known, held>>
    BY HandlesFacts DEF OwnerInv, AnswerInv
<1>2. \A x \in Ids : x \in Ids'
    BY IdsStay
<1>3. ASSUME NEW d \in Client
      PROVE  /\ \A i \in known[d] \cup held[d] : i \in Ids'
             /\ call[d].lock \in Ids' \cup {-1}
             /\ call[d].op = "acquire" \/ call[d].had => call[d].lock \in Ids'
    BY <1>2 DEF OwnerInv, IdsRight
<1>4. ASSUME NEW d \in Client, call[d].op = "createLock", replies'[d] # <<>>
      PROVE  Head(replies'[d]) \in Ids'
  <2>1. replies'[d] = IF d \in S THEN Append(replies[d], v) ELSE replies[d]
      BY DEF Reply
  <2>2. ~InLock(d)
      BY <1>4 DEF InLock, OwnerInv, AnswerInv, LockQueues
  <2>3. CASE d \in S
    <3>1. d = c
        BY <2>2, <2>3
    <3>2. replies[d] = <<>>
        BY <1>1, <3>1, Zenon DEF OwnerInv, AnswerInv, AllPlaced, Placed
    <3>3. Head(replies'[d]) = v
        BY <2>1, <2>3, <3>2
    <3> QED BY <1>1, <1>4, <3>1, <3>3
  <2>4. CASE d \notin S
    <3>1. replies'[d] = replies[d] /\ Head(replies[d]) \in Ids
        BY <1>4, <2>1, <2>4 DEF OwnerInv, IdsRight
    <3> QED BY <1>2, <3>1
  <2> QED BY <2>3, <2>4
<1>5. IdsRight'
    BY <1>1, <1>3, <1>4 DEF IdsRight
<1>6. ASSUME NEW d \in Client, call[d].op = "wait", InLock(d)' \/ InCV(d)'
      PROVE  call[d].had
  <2>1. CASE d = c
      BY <1>1, <1>6, <2>1
  <2>2. CASE d # c
    <3>1. d \notin requests'
        BY <1>6, Zenon DEF AnswerInv, AllPlaced, Placed
    <3>2. InLock(d) \/ InCV(d)
        BY <1>1, <1>6, <2>2, <3>1 DEF AnswersMove
    <3> QED BY <1>6, <3>2 DEF OwnerInv, CallsRight
  <2> QED BY <2>1, <2>2
<1>7. CallsRight'
    BY <1>1, <1>6 DEF OwnerInv, CallsRight
<1> QED BY <1>5, <1>7

\* All of it for a request that is answered while locks keep their owners.
LEMMA AnsweredOwned ==
    ASSUME OwnerInv, AnswerInv', AnswersMove, NEW c \in Client, NEW op, Handles(c, op),
           NEW v \in Int, Reply({c}, v),
           LockIndexes \subseteq LockIndexes',
           op = "createLock" => v \in Ids',
           call[c].lock \in LockIndexes => (Gets(c) <=> call[c].had),
           \A j \in LockIndexes :
              /\ (LockAt(j)').available = LockAt(j).available
              /\ (LockAt(j)').owner = LockAt(j).owner
              /\ (LockAt(j)').freed = LockAt(j).freed
              /\ \/ (LockAt(j)').waitQueue = LockAt(j).waitQueue
                 \/ ~LockAt(j).available /\ ~LockAt(j).freed
    PROVE  /\ IdsRight' /\ CallsRight'
           /\ \A j \in LockIndexes : OwnerRight(j)'
<1>1. \A j \in LockIndexes : OwnerRight(j)'
    BY AnswerOwners
<1>2. PICK S \in SUBSET Client : S = {c}
    OBVIOUS
<1>3. Reply(S, v) /\ \A d \in S : d = c \/ InLock(d)
    BY <1>2
<1>4. replies'[c] # <<>>
  <2>1. replies'[c] = Append(replies[c], v) /\ replies[c] \in Seq(Int)
      BY DEF Reply, OwnerInv, AnswerInv, TypeOK
  <2> QED BY <2>1
<1>5. ~InLock(c)' /\ ~InCV(c)'
    BY <1>4, Zenon DEF AnswerInv, AllPlaced, Placed
<1>6. IdsRight' /\ CallsRight'
    BY <1>3, <1>5, HandlerIds
<1> QED BY <1>1, <1>6

\* A call that is no Acquire, Release or Wait gives its caller nothing.
LEMMA PlainCall ==
    ASSUME OwnerInv, NEW c \in Client, call[c].op \notin {"acquire", "release", "wait"}
    PROVE  Gets(c) <=> call[c].had
BY DEF OwnerInv, CallsRight, Gets

\* A call that leaves the tables as they are.
LEMMA RefusedOwned ==
    ASSUME OwnerInv, AnswerInv', AnswersMove, NEW c \in Client, NEW op, Handles(c, op),
           NEW v \in Int, Reply({c}, v), UNCHANGED serverLockTable,
           op = "createLock" => v \in Ids,
           call[c].lock \in LockIndexes => (Gets(c) <=> call[c].had)
    PROVE  IdsRight' /\ CallsRight' /\ OwnersRight'
<1>1. /\ LockIndexes' = LockIndexes
      /\ \A j \in LockIndexes : LockAt(j)' = LockAt(j)
    BY DEF LockIndexes, LockAt
<1>2. /\ LockIndexes \subseteq LockIndexes'
      /\ op = "createLock" => v \in Ids'
    BY <1>1, IdsStay
<1>3. /\ IdsRight' /\ CallsRight'
      /\ \A j \in LockIndexes : OwnerRight(j)'
    BY <1>1, <1>2, AnsweredOwned
<1> QED BY <1>1, <1>3 DEF OwnersRight

\* A new lock is nobody's.
LEMMA CreateLockOwned ==
    ASSUME OwnerInv, AnswerInv', AnswersMove, NEW c \in Client, CreateLock(c)
    PROVE  IdsRight' /\ CallsRight' /\ OwnersRight'
<1>1. /\ Handles(c, "createLock")
      /\ call[c].op = "createLock" /\ requests' = requests \ {c}
      /\ UNCHANGED <<call, held>>
    BY HandlesFacts DEF OwnerInv, AnswerInv, CreateLock
<1>2. Gets(c) <=> call[c].had
    BY <1>1, PlainCall
<1>3. PICK n \in LockName : n = call[c].name
    BY <1>1 DEF OwnerInv, AnswerInv, CallNames
<1>4. CASE \E i \in LockIndexes : LockAt(i).name = n
  <2>1. PICK i \in LockIndexes : Reply({c}, AsChar(i))
      BY <1>3, <1>4 DEF CreateLock
  <2>2. PICK v \in Int : v = AsChar(i)
      BY ReplyTypes DEF OwnerInv, AnswerInv
  <2>3. v \in Ids
      BY <2>2 DEF Ids
  <2>4. UNCHANGED serverLockTable
      BY <1>3, <1>4 DEF CreateLock, tables
  <2> QED BY <1>1, <1>2, <2>1, <2>2, <2>3, <2>4, RefusedOwned
<1>5. CASE ~\E i \in LockIndexes : LockAt(i).name = n
  <2>1. /\ serverLockTable' = Append(serverLockTable, NewServerLock(n))
        /\ Reply({c}, AsChar(Len(serverLockTable)))
      BY <1>3, <1>5 DEF CreateLock
  <2>2. PICK v \in Int : v = AsChar(Len(serverLockTable))
      BY ReplyTypes DEF OwnerInv, AnswerInv
  <2>3. PICK m \in Nat : m = Len(serverLockTable)
      BY DEF OwnerInv, AnswerInv, TypeOK
  <2>4. PICK l : l = NewServerLock(n)
      OBVIOUS
  <2>5. /\ LockIndexes' = LockIndexes \cup {m}
        /\ LockAt(m)' = l
        /\ \A j \in LockIndexes : LockAt(j)' = LockAt(j)
      BY <2>1, <2>3, <2>4, AddLock DEF OwnerInv, AnswerInv, LockAt
  <2>6. v \in Ids' /\ LockIndexes \subseteq LockIndexes'
    <3>1. Ids' = {AsChar(k) : k \in LockIndexes'}
        BY DEF Ids, AsChar
    <3> QED BY <2>2, <2>3, <2>5, <3>1
  <2>7. /\ IdsRight' /\ CallsRight'
        /\ \A j \in LockIndexes : OwnerRight(j)'
      BY <1>1, <1>2, <2>1, <2>2, <2>5, <2>6, AnsweredOwned
  <2>8. OwnerRight(m)'
    <3>1. /\ l.available /\ ~l.freed /\ l.waitQueue = <<>> /\ l.owner = NULL
        BY <2>4 DEF NewServerLock
    <3>2. ASSUME NEW d \in Client PROVE ~Has(d, m)'
      <4>1. m \notin held[d] /\ call[d].lock # m
        <5>1. /\ \A i \in held[d] : i \in Ids
              /\ call[d].lock \in Ids \cup {-1}
            BY DEF OwnerInv, IdsRight
        <5> QED BY <2>3, <5>1, IdsBelow DEF OwnerInv, AnswerInv
      <4> QED BY <1>1, <4>1 DEF Has
    <3> QED BY <2>5, <3>1, <3>2 DEF OwnerRight
  <2> QED BY <2>5, <2>7, <2>8 DEF OwnersRight
<1> QED BY <1>4, <1>5

\* DestroyLock deletes a lock that nobody has.
LEMMA DestroyLockOwned ==
    ASSUME OwnerInv, AnswerInv', AnswersMove, NEW c \in Client, DestroyLock(c)
    PROVE  IdsRight' /\ CallsRight' /\ OwnersRight'
<1>1. /\ Handles(c, "destroyLock") /\ Reply({c}, Ok) /\ Ok \in Int
      /\ call[c].op = "destroyLock"
    BY ReplyTypes, HandlesFacts DEF DestroyLock, OwnerInv, AnswerInv
<1>2. PICK i \in Int : i = call[c].lock
    BY CallType DEF OwnerInv, AnswerInv
<1>3. Gets(c) <=> call[c].had
    BY <1>1, PlainCall
<1>4. CASE i \notin LockIndexes
    BY <1>1, <1>2, <1>3, <1>4, RefusedOwned DEF DestroyLock
<1>5. CASE i \in LockIndexes /\ ~Unused(LockAt(i))
  <2>1. LockAt(i) \in ServerLock
      BY <1>5, LockAtType DEF OwnerInv, AnswerInv
  <2>2. PICK l : l = [LockAt(i) EXCEPT !.toBeDeleted = TRUE]
      OBVIOUS
  <2>3. /\ l \in ServerLock /\ l.waitQueue = LockAt(i).waitQueue
        /\ l.available = LockAt(i).available /\ l.owner = LockAt(i).owner
        /\ l.freed = LockAt(i).freed
      BY <2>1, <2>2 DEF ServerLock
  <2>4. SetLock(i, l)
      BY <1>2, <1>5, <2>2 DEF DestroyLock
  <2>5. /\ LockIndexes' = LockIndexes
        /\ LockAt(i)' = l
        /\ \A j \in LockIndexes : j # i => LockAt(j)' = LockAt(j)
      BY <1>5, <2>3, <2>4, SetLockTable DEF OwnerInv, AnswerInv
  <2>6. LockIndexes \subseteq LockIndexes'
      BY <2>5
  <2>7. \A j \in LockIndexes :
           /\ (LockAt(j)').available = LockAt(j).available
           /\ (LockAt(j)').owner = LockAt(j).owner
           /\ (LockAt(j)').freed = LockAt(j).freed
           /\ \/ (LockAt(j)').waitQueue = LockAt(j).waitQueue
              \/ ~LockAt(j).available /\ ~LockAt(j).freed
      BY <2>3, <2>5
  <2>8. /\ IdsRight' /\ CallsRight'
        /\ \A j \in LockIndexes : OwnerRight(j)'
      BY <1>1, <1>3, <2>6, <2>7, AnsweredOwned
  <2> QED BY <2>5, <2>8 DEF OwnersRight
<1>6. CASE i \in LockIndexes /\ Unused(LockAt(i))
  <2>1. LockAt(i) \in ServerLock
      BY <1>6, LockAtType DEF OwnerInv, AnswerInv
  <2>2. PICK l : l = [LockAt(i) EXCEPT !.freed = TRUE]
      OBVIOUS
  <2>3. /\ l \in ServerLock /\ l.waitQueue = <<>>
        /\ l.available /\ l.owner = LockAt(i).owner /\ l.freed
      BY <1>6, <2>1, <2>2 DEF ServerLock, Unused
  <2>4. SetLock(i, l)
      BY <1>2, <1>6, <2>2 DEF DestroyLock
  <2>5. /\ LockIndexes' = LockIndexes
        /\ LockAt(i)' = l
        /\ \A j \in LockIndexes : j # i => LockAt(j)' = LockAt(j)
      BY <1>6, <2>3, <2>4, SetLockTable DEF OwnerInv, AnswerInv
  <2>6. LockIndexes \subseteq LockIndexes'
      BY <2>5
  <2>7. PICK S \in SUBSET Client : S = {c}
      OBVIOUS
  <2>8. /\ Reply(S, Ok) /\ \A d \in S : d = c \/ InLock(d)
        /\ \A d \in S : call[d].lock = call[c].lock
        /\ AnswerInv /\ OwnersRight
      BY <1>1, <2>7 DEF OwnerInv
  <2>9. \A j \in LockIndexes : j # i => OwnerRight(j)'
      BY <1>1, <1>2, <2>5, <2>8, OtherOwners
  <2>10. OwnerRight(i)'
    <3>1. OwnerRight(i)
        BY <1>6 DEF OwnerInv, OwnersRight
    <3>2. LockAt(i).available /\ \A d \in Client : ~Has(d, i)
        BY <1>6, <3>1 DEF Unused, OwnerRight
    <3>3. /\ \A d \in Client : d # c /\ d \notin S => (Has(d, i)' <=> Has(d, i))
          /\ \A d \in S : Has(d, i)' <=> i \in held[d] \/ (call[d].lock = i /\ Gets(d))
          /\ Has(c, i) <=> i \in held[c] \/ (call[c].lock = i /\ call[c].had)
        BY <1>1, <2>8, ServerHas
    <3>4. \A d \in Client : ~Has(d, i)'
        BY <1>3, <2>7, <3>2, <3>3
    <3>5. l.owner = NULL
        BY <2>3, <3>1, <3>2 DEF OwnerRight
    <3> QED BY <2>3, <2>5, <3>4, <3>5 DEF OwnerRight
  <2>11. IdsRight' /\ CallsRight'
    <3>1. "destroyLock" # "createLock" /\ "destroyLock" # "wait"
        OBVIOUS
    <3> QED BY <1>1, <2>6, <2>8, <3>1, HandlerIds
  <2> QED BY <2>5, <2>9, <2>10, <2>11 DEF OwnersRight
<1> QED BY <1>4, <1>5, <1>6

\* Acquire gives its caller a lock that nobody has, or queues it.
LEMMA AcquireOwned ==
    ASSUME OwnerInv, AnswerInv', AnswersMove, NEW c \in Client, Acquire(c)
    PROVE  IdsRight' /\ CallsRight' /\ OwnersRight'
<1>1. /\ Handles(c, "acquire") /\ Ok \in Int /\ call[c].op = "acquire"
      /\ "acquire" # "createLock" /\ "acquire" # "wait"
      /\ AnswerInv /\ OwnersRight
    BY ReplyTypes, HandlesFacts DEF Acquire, OwnerInv, AnswerInv
<1>2. PICK i \in Int : i = call[c].lock
    BY <1>1, CallType DEF AnswerInv
<1>3. CASE i \notin LockIndexes
    BY <1>1, <1>2, <1>3, RefusedOwned DEF Acquire, tables
<1>4. ~call[c].had /\ Gets(c)
    BY <1>1 DEF OwnerInv, CallsRight, Gets
<1>5. ASSUME i \in LockIndexes
      PROVE  /\ LockAt(i) \in ServerLock /\ OwnerRight(i)
             /\ ~LockAt(i).freed
    BY <1>1, <1>2, <1>5, LockAtType DEF AnswerInv, OwnersRight, Handles, TouchesFreed
<1>6. CASE i \in LockIndexes /\ LockAt(i).available
  <2>1. PICK l : l = [LockAt(i) EXCEPT !.available = FALSE, !.owner = MachineOf[c]]
      OBVIOUS
  <2>2. SetLock(i, l) /\ Reply({c}, Ok)
      BY <1>2, <1>6, <2>1 DEF Acquire, NewOwner
  <2>3. /\ l \in ServerLock /\ ~l.available /\ l.owner = MachineOf[c]
        /\ ~l.freed
      BY <1>5, <1>6, <2>1, LockServerAssumption DEF ServerLock
  <2>4. /\ LockIndexes' = LockIndexes
        /\ LockAt(i)' = l
        /\ \A j \in LockIndexes : j # i => LockAt(j)' = LockAt(j)
      BY <1>1, <1>6, <2>2, <2>3, SetLockTable DEF AnswerInv
  <2>5. PICK S \in SUBSET Client : S = {c}
      OBVIOUS
  <2>6. /\ Reply(S, Ok) /\ \A d \in S : d = c \/ InLock(d)
        /\ \A d \in S : call[d].lock = call[c].lock
      BY <2>2, <2>5
  <2>7. \A j \in LockIndexes : j # i => OwnerRight(j)'
      BY <1>1, <1>2, <2>4, <2>6, OtherOwners
  <2>8. OwnerRight(i)'
    <3>1. /\ \A d \in Client : d # c /\ d \notin S => (Has(d, i)' <=> Has(d, i))
          /\ \A d \in S : Has(d, i)' <=> i \in held[d] \/ (call[d].lock = i /\ Gets(d))
        BY <1>1, <2>6, ServerHas
    <3>2. \A d \in Client : ~Has(d, i)
        BY <1>5, <1>6 DEF OwnerRight
    <3>3. \A d \in Client : Has(d, i)' <=> d = c
        BY <1>2, <1>4, <2>5, <3>1, <3>2
    <3> QED BY <2>3, <2>4, <3>3 DEF OwnerRight
  <2>9. LockIndexes \subseteq LockIndexes'
      BY <1>1, <2>4
  <2>10. IdsRight' /\ CallsRight'
      BY <1>1, <2>6, <2>9, HandlerIds
  <2> QED BY <2>4, <2>7, <2>8, <2>10 DEF OwnersRight
<1>7. CASE i \in LockIndexes /\ ~LockAt(i).available
  <2>1. PICK q : q = Append(LockAt(i).waitQueue, c)
      OBVIOUS
  <2>2. q \in Seq(Client)
      BY <1>5, <1>7, <2>1, AppendQueue DEF ServerLock
  <2>3. PICK l : l = [LockAt(i) EXCEPT !.waitQueue = q]
      OBVIOUS
  <2>4. SetLock(i, l) /\ UNCHANGED replies
      BY <1>2, <1>7, <2>1, <2>3 DEF Acquire
  <2>5. /\ l \in ServerLock /\ l.available = LockAt(i).available
        /\ l.owner = LockAt(i).owner /\ l.freed = LockAt(i).freed
      BY <1>5, <1>7, <2>2, <2>3 DEF ServerLock
  <2>6. /\ LockIndexes' = LockIndexes
        /\ LockAt(i)' = l
        /\ \A j \in LockIndexes : j # i => LockAt(j)' = LockAt(j)
      BY <1>1, <1>7, <2>4, <2>5, SetLockTable DEF AnswerInv
  <2>7. PICK S \in SUBSET Client : S = {}
      OBVIOUS
  <2>8. /\ Reply(S, Ok) /\ \A d \in S : d = c \/ InLock(d)
        /\ \A d \in S : call[d].lock = call[c].lock
      BY <1>1, <2>4, <2>7 DEF Reply, AnswerInv, TypeOK
  <2>9. \A j \in LockIndexes : j # i => OwnerRight(j)'
      BY <1>1, <1>2, <2>6, <2>8, OtherOwners
  <2>10. OwnerRight(i)'
    <3>1. /\ \A d \in Client : d # c /\ d \notin S => (Has(d, i)' <=> Has(d, i))
          /\ c \notin S => (Has(c, i)' <=> i \in held[c])
          /\ Has(c, i) <=> i \in held[c] \/ (call[c].lock = i /\ call[c].had)
        BY <1>1, <2>8, ServerHas
    <3>2. \A d \in Client : Has(d, i)' <=> Has(d, i)
        BY <1>4, <2>7, <3>1
    <3>3. \A d \in Client : Stuck(d) => Stuck(d)'
        BY DEF AnswersMove
    <3> QED BY <1>5, <1>7, <2>5, <2>6, <3>2, <3>3, OwnerKept
  <2>11. LockIndexes \subseteq LockIndexes'
      BY <1>1, <2>6
  <2>12. IdsRight' /\ CallsRight'
      BY <1>1, <2>8, <2>11, HandlerIds
  <2> QED BY <2>6, <2>9, <2>10, <2>12 DEF OwnersRight
<1> QED BY <1>3, <1>6, <1>7

\* What the caller of Release or Wait gives up goes to the head of the queue
\* and to nobody else.
LEMMA GiveUpOwned ==
    ASSUME OneClientPerMachine, OwnerInv, AnswerInv', AnswersMove,
           NEW c \in Client, NEW op \in {"release", "wait"}, Handles(c, op),
           NEW i \in LockIndexes, i = call[c].lock, LockAt(i).owner = MachineOf[c],
           SetLock(i, GivenUp(LockAt(i))),
           NEW S \in SUBSET Client, Reply(S, Ok), c \in S <=> op = "release",
           \A d \in Client : d # c => (d \in S <=> d \in Granted(LockAt(i)))
    PROVE  IdsRight' /\ CallsRight' /\ OwnersRight'
<1>1. /\ Ok \in Int /\ call[c].op = op /\ c \in requests
      /\ op # "createLock"
      /\ AnswerInv /\ OwnersRight /\ TypeOK
    BY ReplyTypes, HandlesFacts DEF OwnerInv, AnswerInv
<1>2. /\ ~LockAt(i).available /\ ~LockAt(i).freed
      /\ \A d \in Client : Has(d, i) => d = c
      /\ call[c].had /\ i \notin held[c]
    BY CallerOwns
<1>3. PICK l \in ServerLock : l = LockAt(i)
    BY <1>1, LockAtType
<1>4. PICK m \in ServerLock : m = GivenUp(l)
    BY GivenUpFacts
<1>5. /\ l.waitQueue = <<>> =>
           /\ m.owner = NULL /\ m.available
           /\ m.waitQueue = <<>> /\ Granted(l) = {}
      /\ l.waitQueue # <<>> =>
           /\ m.owner = MachineOf[Head(l.waitQueue)] /\ ~m.available
           /\ Granted(l) = {Head(l.waitQueue)}
      /\ ~m.freed
    BY <1>2, <1>3, <1>4, GivenUpFacts
<1>6. /\ LockIndexes' = LockIndexes
      /\ LockAt(i)' = m
      /\ \A j \in LockIndexes : j # i => LockAt(j)' = LockAt(j)
    BY <1>1, <1>3, <1>4, SetLockTable
<1>7. ASSUME NEW d \in Granted(l)
      PROVE  /\ d \in Client /\ InLock(d) /\ call[d].lock = i /\ d # c
             /\ Gets(d)
  <2>1. l.waitQueue # <<>> /\ d = Head(l.waitQueue) /\ l.waitQueue \in Seq(Client)
      BY <1>5, <1>7 DEF ServerLock
  <2>2. d \in Client /\ InQueue(d, l.waitQueue)
      BY <2>1, RemoveQueue
  <2>3. InLock(d) /\ call[d].lock = i /\ call[d].op \in {"acquire", "wait"}
      BY <1>1, <1>3, <2>2 DEF InLock, AnswerInv, LockQueues
  <2>4. d # c
      BY <1>1, <2>3, Zenon DEF AnswerInv, AllPlaced, Placed
  <2>5. Gets(d)
      BY <2>2, <2>3 DEF OwnerInv, CallsRight, Gets
  <2> QED BY <2>2, <2>3, <2>4, <2>5
<1>8. /\ \A d \in S : d = c \/ InLock(d)
      /\ \A d \in S : call[d].lock = call[c].lock
    BY <1>3, <1>7
<1>9. \A j \in LockIndexes : j # i => OwnerRight(j)'
    BY <1>1, <1>6, <1>8, OtherOwners
<1>10. OwnerRight(i)'
  <2>1. /\ \A d \in Client : d # c /\ d \notin S => (Has(d, i)' <=> Has(d, i))
        /\ \A d \in S : Has(d, i)' <=> i \in held[d] \/ (call[d].lock = i /\ Gets(d))
        /\ c \notin S => (Has(c, i)' <=> i \in held[c])
      BY <1>1, <1>8, ServerHas
  <2>2. ~Has(c, i)'
    <3>1. op = "release" => ~Gets(c)
        BY <1>1 DEF Gets
    <3> QED BY <1>2, <2>1, <3>1
  <2>3. \A d \in Client : Has(d, i)' <=> d \in Granted(l)
      BY <1>2, <1>3, <1>7, <2>1, <2>2
  <2>4. CASE l.waitQueue = <<>>
      BY <1>5, <1>6, <2>3, <2>4 DEF OwnerRight
  <2>5. CASE l.waitQueue # <<>>
    <3>1. PICK h \in Client : h = Head(l.waitQueue)
        BY <1>5, <1>7, <2>5
    <3>2. /\ \A d \in Client : Has(d, i)' <=> d = h
          /\ m.owner = MachineOf[h] /\ ~m.available /\ ~m.freed
        BY <1>5, <2>3, <2>5, <3>1
    <3> QED BY <1>6, <3>2 DEF OwnerRight
  <2> QED BY <2>4, <2>5
<1>11. LockIndexes \subseteq LockIndexes'
    BY <1>1, <1>6
<1>12. IdsRight' /\ CallsRight'
    BY <1>1, <1>2, <1>8, <1>11, HandlerIds
<1> QED BY <1>6, <1>9, <1>10, <1>12 DEF OwnersRight

\* Release.
LEMMA ReleaseOwned ==
    ASSUME OneClientPerMachine, OwnerInv, AnswerInv', AnswersMove,
           NEW c \in Client, Release(c)
    PROVE  IdsRight' /\ CallsRight' /\ OwnersRight'
<1>1. /\ Handles(c, "release") /\ Ok \in Int /\ call[c].op = "release"
      /\ c \in requests
      /\ "release" # "createLock" /\ "release" # "wait"
      /\ AnswerInv /\ OwnersRight
    BY ReplyTypes, HandlesFacts DEF Release, OwnerInv, AnswerInv
<1>2. PICK i \in Int : i = call[c].lock
    BY <1>1, CallType DEF AnswerInv
<1>3. ~Gets(c)
    BY <1>1 DEF Gets
<1>4. CASE ~OwnedBy(i, MachineOf[c])
  <2>1. ASSUME i \in LockIndexes PROVE ~call[c].had
    <3>1. OwnerRight(i) /\ LockAt(i).owner # MachineOf[c]
        BY <1>1, <1>4, <2>1 DEF OwnersRight, OwnedBy
    <3>2. ~Has(c, i)
        BY <3>1 DEF OwnerRight
    <3> QED BY <1>1, <1>2, <3>2 DEF Has
  <2> QED BY <1>1, <1>2, <1>3, <1>4, <2>1, RefusedOwned DEF Release, tables
<1>5. ASSUME OwnedBy(i, MachineOf[c])
      PROVE  /\ i \in LockIndexes /\ LockAt(i).owner = MachineOf[c]
             /\ LockAt(i) \in ServerLock
             /\ ~LockAt(i).available
             /\ \A d \in Client : Has(d, i) => d = c
             /\ i \notin held[c]
  <2>1. i \in LockIndexes /\ LockAt(i).owner = MachineOf[c]
      BY <1>5 DEF OwnedBy
  <2> QED BY <1>1, <1>2, <2>1, CallerOwns, LockAtType DEF AnswerInv
<1>6. CASE OwnedBy(i, MachineOf[c]) /\ LockAt(i).waitQueue = <<>> /\ LockAt(i).toBeDeleted
  <2>1. PICK l : l = [LockAt(i) EXCEPT !.freed = TRUE]
      OBVIOUS
  <2>2. PICK S \in SUBSET Client : S = {c}
      OBVIOUS
  <2>3. SetLock(i, l) /\ Reply(S, Ok)
    <3>1. {c} \cup Granted(LockAt(i)) = S
        BY <1>6, <2>2 DEF Granted
    <3> QED BY <1>2, <1>6, <2>1, <3>1 DEF Release
  <2>4. /\ l \in ServerLock /\ l.waitQueue = <<>> /\ ~l.available /\ l.freed
      BY <1>5, <1>6, <2>1 DEF ServerLock
  <2>5. /\ LockIndexes' = LockIndexes
        /\ LockAt(i)' = l
        /\ \A j \in LockIndexes : j # i => LockAt(j)' = LockAt(j)
      BY <1>1, <1>5, <1>6, <2>3, <2>4, SetLockTable DEF AnswerInv
  <2>6. /\ \A d \in S : d = c \/ InLock(d)
        /\ \A d \in S : call[d].lock = call[c].lock
      BY <2>2
  <2>7. \A j \in LockIndexes : j # i => OwnerRight(j)'
      BY <1>1, <1>2, <2>3, <2>5, <2>6, OtherOwners
  <2>8. OwnerRight(i)'
    <3>1. /\ \A d \in Client : d # c /\ d \notin S => (Has(d, i)' <=> Has(d, i))
          /\ \A d \in S : Has(d, i)' <=> i \in held[d] \/ (call[d].lock = i /\ Gets(d))
        BY <1>1, <2>3, <2>6, ServerHas
    <3>2. \A d \in Client : ~Has(d, i)'
        BY <1>3, <1>5, <1>6, <2>2, <3>1
    <3> QED BY <2>4, <2>5, <3>2 DEF OwnerRight
  <2>9. LockIndexes \subseteq LockIndexes'
      BY <1>1, <2>5
  <2>10. IdsRight' /\ CallsRight'
      BY <1>1, <2>3, <2>6, <2>9, HandlerIds
  <2> QED BY <2>5, <2>7, <2>8, <2>10 DEF OwnersRight
<1>7. CASE OwnedBy(i, MachineOf[c]) /\ ~(LockAt(i).waitQueue = <<>> /\ LockAt(i).toBeDeleted)
  <2>1. LockAt(i) \in ServerLock
      BY <1>5, <1>7
  <2>2. PICK S \in SUBSET Client : S = {c} \cup Granted(LockAt(i))
      BY <2>1, GivenUpFacts
  <2>3. SetLock(i, GivenUp(LockAt(i))) /\ Reply(S, Ok)
      BY <1>2, <1>7, <2>2 DEF Release
  <2>4. \A d \in Client : d # c => (d \in S <=> d \in Granted(LockAt(i)))
      BY <2>2
  <2>5. PICK op \in {"release", "wait"} : op = "release"
      OBVIOUS
  <2>6. Handles(c, op) /\ (c \in S <=> op = "release")
      BY <1>1, <2>2, <2>5
  <2> QED BY <1>2, <1>5, <1>7, <2>3, <2>4, <2>6, GiveUpOwned
<1> QED BY <1>4, <1>6, <1>7

\* Wait.
LEMMA WaitOwned ==
    ASSUME OneClientPerMachine, OwnerInv, AnswerInv', AnswersMove,
           NEW c \in Client, Wait(c)
    PROVE  IdsRight' /\ CallsRight' /\ OwnersRight'
<1>1. /\ Handles(c, "wait") /\ Ok \in Int /\ call[c].op = "wait"
      /\ c \in requests /\ "wait" # "createLock"
      /\ AnswerInv /\ OwnersRight
    BY ReplyTypes, HandlesFacts DEF Wait, OwnerInv, AnswerInv
<1>2. PICK i \in Int : i = call[c].lock
    BY <1>1, CallType DEF AnswerInv
<1>3. PICK v \in Int : v = call[c].cv
    BY <1>1, CallType DEF AnswerInv
<1>4. Gets(c) <=> call[c].had
    BY <1>1 DEF Gets
<1>5. CASE ~(OwnedBy(i, MachineOf[c]) /\ Bindable(v, i))
    BY <1>1, <1>2, <1>3, <1>4, <1>5, RefusedOwned DEF Wait, tables
<1>6. CASE OwnedBy(i, MachineOf[c]) /\ Bindable(v, i)
  <2>1. i \in LockIndexes /\ LockAt(i).owner = MachineOf[c]
      BY <1>6 DEF OwnedBy
  <2>2. LockAt(i) \in ServerLock
      BY <1>1, <2>1, LockAtType DEF AnswerInv
  <2>3. PICK S \in SUBSET Client : S = Granted(LockAt(i))
      BY <2>2, GivenUpFacts
  <2>4. SetLock(i, GivenUp(LockAt(i))) /\ Reply(S, Ok)
      BY <1>2, <1>3, <1>6, <2>3 DEF Wait
  <2>5. c \notin S
    <3>1. ~InLock(c)
        BY <1>1, Zenon DEF AnswerInv, AllPlaced, Placed
    <3>2. NoRepeats(LockAt(i).waitQueue)
        BY <1>1, <2>1 DEF AnswerInv, LockQueues
    <3>3. PICK l \in ServerLock : l = LockAt(i)
        BY <2>2
    <3>4. \A d \in S : InQueue(d, l.waitQueue)
        BY <2>3, <3>2, <3>3, GivenUpFacts
    <3> QED BY <2>1, <3>1, <3>3, <3>4 DEF InLock
  <2>6. \A d \in Client : d # c => (d \in S <=> d \in Granted(LockAt(i)))
      BY <2>3
  <2>7. PICK op \in {"release", "wait"} : op = "wait"
      OBVIOUS
  <2>8. Handles(c, op) /\ (c \in S <=> op = "release")
      BY <1>1, <2>5, <2>7
  <2> QED BY <1>2, <2>1, <2>4, <2>6, <2>8, GiveUpOwned
<1> QED BY <1>5, <1>6

\* Signal and Broadcast queue the clients they wake behind a lock that their
\* caller has.
LEMMA WakeOwned ==
    ASSUME OneClientPerMachine, OwnerInv, AnswerInv', AnswersMove,
           NEW c \in Client, NEW op \in {"signal", "broadcast"}, Handles(c, op),
           NEW i \in LockIndexes, i = call[c].lock, LockAt(i).owner = MachineOf[c],
           NEW v, NEW woken \in Seq(Client), NEW rest, Wake(c, v, i, woken, rest)
    PROVE  IdsRight' /\ CallsRight' /\ OwnersRight'
<1>1. /\ Ok \in Int /\ call[c].op = op
      /\ op # "createLock"
      /\ AnswerInv /\ TypeOK
    BY ReplyTypes, HandlesFacts DEF OwnerInv, AnswerInv
<1>2. ~LockAt(i).available /\ ~LockAt(i).freed
    BY CallerOwns
<1>3. LockAt(i) \in ServerLock /\ LockAt(i).waitQueue \in Seq(Client)
    BY <1>1, LockAtType
<1>4. PICK q \in Seq(Client) : q = LockAt(i).waitQueue \o woken
    BY <1>3, ConcatQueue
<1>5. PICK l : l = [LockAt(i) EXCEPT !.waitQueue = q]
    OBVIOUS
<1>6. SetLock(i, l) /\ Reply({c}, Ok)
    BY <1>4, <1>5 DEF Wake
<1>7. /\ l \in ServerLock /\ l.available = LockAt(i).available
      /\ l.owner = LockAt(i).owner /\ l.freed = LockAt(i).freed
    BY <1>3, <1>5 DEF ServerLock
<1>8. /\ LockIndexes' = LockIndexes
      /\ LockAt(i)' = l
      /\ \A j \in LockIndexes : j # i => LockAt(j)' = LockAt(j)
    BY <1>1, <1>6, <1>7, SetLockTable
<1>9. \A j \in LockIndexes :
         /\ (LockAt(j)').available = LockAt(j).available
         /\ (LockAt(j)').owner = LockAt(j).owner
         /\ (LockAt(j)').freed = LockAt(j).freed
         /\ \/ (LockAt(j)').waitQueue = LockAt(j).waitQueue
            \/ ~LockAt(j).available /\ ~LockAt(j).freed
    BY <1>2, <1>7, <1>8
<1>10. LockIndexes \subseteq LockIndexes'
    BY <1>1, <1>8
<1>11. Gets(c) <=> call[c].had
    BY <1>1, PlainCall
<1>12. /\ IdsRight' /\ CallsRight'
       /\ \A j \in LockIndexes : OwnerRight(j)'
    BY <1>1, <1>6, <1>9, <1>10, <1>11, AnsweredOwned
<1> QED BY <1>8, <1>12 DEF OwnersRight

\* Signal and Broadcast.
LEMMA WakersOwned ==
    ASSUME OneClientPerMachine, OwnerInv, AnswerInv', AnswersMove,
           NEW c \in Client, Signal(c) \/ Broadcast(c)
    PROVE  IdsRight' /\ CallsRight' /\ OwnersRight'
<1>1. /\ Ok \in Int /\ AnswerInv /\ TypeOK
    BY ReplyTypes DEF OwnerInv, AnswerInv
<1>2. PICK op \in {"signal", "broadcast"} : Handles(c, op)
    BY DEF Signal, Broadcast
<1>3. call[c].op = op /\ op # "createLock"
    BY <1>1, <1>2, HandlesFacts
<1>4. PICK i \in Int : i = call[c].lock
    BY <1>1, CallType
<1>5. PICK v \in Int : v = call[c].cv
    BY <1>1, CallType
<1>6. CASE ~MayWake(v, i, MachineOf[c])
  <2>1. Reply({c}, Ok) /\ UNCHANGED serverLockTable
      BY <1>4, <1>5, <1>6 DEF Signal, Broadcast, tables
  <2>2. Gets(c) <=> call[c].had
      BY <1>3, PlainCall
  <2> QED BY <1>1, <1>2, <1>3, <2>1, <2>2, RefusedOwned
<1>7. CASE MayWake(v, i, MachineOf[c])
  <2>1. i \in LockIndexes /\ v \in CVIndexes /\ LockAt(i).owner = MachineOf[c]
      BY <1>7 DEF MayWake, OwnedBy
  <2>2. PICK q \in Seq(Client) : q = CVAt(v).waitQueue
      BY <1>1, <2>1, CVAtType
  <2>3. \E woken \in Seq(Client) : \E rest : Wake(c, v, i, woken, rest)
    <3>1. CASE Broadcast(c)
        BY <1>4, <1>5, <1>7, <2>2, <3>1 DEF Broadcast
    <3>2. CASE Signal(c) /\ q = <<>>
      <4>1. Wake(c, v, i, <<>>, <<>>)
          BY <1>4, <1>5, <1>7, <2>2, <3>2 DEF Signal
      <4> QED BY <4>1, EmptyQueue
    <3>3. CASE Signal(c) /\ q # <<>>
      <4>1. Wake(c, v, i, <<Head(q)>>, Tail(q))
          BY <1>4, <1>5, <1>7, <2>2, <3>3 DEF Signal
      <4>2. <<Head(q)>> \in Seq(Client)
          BY <2>2, <3>3, RemoveQueue
      <4> QED BY <4>1, <4>2
    <3> QED BY <3>1, <3>2, <3>3
  <2> QED BY <1>2, <1>4, <2>1, <2>3, WakeOwned
<1> QED BY <1>6, <1>7

\* CreateCV and DestroyCV have nothing to do with locks.
LEMMA CVsOwned ==
    ASSUME OwnerInv, AnswerInv', AnswersMove, NEW c \in Client, CreateCV(c) \/ DestroyCV(c)
    PROVE  IdsRight' /\ CallsRight' /\ OwnersRight'
<1>1. /\ Ok \in Int /\ TypeOK
      /\ \A v \in CVIndexes : AsChar(v) \in Int
      /\ AsChar(Len(serverCVTable)) \in Int
    BY ReplyTypes DEF OwnerInv, AnswerInv
<1>2. PICK op \in {"createCV", "destroyCV"} : Handles(c, op)
    BY DEF CreateCV, DestroyCV
<1>3. call[c].op = op /\ op # "createLock"
    BY <1>1, <1>2, HandlesFacts
<1>4. Gets(c) <=> call[c].had
    BY <1>3, PlainCall
<1>5. UNCHANGED serverLockTable /\ \E v \in Int : Reply({c}, v)
  <2>1. CASE DestroyCV(c)
      BY <1>1, <2>1 DEF DestroyCV
  <2>2. CASE CreateCV(c)
      BY <1>1, <2>2 DEF CreateCV, tables
  <2> QED BY <2>1, <2>2
<1> QED BY <1>2, <1>3, <1>4, <1>5, RefusedOwned

\* A step of a client or of the network leaves the server's records alone.
LEMMA OwnersLeft ==
    ASSUME OwnersRight, UNCHANGED serverLockTable,
           \A j \in LockIndexes : \A d \in Client :
              /\ Has(d, j)' => Has(d, j)
              /\ Has(d, j) \/ Stuck(d) => Has(d, j)' \/ Stuck(d)'
    PROVE  OwnersRight'
<1>1. /\ LockIndexes' = LockIndexes
      /\ \A j \in LockIndexes : LockAt(j)' = LockAt(j)
    BY DEF LockIndexes, LockAt
<1>2. \A j \in LockIndexes : OwnerRight(j)'
    BY <1>1, OwnerKept DEF OwnersRight
<1> QED BY <1>1, <1>2 DEF OwnersRight

\* A client that asks to give up a lock has it until the server is told.
LEMMA SendOwned ==
    ASSUME OwnerInv, AnswerInv', AnswersMove, NEW c \in Client,
           NEW r \in Requests(c), Send(c, r)
    PROVE  IdsRight' /\ CallsRight' /\ OwnersRight'
<1>1. /\ call[c] = NoCall
      /\ call' = [call EXCEPT ![c] = r]
      /\ requests' = requests \cup {c}
      /\ held' = [held EXCEPT ![c] = IF r.had THEN held[c] \ {r.lock} ELSE held[c]]
      /\ UNCHANGED <<serverLockTable, replies, known>>
      /\ AnswerInv /\ TypeOK
    BY DEF Send, tables, OwnerInv, AnswerInv
<1>2. /\ r \in Calls
      /\ r.had => r.op \in {"release", "wait"} /\ r.lock \in held[c]
      /\ r.op \in {"release", "wait"} /\ ~r.had => r.lock \notin held[c]
      /\ r.op = "acquire" => r.lock \in known[c]
      /\ r.lock \in known[c] \cup held[c] \cup {-1}
    BY <1>1, RequestFacts
<1>3. c \notin requests /\ replies[c] = <<>>
    BY <1>1, Zenon DEF AnswerInv, AllPlaced, Placed
<1>4. /\ call'[c] = r
      /\ held'[c] = IF r.had THEN held[c] \ {r.lock} ELSE held[c]
      /\ \A d \in Client : d # c => call'[d] = call[d] /\ held'[d] = held[d]
    BY <1>1 DEF TypeOK
<1>5. Ids' = Ids
    BY <1>1 DEF Ids, LockIndexes, AsChar
<1>6. IdsRight'
  <2>1. ASSUME NEW d \in Client
        PROVE  /\ \A i \in known[d] \cup held'[d] : i \in Ids
               /\ call'[d].lock \in Ids \cup {-1}
               /\ call'[d].op = "acquire" \/ call'[d].had => call'[d].lock \in Ids
               /\ call'[d].op = "createLock" /\ replies[d] # <<>> => Head(replies[d]) \in Ids
    <3>1. CASE d = c
      <4>1. \A i \in known[d] \cup held[d] : i \in Ids
          BY DEF OwnerInv, IdsRight
      <4>2. \A i \in held'[d] : i \in held[d]
          BY <1>4, <3>1
      <4>3. /\ r.lock \in Ids \cup {-1}
            /\ r.op = "acquire" \/ r.had => r.lock \in Ids
          BY <1>2, <3>1, <4>1
      <4> QED BY <1>3, <1>4, <3>1, <4>1, <4>2, <4>3
    <3>2. CASE d # c
        BY <1>4, <3>2 DEF OwnerInv, IdsRight
    <3> QED BY <3>1, <3>2
  <2> QED BY <1>1, <1>5, <2>1 DEF IdsRight
<1>7. CallsRight'
  <2>1. ASSUME NEW d \in Client
        PROVE  /\ call'[d].had => call'[d].op \in {"release", "wait"}
               /\ call'[d].op \in {"release", "wait"} => call'[d].lock \notin held'[d]
               /\ call'[d].op = "wait" /\ (InLock(d)' \/ InCV(d)') => call'[d].had
    <3>1. InLock(d)' \/ InCV(d)' => d \notin requests'
        BY Zenon DEF AnswerInv, AllPlaced, Placed
    <3>2. CASE d = c
        BY <1>1, <1>2, <1>4, <3>1, <3>2
    <3>3. CASE d # c
      <4>1. InLock(d)' \/ InCV(d)' => InLock(d) \/ InCV(d)
          BY <1>1, <3>1, <3>3 DEF AnswersMove
      <4> QED BY <1>4, <3>3, <4>1 DEF OwnerInv, CallsRight
    <3> QED BY <3>2, <3>3
  <2> QED BY <2>1 DEF CallsRight
<1>8. ASSUME NEW j \in LockIndexes, NEW d \in Client
      PROVE  /\ Has(d, j)' => Has(d, j)
             /\ Has(d, j) \/ Stuck(d) => Has(d, j)' \/ Stuck(d)'
  <2>1. Has(d, j)' <=> Has(d, j)
    <3>1. CASE d = c
      <4>1. Has(c, j) <=> j \in held[c]
          BY <1>3 DEF Has
      <4>2. Has(c, j)' <=> j \in held'[c] \/ (r.lock = j /\ r.had)
          BY <1>1, <1>3, <1>4 DEF Has
      <4> QED BY <1>2, <1>4, <3>1, <4>1, <4>2
    <3>2. CASE d # c
        BY <1>1, <1>4, <3>2 DEF Has
    <3> QED BY <3>1, <3>2
  <2>2. Stuck(d) => Stuck(d)'
      BY DEF AnswersMove
  <2> QED BY <2>1, <2>2
<1>9. OwnersRight'
    BY <1>1, <1>8, OwnersLeft DEF OwnerInv
<1> QED BY <1>6, <1>7, <1>9

\* A client that is told that it has a lock had it when the reply was sent.
LEMMA ReceiveOwned ==
    ASSUME OwnerInv, AnswerInv', AnswersMove, NEW c \in Client, Receive(c)
    PROVE  IdsRight' /\ CallsRight' /\ OwnersRight'
<1>1. /\ replies[c] # <<>>
      /\ replies' = [replies EXCEPT ![c] = Tail(replies[c])]
      /\ call' = [call EXCEPT ![c] = NoCall]
      /\ known' = [known EXCEPT ![c] = Learn(known[c], call[c], "createLock", Head(replies[c]))]
      /\ held' = [held EXCEPT ![c] = IF Gets(c) THEN held[c] \cup {call[c].lock} ELSE held[c]]
      /\ UNCHANGED <<serverLockTable, requests>>
      /\ AnswerInv /\ TypeOK
    BY DEF Receive, Gets, tables, OwnerInv, AnswerInv
<1>2. c \notin requests /\ Len(replies[c]) <= 1
    BY <1>1, Zenon DEF AnswerInv, AllPlaced, Placed
<1>3. /\ replies'[c] = Tail(replies[c])
      /\ call'[c] = NoCall
      /\ known'[c] = Learn(known[c], call[c], "createLock", Head(replies[c]))
      /\ held'[c] = IF Gets(c) THEN held[c] \cup {call[c].lock} ELSE held[c]
      /\ \A d \in Client : d # c => /\ call'[d] = call[d] /\ held'[d] = held[d]
                                    /\ known'[d] = known[d] /\ replies'[d] = replies[d]
    BY <1>1 DEF TypeOK
<1>4. replies'[c] = <<>>
    BY <1>1, <1>2, <1>3 DEF TypeOK
<1>5. NoCall.op = "none" /\ ~NoCall.had /\ NoCall.lock = -1
    BY DEF NoCall
<1>6. Ids' = Ids
    BY <1>1 DEF Ids, LockIndexes, AsChar
<1>7. IdsRight'
  <2>1. ASSUME NEW d \in Client
        PROVE  /\ \A i \in known'[d] \cup held'[d] : i \in Ids
               /\ call'[d].lock \in Ids \cup {-1}
               /\ call'[d].op = "acquire" \/ call'[d].had => call'[d].lock \in Ids
               /\ call'[d].op = "createLock" /\ replies'[d] # <<>> => Head(replies'[d]) \in Ids
    <3>1. CASE d = c
      <4>1. /\ \A i \in known[c] \cup held[c] : i \in Ids
            /\ Gets(c) => call[c].lock \in Ids
            /\ call[c].op = "createLock" => Head(replies[c]) \in Ids
          BY <1>1 DEF OwnerInv, IdsRight, Gets
      <4>2. \A i \in known'[c] : i \in known[c] \/ (call[c].op = "createLock" /\ i = Head(replies[c]))
          BY <1>3 DEF Learn
      <4>3. \A i \in held'[c] : i \in held[c] \/ (Gets(c) /\ i = call[c].lock)
          BY <1>3
      <4>4. \A i \in known'[c] \cup held'[c] : i \in Ids
          BY <4>1, <4>2, <4>3
      <4> QED BY <1>3, <1>5, <3>1, <4>4
    <3>2. CASE d # c
        BY <1>3, <3>2 DEF OwnerInv, IdsRight
    <3> QED BY <3>1, <3>2
  <2> QED BY <1>1, <1>6, <2>1 DEF IdsRight
<1>8. CallsRight'
  <2>1. ASSUME NEW d \in Client
        PROVE  /\ call'[d].had => call'[d].op \in {"release", "wait"}
               /\ call'[d].op \in {"release", "wait"} => call'[d].lock \notin held'[d]
               /\ call'[d].op = "wait" /\ (InLock(d)' \/ InCV(d)') => call'[d].had
    <3>1. CASE d = c
        BY <1>3, <1>5, <3>1
    <3>2. CASE d # c
      <4>1. InLock(d)' \/ InCV(d)' => d \notin requests'
          BY Zenon DEF AnswerInv, AllPlaced, Placed
      <4>2. InLock(d)' \/ InCV(d)' => InLock(d) \/ InCV(d)
          BY <1>1, <4>1 DEF AnswersMove
      <4> QED BY <1>3, <3>2, <4>2 DEF OwnerInv, CallsRight
    <3> QED BY <3>1, <3>2
  <2> QED BY <2>1 DEF CallsRight
<1>9. ASSUME NEW j \in LockIndexes, NEW d \in Client
      PROVE  /\ Has(d, j)' => Has(d, j)
             /\ Has(d, j) \/ Stuck(d) => Has(d, j)' \/ Stuck(d)'
  <2>1. Has(d, j)' <=> Has(d, j)
    <3>1. CASE d = c
      <4>1. Has(c, j) <=> j \in held[c] \/ (call[c].lock = j /\ Gets(c))
          BY <1>1, <1>2 DEF Has, Gets
      <4>2. Has(c, j)' <=> j \in held'[c]
          BY <1>1, <1>2, <1>3, <1>4 DEF Has
      <4> QED BY <1>3, <3>1, <4>1, <4>2
    <3>2. CASE d # c
        BY <1>1, <1>3, <3>2 DEF Has
    <3> QED BY <3>1, <3>2
  <2>2. Stuck(d) => Stuck(d)'
      BY DEF AnswersMove
  <2> QED BY <2>1, <2>2
<1>10. OwnersRight'
    BY <1>1, <1>9, OwnersLeft DEF OwnerInv
<1> QED BY <1>7, <1>8, <1>10

\* A client whose request or reply is lost is stuck, with what it had.
LEMMA LossOwned ==
    ASSUME OwnerInv, AnswerInv', AnswersMove, NEW c \in Client,
           UseAfterFree(c) \/ LoseRequest(c) \/ LoseReply(c)
    PROVE  IdsRight' /\ CallsRight' /\ OwnersRight'
<1>1. /\ UNCHANGED tables
      /\ UNCHANGED <<call, known, held>>
      /\ AnswerInv /\ TypeOK
    BY DEF UseAfterFree, LoseRequest, LoseReply, programVars, OwnerInv, AnswerInv
<1>2. UNCHANGED serverLockTable /\ \A d : (InLock(d)' <=> InLock(d)) /\ (InCV(d)' <=> InCV(d))
    BY <1>1, TablesKept
<1>3. /\ \A d \in Client : d # c => /\ (d \in requests' <=> d \in requests)
                                    /\ replies'[d] = replies[d]
      /\ c \notin requests' /\ replies'[c] = <<>>
      /\ c \in requests \/ replies[c] # <<>>
  <2>1. ASSUME c \in requests, requests' = requests \ {c}, UNCHANGED replies
        PROVE  /\ \A d \in Client : d # c => /\ (d \in requests' <=> d \in requests)
                                             /\ replies'[d] = replies[d]
               /\ c \notin requests' /\ replies'[c] = <<>>
    <3>1. replies[c] = <<>>
        BY <1>1, <2>1, Zenon DEF AnswerInv, AllPlaced, Placed
    <3> QED BY <2>1, <3>1
  <2>2. CASE UseAfterFree(c)
      BY <2>1, <2>2 DEF UseAfterFree, Takes
  <2>3. CASE LoseRequest(c)
      BY <2>1, <2>3 DEF LoseRequest
  <2>4. CASE LoseReply(c)
    <3>1. /\ replies[c] # <<>> /\ UNCHANGED requests
          /\ replies' = [replies EXCEPT ![c] = Tail(replies[c])]
        BY <2>4 DEF LoseReply
    <3>2. c \notin requests /\ Len(replies[c]) <= 1
        BY <1>1, <3>1, Zenon DEF AnswerInv, AllPlaced, Placed
    <3>3. /\ replies'[c] = Tail(replies[c])
          /\ \A d \in Client : d # c => replies'[d] = replies[d]
        BY <1>1, <3>1 DEF TypeOK
    <3>4. replies'[c] = <<>>
        BY <1>1, <3>1, <3>2, <3>3 DEF TypeOK
    <3> QED BY <3>1, <3>2, <3>3, <3>4
  <2> QED BY <2>2, <2>3, <2>4
<1>4. call[c] # NoCall /\ ~InLock(c) /\ ~InCV(c)
    BY <1>1, <1>3, Zenon DEF AnswerInv, AllPlaced, Placed
<1>5. Stuck(c)'
    BY <1>1, <1>2, <1>3, <1>4 DEF Stuck
<1>6. ASSUME NEW j \in LockIndexes, NEW d \in Client
      PROVE  /\ Has(d, j)' => Has(d, j)
             /\ Has(d, j) \/ Stuck(d) => Has(d, j)' \/ Stuck(d)'
  <2>1. CASE d = c
      BY <1>1, <1>3, <1>5, <2>1 DEF Has
  <2>2. CASE d # c
    <3>1. Has(d, j)' <=> Has(d, j)
        BY <1>1, <1>3, <2>2 DEF Has
    <3>2. Stuck(d) => Stuck(d)'
        BY DEF AnswersMove
    <3> QED BY <3>1, <3>2
  <2> QED BY <2>1, <2>2
<1>7. OwnersRight'
    BY <1>2, <1>6, OwnersLeft DEF OwnerInv
<1>8. IdsRight'
  <2>1. Ids' = Ids
      BY <1>2 DEF Ids, LockIndexes, AsChar
  <2> QED BY <1>1, <1>3, <2>1 DEF OwnerInv, IdsRight
<1>9. CallsRight'
    BY <1>1, <1>2 DEF OwnerInv, CallsRight
<1> QED BY <1>7, <1>8, <1>9

\* Every step keeps the owners right.
LEMMA OwnerStep ==
    ASSUME OneClientPerMachine, OwnerInv, [Next]_vars
    PROVE  OwnerInv'
<1>1. AnswerInv' /\ AnswersMove
    BY AnswerStep DEF OwnerInv
<1>2. CASE UNCHANGED vars
  <2>1. UNCHANGED serverLockTable /\ UNCHANGED <<call, requests, replies, known, held>>
      BY <1>2 DEF vars
  <2>2. UNCHANGED tables
      BY <1>2 DEF vars, tables
  <2>3. \A d : (InLock(d)' <=> InLock(d)) /\ (InCV(d)' <=> InCV(d))
      BY <2>2, TablesKept
  <2>4. \A j \in LockIndexes : \A d \in Client :
           /\ Has(d, j)' => Has(d, j)
           /\ Has(d, j) \/ Stuck(d) => Has(d, j)' \/ Stuck(d)'
      BY <2>1, <2>3 DEF Has, Stuck
  <2>5. OwnersRight'
      BY <2>1, <2>4, OwnersLeft DEF OwnerInv
  <2>6. Ids' = Ids
      BY <2>1 DEF Ids, LockIndexes, AsChar
  <2>7. IdsRight' /\ CallsRight'
      BY <2>1, <2>3, <2>6 DEF OwnerInv, IdsRight, CallsRight
  <2> QED BY <1>1, <2>5, <2>7 DEF OwnerInv
<1>3. ASSUME NEW c \in Client, NEW r \in Requests(c), Send(c, r) PROVE OwnerInv'
    BY <1>1, <1>3, SendOwned DEF OwnerInv
<1>4. ASSUME NEW c \in Client, Receive(c) PROVE OwnerInv'
    BY <1>1, <1>4, ReceiveOwned DEF OwnerInv
<1>5. ASSUME NEW c \in Client, UseAfterFree(c) \/ LoseRequest(c) \/ LoseReply(c)
      PROVE  OwnerInv'
    BY <1>1, <1>5, LossOwned DEF OwnerInv
<1>6. ASSUME NEW c \in Client, CreateLock(c) PROVE OwnerInv'
    BY <1>1, <1>6, CreateLockOwned DEF OwnerInv
<1>7. ASSUME NEW c \in Client, DestroyLock(c) PROVE OwnerInv'
    BY <1>1, <1>7, DestroyLockOwned DEF OwnerInv
<1>8. ASSUME NEW c \in Client, Acquire(c) PROVE OwnerInv'
    BY <1>1, <1>8, AcquireOwned DEF OwnerInv
<1>9. ASSUME NEW c \in Client, Release(c) PROVE OwnerInv'
    BY <1>1, <1>9, ReleaseOwned DEF OwnerInv
<1>10. ASSUME NEW c \in Client, Wait(c) PROVE OwnerInv'
    BY <1>1, <1>10, WaitOwned DEF OwnerInv
<1>11. ASSUME NEW c \in Client, Signal(c) \/ Broadcast(c) PROVE OwnerInv'
    BY <1>1, <1>11, WakersOwned DEF OwnerInv
<1>12. ASSUME NEW c \in Client, CreateCV(c) \/ DestroyCV(c) PROVE OwnerInv'
    BY <1>1, <1>12, CVsOwned DEF OwnerInv
<1>13. CASE Next
    BY <1>3, <1>4, <1>5, <1>6, <1>7, <1>8, <1>9, <1>10, <1>11, <1>12, <1>13 DEF Next, Serve
<1> QED BY <1>2, <1>13

\* At first there are no locks.
LEMMA OwnerInit == Init => OwnerInv
<1> SUFFICES ASSUME Init PROVE OwnerInv
    OBVIOUS
<1>1. LockIndexes = {}
    BY DEF Init, LockIndexes
<1>2. NoCall.op = "none" /\ ~NoCall.had /\ NoCall.lock = -1
    BY DEF NoCall
<1>3. \A c \in Client : call[c] = NoCall /\ replies[c] = <<>> /\ known[c] = {} /\ held[c] = {}
    BY DEF Init
<1>4. IdsRight
    BY <1>2, <1>3 DEF IdsRight
<1>5. CallsRight
    BY <1>2, <1>3 DEF CallsRight
<1> QED BY <1>1, <1>4, <1>5, AnswerInit DEF OwnerInv, OwnersRight

(***************************************************************************)
(* The server's records, the messages under way and what the programs rely *)
(* on agree in every state, with any losses.                               *)
(***************************************************************************)
THEOREM OwnerInvariance ==
    ASSUME OneClientPerMachine PROVE Spec => []OwnerInv
<1>1. Init => OwnerInv
    BY OwnerInit
<1>2. OwnerInv /\ [Next]_vars => OwnerInv'
    BY OwnerStep
<1> QED BY <1>1, <1>2, PTL DEF Spec

(***************************************************************************)
(* A lock is taken exactly while one client has it or is about to: the     *)
(* server and the programs agree on who has it.                            *)
(***************************************************************************)
THEOREM LocksAccounted ==
    ASSUME OneClientPerMachine PROVE Spec => []LockAccounted
<1>1. OwnerInv => LockAccounted
  <2> SUFFICES ASSUME OwnerInv, NEW i \in LockIndexes
               PROVE  /\ \A c \in Client : Has(c, i) => /\ ~LockAt(i).available
                                                        /\ LockAt(i).owner = MachineOf[c]
                      /\ \A c, d \in Client : Has(c, i) /\ Has(d, i) => c = d
                      /\ LockAt(i).available => LockAt(i).waitQueue = <<>>
                      /\ ~LockAt(i).available /\ ~LockAt(i).freed /\ ~undefined /\ lost = 0 =>
                            \E c \in Client : Has(c, i)
      BY DEF LockAccounted
  <2>1. OwnerRight(i)
      BY DEF OwnerInv, OwnersRight
  <2>2. \A c, d \in Client : Has(c, i) /\ Has(d, i) => c = d
      BY <2>1 DEF OwnerRight, OneClientPerMachine
  <2>3. \A c \in Client : ~undefined /\ lost = 0 => ~Stuck(c)
      BY Zenon DEF OwnerInv, AnswerInv, AllPlaced, Placed, Stuck
  <2> QED BY <2>1, <2>2, <2>3 DEF OwnerRight
<1> QED BY <1>1, OwnerInvariance, PTL

(***************************************************************************)
(* DestroyLock, Release and DestroyCV delete nothing that a program still  *)
(* has or waits for.                                                       *)
(***************************************************************************)
THEOREM NothingUsedDeleted ==
    ASSUME OneClientPerMachine PROVE Spec => []DeletedUnused
<1>1. OwnerInv => DeletedUnused
  <2> SUFFICES ASSUME OwnerInv PROVE DeletedUnused
      OBVIOUS
  <2>1. ASSUME NEW i \in LockIndexes, LockAt(i).freed
        PROVE  LockAt(i).waitQueue = <<>> /\ \A c \in Client : i \notin held[c]
      BY <2>1 DEF OwnerInv, OwnersRight, OwnerRight, Has
  <2>2. \A v \in CVIndexes : CVAt(v).freed => CVAt(v).waitQueue = <<>>
      BY DEF OwnerInv, AnswerInv, CVQueues
  <2> QED BY <2>1, <2>2 DEF DeletedUnused
<1> QED BY <1>1, OwnerInvariance, PTL

-----------------------------------------------------------------------------
(***************************************************************************)
(* Mutual exclusion.  A lock id travels as a signed char, so two locks     *)
(* have different ids as long as there are at most CharRange / 2 names.    *)
(***************************************************************************)
FewNames == IsFiniteSet(LockName) /\ 2 * Cardinality(LockName) <= CharRange

\* CreateLock finds a lock of that name: different locks have different names.
NamesDiffer ==
    \A i, j \in LockIndexes : LockAt(i).name = LockAt(j).name => i = j

\* There are no more locks than names, so every position fits a char.
LEMMA PositionsFit ==
    ASSUME FewNames, TypeOK, NamesDiffer
    PROVE  \A i \in LockIndexes : AsChar(i) = i
<1>1. PICK n \in Nat : n = Len(serverLockTable)
    BY DEF TypeOK
<1>2. \A k \in 1 .. n : k - 1 \in LockIndexes /\ LockAt(k - 1) = serverLockTable[k]
    BY <1>1 DEF LockIndexes, LockAt
<1>3. PICK f : f = [k \in 1 .. n |-> serverLockTable[k].name]
    OBVIOUS
<1>4. f \in [1 .. n -> LockName]
  <2>1. \A k \in 1 .. n : serverLockTable[k] \in ServerLock
      BY <1>1 DEF TypeOK
  <2>2. \A k \in 1 .. n : serverLockTable[k].name \in LockName
      BY <2>1 DEF ServerLock
  <2> QED BY <1>3, <2>2
<1>5. ASSUME NEW k \in 1 .. n, NEW m \in 1 .. n, f[k] = f[m] PROVE k = m
  <2>1. LockAt(k - 1).name = LockAt(m - 1).name
      BY <1>2, <1>3, <1>5
  <2>2. k - 1 = m - 1
      BY <1>2, <2>1 DEF NamesDiffer
  <2> QED BY <2>2
<1>6. f \in Injection(1 .. n, LockName)
    BY <1>4, <1>5 DEF Injection, IsInjective
<1>7. Cardinality(1 .. n) <= Cardinality(LockName)
    BY <1>6, FS_Injection DEF FewNames
<1>8. Cardinality(1 .. n) = n
    BY FS_Interval
<1>9. Cardinality(LockName) \in Nat /\ CharRange \in Nat
    BY FS_CardinalityType, LockServerAssumption DEF FewNames
<1> SUFFICES ASSUME NEW i \in LockIndexes PROVE AsChar(i) = i
    OBVIOUS
<1>10. i \in Nat /\ i < n
    BY <1>1, LockAtType
<1>11. 2 * i < CharRange
    BY <1>7, <1>8, <1>9, <1>10 DEF FewNames
<1> QED BY <1>10, <1>11, AsCharType

\* A step that leaves the names of the locks as they are.
LEMMA NamesKept ==
    ASSUME NamesDiffer, LockIndexes' = LockIndexes,
           \A j \in LockIndexes : (LockAt(j)').name = LockAt(j).name
    PROVE  NamesDiffer'
BY DEF NamesDiffer

\* Changing a lock, but not its name.
LEMMA SetLockNames ==
    ASSUME TypeOK, NamesDiffer, NEW i \in LockIndexes, NEW l \in ServerLock, SetLock(i, l),
           l.name = LockAt(i).name
    PROVE  NamesDiffer'
<1>1. /\ LockIndexes' = LockIndexes /\ LockAt(i)' = l
      /\ \A j \in LockIndexes : j # i => LockAt(j)' = LockAt(j)
    BY SetLockTable
<1>2. \A j \in LockIndexes : (LockAt(j)').name = LockAt(j).name
    BY <1>1
<1> QED BY <1>1, <1>2, NamesKept

\* The server gives no two locks the same name.
LEMMA NameStep ==
    ASSUME AnswerInv, NamesDiffer, [Next]_vars
    PROVE  NamesDiffer'
<1>0. TypeOK
    BY DEF AnswerInv
<1>1. ASSUME UNCHANGED serverLockTable PROVE NamesDiffer'
  <2>1. LockIndexes' = LockIndexes /\ \A j \in LockIndexes : LockAt(j)' = LockAt(j)
      BY <1>1 DEF LockIndexes, LockAt
  <2> QED BY <2>1, NamesKept
<1>2. CASE UNCHANGED vars
    BY <1>1, <1>2 DEF vars
<1>3. ASSUME NEW c \in Client,
             \/ \E r \in Requests(c) : Send(c, r)
             \/ Receive(c) \/ UseAfterFree(c) \/ LoseRequest(c) \/ LoseReply(c)
             \/ CreateCV(c) \/ DestroyCV(c)
      PROVE  NamesDiffer'
  <2>1. UNCHANGED serverLockTable
      BY <1>3 DEF Send, Receive, UseAfterFree, LoseRequest, LoseReply, CreateCV, DestroyCV, tables
  <2> QED BY <1>1, <2>1
<1>4. ASSUME NEW c \in Client, CreateLock(c) PROVE NamesDiffer'
  <2>1. call[c].op = "createLock"
      BY <1>0, <1>4, HandlesFacts DEF CreateLock
  <2>2. PICK n \in LockName : n = call[c].name
      BY <2>1 DEF AnswerInv, CallNames
  <2>3. CASE \E i \in LockIndexes : LockAt(i).name = n
      BY <1>1, <1>4, <2>2, <2>3 DEF CreateLock, tables
  <2>4. CASE ~\E i \in LockIndexes : LockAt(i).name = n
    <3>1. PICK l : l = NewServerLock(n)
        OBVIOUS
    <3>2. PICK m \in Nat : m = Len(serverLockTable)
        BY <1>0 DEF TypeOK
    <3>3. /\ LockIndexes' = LockIndexes \cup {m}
          /\ LockAt(m)' = l
          /\ \A j \in LockIndexes : LockAt(j)' = LockAt(j)
      <4>1. serverLockTable' = Append(serverLockTable, NewServerLock(n))
          BY <1>4, <2>2, <2>4 DEF CreateLock
      <4> QED BY <1>0, <3>1, <3>2, <4>1, AddLock DEF LockAt
    <3>4. l.name = n
        BY <3>1 DEF NewServerLock
    <3>5. ASSUME NEW i \in LockIndexes', NEW j \in LockIndexes',
                 (LockAt(i)').name = (LockAt(j)').name
          PROVE  i = j
        BY <2>4, <3>3, <3>4, <3>5 DEF NamesDiffer
    <3> QED BY <3>5 DEF NamesDiffer
  <2> QED BY <2>3, <2>4
<1>5. ASSUME NEW c \in Client, Acquire(c) \/ DestroyLock(c) PROVE NamesDiffer'
  <2>1. PICK i \in Int : i = call[c].lock
      BY <1>0, CallType
  <2>2. CASE UNCHANGED serverLockTable
      BY <1>1, <2>2
  <2>3. CASE ~UNCHANGED serverLockTable
    <3>1. i \in LockIndexes
        BY <1>5, <2>1, <2>3 DEF Acquire, DestroyLock, tables
    <3>2. LockAt(i) \in ServerLock /\ LockAt(i).waitQueue \in Seq(Client)
        BY <1>0, <3>1, LockAtType
    <3>3. PICK q \in Seq(Client) : q = Append(LockAt(i).waitQueue, c)
        BY <3>2, AppendQueue
    <3>4. PICK l \in {[LockAt(i) EXCEPT !.available = FALSE, !.owner = MachineOf[c]],
                      [LockAt(i) EXCEPT !.waitQueue = q],
                      [LockAt(i) EXCEPT !.freed = TRUE],
                      [LockAt(i) EXCEPT !.toBeDeleted = TRUE]} : SetLock(i, l)
        BY <1>5, <2>1, <3>1, <3>3 DEF Acquire, DestroyLock, NewOwner
    <3>5. l \in ServerLock /\ l.name = LockAt(i).name
        BY <3>2, <3>4, LockServerAssumption DEF ServerLock
    <3> QED BY <1>0, <3>1, <3>4, <3>5, SetLockNames
  <2> QED BY <2>2, <2>3
<1>6. ASSUME NEW c \in Client, Release(c) \/ Wait(c) PROVE NamesDiffer'
  <2>1. PICK i \in Int : i = call[c].lock
      BY <1>0, CallType
  <2>2. CASE UNCHANGED serverLockTable
      BY <1>1, <2>2
  <2>3. CASE ~UNCHANGED serverLockTable
    <3>1. i \in LockIndexes
        BY <1>6, <2>1, <2>3 DEF Release, Wait, OwnedBy, tables
    <3>2. PICK k \in ServerLock : k = LockAt(i)
        BY <1>0, <3>1, LockAtType
    <3>3. PICK g \in ServerLock : g = GivenUp(k) /\ g.name = k.name
        BY GivenUpFacts
    <3>4. PICK l \in {[k EXCEPT !.freed = TRUE], g} : SetLock(i, l)
        BY <1>6, <2>1, <2>3, <3>2, <3>3 DEF Release, Wait, tables
    <3>5. l \in ServerLock /\ l.name = k.name
        BY <3>2, <3>3, <3>4 DEF ServerLock
    <3> QED BY <1>0, <3>1, <3>2, <3>4, <3>5, SetLockNames
  <2> QED BY <2>2, <2>3
<1>7. ASSUME NEW c \in Client, Signal(c) \/ Broadcast(c) PROVE NamesDiffer'
  <2>1. PICK i \in Int : i = call[c].lock
      BY <1>0, CallType
  <2>2. PICK v \in Int : v = call[c].cv
      BY <1>0, CallType
  <2>3. CASE UNCHANGED serverLockTable
      BY <1>1, <2>3
  <2>4. CASE ~UNCHANGED serverLockTable
    <3>1. MayWake(v, i, MachineOf[c])
        BY <1>7, <2>1, <2>2, <2>4 DEF Signal, Broadcast, tables
    <3>2. i \in LockIndexes /\ v \in CVIndexes
        BY <3>1 DEF MayWake, OwnedBy
    <3>3. LockAt(i) \in ServerLock /\ LockAt(i).waitQueue \in Seq(Client)
        BY <1>0, <3>2, LockAtType
    <3>4. PICK q \in Seq(Client) : q = CVAt(v).waitQueue
        BY <1>0, <3>2, CVAtType
    <3>5. \E woken \in Seq(Client) : SetLock(i, [LockAt(i) EXCEPT !.waitQueue = @ \o woken])
      <4>1. CASE Broadcast(c)
          BY <2>1, <2>2, <3>1, <3>4, <4>1 DEF Broadcast, Wake
      <4>2. CASE Signal(c) /\ q = <<>>
        <5>1. Wake(c, v, i, <<>>, <<>>)
            BY <2>1, <2>2, <3>1, <3>4, <4>2 DEF Signal
        <5> QED BY <5>1, EmptyQueue DEF Wake
      <4>3. CASE Signal(c) /\ q # <<>>
        <5>1. Wake(c, v, i, <<Head(q)>>, Tail(q))
            BY <2>1, <2>2, <3>1, <3>4, <4>3 DEF Signal
        <5>2. <<Head(q)>> \in Seq(Client)
            BY <3>4, <4>3, RemoveQueue
        <5> QED BY <5>1, <5>2 DEF Wake
      <4> QED BY <1>7, <4>1, <4>2, <4>3
    <3>6. PICK woken \in Seq(Client) : SetLock(i, [LockAt(i) EXCEPT !.waitQueue = @ \o woken])
        BY <3>5
    <3>7. PICK w \in Seq(Client) : w = LockAt(i).waitQueue \o woken
        BY <3>3, ConcatQueue
    <3>8. PICK l : l = [LockAt(i) EXCEPT !.waitQueue = w]
        OBVIOUS
    <3>9. l \in ServerLock /\ l.name = LockAt(i).name /\ SetLock(i, l)
        BY <3>3, <3>6, <3>7, <3>8 DEF ServerLock
    <3> QED BY <1>0, <3>2, <3>9, SetLockNames
  <2> QED BY <2>3, <2>4
<1>8. CASE Next
    BY <1>3, <1>4, <1>5, <1>6, <1>7, <1>8 DEF Next, Serve
<1> QED BY <1>2, <1>8

(***************************************************************************)
(* Acquire or Wait returns to one program with a lock only after the other *)
(* has called Release or Wait.                                             *)
(***************************************************************************)
THEOREM LocksExclude ==
    ASSUME OneClientPerMachine, FewNames PROVE Spec => []MutualExclusion
<1>1. Init => NamesDiffer
    BY DEF Init, NamesDiffer, LockIndexes
<1>2. AnswerInv /\ NamesDiffer /\ [Next]_vars => NamesDiffer'
    BY NameStep
<1>3. OwnerInv /\ NamesDiffer => MutualExclusion
  <2> SUFFICES ASSUME OwnerInv, NamesDiffer, NEW c \in Client, NEW d \in Client,
                      NEW i \in held[c] \cap held[d]
               PROVE  c = d
      BY DEF MutualExclusion
  <2>1. i \in Ids
      BY DEF OwnerInv, IdsRight
  <2>2. i \in LockIndexes
      BY <2>1, PositionsFit DEF OwnerInv, AnswerInv, Ids
  <2>3. Has(c, i) /\ Has(d, i) /\ OwnerRight(i)
      BY <2>2 DEF Has, OwnerInv, OwnersRight
  <2> QED BY <2>3 DEF OwnerRight, OneClientPerMachine
<1> QED BY <1>1, <1>2, <1>3, AnswerInvariance, OwnerInvariance, PTL DEF Spec
=============================================================================
