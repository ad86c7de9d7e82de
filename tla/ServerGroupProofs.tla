------------------------- MODULE ServerGroupProofs -------------------------
(***************************************************************************)
(* Proofs about ServerGroup, for any number of servers, clients, names and *)
(* calls.                                                                  *)
(***************************************************************************)
EXTENDS ServerGroup, FiniteSetTheorems, WellFoundedInduction, TLAPS

-----------------------------------------------------------------------------
(***************************************************************************)
(* Sequences: the elements, and how many of them have a given op.          *)
(***************************************************************************)
Elems(q) == {q[i] : i \in 1 .. Len(q)}
WithOp(q, op) == {i \in 1 .. Len(q) : q[i].op = op}
Count(q, op) == Cardinality(WithOp(q, op))

\* What a queue is after an element was put at its end.
LEMMA Appended ==
    ASSUME NEW T, NEW q \in Seq(T), NEW m \in T
    PROVE  /\ Append(q, m) \in Seq(T) /\ Len(q) \in Nat
           /\ Len(Append(q, m)) = Len(q) + 1
           /\ Append(q, m)[Len(q) + 1] = m
           /\ \A i \in 1 .. Len(q) : Append(q, m)[i] = q[i] /\ i \in 1 .. Len(q) + 1
           /\ \A i \in 1 .. Len(q) + 1 : i \in 1 .. Len(q) \/ i = Len(q) + 1
           /\ Elems(Append(q, m)) = Elems(q) \cup {m}
<1>1. Append(q, m) \in Seq(T) /\ Len(q) \in Nat /\ Len(Append(q, m)) = Len(q) + 1
    OBVIOUS
<1>2. Append(q, m)[Len(q) + 1] = m /\ \A i \in 1 .. Len(q) : Append(q, m)[i] = q[i]
    OBVIOUS
<1>3. Len(q) + 1 \in 1 .. Len(q) + 1
      /\ (\A i \in 1 .. Len(q) : i \in 1 .. Len(q) + 1)
      /\ \A i \in 1 .. Len(q) + 1 : i \in 1 .. Len(q) \/ i = Len(q) + 1
    BY <1>1
<1>4. Elems(Append(q, m)) = Elems(q) \cup {m}
    BY <1>1, <1>2, <1>3 DEF Elems
<1> QED BY <1>1, <1>2, <1>3, <1>4

\* What a queue is after its first element was taken.
LEMMA Popped ==
    ASSUME NEW T, NEW q \in Seq(T), q # <<>>
    PROVE  /\ Head(q) \in T /\ Head(q) = q[1] /\ 1 \in 1 .. Len(q) /\ Head(q) \in Elems(q)
           /\ Tail(q) \in Seq(T) /\ Len(q) \in Nat /\ Len(Tail(q)) = Len(q) - 1
           /\ \A i \in 1 .. Len(q) - 1 : Tail(q)[i] = q[i + 1] /\ i + 1 \in 1 .. Len(q)
           /\ Elems(Tail(q)) \subseteq Elems(q)
<1>1. Tail(q) \in Seq(T) /\ Len(q) \in Nat \ {0} /\ Len(Tail(q)) = Len(q) - 1
    OBVIOUS
<1>2. Head(q) = q[1] /\ 1 \in 1 .. Len(q)
    BY <1>1
<1>3. \A i \in 1 .. Len(q) - 1 : Tail(q)[i] = q[i + 1] /\ i + 1 \in 1 .. Len(q)
    BY <1>1
<1>4. Elems(Tail(q)) \subseteq Elems(q)
    BY <1>1, <1>3 DEF Elems
<1>5. q[1] \in T
    BY <1>2
<1> QED BY <1>1, <1>2, <1>3, <1>4, <1>5 DEF Elems

\* There are finitely many elements with an op.
LEMMA CountType ==
    ASSUME NEW T, NEW q \in Seq(T), NEW op
    PROVE  IsFiniteSet(WithOp(q, op)) /\ Count(q, op) \in Nat
<1>1. IsFiniteSet(1 .. Len(q))
    BY FS_Interval
<1>2. IsFiniteSet(WithOp(q, op))
    BY <1>1, FS_Subset DEF WithOp
<1> QED BY <1>2, FS_CardinalityType DEF Count

\* The count after an element was put at the end.
LEMMA CountAppend ==
    ASSUME NEW T, NEW q \in Seq(T), NEW m \in T, NEW op
    PROVE  Count(Append(q, m), op) = IF m.op = op THEN Count(q, op) + 1 ELSE Count(q, op)
<1>1. PICK z : z = Append(q, m)
    OBVIOUS
<1>2. /\ Len(q) \in Nat /\ Len(z) = Len(q) + 1 /\ z[Len(q) + 1] = m
      /\ \A i \in 1 .. Len(q) : z[i] = q[i] /\ i \in 1 .. Len(q) + 1
      /\ \A i \in 1 .. Len(q) + 1 : i \in 1 .. Len(q) \/ i = Len(q) + 1
    BY <1>1, Appended
<1>3. PICK W : W = WithOp(q, op)
    OBVIOUS
<1>a. IsFiniteSet(W)
    BY <1>3, CountType
<1>4. IsFiniteSet(W) /\ Len(q) + 1 \notin W
    BY <1>2, <1>3, <1>a DEF WithOp
<1>5. WithOp(z, op) = IF m.op = op THEN W \cup {Len(q) + 1} ELSE W
  <2>1. Len(q) + 1 \in 1 .. Len(q) + 1
      BY <1>2
  <2> QED BY <1>2, <1>3, <2>1 DEF WithOp
<1>6. Cardinality(W \cup {Len(q) + 1}) = Cardinality(W) + 1
    BY <1>4, FS_AddElement
<1> QED BY <1>1, <1>3, <1>5, <1>6 DEF Count

\* The count after the first element was taken.
LEMMA CountTail ==
    ASSUME NEW T, NEW q \in Seq(T), q # <<>>, NEW op
    PROVE  Count(Tail(q), op) = IF Head(q).op = op THEN Count(q, op) - 1 ELSE Count(q, op)
<1>1. PICK z \in Seq(T) : z = Tail(q)
    BY Popped
<1>2. /\ Head(q) = q[1] /\ 1 \in 1 .. Len(q) /\ Len(q) \in Nat /\ Len(z) = Len(q) - 1
      /\ \A i \in 1 .. Len(q) - 1 : z[i] = q[i + 1] /\ i + 1 \in 1 .. Len(q)
    BY <1>1, Popped
<1>3. PICK W, Z : W = WithOp(q, op) /\ Z = WithOp(z, op)
    OBVIOUS
<1>4. IsFiniteSet(W) /\ IsFiniteSet(Z)
    BY <1>1, <1>3, CountType
<1>5. PICK f : f = [i \in Z |-> i + 1]
    OBVIOUS
<1>6. f \in Bijection(Z, W \ {1})
  <2>1. \A i \in Z : i \in Int /\ i + 1 \in W \ {1}
      BY <1>2, <1>3 DEF WithOp
  <2>2. \A j \in W \ {1} : j - 1 \in Z /\ j = (j - 1) + 1
    <3> SUFFICES ASSUME NEW j \in W \ {1} PROVE j - 1 \in Z /\ j = (j - 1) + 1
        OBVIOUS
    <3>1. j \in 1 .. Len(q) /\ j # 1 /\ q[j].op = op
        BY <1>3 DEF WithOp
    <3>2. j - 1 \in 1 .. Len(q) - 1 /\ (j - 1) + 1 = j
        BY <1>2, <3>1
    <3>3. z[j - 1] = q[j]
        BY <1>2, <3>2
    <3> QED BY <1>2, <1>3, <3>1, <3>2, <3>3 DEF WithOp
  <2>3. f \in [Z -> W \ {1}]
      BY <1>5, <2>1
  <2>4. \A i, j \in Z : f[i] = f[j] => i = j
      BY <1>5, <2>1
  <2>5. \A j \in W \ {1} : \E i \in Z : f[i] = j
      BY <1>5, <2>2
  <2>6. f \in Injection(Z, W \ {1})
      BY <2>3, <2>4 DEF Injection, IsInjective
  <2>7. f \in Surjection(Z, W \ {1})
      BY <2>3, <2>5 DEF Surjection
  <2> QED BY <2>6, <2>7 DEF Bijection
<1>7. Cardinality(W \ {1}) = Cardinality(Z)
    BY <1>4, <1>6, FS_Bijection DEF ExistsBijection
<1>8. 1 \in W <=> Head(q).op = op
    BY <1>2, <1>3 DEF WithOp
<1>9. Cardinality(W \ {1}) = IF 1 \in W THEN Cardinality(W) - 1 ELSE Cardinality(W)
    BY <1>4, FS_RemoveElement
<1> QED BY <1>1, <1>3, <1>7, <1>8, <1>9 DEF Count

\* An element that is minimal for < is a least element.
LEMMA MinimalIsLeast ==
    ASSUME NEW T \in SUBSET Nat, NEW R,
           \E x \in T : \A y \in T : ~(<<y, x>> \in R),
           \A x, y \in Nat : <<y, x>> \in R <=> y < x
    PROVE  \E x \in T : \A y \in T : x =< y
<1>1. PICK x \in T : \A y \in T : ~(<<y, x>> \in R)
    OBVIOUS
<1>2. \A y \in T : ~(y < x)
    BY <1>1, Zenon
<1>3. \A y \in T : x =< y
    BY <1>2
<1> QED BY <1>3

\* A search from the first entry up finds an entry that fits.
LEMMA MinIn ==
    ASSUME NEW T \in SUBSET Nat, T # {}
    PROVE  S!Min(T) \in T
<1>1. PICK R : R = OpToRel(<, Nat)
    OBVIOUS
<1>2. \E x \in T : \A y \in T : ~(<<y, x>> \in R)
    BY <1>1, WFMin, NatLessThanWellFounded, Zenon
<1>3. \A x, y \in Nat : <<y, x>> \in R <=> y < x
    BY <1>1 DEF OpToRel
<1>4. \E x \in T : \A y \in T : x =< y
    BY <1>2, <1>3, MinimalIsLeast, Zenon
<1> QED BY <1>4 DEF S!Min

\* getLockFromTable gives the id of a lock with the name, or -1.
LEMMA LockFound ==
    ASSUME NEW s, NEW name, NEW T, serverLockTable[s] \in Seq(T)
    PROVE  \/ getLockFromTable(s, name) = -1
           \/ \E i \in 1 .. Len(serverLockTable[s]) :
                 /\ serverLockTable[s][i].name = name
                 /\ getLockFromTable(s, name) = serverLockTable[s][i].id
<1>1. PICK I : I = {i \in 1 .. Len(serverLockTable[s]) : serverLockTable[s][i].name = name}
    OBVIOUS
<1>2. getLockFromTable(s, name) =
          LET i == IF I # {} THEN S!Min(I) ELSE 0
          IN  IF i = 0 THEN -1 ELSE serverLockTable[s][i].id
    BY <1>1 DEF getLockFromTable, S!SelectInSeq
<1>3. I \in SUBSET Nat
    BY <1>1
<1>4. CASE I = {}
    BY <1>2, <1>4
<1>5. CASE I # {}
  <2>1. PICK i : i = S!Min(I)
      OBVIOUS
  <2>2. i \in I
      BY <1>3, <1>5, <2>1, MinIn
  <2>3. i \in 1 .. Len(serverLockTable[s]) /\ serverLockTable[s][i].name = name /\ i # 0
      BY <1>1, <2>2
  <2> QED BY <1>2, <1>5, <2>1, <2>3
<1> QED BY <1>4, <1>5

\* The remainder of a number between -C and C.
LEMMA SmallMod ==
    ASSUME NEW C \in Nat \ {0}, NEW b \in 0 .. C - 1
    PROVE  b % C = b /\ (b - C) % C = b
<1>1. b % C = b
    OBVIOUS
<1>2. (b - C) % C = b
    BY SMTT(30)
<1> QED BY <1>1, <1>2

\* An int that is sent as a char.
LEMMA AsCharType ==
    ASSUME NEW n \in Int
    PROVE  /\ AsChar(n) \in Int
           /\ AsChar(AsChar(n)) = AsChar(n)
           /\ n >= 0 /\ 2 * n < CharRange => AsChar(n) = n
           /\ AsChar(-1) = -1
<1>1. CharRange \in Nat \ {0} /\ CharRange >= 2
    BY ServerGroupAssumption
<1>2. PICK b \in 0 .. CharRange - 1 : b = n % CharRange
    BY <1>1
<1>3. b % CharRange = b /\ (b - CharRange) % CharRange = b
    BY <1>1, SmallMod
<1>4. AsChar(n) = b \/ AsChar(n) = b - CharRange
    BY <1>2 DEF AsChar
<1>5. AsChar(n) % CharRange = b
    BY <1>3, <1>4
<1>6. AsChar(AsChar(n)) = AsChar(n)
    BY <1>2, <1>5 DEF AsChar
<1>7. n >= 0 /\ 2 * n < CharRange => AsChar(n) = n
  <2> SUFFICES ASSUME n >= 0, 2 * n < CharRange PROVE AsChar(n) = n
      OBVIOUS
  <2>1. n \in 0 .. CharRange - 1
      BY <1>1
  <2>2. n % CharRange = n
      BY <1>1, <2>1, SmallMod
  <2> QED BY <2>2 DEF AsChar
<1>8. AsChar(-1) = -1
  <2>1. CharRange - 1 \in 0 .. CharRange - 1 /\ (CharRange - 1) - CharRange = -1
      BY <1>1
  <2>2. (-1) % CharRange = CharRange - 1
      BY <1>1, <2>1, SmallMod
  <2>3. ~(2 * (CharRange - 1) < CharRange)
      BY <1>1
  <2> QED BY <1>1, <2>1, <2>2, <2>3 DEF AsChar
<1> QED BY <1>1, <1>2, <1>4, <1>6, <1>7, <1>8

-----------------------------------------------------------------------------
(***************************************************************************)
(* The locks.                                                              *)
(***************************************************************************)
Element == 0 .. NumElements - 1
LockRequest == [op : {"createLock"}, client : Client, name : LockName]
Question == [op : {"haveLock"}, from : Server, client : Client, name : LockName, id : Nat]
Reply == [op : {"answer"}, yes : BOOLEAN, id : Nat]
NewMV == [op : {"createMV"}, client : Client, name : MVName]
MVUse == [op : {"setMV", "getMV", "destroyMV"}, client : Client, name : MVName,
          index : Int, position : Int, value : Int, givenPosition : Int, givenValue : Int]
Message == LockRequest \cup Question \cup Reply \cup NewMV \cup MVUse
Mail == [kind : {"lock", "index", "done", "value"}, val : Int, want : Int]
Lock == [name : LockName, id : Nat]
MV == [name : MVName, values : [Element -> Int], freed : BOOLEAN]
Pending == [noCount : Nat, client : Client, name : LockName]
Doing == {Idle, "createLock", "setMV", "getMV", "destroyMV"} \cup MVName

Types ==
    /\ numServers \in ServerCounts
    /\ inbox \in [Server -> Seq(Message)]
    /\ serverLockTable \in [Server -> Seq(Lock)]
    /\ serverMVTable \in [Server -> Seq(MV)]
    /\ pendingRequestTable \in [Server -> Seq(Pending)]
    /\ call \in [Client -> Doing]
    /\ box \in [Client -> Seq(Mail)]
    /\ handle \in [Client -> [MVName -> Int]]
    /\ asked \in [Client -> SUBSET LockName]
    /\ calls \in 0 .. MaxCalls
    /\ last \in [MVName -> [Element -> Int]]
    /\ undefined \in BOOLEAN

\* The id of a lock says where it is.
IdsRight ==
    \A s \in Server : \A i \in 1 .. Len(serverLockTable[s]) :
        serverLockTable[s][i].id = (i - 1) + s * IdRange

\* What a server is asked to make or to look for, some client has asked for.
MessageRight(s, m) ==
    /\ m.op \in {"createLock", "haveLock"} => m.name \in asked[m.client]
    /\ m.op = "haveLock" => m.from # s
InboxRight == \A s \in Server : \A m \in Elems(inbox[s]) : MessageRight(s, m)
PendingRight ==
    \A s \in Server : \A pr \in Elems(pendingRequestTable[s]) : pr.name \in asked[pr.client]

\* The answer names a lock of some server, by an id that was sent as a char.
MailRight(c, a) ==
    a.kind = "lock" =>
        \E s \in Server : \E i \in 1 .. Len(serverLockTable[s]) :
            /\ a.val = AsChar(serverLockTable[s][i].id)
            /\ serverLockTable[s][i].name \in asked[c]
BoxRight == \A c \in Client : \A a \in Elems(box[c]) : MailRight(c, a)

(***************************************************************************)
(* Each call pays for at most one lock or one MV of a server: those it has *)
(* made, those it still counts answers for and those it will be asked for. *)
(***************************************************************************)
Counting(s) ==
    {i \in 1 .. Len(pendingRequestTable[s]) :
        pendingRequestTable[s][i].noCount < numServers - 1}
LockBudget ==
    \A s \in Server :
        Len(serverLockTable[s]) + Cardinality(Counting(s)) + Count(inbox[s], "createLock") <= calls
MVBudget ==
    \A s \in Server : Len(serverMVTable[s]) + Count(inbox[s], "createMV") <= calls

LockInv ==
    /\ Types /\ IdsRight /\ InboxRight /\ PendingRight /\ BoxRight
    /\ LockBudget /\ MVBudget

\* The fields of a message.
LEMMA Fields ==
    ASSUME NEW m \in Message
    PROVE  /\ m.op = "createLock" => m.client \in Client /\ m.name \in LockName
           /\ m.op = "haveLock" => /\ m.client \in Client /\ m.name \in LockName
                                   /\ m.from \in Server /\ m.id \in Nat
           /\ m.op = "answer" => m.yes \in BOOLEAN
           /\ m.op = "createMV" => m.client \in Client /\ m.name \in MVName
           /\ m.op \in {"setMV", "getMV", "destroyMV"} =>
                 /\ m.client \in Client /\ m.name \in MVName
                 /\ m.index \in Int /\ m.position \in Int /\ m.value \in Int
                 /\ m.givenPosition \in Int /\ m.givenValue \in Int
BY DEF Message, LockRequest, Question, Reply, NewMV, MVUse

\* The fields of a pending request.
LEMMA PendingFields ==
    ASSUME Types, NEW s \in Server, NEW pr \in Elems(pendingRequestTable[s])
    PROVE  pr.client \in Client /\ pr.name \in LockName /\ pr.noCount \in Nat
<1>1. PICK q \in Seq(Pending) : q = pendingRequestTable[s]
    BY DEF Types
<1>2. PICK i \in 1 .. Len(q) : pr = q[i]
    BY <1>1 DEF Elems
<1>3. pr \in Pending
    BY <1>2
<1> QED BY <1>3 DEF Pending

\* The pending requests that are counted are finitely many.
LEMMA CountingFinite ==
    ASSUME Types, NEW s \in Server
    PROVE  IsFiniteSet(Counting(s)) /\ Cardinality(Counting(s)) \in Nat
<1>1. Len(pendingRequestTable[s]) \in Nat
    BY DEF Types
<1>2. IsFiniteSet(1 .. Len(pendingRequestTable[s]))
    BY <1>1, FS_Interval
<1>3. IsFiniteSet(Counting(s))
    BY <1>2, FS_Subset DEF Counting
<1> QED BY <1>3, FS_CardinalityType

\* The numbers in the budgets.
LEMMA BudgetTypes ==
    ASSUME Types, NEW s \in Server
    PROVE  /\ Len(serverLockTable[s]) \in Nat /\ Len(serverMVTable[s]) \in Nat
           /\ Count(inbox[s], "createLock") \in Nat /\ Count(inbox[s], "createMV") \in Nat
           /\ Cardinality(Counting(s)) \in Nat /\ calls \in Nat /\ MaxCalls \in Nat
           /\ calls <= MaxCalls
<1>1. inbox[s] \in Seq(Message) /\ Len(serverLockTable[s]) \in Nat /\ Len(serverMVTable[s]) \in Nat
    BY DEF Types
<1>2. Count(inbox[s], "createLock") \in Nat /\ Count(inbox[s], "createMV") \in Nat
    BY <1>1, CountType
<1>3. MaxCalls \in Nat
    BY ServerGroupAssumption
<1>4. calls \in Nat /\ calls <= MaxCalls
    BY <1>3 DEF Types
<1> QED BY <1>1, <1>2, <1>3, <1>4, CountingFinite

\* A server has no more locks and no more MVs than there have been calls.
LEMMA FewLocks ==
    ASSUME LockInv, NEW s \in Server
    PROVE  Len(serverLockTable[s]) <= calls /\ Len(serverMVTable[s]) <= calls
<1>1. /\ Len(serverLockTable[s]) \in Nat /\ Len(serverMVTable[s]) \in Nat
      /\ Count(inbox[s], "createLock") \in Nat /\ Count(inbox[s], "createMV") \in Nat
      /\ Cardinality(Counting(s)) \in Nat /\ calls \in Nat /\ MaxCalls \in Nat
      /\ calls <= MaxCalls
    BY BudgetTypes DEF LockInv
<1>2. /\ Len(serverLockTable[s]) + Cardinality(Counting(s)) + Count(inbox[s], "createLock") <= calls
      /\ Len(serverMVTable[s]) + Count(inbox[s], "createMV") <= calls
    BY DEF LockInv, LockBudget, MVBudget
<1> QED BY <1>1, <1>2

\* Two different servers give different ids, if they keep to their ranges.
LEMMA IdsApart ==
    ASSUME NEW s \in Nat, NEW r \in Nat, NEW i \in 1 .. IdRange, NEW j \in 1 .. IdRange
    PROVE  (i - 1) + s * IdRange = (j - 1) + r * IdRange => s = r /\ i = j
<1>1. IdRange \in Nat \ {0}
    BY ServerGroupAssumption
<1>2. PICK x \in Int, y \in Int : x = s * IdRange /\ y = r * IdRange
    BY <1>1
<1>3. ASSUME s < r PROVE x + IdRange <= y
  <2>1. s + 1 <= r
      BY <1>3
  <2>2. (s + 1) * IdRange <= r * IdRange
      BY <1>1, <2>1
  <2>3. (s + 1) * IdRange = s * IdRange + IdRange
      BY <1>1
  <2> QED BY <1>2, <2>2, <2>3
<1>4. ASSUME r < s PROVE y + IdRange <= x
  <2>1. r + 1 <= s
      BY <1>4
  <2>2. (r + 1) * IdRange <= s * IdRange
      BY <1>1, <2>1
  <2>3. (r + 1) * IdRange = r * IdRange + IdRange
      BY <1>1
  <2> QED BY <1>2, <2>2, <2>3
<1>5. (i - 1) + x = (j - 1) + y => s = r
    BY <1>1, <1>3, <1>4
<1>6. (i - 1) + x = (j - 1) + y => i = j
    BY <1>2, <1>5
<1> QED BY <1>2, <1>5, <1>6

\* The ids of N servers that keep to their ranges, if N is small enough.
LEMMA IdIsChar ==
    ASSUME NEW N \in Nat, 2 * N * IdRange <= CharRange,
           NEW s \in 0 .. N - 1, NEW i \in 1 .. IdRange
    PROVE  AsChar((i - 1) + s * IdRange) = (i - 1) + s * IdRange
<1>1. IdRange \in Nat \ {0} /\ CharRange \in Nat
    BY ServerGroupAssumption
<1>2. PICK x \in Int, z \in Int : x = s * IdRange /\ z = N * IdRange
    BY <1>1
<1>3. x >= 0 /\ x + IdRange <= z
  <2>1. (s + 1) * IdRange <= N * IdRange
      BY <1>1
  <2>2. (s + 1) * IdRange = s * IdRange + IdRange
      BY <1>1
  <2>3. s * IdRange >= 0
      BY <1>1
  <2> QED BY <1>2, <2>1, <2>2, <2>3
<1>4. 2 * z <= CharRange
  <2>1. 2 * N * IdRange = 2 * (N * IdRange)
      BY <1>1
  <2> QED BY <1>1, <1>2, <2>1
<1>5. (i - 1) + x \in Int /\ (i - 1) + x >= 0 /\ 2 * ((i - 1) + x) < CharRange
    BY <1>1, <1>2, <1>3, <1>4
<1>6. AsChar((i - 1) + x) = (i - 1) + x
    BY <1>5, AsCharType
<1> QED BY <1>2, <1>6

\* The invariant gives IdNamesOneLock.
LEMMA LockInvImplies ==
    LockInv => IdNamesOneLock
<1> SUFFICES ASSUME LockInv, IdsFit,
                    NEW c \in Client, NEW k \in DOMAIN box[c], box[c][k].kind = "lock"
             PROVE  \E s \in Server : \E i \in DOMAIN serverLockTable[s] :
                       /\ serverLockTable[s][i].name \in asked[c]
                       /\ \A r \in Server : \A j \in DOMAIN serverLockTable[r] :
                             serverLockTable[r][j].id = box[c][k].val <=> r = s /\ j = i
    BY DEF IdNamesOneLock
<1> USE DEF LockInv
<1>1. PICK q \in Seq(Mail) : q = box[c]
    BY DEF Types
<1>2. k \in 1 .. Len(q)
    BY <1>1
<1>3. PICK a : a = box[c][k] /\ a \in Elems(box[c])
    BY <1>1, <1>2 DEF Elems
<1>4. PICK s \in Server : \E i \in 1 .. Len(serverLockTable[s]) :
          /\ a.val = AsChar(serverLockTable[s][i].id)
          /\ serverLockTable[s][i].name \in asked[c]
    BY <1>3 DEF BoxRight, MailRight
<1>5. PICK i \in 1 .. Len(serverLockTable[s]) :
          /\ a.val = AsChar(serverLockTable[s][i].id)
          /\ serverLockTable[s][i].name \in asked[c]
    BY <1>4
<1>6. ASSUME NEW r \in Server
      PROVE  DOMAIN serverLockTable[r] = 1 .. Len(serverLockTable[r])
    BY DEF Types
<1>7. ASSUME NEW r \in Server, NEW j \in 1 .. Len(serverLockTable[r])
      PROVE  /\ j \in 1 .. IdRange /\ serverLockTable[r][j].id = (j - 1) + r * IdRange
             /\ AsChar(serverLockTable[r][j].id) = serverLockTable[r][j].id
    BY <1>6, <1>7, ServerGroupAssumption DEF IdsFit, IdsRight
<1>8. a.val = serverLockTable[s][i].id
    BY <1>5, <1>7
<1>9. ASSUME NEW r \in Server, NEW j \in 1 .. Len(serverLockTable[r]),
             serverLockTable[r][j].id = a.val
      PROVE  r = s /\ j = i
  <2>1. (j - 1) + r * IdRange = (i - 1) + s * IdRange
      BY <1>7, <1>8, <1>9
  <2>2. r \in Nat /\ s \in Nat
      BY ServerGroupAssumption DEF Types, Server
  <2> QED BY <1>7, <2>1, <2>2, IdsApart
<1>10. \A r \in Server : \A j \in DOMAIN serverLockTable[r] :
          serverLockTable[r][j].id = box[c][k].val <=> r = s /\ j = i
    BY <1>3, <1>6, <1>8, <1>9
<1> QED BY <1>5, <1>6, <1>10

\* One inbox gets a message.
LEMMA Posted ==
    ASSUME Types, NEW s \in Server, NEW m \in Message,
           inbox' = [inbox EXCEPT ![s] = Append(inbox[s], m)]
    PROVE  /\ inbox' \in [Server -> Seq(Message)]
           /\ Elems(inbox'[s]) = Elems(inbox[s]) \cup {m}
           /\ \A op : Count(inbox'[s], op) =
                         IF m.op = op THEN Count(inbox[s], op) + 1 ELSE Count(inbox[s], op)
           /\ \A r \in Server \ {s} : inbox'[r] = inbox[r]
<1>1. PICK q \in Seq(Message) : q = inbox[s]
    BY DEF Types
<1>2. PICK z : z = Append(q, m)
    OBVIOUS
<1>3. z \in Seq(Message) /\ Elems(z) = Elems(q) \cup {m}
    BY <1>2, Appended
<1>4. \A op : Count(z, op) = IF m.op = op THEN Count(q, op) + 1 ELSE Count(q, op)
    BY <1>2, CountAppend
<1>5. inbox' = [inbox EXCEPT ![s] = z]
    BY <1>1, <1>2
<1>6. inbox' \in [Server -> Seq(Message)] /\ inbox'[s] = z
      /\ \A r \in Server \ {s} : inbox'[r] = inbox[r]
    BY <1>3, <1>5 DEF Types
<1> QED BY <1>1, <1>3, <1>4, <1>6

\* A server takes the first message of its inbox.
LEMMA Served ==
    ASSUME Types, NEW s \in Server, inbox[s] # <<>>,
           inbox' = [inbox EXCEPT ![s] = Tail(inbox[s])]
    PROVE  /\ inbox' \in [Server -> Seq(Message)]
           /\ Head(inbox[s]) \in Message /\ Head(inbox[s]) \in Elems(inbox[s])
           /\ Elems(inbox'[s]) \subseteq Elems(inbox[s])
           /\ \A op : Count(inbox'[s], op) =
                  IF Head(inbox[s]).op = op THEN Count(inbox[s], op) - 1 ELSE Count(inbox[s], op)
           /\ \A r \in Server \ {s} : inbox'[r] = inbox[r]
<1>1. PICK q \in Seq(Message) : q = inbox[s] /\ q # <<>>
    BY DEF Types
<1>2. PICK z : z = Tail(q)
    OBVIOUS
<1>3. z \in Seq(Message) /\ Elems(z) \subseteq Elems(q) /\ Head(q) \in Message /\ Head(q) \in Elems(q)
    BY <1>1, <1>2, Popped
<1>4. \A op : Count(z, op) = IF Head(q).op = op THEN Count(q, op) - 1 ELSE Count(q, op)
    BY <1>1, <1>2, CountTail
<1>5. inbox' = [inbox EXCEPT ![s] = z]
    BY <1>1, <1>2
<1>6. inbox' \in [Server -> Seq(Message)] /\ inbox'[s] = z
      /\ \A r \in Server \ {s} : inbox'[r] = inbox[r]
    BY <1>3, <1>5 DEF Types
<1> QED BY <1>1, <1>3, <1>4, <1>6

\* A client is answered.
LEMMA Answered ==
    ASSUME Types, NEW c \in Client, NEW kind \in {"lock", "index", "done", "value"},
           NEW val \in Int, NEW want \in Int, Answer(c, kind, val, want)
    PROVE  /\ box' \in [Client -> Seq(Mail)]
           /\ box'[c] = Append(box[c], [kind |-> kind, val |-> AsChar(val), want |-> want])
           /\ Elems(box'[c]) = Elems(box[c])
                                 \cup {[kind |-> kind, val |-> AsChar(val), want |-> want]}
           /\ \A d \in Client \ {c} : box'[d] = box[d]
<1>1. PICK a : a = [kind |-> kind, val |-> AsChar(val), want |-> want]
    OBVIOUS
<1>2. AsChar(val) \in Int
    BY AsCharType DEF Types
<1>3. a \in Mail
    BY <1>1, <1>2 DEF Mail
<1>4. PICK q \in Seq(Mail) : q = box[c]
    BY DEF Types
<1>5. PICK z : z = Append(q, a)
    OBVIOUS
<1>6. z \in Seq(Mail) /\ Elems(z) = Elems(q) \cup {a}
    BY <1>3, <1>5, Appended
<1>7. box' = [box EXCEPT ![c] = z]
    BY <1>1, <1>4, <1>5 DEF Answer
<1>8. box' \in [Client -> Seq(Mail)] /\ box'[c] = z /\ \A d \in Client \ {c} : box'[d] = box[d]
    BY <1>6, <1>7 DEF Types
<1> QED BY <1>1, <1>4, <1>5, <1>6, <1>8

\* The servers stay the same.
LEMMA ServersStay ==
    ASSUME numServers' = numServers
    PROVE  Server' = Server /\ Message' = Message
BY DEF Server, Message, Question, LockRequest, Reply, NewMV, MVUse

(***************************************************************************)
(* A step after which every server has the locks it had, and perhaps some  *)
(* more, and in which a client that gets an answer gets a right one.       *)
(***************************************************************************)
LEMMA MoreLocks ==
    ASSUME LockInv, numServers' = numServers,
           \A s \in Server : \A i \in 1 .. Len(serverLockTable[s]) :
               /\ i \in 1 .. Len(serverLockTable'[s])
               /\ serverLockTable'[s][i] = serverLockTable[s][i],
           \A c \in Client : asked[c] \subseteq asked'[c],
           \A c \in Client : \A a \in Elems(box'[c]) : a \in Elems(box[c]) \/ MailRight(c, a)'
    PROVE  BoxRight'
<1> SUFFICES ASSUME NEW c \in Client, NEW a \in Elems(box'[c]) PROVE MailRight(c, a)'
    BY DEF BoxRight, Elems
<1>1. CASE a \in Elems(box[c])
  <2> SUFFICES ASSUME a.kind = "lock"
               PROVE  \E s \in Server' : \E i \in 1 .. Len(serverLockTable'[s]) :
                         /\ a.val = AsChar(serverLockTable'[s][i].id)
                         /\ serverLockTable'[s][i].name \in asked'[c]
      BY DEF MailRight
  <2>1. PICK s \in Server : \E i \in 1 .. Len(serverLockTable[s]) :
            /\ a.val = AsChar(serverLockTable[s][i].id)
            /\ serverLockTable[s][i].name \in asked[c]
      BY <1>1 DEF LockInv, BoxRight, MailRight
  <2>2. PICK i \in 1 .. Len(serverLockTable[s]) :
            /\ a.val = AsChar(serverLockTable[s][i].id)
            /\ serverLockTable[s][i].name \in asked[c]
      BY <2>1
  <2>3. s \in Server'
      BY ServersStay
  <2> QED BY <2>2, <2>3
<1> QED BY <1>1

\* A system call sends a request.
LEMMA AskLocks ==
    ASSUME LockInv, NEW c \in Client, NEW m \in Message, Ask(c, m),
           call' \in [Client -> Doing], asked' \in [Client -> SUBSET LockName],
           \A d \in Client : asked[d] \subseteq asked'[d],
           m.op # "haveLock", m.op = "createLock" => m.name \in asked'[m.client]
    PROVE  LockInv'
<1> USE DEF LockInv
<1>1. PICK s \in Server : inbox' = [inbox EXCEPT ![s] = Append(inbox[s], m)]
    BY DEF Ask
<1>2. /\ calls < MaxCalls /\ calls' = calls + 1
      /\ UNCHANGED <<numServers, serverLockTable, serverMVTable, pendingRequestTable, box, handle,
                     last, undefined>>
    BY DEF Ask, tables
<1>3. /\ inbox' \in [Server -> Seq(Message)]
      /\ Elems(inbox'[s]) = Elems(inbox[s]) \cup {m}
      /\ \A op : Count(inbox'[s], op) =
                    IF m.op = op THEN Count(inbox[s], op) + 1 ELSE Count(inbox[s], op)
      /\ \A r \in Server \ {s} : inbox'[r] = inbox[r]
    BY <1>1, Posted
<1>4. Server' = Server /\ Message' = Message
    BY <1>2, ServersStay
<1>5. calls' \in 0 .. MaxCalls
    BY <1>2, ServerGroupAssumption DEF Types
<1>6. Types'
    BY <1>2, <1>3, <1>4, <1>5 DEF Types
<1>7. IdsRight'
    BY <1>2, <1>4 DEF IdsRight
<1>8. InboxRight'
  <2> SUFFICES ASSUME NEW r \in Server, NEW x \in Elems(inbox'[r])
               PROVE  MessageRight(r, x)'
      BY <1>4 DEF InboxRight, Elems
  <2>1. CASE x \in Elems(inbox[r])
    <3>1. MessageRight(r, x)
        BY <2>1 DEF InboxRight
    <3>2. x \in Message
        BY <2>1 DEF Elems, Types
    <3> QED BY <3>1, <3>2, Fields DEF MessageRight
  <2>2. CASE x = m
      BY <2>2 DEF MessageRight
  <2> QED BY <1>3, <2>1, <2>2
<1>9. PendingRight'
  <2>1. \A r \in Server : \A pr \in Elems(pendingRequestTable[r]) : pr.client \in Client
      BY PendingFields
  <2> QED BY <1>2, <1>4, <2>1 DEF PendingRight, Elems
<1>10. BoxRight'
    BY <1>2, MoreLocks
<1>11. \A r \in Server : Counting(r)' = Counting(r)
    BY <1>2 DEF Counting
<1>12. LockBudget' /\ MVBudget'
  <2> SUFFICES ASSUME NEW r \in Server
               PROVE  /\ Len(serverLockTable'[r]) + Cardinality(Counting(r)')
                            + Count(inbox'[r], "createLock") <= calls'
                      /\ Len(serverMVTable'[r]) + Count(inbox'[r], "createMV") <= calls'
      BY <1>4 DEF LockBudget, MVBudget, Count, WithOp
  <2>1. /\ Len(serverLockTable[r]) + Cardinality(Counting(r)) + Count(inbox[r], "createLock") <= calls
        /\ Len(serverMVTable[r]) + Count(inbox[r], "createMV") <= calls
      BY DEF LockBudget, MVBudget
  <2>2. /\ Len(serverLockTable[r]) \in Nat /\ Len(serverMVTable[r]) \in Nat
        /\ Count(inbox[r], "createLock") \in Nat /\ Count(inbox[r], "createMV") \in Nat
        /\ Cardinality(Counting(r)) \in Nat /\ calls \in Nat
      BY BudgetTypes
  <2>3. /\ Count(inbox'[r], "createLock") \in Nat /\ Count(inbox'[r], "createMV") \in Nat
        /\ Count(inbox'[r], "createLock") <= Count(inbox[r], "createLock") + 1
        /\ Count(inbox'[r], "createMV") <= Count(inbox[r], "createMV") + 1
      BY <1>3, <2>2
  <2>4. /\ serverLockTable'[r] = serverLockTable[r] /\ serverMVTable'[r] = serverMVTable[r]
        /\ Counting(r)' = Counting(r) /\ calls' = calls + 1
      BY <1>2, <1>11
  <2>5. PICK k \in Nat, n \in Nat, o \in Nat, o2 \in Nat, v \in Nat, w \in Nat, w2 \in Nat :
           /\ k = Len(serverLockTable[r]) /\ n = Cardinality(Counting(r))
           /\ o = Count(inbox[r], "createLock") /\ o2 = Count(inbox'[r], "createLock")
           /\ v = Len(serverMVTable[r])
           /\ w = Count(inbox[r], "createMV") /\ w2 = Count(inbox'[r], "createMV")
      BY <2>2, <2>3
  <2>6. k + n + o <= calls /\ v + w <= calls /\ o2 <= o + 1 /\ w2 <= w + 1
      BY <2>1, <2>3, <2>5
  <2>7. k + n + o2 <= calls + 1 /\ v + w2 <= calls + 1
      BY <2>2, <2>6
  <2> QED BY <2>4, <2>5, <2>7
<1> QED BY <1>6, <1>7, <1>8, <1>9, <1>10, <1>12

\* The system calls.
LEMMA CallLocks ==
    ASSUME LockInv, NEW c \in Client, Call(c)
    PROVE  LockInv'
<1> USE DEF LockInv
<1>1. \A x \in Doing : [call EXCEPT ![c] = x] \in [Client -> Doing]
    BY DEF Types
<1>2. ASSUME NEW name \in LockName, CreateLock_Syscall(c, name) PROVE LockInv'
  <2>1. PICK m : m = [op |-> "createLock", client |-> c, name |-> name]
      OBVIOUS
  <2>2. m \in Message /\ m.op = "createLock" /\ m.client = c /\ m.name = name
      BY <2>1 DEF Message, LockRequest
  <2>3. Ask(c, m) /\ call' = [call EXCEPT ![c] = "createLock"]
        /\ asked' = [asked EXCEPT ![c] = asked[c] \cup {name}]
      BY <1>2, <2>1 DEF CreateLock_Syscall
  <2>4. call' \in [Client -> Doing]
      BY <1>1, <2>3 DEF Doing
  <2>5. /\ asked' \in [Client -> SUBSET LockName]
        /\ \A d \in Client : asked[d] \subseteq asked'[d]
        /\ name \in asked'[c]
      BY <2>3 DEF Types
  <2> QED BY <2>2, <2>3, <2>4, <2>5, AskLocks
<1>3. ASSUME NEW name \in MVName, CreateMV_Syscall(c, name) PROVE LockInv'
  <2>1. PICK m : m = [op |-> "createMV", client |-> c, name |-> name]
      OBVIOUS
  <2>2. m \in Message /\ m.op = "createMV"
      BY <2>1 DEF Message, NewMV
  <2>3. Ask(c, m) /\ call' = [call EXCEPT ![c] = name] /\ asked' = asked
      BY <1>3, <2>1 DEF CreateMV_Syscall
  <2>4. call' \in [Client -> Doing]
      BY <1>1, <2>3 DEF Doing
  <2>5. asked' \in [Client -> SUBSET LockName]
      BY <2>3 DEF Types
  <2> QED BY <2>2, <2>3, <2>4, <2>5, AskLocks
<1>4. ASSUME NEW op \in {"setMV", "getMV", "destroyMV"}, NEW name \in MVName,
             NEW p \in Int, NEW v \in Int, UseMV(c, op, name, p, v)
      PROVE  LockInv'
  <2>1. PICK m : m = [op |-> op, client |-> c, name |-> name, index |-> AsChar(handle[c][name]),
                      position |-> AsChar(p), value |-> AsChar(v),
                      givenPosition |-> p, givenValue |-> v]
      OBVIOUS
  <2>2. handle[c][name] \in Int /\ ServerCounts # {}
      BY DEF Types
  <2>3. AsChar(handle[c][name]) \in Int /\ AsChar(p) \in Int /\ AsChar(v) \in Int
      BY <2>2, AsCharType
  <2>4. m \in MVUse
      BY <2>1, <2>3 DEF MVUse
  <2>5. m \in Message /\ m.op = op
      BY <2>1, <2>4 DEF Message
  <2>6. Ask(c, m) /\ call' = [call EXCEPT ![c] = op] /\ asked' = asked
      BY <1>4, <2>1 DEF UseMV
  <2>7. call' \in [Client -> Doing]
      BY <1>1, <2>6 DEF Doing
  <2>8. asked' \in [Client -> SUBSET LockName]
      BY <2>6 DEF Types
  <2> QED BY <2>5, <2>6, <2>7, <2>8, AskLocks
<1>5. Position \subseteq Int /\ Value \subseteq Int /\ 0 \in Int
    BY ServerGroupAssumption DEF Position
<1> QED BY <1>2, <1>3, <1>4, <1>5 DEF Call, SetMV_Syscall, GetMV_Syscall, DestroyMV_Syscall

\* A call returns.
LEMMA ReceiveLocks ==
    ASSUME LockInv, NEW c \in Client, Receive(c)
    PROVE  LockInv'
<1> USE DEF LockInv
<1>1. /\ box[c] # <<>> /\ box' = [box EXCEPT ![c] = Tail(box[c])]
      /\ call' = [call EXCEPT ![c] = Idle]
      /\ handle' = IF call[c] \in MVName
                   THEN [handle EXCEPT ![c][call[c]] = Head(box[c]).val] ELSE handle
      /\ UNCHANGED <<numServers, inbox, serverLockTable, serverMVTable, pendingRequestTable,
                     asked, calls, last, undefined>>
    BY DEF Receive, tables
<1>2. PICK q \in Seq(Mail) : q = box[c] /\ q # <<>>
    BY <1>1 DEF Types
<1>3. PICK z : z = Tail(q)
    OBVIOUS
<1>4. z \in Seq(Mail) /\ Elems(z) \subseteq Elems(q) /\ Head(q) \in Mail
    BY <1>2, <1>3, Popped
<1>5. box' = [box EXCEPT ![c] = z]
    BY <1>1, <1>2, <1>3
<1>6. /\ box' \in [Client -> Seq(Mail)] /\ box'[c] = z /\ \A d \in Client \ {c} : box'[d] = box[d]
    BY <1>4, <1>5 DEF Types
<1>7. handle' \in [Client -> [MVName -> Int]]
  <2>1. Head(box[c]).val \in Int
      BY <1>2, <1>4 DEF Mail
  <2> QED BY <1>1, <2>1 DEF Types
<1>8. call' \in [Client -> Doing]
    BY <1>1 DEF Types, Doing
<1>9. Server' = Server /\ Message' = Message
    BY <1>1, ServersStay
<1>10. Types'
    BY <1>1, <1>6, <1>7, <1>8, <1>9 DEF Types
<1>11. \A d \in Client : \A a \in Elems(box'[d]) : a \in Elems(box[d])
    BY <1>2, <1>4, <1>6
<1>12. BoxRight'
    BY <1>1, <1>11, MoreLocks
<1>13. IdsRight' /\ PendingRight'
    BY <1>1, <1>9 DEF IdsRight, PendingRight, Elems
<1>14. InboxRight'
    BY <1>1, <1>9 DEF InboxRight, MessageRight, Elems
<1>15. \A r \in Server : Counting(r)' = Counting(r)
    BY <1>1 DEF Counting
<1>16. LockBudget' /\ MVBudget'
    BY <1>1, <1>9, <1>15 DEF LockBudget, MVBudget, Count, WithOp
<1> QED BY <1>10, <1>12, <1>13, <1>14, <1>16

\* A server takes a message and the clients wait.
LEMMA ServeKeeps ==
    ASSUME LockInv, NEW s \in Server, inbox[s] # <<>>,
           inbox' = [inbox EXCEPT ![s] = Tail(inbox[s])],
           UNCHANGED <<numServers, call, handle, asked, calls>>
    PROVE  /\ Server' = Server /\ Message' = Message /\ InboxRight'
           /\ inbox' \in [Server -> Seq(Message)]
           /\ Head(inbox[s]) \in Message /\ MessageRight(s, Head(inbox[s]))
           /\ \A op : Count(inbox'[s], op) =
                  IF Head(inbox[s]).op = op THEN Count(inbox[s], op) - 1 ELSE Count(inbox[s], op)
           /\ \A r \in Server \ {s} : inbox'[r] = inbox[r]
<1> USE DEF LockInv
<1>1. /\ inbox' \in [Server -> Seq(Message)]
      /\ Head(inbox[s]) \in Message /\ Head(inbox[s]) \in Elems(inbox[s])
      /\ Elems(inbox'[s]) \subseteq Elems(inbox[s])
      /\ \A op : Count(inbox'[s], op) =
             IF Head(inbox[s]).op = op THEN Count(inbox[s], op) - 1 ELSE Count(inbox[s], op)
      /\ \A r \in Server \ {s} : inbox'[r] = inbox[r]
    BY Served
<1>2. Server' = Server /\ Message' = Message
    BY ServersStay
<1>3. InboxRight'
  <2> SUFFICES ASSUME NEW r \in Server, NEW x \in Elems(inbox'[r])
               PROVE  MessageRight(r, x)'
      BY <1>2 DEF InboxRight, Elems
  <2>1. x \in Elems(inbox[r])
      BY <1>1
  <2> QED BY <2>1 DEF InboxRight, MessageRight
<1>4. MessageRight(s, Head(inbox[s]))
    BY <1>1 DEF InboxRight
<1> QED BY <1>1, <1>2, <1>3, <1>4

\* The locks and the pending requests stay as they are.
LEMMA LocksStay ==
    ASSUME LockInv, UNCHANGED <<numServers, serverLockTable, pendingRequestTable, asked>>
    PROVE  /\ IdsRight' /\ PendingRight'
           /\ \A r \in Server : Counting(r)' = Counting(r)
<1>1. Server' = Server
    BY ServersStay
<1> QED BY <1>1 DEF LockInv, IdsRight, PendingRight, Counting, Elems

\* A server does something with its MVs, or nothing at all.
LEMMA MVServed ==
    ASSUME LockInv, NEW s \in Server, inbox[s] # <<>>,
           inbox' = [inbox EXCEPT ![s] = Tail(inbox[s])],
           UNCHANGED <<numServers, call, handle, asked, calls, serverLockTable,
                       pendingRequestTable>>,
           serverMVTable' \in [Server -> Seq(MV)], box' \in [Client -> Seq(Mail)],
           last' \in [MVName -> [Element -> Int]], undefined' \in BOOLEAN,
           \A r \in Server \ {s} : serverMVTable'[r] = serverMVTable[r],
           \/ Len(serverMVTable'[s]) = Len(serverMVTable[s])
           \/ /\ Head(inbox[s]).op = "createMV"
              /\ Len(serverMVTable'[s]) = Len(serverMVTable[s]) + 1,
           \A c \in Client : \A a \in Elems(box'[c]) : a \in Elems(box[c]) \/ MailRight(c, a)'
    PROVE  LockInv'
<1> USE DEF LockInv
<1>1. /\ Server' = Server /\ Message' = Message /\ InboxRight'
      /\ inbox' \in [Server -> Seq(Message)]
      /\ \A op : Count(inbox'[s], op) =
             IF Head(inbox[s]).op = op THEN Count(inbox[s], op) - 1 ELSE Count(inbox[s], op)
      /\ \A r \in Server \ {s} : inbox'[r] = inbox[r]
    BY ServeKeeps
<1>2. /\ IdsRight' /\ PendingRight'
      /\ \A r \in Server : Counting(r)' = Counting(r)
    BY LocksStay
<1>3. Types'
    BY <1>1 DEF Types
<1>4. BoxRight'
    BY MoreLocks
<1>5. LockBudget' /\ MVBudget'
  <2> SUFFICES ASSUME NEW r \in Server
               PROVE  /\ Len(serverLockTable'[r]) + Cardinality(Counting(r)')
                            + Count(inbox'[r], "createLock") <= calls'
                      /\ Len(serverMVTable'[r]) + Count(inbox'[r], "createMV") <= calls'
      BY <1>1 DEF LockBudget, MVBudget, Count, WithOp
  <2>1. /\ Len(serverLockTable[r]) + Cardinality(Counting(r)) + Count(inbox[r], "createLock") <= calls
        /\ Len(serverMVTable[r]) + Count(inbox[r], "createMV") <= calls
      BY DEF LockBudget, MVBudget
  <2>2. /\ Len(serverLockTable[r]) \in Nat /\ Len(serverMVTable[r]) \in Nat
        /\ Count(inbox[r], "createLock") \in Nat /\ Count(inbox[r], "createMV") \in Nat
        /\ Cardinality(Counting(r)) \in Nat /\ calls \in Nat
      BY BudgetTypes
  <2>3. CASE r = s
    <3>1. /\ Count(inbox'[r], "createLock") \in Int
          /\ Count(inbox'[r], "createLock") <= Count(inbox[r], "createLock")
        BY <1>1, <2>2, <2>3
    <3>2. Len(serverMVTable'[r]) + Count(inbox'[r], "createMV")
             <= Len(serverMVTable[r]) + Count(inbox[r], "createMV")
          /\ Len(serverMVTable'[r]) \in Nat /\ Count(inbox'[r], "createMV") \in Int
        BY <1>1, <2>2, <2>3
    <3>3. /\ Len(serverLockTable'[r]) = Len(serverLockTable[r]) /\ calls' = calls
          /\ Cardinality(Counting(r)') = Cardinality(Counting(r))
        BY <1>2
    <3>4. PICK k \in Nat, n \in Nat, o \in Nat, o2 \in Int :
             /\ k = Len(serverLockTable[r]) /\ n = Cardinality(Counting(r))
             /\ o = Count(inbox[r], "createLock") /\ o2 = Count(inbox'[r], "createLock")
        BY <2>2, <3>1
    <3>a. k + n + o <= calls /\ o2 <= o
        BY <2>1, <3>1, <3>4
    <3>b. k + n + o2 <= calls
        BY <2>2, <3>a
    <3>5. k + n + Count(inbox'[r], "createLock") <= calls
        BY <3>4, <3>b
    <3>6. Len(serverMVTable'[r]) + Count(inbox'[r], "createMV") <= calls
        BY <2>1, <2>2, <3>2
    <3> QED BY <3>3, <3>4, <3>5, <3>6
  <2>4. CASE r # s
      BY <1>1, <1>2, <2>1, <2>4
  <2> QED BY <2>3, <2>4
<1> QED BY <1>1, <1>2, <1>3, <1>4, <1>5

\* A mail that is no lock is right.
LEMMA OtherMail ==
    ASSUME Types, NEW c \in Client, NEW kind \in {"index", "done", "value"}, NEW val \in Int,
           NEW want \in Int, Answer(c, kind, val, want)
    PROVE  /\ box' \in [Client -> Seq(Mail)]
           /\ \A d \in Client : \A a \in Elems(box'[d]) : a \in Elems(box[d]) \/ MailRight(d, a)'
<1>1. PICK x : x = [kind |-> kind, val |-> AsChar(val), want |-> want]
    OBVIOUS
<1>2. /\ box' \in [Client -> Seq(Mail)] /\ Elems(box'[c]) = Elems(box[c]) \cup {x}
      /\ \A d \in Client \ {c} : box'[d] = box[d]
    BY <1>1, Answered
<1>3. x.kind # "lock"
    BY <1>1
<1>4. \A d : MailRight(d, x)'
    BY <1>3 DEF MailRight
<1> QED BY <1>2, <1>4

\* An operation on an MV at an index that may be out of the table.
LEMMA MVTable ==
    ASSUME Types, NEW s \in Server, NEW index \in Int, NEW position \in Int, NEW value \in Int
    PROVE  /\ IsMV(s, index) => index + 1 \in 1 .. Len(serverMVTable[s]) /\ MVAt(s, index) \in MV
           /\ \A T \in {SetMV(s, index, position, value), DestroyMV(s, index)} :
                 /\ T \in [Server -> Seq(MV)] /\ Len(T[s]) = Len(serverMVTable[s])
                 /\ \A r \in Server \ {s} : T[r] = serverMVTable[r]
           /\ GetMV(s, index, position) \in Int
<1>1. PICK q \in Seq(MV) : q = serverMVTable[s]
    BY DEF Types
<1>2. Len(q) \in Nat
    OBVIOUS
<1>3. IsMV(s, index) => index + 1 \in 1 .. Len(q) /\ MVAt(s, index) = q[index + 1]
                        /\ q[index + 1] \in MV
    BY <1>1, <1>2 DEF IsMV, MVAt
<1>4. ASSUME NEW i \in 1 .. Len(q), NEW x \in MV
      PROVE  [q EXCEPT ![i] = x] \in Seq(MV) /\ Len([q EXCEPT ![i] = x]) = Len(q)
    OBVIOUS
<1>5. ASSUME NEW z \in Seq(MV), Len(z) = Len(q)
      PROVE  LET T == [serverMVTable EXCEPT ![s] = z] IN
             /\ T \in [Server -> Seq(MV)] /\ Len(T[s]) = Len(serverMVTable[s])
             /\ \A r \in Server \ {s} : T[r] = serverMVTable[r]
    BY <1>1, <1>5 DEF Types
<1>6. /\ serverMVTable \in [Server -> Seq(MV)]
    BY DEF Types
<1>7. LET T == SetMV(s, index, position, value) IN
      /\ T \in [Server -> Seq(MV)] /\ Len(T[s]) = Len(serverMVTable[s])
      /\ \A r \in Server \ {s} : T[r] = serverMVTable[r]
  <2>1. CASE InMV(s, index, position)
    <3>1. PICK i \in 1 .. Len(q) : i = index + 1 /\ q[i] \in MV
        BY <1>3, <2>1 DEF InMV
    <3>2. PICK x : x = [q[i] EXCEPT !.values[position] = value]
        OBVIOUS
    <3>3. position \in Element
        BY <2>1 DEF InMV, Element
    <3>4. x \in MV
        BY <3>1, <3>2, <3>3 DEF MV
    <3>5. PICK z : z = [q EXCEPT ![i] = x]
        OBVIOUS
    <3>6. z \in Seq(MV) /\ Len(z) = Len(q)
        BY <1>4, <3>4, <3>5
    <3>7. SetMV(s, index, position, value) = [serverMVTable EXCEPT ![s] = z]
        BY <1>1, <2>1, <3>1, <3>2, <3>5 DEF SetMV
    <3> QED BY <1>5, <3>6, <3>7
  <2>2. CASE ~InMV(s, index, position)
      BY <1>6, <2>2 DEF SetMV
  <2> QED BY <2>1, <2>2
<1>8. LET T == DestroyMV(s, index) IN
      /\ T \in [Server -> Seq(MV)] /\ Len(T[s]) = Len(serverMVTable[s])
      /\ \A r \in Server \ {s} : T[r] = serverMVTable[r]
  <2>1. CASE IsMV(s, index)
    <3>1. PICK i \in 1 .. Len(q) : i = index + 1 /\ q[i] \in MV
        BY <1>3, <2>1
    <3>2. PICK x : x = [q[i] EXCEPT !.freed = TRUE]
        OBVIOUS
    <3>4. x \in MV
        BY <3>1, <3>2 DEF MV
    <3>5. PICK z : z = [q EXCEPT ![i] = x]
        OBVIOUS
    <3>6. z \in Seq(MV) /\ Len(z) = Len(q)
        BY <1>4, <3>4, <3>5
    <3>7. DestroyMV(s, index) = [serverMVTable EXCEPT ![s] = z]
        BY <1>1, <2>1, <3>1, <3>2, <3>5 DEF DestroyMV
    <3> QED BY <1>5, <3>6, <3>7
  <2>2. CASE ~IsMV(s, index)
      BY <1>6, <2>2 DEF DestroyMV
  <2> QED BY <2>1, <2>2
<1>9. GetMV(s, index, position) \in Int
  <2>1. CASE InMV(s, index, position)
      BY <1>3, <2>1 DEF InMV, GetMV, MV, Element
  <2>2. CASE ~InMV(s, index, position)
      BY <2>2 DEF GetMV
  <2> QED BY <2>1, <2>2
<1> QED BY <1>1, <1>3, <1>7, <1>8, <1>9

\* The first MV that CreateMV stops at.
LEMMA MVFound ==
    ASSUME Types, NEW s \in Server, NEW name
    PROVE  LET q == serverMVTable[s] IN
           \/ FindMV(s, name) = 0 /\ \A i \in 1 .. Len(q) : ~q[i].freed /\ q[i].name # name
           \/ /\ FindMV(s, name) \in 1 .. Len(q)
              /\ q[FindMV(s, name)].freed \/ q[FindMV(s, name)].name = name
<1>1. PICK q : q = serverMVTable[s]
    OBVIOUS
<1>2. PICK I : I = {i \in 1 .. Len(q) : q[i].freed \/ q[i].name = name}
    OBVIOUS
<1>3. FindMV(s, name) = IF I # {} THEN S!Min(I) ELSE 0
    BY <1>1, <1>2 DEF FindMV, S!SelectInSeq
<1>4. I \in SUBSET Nat
    BY <1>2
<1>5. CASE I = {}
    BY <1>1, <1>2, <1>3, <1>5
<1>6. CASE I # {}
  <2>1. PICK i : i = S!Min(I)
      OBVIOUS
  <2>2. i \in I
      BY <1>4, <1>6, <2>1, MinIn
  <2>3. FindMV(s, name) = i
      BY <1>3, <1>6, <2>1
  <2> QED BY <1>1, <1>2, <2>2, <2>3
<1> QED BY <1>5, <1>6

\* A new MV is put at the end of the table.
LEMMA MVMade ==
    ASSUME Types, NEW s \in Server, NEW name \in MVName,
           serverMVTable' = [serverMVTable EXCEPT ![s] = Append(serverMVTable[s], ServerMV(name))]
    PROVE  /\ serverMVTable' \in [Server -> Seq(MV)]
           /\ serverMVTable'[s] = Append(serverMVTable[s], ServerMV(name))
           /\ Len(serverMVTable'[s]) = Len(serverMVTable[s]) + 1
           /\ \A r \in Server \ {s} : serverMVTable'[r] = serverMVTable[r]
           /\ ServerMV(name) \in MV
<1>1. PICK x : x = ServerMV(name)
    OBVIOUS
<1>2. x \in MV
    BY <1>1 DEF ServerMV, MV, Element
<1>3. PICK q \in Seq(MV) : q = serverMVTable[s]
    BY DEF Types
<1>4. PICK z : z = Append(q, x)
    OBVIOUS
<1>5. z \in Seq(MV) /\ Len(z) = Len(q) + 1
    BY <1>2, <1>4, Appended
<1>6. serverMVTable' = [serverMVTable EXCEPT ![s] = z]
    BY <1>1, <1>3, <1>4
<1> QED BY <1>1, <1>2, <1>3, <1>4, <1>5, <1>6 DEF Types

\* What a search for a lock returns is a number.
LEMMA LockIdType ==
    ASSUME Types, NEW s \in Server, NEW name
    PROVE  getLockFromTable(s, name) \in Int
<1>1. PICK q \in Seq(Lock) : q = serverLockTable[s]
    BY DEF Types
<1>2. CASE getLockFromTable(s, name) # -1
  <2>1. PICK i \in 1 .. Len(serverLockTable[s]) :
            /\ serverLockTable[s][i].name = name
            /\ getLockFromTable(s, name) = serverLockTable[s][i].id
      BY <1>1, <1>2, LockFound
  <2>2. q[i] \in Lock
      BY <1>1
  <2>3. q[i].id \in Int
      BY <2>2 DEF Lock
  <2> QED BY <1>1, <2>1, <2>3
<1>3. CASE getLockFromTable(s, name) = -1
    BY <1>3
<1> QED BY <1>2, <1>3

\* The operations on monitor variables.
LEMMA MVLocks ==
    ASSUME LockInv, NEW s \in Server,
           \/ ServeCreateMV(s) \/ ServeSetMV(s) \/ ServeGetMV(s) \/ ServeDestroyMV(s)
           \/ ServeFreedMV(s)
    PROVE  LockInv'
<1> USE DEF LockInv
<1>1. /\ inbox[s] # <<>> /\ inbox' = [inbox EXCEPT ![s] = Tail(inbox[s])]
      /\ UNCHANGED <<numServers, call, handle, asked, calls, serverLockTable,
                     pendingRequestTable>>
    BY DEF ServeCreateMV, ServeSetMV, ServeGetMV, ServeDestroyMV, ServeFreedMV, Take, Done,
           Undefined, clientVars, tables
<1>2. PICK m \in Message : m = Head(inbox[s])
    BY <1>1, Served
<1>3. /\ serverMVTable \in [Server -> Seq(MV)] /\ box \in [Client -> Seq(Mail)]
      /\ last \in [MVName -> [Element -> Int]] /\ undefined \in BOOLEAN
    BY DEF Types
<1>t. Types
    OBVIOUS
<1>m. ASSUME NEW index \in Int, NEW position \in Int, NEW value \in Int
      PROVE  \A T \in {SetMV(s, index, position, value), DestroyMV(s, index)} :
                /\ T \in [Server -> Seq(MV)] /\ Len(T[s]) = Len(serverMVTable[s])
                /\ \A r \in Server \ {s} : T[r] = serverMVTable[r]
    BY <1>t, MVTable
<1>4. CASE ServeFreedMV(s)
  <2>1. UNCHANGED <<serverMVTable, box, last>> /\ undefined' = TRUE
      BY <1>4 DEF ServeFreedMV, Undefined, tables
  <2> QED BY <1>1, <1>3, <2>1, MVServed
<1>5. CASE ServeGetMV(s)
  <2>1. m.op = "getMV" /\ UNCHANGED <<serverMVTable, last, undefined>>
      BY <1>2, <1>5 DEF ServeGetMV, Take, tables
  <2>2. m.client \in Client /\ m.name \in MVName /\ m.index \in Int /\ m.position \in Int
      BY <2>1, Fields
  <2>3. PICK want : /\ Answer(m.client, "value", GetMV(s, m.index, m.position), want)
                    /\ want = IF m.givenPosition \in DOMAIN last[m.name]
                              THEN last[m.name][m.givenPosition] ELSE -1
      BY <1>2, <1>5 DEF ServeGetMV
  <2>4. want \in Int
      BY <1>3, <2>2, <2>3
  <2>5. GetMV(s, m.index, m.position) \in Int
      BY <2>2, MVTable
  <2>6. /\ box' \in [Client -> Seq(Mail)]
        /\ \A d \in Client : \A a \in Elems(box'[d]) : a \in Elems(box[d]) \/ MailRight(d, a)'
      BY <2>2, <2>3, <2>4, <2>5, OtherMail
  <2> QED BY <1>1, <1>3, <2>1, <2>6, MVServed
<1>6. CASE ServeSetMV(s)
  <2>1. /\ m.op = "setMV" /\ undefined' = undefined
        /\ serverMVTable' = SetMV(s, m.index, m.position, m.value)
        /\ Answer(m.client, "done", 127, 0)
        /\ last' = [last EXCEPT ![m.name] = Stored(last[m.name], m.givenPosition, m.givenValue)]
      BY <1>2, <1>6 DEF ServeSetMV, Take
  <2>2. /\ m.client \in Client /\ m.name \in MVName /\ m.index \in Int /\ m.position \in Int
        /\ m.value \in Int /\ m.givenPosition \in Int /\ m.givenValue \in Int
      BY <2>1, Fields
  <2>3. Stored(last[m.name], m.givenPosition, m.givenValue) \in [Element -> Int]
      BY <1>3, <2>2 DEF Stored
  <2>4. last' \in [MVName -> [Element -> Int]]
      BY <1>3, <2>1, <2>2, <2>3
  <2>5. /\ box' \in [Client -> Seq(Mail)]
        /\ \A d \in Client : \A a \in Elems(box'[d]) : a \in Elems(box[d]) \/ MailRight(d, a)'
      BY <2>1, <2>2, OtherMail
  <2>6. /\ serverMVTable' \in [Server -> Seq(MV)] /\ Len(serverMVTable'[s]) = Len(serverMVTable[s])
        /\ \A r \in Server \ {s} : serverMVTable'[r] = serverMVTable[r]
    <3>1. PICK T : T = SetMV(s, m.index, m.position, m.value)
        OBVIOUS
    <3>2. PICK i \in Int, p \in Int, v \in Int : i = m.index /\ p = m.position /\ v = m.value
        BY <2>2
    <3>3. T \in {SetMV(s, i, p, v), DestroyMV(s, i)}
        BY <3>1, <3>2
    <3>4. \A Z \in {SetMV(s, i, p, v), DestroyMV(s, i)} :
             /\ Z \in [Server -> Seq(MV)] /\ Len(Z[s]) = Len(serverMVTable[s])
             /\ \A r \in Server \ {s} : Z[r] = serverMVTable[r]
        BY <1>m
    <3>5. /\ T \in [Server -> Seq(MV)] /\ Len(T[s]) = Len(serverMVTable[s])
          /\ \A r \in Server \ {s} : T[r] = serverMVTable[r]
        BY <3>3, <3>4, Zenon
    <3> QED BY <2>1, <3>1, <3>5, Zenon
  <2>7. undefined' \in BOOLEAN
      BY <1>3, <2>1
  <2> QED BY <1>1, <2>4, <2>5, <2>6, <2>7, MVServed
<1>7. CASE ServeDestroyMV(s)
  <2>1. /\ m.op = "destroyMV" /\ UNCHANGED <<last, undefined>>
        /\ serverMVTable' = DestroyMV(s, m.index)
      BY <1>2, <1>7 DEF ServeDestroyMV, Take
  <2>a. Answer(m.client, "done", 127, 0)
      BY <1>2, <1>7 DEF ServeDestroyMV
  <2>2. /\ m.client \in Client /\ m.name \in MVName /\ m.index \in Int /\ m.position \in Int
        /\ m.value \in Int
      BY <2>1, Fields
  <2>3. /\ box' \in [Client -> Seq(Mail)]
        /\ \A d \in Client : \A a \in Elems(box'[d]) : a \in Elems(box[d]) \/ MailRight(d, a)'
      BY <2>2, <2>a, OtherMail
  <2>4. /\ serverMVTable' \in [Server -> Seq(MV)] /\ Len(serverMVTable'[s]) = Len(serverMVTable[s])
        /\ \A r \in Server \ {s} : serverMVTable'[r] = serverMVTable[r]
      BY <1>m, <2>1, <2>2, Zenon
  <2> QED BY <1>1, <1>3, <2>1, <2>3, <2>4, MVServed
<1>8. CASE ServeCreateMV(s)
  <2>1. m.op = "createMV" /\ CreateMV(s, m) /\ last' = last
      BY <1>2, <1>8 DEF ServeCreateMV, Take
  <2>2. m.client \in Client /\ m.name \in MVName
      BY <2>1, Fields
  <2>3. PICK i : i = FindMV(s, m.name)
      OBVIOUS
  <2>4. i \in Nat
      BY <2>3, MVFound
  <2>5. CASE /\ i # 0 /\ ~Freed(s, i - 1)
             /\ Answer(m.client, "index", i - 1, 0)
             /\ UNCHANGED <<serverMVTable, undefined>>
    <3>1. i - 1 \in Int
        BY <2>4
    <3>2. /\ box' \in [Client -> Seq(Mail)]
          /\ \A d \in Client : \A a \in Elems(box'[d]) : a \in Elems(box[d]) \/ MailRight(d, a)'
        BY <2>2, <2>5, <3>1, OtherMail
    <3> QED BY <1>1, <1>3, <2>1, <2>5, <3>2, MVServed
  <2>6. CASE undefined' = TRUE /\ UNCHANGED <<serverMVTable, box>>
      BY <1>1, <1>3, <2>1, <2>6, MVServed
  <2>7. CASE /\ serverMVTable' = [serverMVTable EXCEPT ![s] =
                                     Append(serverMVTable[s], ServerMV(m.name))]
             /\ Answer(m.client, "index", Len(serverMVTable[s]) + s * IdRange, 0)
             /\ undefined' = undefined
    <3>1. /\ serverMVTable' \in [Server -> Seq(MV)]
          /\ Len(serverMVTable'[s]) = Len(serverMVTable[s]) + 1
          /\ \A r \in Server \ {s} : serverMVTable'[r] = serverMVTable[r]
        BY <2>2, <2>7, MVMade
    <3>2. Len(serverMVTable[s]) + s * IdRange \in Int
        BY ServerGroupAssumption DEF Types, Server
    <3>3. /\ box' \in [Client -> Seq(Mail)]
          /\ \A d \in Client : \A a \in Elems(box'[d]) : a \in Elems(box[d]) \/ MailRight(d, a)'
        BY <2>2, <2>7, <3>2, OtherMail
    <3>4. last' \in [MVName -> [Element -> Int]] /\ undefined' \in BOOLEAN
        BY <1>3, <2>1, <2>7
    <3> QED BY <1>1, <1>2, <2>1, <3>1, <3>3, <3>4, MVServed
  <2> QED BY <2>1, <2>3, <2>5, <2>6, <2>7 DEF CreateMV
<1> QED BY <1>4, <1>5, <1>6, <1>7, <1>8

\* A server finds a lock that it has made, under a name that a client asked for.
LEMMA FoundRight ==
    ASSUME LockInv, NEW s \in Server, NEW name, NEW c \in Client, name \in asked[c],
           getLockFromTable(s, name) # -1, asked' = asked, numServers' = numServers,
           serverLockTable' = serverLockTable,
           Answer(c, "lock", getLockFromTable(s, name), 0)
    PROVE  /\ box' \in [Client -> Seq(Mail)]
           /\ \A d \in Client : \A a \in Elems(box'[d]) : a \in Elems(box[d]) \/ MailRight(d, a)'
<1> USE DEF LockInv
<1>1. PICK q \in Seq(Lock) : q = serverLockTable[s]
    BY DEF Types
<1>2. PICK i \in 1 .. Len(serverLockTable[s]) :
          /\ serverLockTable[s][i].name = name
          /\ getLockFromTable(s, name) = serverLockTable[s][i].id
    BY <1>1, LockFound
<1>3. PICK val : val = serverLockTable[s][i].id
    OBVIOUS
<1>5. q[i] \in Lock
    BY <1>1
<1>6. val \in Int
    BY <1>1, <1>3, <1>5 DEF Lock
<1>7. Answer(c, "lock", val, 0)
    BY <1>2, <1>3
<1>8. PICK x : x = [kind |-> "lock", val |-> AsChar(val), want |-> 0]
    OBVIOUS
<1>9. /\ box' \in [Client -> Seq(Mail)] /\ Elems(box'[c]) = Elems(box[c]) \cup {x}
      /\ \A d \in Client \ {c} : box'[d] = box[d]
    BY <1>6, <1>7, <1>8, Answered
<1>10. MailRight(c, x)'
  <2>1. x.val = AsChar(serverLockTable'[s][i].id) /\ serverLockTable'[s][i].name \in asked'[c]
        /\ i \in 1 .. Len(serverLockTable'[s]) /\ s \in Server'
      BY <1>2, <1>3, <1>8, ServersStay
  <2> QED BY <2>1 DEF MailRight
<1> QED BY <1>9, <1>10

\* A server makes a lock.
LEMMA LockMade ==
    ASSUME LockInv, NEW s \in Server, NEW name \in LockName, NEW c \in Client, name \in asked[c],
           CreateLock(s, name),
           asked' = asked, numServers' = numServers,
           LET table == serverLockTable'[s] IN Answer(c, "lock", table[Len(table)].id, 0)
    PROVE  /\ serverLockTable' \in [Server -> Seq(Lock)] /\ IdsRight'
           /\ Len(serverLockTable'[s]) = Len(serverLockTable[s]) + 1
           /\ \A r \in Server \ {s} : serverLockTable'[r] = serverLockTable[r]
           /\ \A r \in Server : \A i \in 1 .. Len(serverLockTable[r]) :
                 /\ i \in 1 .. Len(serverLockTable'[r])
                 /\ serverLockTable'[r][i] = serverLockTable[r][i]
           /\ box' \in [Client -> Seq(Mail)]
           /\ \A d \in Client : \A a \in Elems(box'[d]) : a \in Elems(box[d]) \/ MailRight(d, a)'
<1> USE DEF LockInv
<1>1. PICK q \in Seq(Lock) : q = serverLockTable[s]
    BY DEF Types
<1>2. Len(q) \in Nat /\ IdRange \in Nat /\ s \in Nat
    BY <1>1, ServerGroupAssumption DEF Types, Server
<1>3. PICK n \in Nat : n = Len(q) + 1
    BY <1>2
<1>4. PICK val : val = Len(q) + s * IdRange
    OBVIOUS
<1>5. val = (n - 1) + s * IdRange
    BY <1>2, <1>3, <1>4
<1>6. val \in Nat
  <2>1. s * IdRange \in Nat
      BY <1>2
  <2> QED BY <1>2, <1>4, <2>1
<1>7. PICK l : l = [name |-> name, id |-> val]
    OBVIOUS
<1>8. l \in Lock
    BY <1>6, <1>7 DEF Lock
<1>9. PICK z : z = Append(q, l)
    OBVIOUS
<1>10. /\ z \in Seq(Lock) /\ Len(z) = Len(q) + 1 /\ z[Len(q) + 1] = l
       /\ \A i \in 1 .. Len(q) : z[i] = q[i] /\ i \in 1 .. Len(q) + 1
       /\ \A i \in 1 .. Len(q) + 1 : i \in 1 .. Len(q) \/ i = Len(q) + 1
    BY <1>8, <1>9, Appended
<1>11. serverLockTable' = [serverLockTable EXCEPT ![s] = z]
    BY <1>1, <1>4, <1>7, <1>9 DEF CreateLock
<1>12. /\ serverLockTable' \in [Server -> Seq(Lock)] /\ serverLockTable'[s] = z
       /\ \A r \in Server \ {s} : serverLockTable'[r] = serverLockTable[r]
    BY <1>10, <1>11 DEF Types
<1>13. \A r \in Server : \A i \in 1 .. Len(serverLockTable[r]) :
          /\ i \in 1 .. Len(serverLockTable'[r])
          /\ serverLockTable'[r][i] = serverLockTable[r][i]
    BY <1>1, <1>10, <1>12
<1>14. IdsRight'
  <2> SUFFICES ASSUME NEW r \in Server, NEW i \in 1 .. Len(serverLockTable'[r])
               PROVE  serverLockTable'[r][i].id = (i - 1) + r * IdRange
      BY ServersStay DEF IdsRight
  <2>1. CASE r # s
      BY <1>12, <2>1 DEF IdsRight
  <2>2. CASE r = s /\ i \in 1 .. Len(q)
      BY <1>1, <1>10, <1>12, <2>2 DEF IdsRight
  <2>3. CASE r = s /\ i = n
      BY <1>3, <1>5, <1>7, <1>10, <1>12, <2>3
  <2> QED BY <1>3, <1>10, <1>12, <2>1, <2>2, <2>3
<1>15. PICK x : x = [kind |-> "lock", val |-> AsChar(val), want |-> 0]
    OBVIOUS
<1>16. Answer(c, "lock", val, 0)
  <2>1. PICK t : t = serverLockTable'[s]
      OBVIOUS
  <2>2. t[Len(t)].id = val
      BY <1>7, <1>10, <1>12, <2>1
  <2> QED BY <2>1, <2>2
<1>17. /\ box' \in [Client -> Seq(Mail)] /\ Elems(box'[c]) = Elems(box[c]) \cup {x}
       /\ \A d \in Client \ {c} : box'[d] = box[d]
    BY <1>6, <1>15, <1>16, Answered
<1>18. MailRight(c, x)'
  <2>1. s \in Server' /\ n \in 1 .. Len(serverLockTable'[s])
      BY <1>2, <1>3, <1>10, <1>12, ServersStay
  <2>2. x.val = AsChar(serverLockTable'[s][n].id) /\ serverLockTable'[s][n].name \in asked'[c]
      BY <1>3, <1>7, <1>10, <1>12, <1>15
  <2> QED BY <2>1, <2>2 DEF MailRight
<1>19. Len(serverLockTable'[s]) = Len(serverLockTable[s]) + 1
    BY <1>1, <1>10, <1>12
<1>20. \A d \in Client : \A a \in Elems(box'[d]) : a \in Elems(box[d]) \/ MailRight(d, a)'
    BY <1>17, <1>18
<1> QED BY <1>12, <1>13, <1>14, <1>17, <1>19, <1>20

\* A step of a server that leaves its MVs alone and spends no more than it has.
LEMMA LocksServed ==
    ASSUME LockInv,
           UNCHANGED <<numServers, call, handle, asked, calls, serverMVTable, last>>,
           undefined' \in BOOLEAN, inbox' \in [Server -> Seq(Message)],
           \A r \in Server : \A x \in Elems(inbox'[r]) : MessageRight(r, x),
           \A r \in Server : Count(inbox'[r], "createMV") = Count(inbox[r], "createMV"),
           serverLockTable' \in [Server -> Seq(Lock)], IdsRight',
           \A r \in Server : \A i \in 1 .. Len(serverLockTable[r]) :
               /\ i \in 1 .. Len(serverLockTable'[r])
               /\ serverLockTable'[r][i] = serverLockTable[r][i],
           pendingRequestTable' \in [Server -> Seq(Pending)], PendingRight',
           \A r \in Server :
               Len(serverLockTable'[r]) + Cardinality(Counting(r)') + Count(inbox'[r], "createLock")
                 <= Len(serverLockTable[r]) + Cardinality(Counting(r)) + Count(inbox[r], "createLock"),
           box' \in [Client -> Seq(Mail)],
           \A d \in Client : \A a \in Elems(box'[d]) : a \in Elems(box[d]) \/ MailRight(d, a)'
    PROVE  LockInv'
<1> USE DEF LockInv
<1>1. Server' = Server /\ Message' = Message
    BY ServersStay
<1>2. Types'
    BY <1>1 DEF Types
<1>3. InboxRight'
  <2> SUFFICES ASSUME NEW r \in Server, NEW x \in Elems(inbox'[r])
               PROVE  MessageRight(r, x)'
      BY <1>1 DEF InboxRight, Elems
  <2>1. MessageRight(r, x)
      OBVIOUS
  <2> QED BY <2>1 DEF MessageRight
<1>4. BoxRight'
    BY MoreLocks
<1>5. MVBudget'
    BY <1>1 DEF MVBudget, Count, WithOp
<1>6. LockBudget'
  <2> SUFFICES ASSUME NEW r \in Server
               PROVE  Len(serverLockTable'[r]) + Cardinality(Counting(r)')
                            + Count(inbox'[r], "createLock") <= calls
      BY <1>1 DEF LockBudget, Count, WithOp
  <2>1. Len(serverLockTable[r]) + Cardinality(Counting(r)) + Count(inbox[r], "createLock") <= calls
      BY DEF LockBudget
  <2>2. PICK k \in Int, n \in Int :
          /\ k = Len(serverLockTable[r]) + Cardinality(Counting(r)) + Count(inbox[r], "createLock")
          /\ n = Len(serverLockTable'[r]) + Cardinality(Counting(r)') + Count(inbox'[r], "createLock")
    <3>1. Len(serverLockTable[r]) + Cardinality(Counting(r)) + Count(inbox[r], "createLock") \in Int
        BY BudgetTypes
    <3>2. Cardinality(Counting(r)') \in Nat
      <4>1. \A t \in Server : IsFiniteSet(Counting(t)) /\ Cardinality(Counting(t)) \in Nat
          BY CountingFinite
      <4>2. Len(pendingRequestTable'[r]) \in Nat
          OBVIOUS
      <4>3. IsFiniteSet(1 .. Len(pendingRequestTable'[r]))
          BY <4>2, FS_Interval
      <4>4. IsFiniteSet(Counting(r)')
          BY <4>3, FS_Subset DEF Counting
      <4> QED BY <4>4, FS_CardinalityType
    <3>3. Len(serverLockTable'[r]) \in Nat /\ Count(inbox'[r], "createLock") \in Nat
        BY CountType
    <3>4. Len(serverLockTable'[r]) + Cardinality(Counting(r)') + Count(inbox'[r], "createLock") \in Int
        BY <3>2, <3>3
    <3> QED BY <3>1, <3>4
  <2>3. calls \in Int
      BY DEF Types
  <2>4. n <= k /\ k <= calls
      BY <2>1, <2>2
  <2>5. n <= calls
      BY <2>2, <2>3, <2>4
  <2> QED BY <2>2, <2>5
<1> QED BY <1>2, <1>3, <1>4, <1>5, <1>6

\* A server takes a message about a lock; what is left is right.
LEMMA LockTaken ==
    ASSUME LockInv, NEW s \in Server, inbox[s] # <<>>,
           inbox' = [inbox EXCEPT ![s] = Tail(inbox[s])],
           Head(inbox[s]).op # "createMV"
    PROVE  /\ inbox' \in [Server -> Seq(Message)]
           /\ \A r \in Server : \A x \in Elems(inbox'[r]) : MessageRight(r, x)
           /\ \A r \in Server : Count(inbox'[r], "createMV") = Count(inbox[r], "createMV")
           /\ Count(inbox'[s], "createLock") =
                 IF Head(inbox[s]).op = "createLock" THEN Count(inbox[s], "createLock") - 1
                 ELSE Count(inbox[s], "createLock")
           /\ \A r \in Server \ {s} : inbox'[r] = inbox[r]
<1> USE DEF LockInv
<1>1. /\ inbox' \in [Server -> Seq(Message)]
      /\ Elems(inbox'[s]) \subseteq Elems(inbox[s])
      /\ \A op : Count(inbox'[s], op) =
             IF Head(inbox[s]).op = op THEN Count(inbox[s], op) - 1 ELSE Count(inbox[s], op)
      /\ \A r \in Server \ {s} : inbox'[r] = inbox[r]
    BY Served
<1>2. \A r \in Server : \A x \in Elems(inbox'[r]) : x \in Elems(inbox[r])
    BY <1>1
<1>3. \A r \in Server : \A x \in Elems(inbox'[r]) : MessageRight(r, x)
    BY <1>2 DEF InboxRight
<1>4. \A r \in Server : Count(inbox'[r], "createMV") = Count(inbox[r], "createMV")
    BY <1>1
<1> QED BY <1>1, <1>3, <1>4

\* The pending requests and their count stay.
LEMMA PendingStay ==
    ASSUME LockInv, UNCHANGED <<numServers, pendingRequestTable, asked>>
    PROVE  /\ PendingRight' /\ pendingRequestTable' \in [Server -> Seq(Pending)]
           /\ \A r \in Server : Counting(r)' = Counting(r)
<1>1. Server' = Server
    BY ServersStay
<1> QED BY <1>1 DEF LockInv, PendingRight, Counting, Elems, Types

\* The locks stay.
LEMMA TableStay ==
    ASSUME LockInv, UNCHANGED <<numServers, serverLockTable>>
    PROVE  /\ IdsRight' /\ serverLockTable' \in [Server -> Seq(Lock)]
           /\ \A r \in Server : \A i \in 1 .. Len(serverLockTable[r]) :
                 /\ i \in 1 .. Len(serverLockTable'[r])
                 /\ serverLockTable'[r][i] = serverLockTable[r][i]
<1>1. Server' = Server
    BY ServersStay
<1> QED BY <1>1 DEF LockInv, IdsRight, Types

\* A client asks for a lock.
LEMMA CreateLocks ==
    ASSUME LockInv, NEW s \in Server, ServeCreateLock(s)
    PROVE  LockInv'
<1> USE DEF LockInv
<1>1. /\ inbox[s] # <<>> /\ Head(inbox[s]).op = "createLock"
      /\ UNCHANGED <<numServers, call, handle, asked, calls, serverMVTable, last, undefined>>
    BY DEF ServeCreateLock, Take, clientVars, tables
<1>2. PICK q \in Seq(Message) : q = inbox[s] /\ q # <<>>
    BY <1>1 DEF Types
<1>3. PICK m \in Message : m = Head(inbox[s]) /\ m \in Elems(inbox[s])
    BY <1>2, Popped
<1>4. m.client \in Client /\ m.name \in LockName /\ m.name \in asked[m.client]
    BY <1>1, <1>3, Fields DEF InboxRight, MessageRight
<1>5. /\ undefined' \in BOOLEAN /\ box \in [Client -> Seq(Mail)]
    BY <1>1 DEF Types
<1>6. \A r \in Server :
        /\ Len(serverLockTable[r]) \in Nat /\ Count(inbox[r], "createLock") \in Nat
        /\ Cardinality(Counting(r)) \in Nat /\ calls \in Nat /\ MaxCalls \in Nat
        /\ calls <= MaxCalls
    BY BudgetTypes
<1>7. PICK id : id = getLockFromTable(s, m.name)
    OBVIOUS
<1>8. CASE /\ id # -1 /\ Answer(m.client, "lock", id, 0) /\ Done(s)
           /\ UNCHANGED <<serverLockTable, pendingRequestTable>>
  <2>1. /\ inbox' \in [Server -> Seq(Message)]
        /\ \A r \in Server : \A x \in Elems(inbox'[r]) : MessageRight(r, x)
        /\ \A r \in Server : Count(inbox'[r], "createMV") = Count(inbox[r], "createMV")
        /\ Count(inbox'[s], "createLock") = Count(inbox[s], "createLock") - 1
        /\ \A r \in Server \ {s} : inbox'[r] = inbox[r]
      BY <1>1, <1>8, LockTaken DEF Done
  <2>2. /\ PendingRight' /\ pendingRequestTable' \in [Server -> Seq(Pending)]
        /\ \A r \in Server : Counting(r)' = Counting(r)
      BY <1>1, <1>8, PendingStay
  <2>3. /\ IdsRight' /\ serverLockTable' \in [Server -> Seq(Lock)]
        /\ \A r \in Server : \A i \in 1 .. Len(serverLockTable[r]) :
              /\ i \in 1 .. Len(serverLockTable'[r])
              /\ serverLockTable'[r][i] = serverLockTable[r][i]
      BY <1>1, <1>8, TableStay
  <2>4. /\ box' \in [Client -> Seq(Mail)]
        /\ \A d \in Client : \A a \in Elems(box'[d]) : a \in Elems(box[d]) \/ MailRight(d, a)'
      BY <1>1, <1>4, <1>7, <1>8, FoundRight
  <2>5. ASSUME NEW r \in Server
        PROVE Len(serverLockTable'[r]) + Cardinality(Counting(r)') + Count(inbox'[r], "createLock")
                <= Len(serverLockTable[r]) + Cardinality(Counting(r)) + Count(inbox[r], "createLock")
    <3>1. CASE r = s
      <4>1. /\ Count(inbox'[r], "createLock") = Count(inbox[r], "createLock") - 1
            /\ Counting(r)' = Counting(r) /\ serverLockTable' = serverLockTable
          BY <1>8, <2>1, <2>2, <3>1
      <4>2. PICK k \in Nat, n \in Nat, o \in Nat :
               /\ k = Len(serverLockTable[r]) /\ n = Cardinality(Counting(r))
               /\ o = Count(inbox[r], "createLock")
          BY <1>6
      <4>3. k + n + (o - 1) <= k + n + o
          BY <4>2
      <4> QED BY <4>1, <4>2, <4>3
    <3>2. CASE r # s
      <4>1. /\ serverLockTable' = serverLockTable /\ inbox'[r] = inbox[r]
            /\ Counting(r)' = Counting(r)
          BY <1>8, <2>1, <2>2, <3>2
      <4>2. PICK k \in Nat, n \in Nat, o \in Nat :
               /\ k = Len(serverLockTable[r]) /\ n = Cardinality(Counting(r))
               /\ o = Count(inbox[r], "createLock")
          BY <1>6
      <4>3. k + n + o <= k + n + o
          OBVIOUS
      <4> QED BY <4>1, <4>2, <4>3
    <3> QED BY <3>1, <3>2
  <2> QED BY <1>1, <1>5, <2>1, <2>2, <2>3, <2>4, <2>5, LocksServed
<1>9. CASE /\ CreateLock(s, m.name) /\ Done(s) /\ UNCHANGED pendingRequestTable
           /\ LET table == serverLockTable'[s]
              IN  Answer(m.client, "lock", table[Len(table)].id, 0)
  <2>1. /\ inbox' \in [Server -> Seq(Message)]
        /\ \A r \in Server : \A x \in Elems(inbox'[r]) : MessageRight(r, x)
        /\ \A r \in Server : Count(inbox'[r], "createMV") = Count(inbox[r], "createMV")
        /\ Count(inbox'[s], "createLock") = Count(inbox[s], "createLock") - 1
        /\ \A r \in Server \ {s} : inbox'[r] = inbox[r]
      BY <1>1, <1>9, LockTaken DEF Done
  <2>2. /\ PendingRight' /\ pendingRequestTable' \in [Server -> Seq(Pending)]
        /\ \A r \in Server : Counting(r)' = Counting(r)
      BY <1>1, <1>9, PendingStay
  <2>4. /\ serverLockTable' \in [Server -> Seq(Lock)] /\ IdsRight'
        /\ Len(serverLockTable'[s]) = Len(serverLockTable[s]) + 1
        /\ \A r \in Server \ {s} : serverLockTable'[r] = serverLockTable[r]
        /\ \A r \in Server : \A i \in 1 .. Len(serverLockTable[r]) :
              /\ i \in 1 .. Len(serverLockTable'[r])
              /\ serverLockTable'[r][i] = serverLockTable[r][i]
        /\ box' \in [Client -> Seq(Mail)]
        /\ \A d \in Client : \A a \in Elems(box'[d]) : a \in Elems(box[d]) \/ MailRight(d, a)'
      BY <1>1, <1>4, <1>9, LockMade
  <2>5. ASSUME NEW r \in Server
        PROVE Len(serverLockTable'[r]) + Cardinality(Counting(r)') + Count(inbox'[r], "createLock")
                <= Len(serverLockTable[r]) + Cardinality(Counting(r)) + Count(inbox[r], "createLock")
    <3>1. PICK k \in Nat, n \in Nat, o \in Nat :
             /\ k = Len(serverLockTable[r]) /\ n = Cardinality(Counting(r))
             /\ o = Count(inbox[r], "createLock")
        BY <1>6
    <3>2. Counting(r)' = Counting(r)
        BY <2>2
    <3>3. CASE r = s
      <4>1. Len(serverLockTable'[r]) = k + 1 /\ Count(inbox'[r], "createLock") = o - 1
          BY <2>1, <2>4, <3>1, <3>3
      <4>2. (k + 1) + n + (o - 1) <= k + n + o
          OBVIOUS
      <4> QED BY <3>1, <3>2, <4>1, <4>2
    <3>4. CASE r # s
      <4>1. serverLockTable'[r] = serverLockTable[r] /\ inbox'[r] = inbox[r]
          BY <2>1, <2>4, <3>4
      <4>2. k + n + o <= k + n + o
          OBVIOUS
      <4> QED BY <3>1, <3>2, <4>1, <4>2
    <3> QED BY <3>3, <3>4
  <2> QED BY <1>1, <1>5, <2>1, <2>2, <2>4, <2>5, LocksServed
<1>10. PICK question : question = [op |-> "haveLock", from |-> s, client |-> m.client,
                                   name |-> m.name, id |-> Len(pendingRequestTable[s])]
    OBVIOUS
<1>11. CASE /\ pendingRequestTable' = [pendingRequestTable EXCEPT ![s] =
                    Append(pendingRequestTable[s], PendingRequest(m.client, m.name))]
            /\ inbox' = [t \in Server |-> IF t = s THEN Tail(inbox[t])
                                          ELSE Append(inbox[t], question)]
            /\ UNCHANGED <<serverLockTable, box>>
  <2>1. PICK t \in Seq(Pending) : t = pendingRequestTable[s]
      BY DEF Types
  <2>2. Len(t) \in Nat
      OBVIOUS
  <2>3. question \in Message /\ question.op = "haveLock" /\ question.from = s
        /\ question.name = m.name /\ question.client = m.client
    <3>1. question \in Question
        BY <1>4, <1>10, <2>1, <2>2 DEF Question
    <3> QED BY <1>10, <3>1 DEF Message
  <2>4. /\ Tail(q) \in Seq(Message) /\ Elems(Tail(q)) \subseteq Elems(q)
      BY <1>2, Popped
  <2>5. /\ Count(Tail(q), "createLock") = Count(q, "createLock") - 1
        /\ Count(Tail(q), "createMV") = Count(q, "createMV")
      BY <1>1, <1>2, CountTail
  <2>6. ASSUME NEW r \in Server \ {s}
        PROVE  /\ Append(inbox[r], question) \in Seq(Message)
               /\ Elems(Append(inbox[r], question)) = Elems(inbox[r]) \cup {question}
               /\ Count(Append(inbox[r], question), "createLock") = Count(inbox[r], "createLock")
               /\ Count(Append(inbox[r], question), "createMV") = Count(inbox[r], "createMV")
    <3>1. PICK w \in Seq(Message) : w = inbox[r]
        BY DEF Types
    <3>2. /\ Append(w, question) \in Seq(Message)
          /\ Elems(Append(w, question)) = Elems(w) \cup {question}
        BY <2>3, Appended
    <3>3. /\ Count(Append(w, question), "createLock") = Count(w, "createLock")
          /\ Count(Append(w, question), "createMV") = Count(w, "createMV")
        BY <2>3, CountAppend
    <3> QED BY <3>1, <3>2, <3>3
  <2>7. inbox'[s] = Tail(q) /\ \A r \in Server \ {s} : inbox'[r] = Append(inbox[r], question)
      BY <1>2, <1>11
  <2>8. inbox' \in [Server -> Seq(Message)]
    <3>1. \A r \in Server : (IF r = s THEN Tail(inbox[r]) ELSE Append(inbox[r], question))
                                \in Seq(Message)
        BY <1>2, <2>4, <2>6
    <3> QED BY <1>11, <3>1
  <2>9. ASSUME NEW r \in Server, NEW x \in Elems(inbox'[r]) PROVE MessageRight(r, x)
    <3>1. CASE x \in Elems(inbox[r])
        BY <3>1 DEF InboxRight
    <3>2. CASE x = question /\ r # s
        BY <1>4, <2>3, <3>2 DEF MessageRight
    <3>3. CASE r = s
        BY <1>2, <2>4, <2>7, <3>1, <3>3
    <3>4. CASE r # s
      <4>1. Elems(Append(inbox[r], question)) = Elems(inbox[r]) \cup {question}
          BY <2>6, <3>4
      <4>2. inbox'[r] = Append(inbox[r], question)
          BY <2>7, <3>4
      <4>3. x \in Elems(inbox[r]) \/ x = question
          BY <4>1, <4>2
      <4> QED BY <3>1, <3>2, <3>4, <4>3
    <3> QED BY <3>3, <3>4
  <2>10. \A r \in Server : Count(inbox'[r], "createMV") = Count(inbox[r], "createMV")
      BY <1>2, <2>5, <2>6, <2>7
  <2>11. PICK pr : pr = PendingRequest(m.client, m.name)
      OBVIOUS
  <2>12. pr \in Pending /\ pr.name = m.name /\ pr.client = m.client
      BY <1>4, <2>11 DEF PendingRequest, Pending
  <2>13. PICK z : z = Append(t, pr)
      OBVIOUS
  <2>14. /\ z \in Seq(Pending) /\ Len(z) = Len(t) + 1 /\ z[Len(t) + 1] = pr
         /\ \A i \in 1 .. Len(t) : z[i] = t[i] /\ i \in 1 .. Len(t) + 1
         /\ \A i \in 1 .. Len(t) + 1 : i \in 1 .. Len(t) \/ i = Len(t) + 1
         /\ Elems(z) = Elems(t) \cup {pr}
      BY <2>12, <2>13, Appended
  <2>15. pendingRequestTable' = [pendingRequestTable EXCEPT ![s] = z]
      BY <1>11, <2>1, <2>11, <2>13
  <2>16. /\ pendingRequestTable' \in [Server -> Seq(Pending)] /\ pendingRequestTable'[s] = z
         /\ \A r \in Server \ {s} : pendingRequestTable'[r] = pendingRequestTable[r]
      BY <2>14, <2>15 DEF Types
  <2>17. PendingRight'
    <3> SUFFICES ASSUME NEW r \in Server, NEW x \in Elems(pendingRequestTable'[r])
                 PROVE  x.name \in asked[x.client]
        BY <1>1, ServersStay DEF PendingRight, Elems
    <3>1. CASE x \in Elems(pendingRequestTable[r])
        BY <3>1 DEF PendingRight
    <3>2. CASE x = pr
        BY <1>4, <2>12, <3>2
    <3> QED BY <2>1, <2>14, <2>16, <3>1, <3>2
  <2>18. \A r \in Server \ {s} : Counting(r)' = Counting(r)
      BY <1>1, <2>16 DEF Counting
  <2>19. Cardinality(Counting(s)') <= Cardinality(Counting(s)) + 1 /\ Cardinality(Counting(s)') \in Nat
    <3>1. PICK A : A = Counting(s)
        OBVIOUS
    <3>2. IsFiniteSet(A) /\ Cardinality(A) \in Nat
        BY <3>1, CountingFinite
    <3>3. Counting(s)' \subseteq A \cup {Len(t) + 1}
        BY <1>1, <2>1, <2>14, <2>16, <3>1 DEF Counting
    <3>4. /\ IsFiniteSet(A \cup {Len(t) + 1})
          /\ Cardinality(A \cup {Len(t) + 1}) \in Nat
          /\ Cardinality(A \cup {Len(t) + 1}) <= Cardinality(A) + 1
      <4>1. /\ IsFiniteSet(A \cup {Len(t) + 1})
            /\ Cardinality(A \cup {Len(t) + 1}) =
                  IF Len(t) + 1 \in A THEN Cardinality(A) ELSE Cardinality(A) + 1
          BY <3>2, FS_AddElement
      <4> QED BY <3>2, <4>1
    <3>5. IsFiniteSet(Counting(s)') /\ Cardinality(Counting(s)') <= Cardinality(A \cup {Len(t) + 1})
        BY <3>3, <3>4, FS_Subset
    <3>6. Cardinality(Counting(s)') \in Nat
        BY <3>5, FS_CardinalityType
    <3> QED BY <3>1, <3>2, <3>4, <3>5, <3>6
  <2>20. ASSUME NEW r \in Server
         PROVE Len(serverLockTable'[r]) + Cardinality(Counting(r)') + Count(inbox'[r], "createLock")
                 <= Len(serverLockTable[r]) + Cardinality(Counting(r)) + Count(inbox[r], "createLock")
    <3>1. CASE r = s
      <4>1. Count(inbox'[r], "createLock") = Count(inbox[r], "createLock") - 1
          BY <1>2, <2>5, <2>7, <3>1
      <4>2. PICK k \in Nat, n \in Nat, n2 \in Nat, o \in Nat :
               /\ k = Len(serverLockTable[r]) /\ n = Cardinality(Counting(r))
               /\ n2 = Cardinality(Counting(r)') /\ o = Count(inbox[r], "createLock")
          BY <1>6, <2>19, <3>1
      <4>3. n2 <= n + 1
          BY <2>19, <3>1, <4>2
      <4>4. k + n2 + (o - 1) <= k + n + o
          BY <4>3
      <4>5. serverLockTable' = serverLockTable
          BY <1>11
      <4> QED BY <4>1, <4>2, <4>4, <4>5
    <3>2. CASE r # s
        BY <1>6, <1>11, <2>6, <2>7, <2>18, <3>2
    <3> QED BY <3>1, <3>2
  <2>21. /\ IdsRight' /\ serverLockTable' \in [Server -> Seq(Lock)]
         /\ \A r \in Server : \A i \in 1 .. Len(serverLockTable[r]) :
               /\ i \in 1 .. Len(serverLockTable'[r])
               /\ serverLockTable'[r][i] = serverLockTable[r][i]
      BY <1>1, <1>11, TableStay
  <2>22. /\ box' \in [Client -> Seq(Mail)]
         /\ \A d \in Client : \A a \in Elems(box'[d]) : a \in Elems(box[d]) \/ MailRight(d, a)'
      BY <1>5, <1>11
  <2> QED BY <1>1, <1>5, <2>8, <2>9, <2>10, <2>16, <2>17, <2>20, <2>21, <2>22, LocksServed
<1> QED BY <1>3, <1>7, <1>8, <1>9, <1>10, <1>11 DEF ServeCreateLock, tables

\* Another server asks for a lock.
LEMMA HaveLocks ==
    ASSUME LockInv, NEW s \in Server, ServeHaveLock(s)
    PROVE  LockInv'
<1> USE DEF LockInv
<1>1. /\ inbox[s] # <<>> /\ Head(inbox[s]).op = "haveLock"
      /\ UNCHANGED <<numServers, call, handle, asked, calls, serverMVTable, serverLockTable,
                     pendingRequestTable, last, undefined>>
    BY DEF ServeHaveLock, Take, clientVars, tables
<1>2. PICK q \in Seq(Message) : q = inbox[s] /\ q # <<>>
    BY <1>1 DEF Types
<1>3. PICK m \in Message : m = Head(inbox[s]) /\ m \in Elems(inbox[s])
    BY <1>2, Popped
<1>4. /\ m.client \in Client /\ m.name \in LockName /\ m.name \in asked[m.client]
      /\ m.from \in Server /\ m.from # s /\ m.id \in Nat
    BY <1>1, <1>3, Fields DEF InboxRight, MessageRight
<1>5. PICK f \in Server : f = m.from /\ f # s
    BY <1>4
<1>6. PICK w \in Seq(Message) : w = inbox[f]
    BY DEF Types
<1>7. PICK id : id = getLockFromTable(s, m.name)
    OBVIOUS
<1>8. PICK reply : reply = [op |-> "answer", yes |-> id # -1, id |-> m.id]
    OBVIOUS
<1>9. reply \in Message /\ reply.op = "answer"
  <2>1. reply \in Reply
      BY <1>4, <1>8 DEF Reply
  <2> QED BY <1>8, <2>1 DEF Message
<1>10. /\ inbox' = [inbox EXCEPT ![s] = Tail(inbox[s]), ![m.from] = Append(@, reply)]
       /\ IF id # -1 THEN Answer(m.client, "lock", id, 0) ELSE box' = box
    BY <1>3, <1>7, <1>8 DEF ServeHaveLock
<1>11. PICK u, v : u = Tail(q) /\ v = Append(w, reply)
    OBVIOUS
<1>12. u \in Seq(Message) /\ Elems(u) \subseteq Elems(q)
    BY <1>2, <1>11, Popped
<1>13. /\ Count(u, "createLock") = Count(q, "createLock")
       /\ Count(u, "createMV") = Count(q, "createMV")
    BY <1>1, <1>2, <1>11, CountTail
<1>14. v \in Seq(Message) /\ Elems(v) = Elems(w) \cup {reply}
    BY <1>9, <1>11, Appended
<1>15. /\ Count(v, "createLock") = Count(w, "createLock")
       /\ Count(v, "createMV") = Count(w, "createMV")
    BY <1>9, <1>11, CountAppend
<1>16. inbox' = [inbox EXCEPT ![s] = u, ![f] = v]
    BY <1>2, <1>5, <1>6, <1>10, <1>11 DEF Types
<1>17. /\ inbox' \in [Server -> Seq(Message)] /\ inbox'[s] = u /\ inbox'[f] = v
       /\ \A r \in Server \ {s, f} : inbox'[r] = inbox[r]
    BY <1>5, <1>12, <1>14, <1>16 DEF Types
<1>18. ASSUME NEW r \in Server, NEW x \in Elems(inbox'[r]) PROVE MessageRight(r, x)
  <2>1. CASE x \in Elems(inbox[r])
      BY <2>1 DEF InboxRight
  <2>2. CASE x = reply
      BY <1>9, <2>2 DEF MessageRight
  <2>3. CASE r = s
      BY <1>2, <1>12, <1>17, <2>1, <2>3
  <2>4. CASE r = f
      BY <1>6, <1>14, <1>17, <2>1, <2>2, <2>4
  <2>5. CASE r \notin {s, f}
      BY <1>17, <2>1, <2>5
  <2> QED BY <2>3, <2>4, <2>5
<1>19. ASSUME NEW r \in Server
       PROVE  /\ Count(inbox'[r], "createMV") = Count(inbox[r], "createMV")
              /\ Count(inbox'[r], "createLock") = Count(inbox[r], "createLock")
  <2>3. CASE r = s
      BY <1>2, <1>13, <1>17, <2>3
  <2>4. CASE r = f
      BY <1>6, <1>15, <1>17, <2>4
  <2>5. CASE r \notin {s, f}
      BY <1>17, <2>5
  <2> QED BY <2>3, <2>4, <2>5
<1>20. /\ PendingRight' /\ pendingRequestTable' \in [Server -> Seq(Pending)]
       /\ \A r \in Server : Counting(r)' = Counting(r)
    BY <1>1, PendingStay
<1>21. /\ IdsRight' /\ serverLockTable' \in [Server -> Seq(Lock)]
       /\ \A r \in Server : \A i \in 1 .. Len(serverLockTable[r]) :
             /\ i \in 1 .. Len(serverLockTable'[r])
             /\ serverLockTable'[r][i] = serverLockTable[r][i]
    BY <1>1, TableStay
<1>22. /\ box' \in [Client -> Seq(Mail)]
       /\ \A d \in Client : \A a \in Elems(box'[d]) : a \in Elems(box[d]) \/ MailRight(d, a)'
  <2>1. CASE id # -1
      BY <1>1, <1>4, <1>7, <1>10, <2>1, FoundRight
  <2>2. CASE id = -1
      BY <1>10, <2>2 DEF Types
  <2> QED BY <2>1, <2>2
<1>23. ASSUME NEW r \in Server
       PROVE Len(serverLockTable'[r]) + Cardinality(Counting(r)') + Count(inbox'[r], "createLock")
               <= Len(serverLockTable[r]) + Cardinality(Counting(r)) + Count(inbox[r], "createLock")
  <2>1. /\ Len(serverLockTable[r]) \in Nat /\ Count(inbox[r], "createLock") \in Nat
        /\ Cardinality(Counting(r)) \in Nat
      BY BudgetTypes
  <2> QED BY <1>1, <1>19, <1>20, <2>1
<1>24. undefined' \in BOOLEAN
    BY <1>1 DEF Types
<1> QED BY <1>1, <1>17, <1>18, <1>19, <1>20, <1>21, <1>22, <1>23, <1>24, LocksServed

\* A no is counted for one pending request, perhaps the wrong one.
LEMMA NoCounted ==
    ASSUME LockInv, NEW s \in Server, NEW i \in DOMAIN pendingRequestTable[s], CountNo(s, i),
           numServers' = numServers, asked' = asked
    PROVE  /\ pendingRequestTable' \in [Server -> Seq(Pending)] /\ PendingRight'
           /\ \A r \in Server \ {s} : Counting(r)' = Counting(r)
           /\ pendingRequestTable[s][i] \in Elems(pendingRequestTable[s])
           /\ Cardinality(Counting(s)') \in Nat
           /\ Cardinality(Counting(s)') <= Cardinality(Counting(s))
           /\ pendingRequestTable[s][i].noCount + 1 = numServers - 1 =>
                 Cardinality(Counting(s)') = Cardinality(Counting(s)) - 1
<1> USE DEF LockInv
<1>1. PICK t \in Seq(Pending) : t = pendingRequestTable[s]
    BY DEF Types
<1>2. i \in 1 .. Len(t) /\ Len(t) \in Nat
    BY <1>1
<1>3. PICK pr \in Pending : pr = t[i]
    BY <1>2
<1>4. PICK x : x = [pr EXCEPT !.noCount = pr.noCount + 1]
    OBVIOUS
<1>5. /\ x \in Pending /\ x.name = pr.name /\ x.client = pr.client
      /\ x.noCount = pr.noCount + 1 /\ pr.noCount \in Nat
    BY <1>4 DEF Pending
<1>6. PICK z : z = [t EXCEPT ![i] = x]
    OBVIOUS
<1>7. /\ z \in Seq(Pending) /\ Len(z) = Len(t) /\ z[i] = x
      /\ \A j \in 1 .. Len(t) : j # i => z[j] = t[j]
    BY <1>2, <1>5, <1>6
<1>8. pendingRequestTable' = [pendingRequestTable EXCEPT ![s] = z]
    BY <1>1, <1>3, <1>4, <1>6 DEF CountNo
<1>9. /\ pendingRequestTable' \in [Server -> Seq(Pending)] /\ pendingRequestTable'[s] = z
      /\ \A r \in Server \ {s} : pendingRequestTable'[r] = pendingRequestTable[r]
    BY <1>7, <1>8 DEF Types
<1>10. pr \in Elems(t)
    BY <1>2, <1>3 DEF Elems
<1>11. PendingRight'
  <2> SUFFICES ASSUME NEW r \in Server, NEW y \in Elems(pendingRequestTable'[r])
               PROVE  y.name \in asked[y.client]
      BY ServersStay DEF PendingRight, Elems
  <2>1. CASE y \in Elems(pendingRequestTable[r])
      BY <2>1 DEF PendingRight
  <2>2. CASE r = s /\ y = x
      BY <1>1, <1>5, <1>10, <2>2 DEF PendingRight
  <2>3. CASE r = s
    <3>1. PICK j \in 1 .. Len(t) : y = z[j]
        BY <1>7, <1>9, <2>3 DEF Elems
    <3>2. CASE j = i
        BY <1>7, <2>2, <2>3, <3>1, <3>2
    <3>3. CASE j # i
      <4>1. y \in Elems(t)
          BY <1>7, <3>1, <3>3 DEF Elems
      <4> QED BY <1>1, <2>1, <2>3, <4>1
    <3> QED BY <3>2, <3>3
  <2>4. CASE r # s
      BY <1>9, <2>1, <2>4
  <2> QED BY <2>3, <2>4
<1>12. \A r \in Server \ {s} : Counting(r)' = Counting(r)
    BY <1>9 DEF Counting
<1>13. PICK A, B : A = Counting(s) /\ B = Counting(s)'
    OBVIOUS
<1>14. IsFiniteSet(A) /\ Cardinality(A) \in Nat
    BY <1>13, CountingFinite
<1>15. numServers \in Nat
    BY ServerGroupAssumption DEF Types
<1>16. B = {j \in 1 .. Len(t) : z[j].noCount < numServers - 1}
    BY <1>7, <1>9, <1>13 DEF Counting
<1>17. A = {j \in 1 .. Len(t) : t[j].noCount < numServers - 1}
    BY <1>1, <1>13 DEF Counting
<1>18. B \subseteq A
  <2> SUFFICES ASSUME NEW j \in B PROVE j \in A
      OBVIOUS
  <2>1. CASE j = i
      BY <1>2, <1>3, <1>5, <1>7, <1>15, <1>16, <1>17, <2>1
  <2>2. CASE j # i
      BY <1>7, <1>16, <1>17, <2>2
  <2> QED BY <2>1, <2>2
<1>19. IsFiniteSet(B) /\ Cardinality(B) <= Cardinality(A)
    BY <1>14, <1>18, FS_Subset
<1>20. Cardinality(B) \in Nat
    BY <1>19, FS_CardinalityType
<1>21. ASSUME pr.noCount + 1 = numServers - 1 PROVE Cardinality(B) = Cardinality(A) - 1
  <2>1. i \in A
      BY <1>2, <1>3, <1>5, <1>15, <1>17, <1>21
  <2>2. i \notin B
      BY <1>2, <1>5, <1>7, <1>15, <1>16, <1>21
  <2>3. \A j \in A : j # i => j \in B
      BY <1>7, <1>16, <1>17
  <2>4. B = A \ {i}
      BY <1>18, <2>2, <2>3
  <2>5. Cardinality(A \ {i}) = Cardinality(A) - 1
      BY <1>14, <2>1, FS_RemoveElement
  <2> QED BY <2>4, <2>5
<1> QED BY <1>1, <1>3, <1>9, <1>10, <1>11, <1>12, <1>13, <1>19, <1>20, <1>21

\* Another server answers.
LEMMA AnswerLocks ==
    ASSUME LockInv, NEW s \in Server, ServeAnswer(s)
    PROVE  LockInv'
<1> USE DEF LockInv
<1>1. /\ inbox[s] # <<>> /\ Head(inbox[s]).op = "answer"
      /\ inbox' = [inbox EXCEPT ![s] = Tail(inbox[s])]
      /\ UNCHANGED <<numServers, call, handle, asked, calls, serverMVTable, last>>
    BY DEF ServeAnswer, Take, clientVars, tables, Done, Undefined
<1>2. /\ inbox' \in [Server -> Seq(Message)]
      /\ \A r \in Server : \A x \in Elems(inbox'[r]) : MessageRight(r, x)
      /\ \A r \in Server : Count(inbox'[r], "createMV") = Count(inbox[r], "createMV")
      /\ Count(inbox'[s], "createLock") = Count(inbox[s], "createLock")
      /\ \A r \in Server \ {s} : inbox'[r] = inbox[r]
    BY <1>1, LockTaken
<1>3. \A r \in Server : Count(inbox'[r], "createLock") = Count(inbox[r], "createLock")
    BY <1>2
<1>4. \A r \in Server :
        /\ Len(serverLockTable[r]) \in Nat /\ Count(inbox[r], "createLock") \in Nat
        /\ Cardinality(Counting(r)) \in Nat /\ calls \in Nat /\ MaxCalls \in Nat
        /\ calls <= MaxCalls
    BY BudgetTypes
<1>5. undefined' \in BOOLEAN
    BY DEF ServeAnswer, Undefined, Types
<1>6. CASE UNCHANGED <<serverLockTable, pendingRequestTable, box>>
  <2>1. /\ PendingRight' /\ pendingRequestTable' \in [Server -> Seq(Pending)]
        /\ \A r \in Server : Counting(r)' = Counting(r)
      BY <1>1, <1>6, PendingStay
  <2>2. /\ IdsRight' /\ serverLockTable' \in [Server -> Seq(Lock)]
        /\ \A r \in Server : \A i \in 1 .. Len(serverLockTable[r]) :
              /\ i \in 1 .. Len(serverLockTable'[r])
              /\ serverLockTable'[r][i] = serverLockTable[r][i]
      BY <1>1, <1>6, TableStay
  <2>3. /\ box' \in [Client -> Seq(Mail)]
        /\ \A d \in Client : \A a \in Elems(box'[d]) : a \in Elems(box[d]) \/ MailRight(d, a)'
      BY <1>6 DEF Types
  <2>4. ASSUME NEW r \in Server
        PROVE Len(serverLockTable'[r]) + Cardinality(Counting(r)') + Count(inbox'[r], "createLock")
                <= Len(serverLockTable[r]) + Cardinality(Counting(r)) + Count(inbox[r], "createLock")
      BY <1>3, <1>4, <1>6, <2>1
  <2> QED BY <1>1, <1>2, <1>5, <2>1, <2>2, <2>3, <2>4, LocksServed
<1>7. ASSUME NEW i \in DOMAIN pendingRequestTable[s], NEW pr, pr = pendingRequestTable[s][i],
             CountNo(s, i),
             IF pr.noCount + 1 = numServers - 1
             THEN /\ CreateLock(s, pr.name)
                  /\ LET table == serverLockTable'[s]
                     IN  Answer(pr.client, "lock", table[Len(table)].id, 0)
             ELSE UNCHANGED <<serverLockTable, box>>
      PROVE  LockInv'
  <2>1. /\ pendingRequestTable' \in [Server -> Seq(Pending)] /\ PendingRight'
        /\ \A r \in Server \ {s} : Counting(r)' = Counting(r)
        /\ pendingRequestTable[s][i] \in Elems(pendingRequestTable[s])
        /\ Cardinality(Counting(s)') \in Nat
        /\ Cardinality(Counting(s)') <= Cardinality(Counting(s))
        /\ pendingRequestTable[s][i].noCount + 1 = numServers - 1 =>
              Cardinality(Counting(s)') = Cardinality(Counting(s)) - 1
      BY <1>1, <1>7, NoCounted
  <2>2. pr \in Elems(pendingRequestTable[s])
      BY <1>7, <2>1
  <2>3. pr.client \in Client /\ pr.name \in LockName /\ pr.name \in asked[pr.client]
      BY <2>2, PendingFields DEF PendingRight
  <2>4. CASE pr.noCount + 1 = numServers - 1
    <3>1. Cardinality(Counting(s)') = Cardinality(Counting(s)) - 1
        BY <1>7, <2>1, <2>4
    <3>3. /\ CreateLock(s, pr.name)
          /\ LET table == serverLockTable'[s]
             IN  Answer(pr.client, "lock", table[Len(table)].id, 0)
        BY <1>7, <2>4
    <3>4. /\ serverLockTable' \in [Server -> Seq(Lock)] /\ IdsRight'
          /\ Len(serverLockTable'[s]) = Len(serverLockTable[s]) + 1
          /\ \A r \in Server \ {s} : serverLockTable'[r] = serverLockTable[r]
          /\ \A r \in Server : \A j \in 1 .. Len(serverLockTable[r]) :
                /\ j \in 1 .. Len(serverLockTable'[r])
                /\ serverLockTable'[r][j] = serverLockTable[r][j]
          /\ box' \in [Client -> Seq(Mail)]
          /\ \A d \in Client : \A a \in Elems(box'[d]) : a \in Elems(box[d]) \/ MailRight(d, a)'
        BY <1>1, <2>3, <3>3, LockMade
    <3>5. ASSUME NEW r \in Server
          PROVE Len(serverLockTable'[r]) + Cardinality(Counting(r)') + Count(inbox'[r], "createLock")
                  <= Len(serverLockTable[r]) + Cardinality(Counting(r)) + Count(inbox[r], "createLock")
      <4>1. CASE r = s
        <5>1. PICK k \in Nat, n \in Nat, o \in Nat :
                 /\ k = Len(serverLockTable[r]) /\ n = Cardinality(Counting(r))
                 /\ o = Count(inbox[r], "createLock")
            BY <1>4
        <5>2. /\ Len(serverLockTable'[r]) = k + 1 /\ Cardinality(Counting(r)') = n - 1
              /\ Count(inbox'[r], "createLock") = o
            BY <1>3, <3>1, <3>4, <4>1, <5>1
        <5>3. (k + 1) + (n - 1) + o <= k + n + o
            BY <5>1
        <5> QED BY <5>1, <5>2, <5>3
      <4>2. CASE r # s
          BY <1>3, <1>4, <2>1, <3>4, <4>2
      <4> QED BY <4>1, <4>2
    <3> QED BY <1>1, <1>2, <1>5, <2>1, <3>4, <3>5, LocksServed
  <2>5. CASE pr.noCount + 1 # numServers - 1
    <3>1. UNCHANGED <<serverLockTable, box>>
        BY <1>7, <2>5
    <3>2. /\ IdsRight' /\ serverLockTable' \in [Server -> Seq(Lock)]
          /\ \A r \in Server : \A j \in 1 .. Len(serverLockTable[r]) :
                /\ j \in 1 .. Len(serverLockTable'[r])
                /\ serverLockTable'[r][j] = serverLockTable[r][j]
        BY <1>1, <3>1, TableStay
    <3>3. /\ box' \in [Client -> Seq(Mail)]
          /\ \A d \in Client : \A a \in Elems(box'[d]) : a \in Elems(box[d]) \/ MailRight(d, a)'
        BY <3>1 DEF Types
    <3>4. ASSUME NEW r \in Server
          PROVE Len(serverLockTable'[r]) + Cardinality(Counting(r)') + Count(inbox'[r], "createLock")
                  <= Len(serverLockTable[r]) + Cardinality(Counting(r)) + Count(inbox[r], "createLock")
      <4>1. CASE r = s
        <5>1. PICK k \in Nat, n \in Nat, n2 \in Nat, o \in Nat :
                 /\ k = Len(serverLockTable[r]) /\ n = Cardinality(Counting(r))
                 /\ o = Count(inbox[r], "createLock") /\ n2 = Cardinality(Counting(r)')
            BY <1>4, <2>1, <4>1
        <5>2. /\ Len(serverLockTable'[r]) = k /\ n2 <= n
              /\ Count(inbox'[r], "createLock") = o
            BY <1>3, <2>1, <3>1, <4>1, <5>1
        <5>3. k + n2 + o <= k + n + o
            BY <5>1, <5>2
        <5> QED BY <5>1, <5>2, <5>3
      <4>2. CASE r # s
          BY <1>3, <1>4, <2>1, <3>1, <4>2
      <4> QED BY <4>1, <4>2
    <3> QED BY <1>1, <1>2, <1>5, <2>1, <3>2, <3>3, <3>4, LocksServed
  <2> QED BY <2>4, <2>5
<1> QED BY <1>6, <1>7 DEF ServeAnswer, Undefined, tables

\* The invariant holds at the start.
LEMMA LockInvInit ==
    Init => LockInv
<1> SUFFICES ASSUME Init PROVE LockInv
    OBVIOUS
<1> USE DEF Init
<1>1. 0 \in 0 .. MaxCalls /\ Elems(<<>>) = {}
    BY ServerGroupAssumption DEF Elems
<1>2. Types
  <2>1. \A T : <<>> \in Seq(T)
      OBVIOUS
  <2>2. call \in [Client -> Doing]
      BY DEF Doing
  <2>3. handle \in [Client -> [MVName -> Int]]
      BY DEF NoIndex
  <2>4. last \in [MVName -> [Element -> Int]]
      BY DEF Element
  <2>5. /\ inbox \in [Server -> Seq(Message)] /\ serverLockTable \in [Server -> Seq(Lock)]
        /\ serverMVTable \in [Server -> Seq(MV)]
        /\ pendingRequestTable \in [Server -> Seq(Pending)] /\ box \in [Client -> Seq(Mail)]
      BY <2>1
  <2> QED BY <1>1, <2>2, <2>3, <2>4, <2>5 DEF Types
<1>3. IdsRight /\ InboxRight /\ PendingRight /\ BoxRight
    BY <1>1 DEF IdsRight, InboxRight, PendingRight, BoxRight
<1>4. \A op : Count(<<>>, op) = 0
  <2>1. \A op : WithOp(<<>>, op) = {}
      BY DEF WithOp
  <2> QED BY <2>1, FS_EmptySet DEF Count
<1>5. \A s \in Server : Cardinality(Counting(s)) = 0
  <2>1. \A s \in Server : Counting(s) = {}
      BY DEF Counting
  <2> QED BY <2>1, FS_EmptySet
<1>6. LockBudget /\ MVBudget
    BY <1>4, <1>5 DEF LockBudget, MVBudget
<1> QED BY <1>2, <1>3, <1>6 DEF LockInv

\* Every step keeps the invariant.
LEMMA LockInvNext ==
    LockInv /\ [Next]_vars => LockInv'
<1> SUFFICES ASSUME LockInv, [Next]_vars PROVE LockInv'
    OBVIOUS
<1>1. ASSUME NEW c \in Client, Call(c) \/ Receive(c) PROVE LockInv'
    BY <1>1, CallLocks, ReceiveLocks
<1>2. ASSUME NEW s \in Server, Serve(s) PROVE LockInv'
    BY <1>2, CreateLocks, HaveLocks, AnswerLocks, MVLocks DEF Serve
<1>3. CASE UNCHANGED vars
  <2>1. /\ UNCHANGED <<numServers, inbox, serverLockTable, serverMVTable, pendingRequestTable,
                       call, box, handle, asked, calls, last, undefined>>
      BY <1>3 DEF vars, tables
  <2>2. Server' = Server /\ Message' = Message
      BY <2>1, ServersStay
  <2>3. \A r \in Server : Counting(r)' = Counting(r)
      BY <2>1 DEF Counting
  <2>4. Types' /\ IdsRight' /\ PendingRight'
      BY <2>1, <2>2 DEF LockInv, Types, IdsRight, PendingRight, Elems
  <2>5. InboxRight'
      BY <2>1, <2>2 DEF LockInv, InboxRight, MessageRight, Elems
  <2>6. BoxRight'
      BY <2>1, <2>2 DEF LockInv, BoxRight, MailRight, Elems
  <2>7. LockBudget' /\ MVBudget'
      BY <2>1, <2>2, <2>3 DEF LockInv, LockBudget, MVBudget, Count, WithOp
  <2> QED BY <2>4, <2>5, <2>6, <2>7 DEF LockInv
<1> QED BY <1>1, <1>2, <1>3 DEF Next

(***************************************************************************)
(* The invariant of the locks, for any number of servers and of calls: the *)
(* id of a lock says where it is, what is asked of another server was      *)
(* asked for by a client, an answer names a lock that was made, and no     *)
(* server makes more locks or MVs than there were calls, although a no may *)
(* be counted for any pending request (nettest.cc, case 14).               *)
(***************************************************************************)
THEOREM LockInvariance == Spec => []LockInv
<1>1. Init => LockInv
    BY LockInvInit
<1>2. LockInv /\ [Next]_vars => LockInv'
    BY LockInvNext
<1> QED BY <1>1, <1>2, PTL DEF Spec

(***************************************************************************)
(* A lock id that is on its way to a client belongs to one lock of one     *)
(* server, with a name that the client asked for, whatever pending request *)
(* the answers of the other servers are counted for (nettest.cc, case 14), *)
(* in every state in which the ids that have been given fit (IdsFit).      *)
(***************************************************************************)
THEOREM IdsNameOneLock == Spec => []IdNamesOneLock
<1>1. LockInv => IdNamesOneLock
    BY LockInvImplies
<1> QED BY <1>1, LockInvariance, PTL

(***************************************************************************)
(* How long the ids fit: until there have been IdRange calls, and with no  *)
(* more servers than there are ranges of ids in the half of the char that  *)
(* is not negative.  With the code's 50 ids and 256 chars (nettest.cc,     *)
(* CreateLock) that is 50 calls and two servers.                           *)
(***************************************************************************)
THEOREM FewCallsFit ==
    Spec => [](calls <= IdRange /\ 2 * numServers * IdRange <= CharRange => IdsFit)
<1>1. LockInv => (calls <= IdRange /\ 2 * numServers * IdRange <= CharRange => IdsFit)
  <2> SUFFICES ASSUME LockInv, calls <= IdRange, 2 * numServers * IdRange <= CharRange,
                      NEW s \in Server, NEW i \in DOMAIN serverLockTable[s]
               PROVE  /\ i <= IdRange
                      /\ AsChar(serverLockTable[s][i].id) = serverLockTable[s][i].id
      BY DEF IdsFit
  <2>t. Types
      BY DEF LockInv
  <2>1. DOMAIN serverLockTable[s] = 1 .. Len(serverLockTable[s])
      BY <2>t DEF Types
  <2>2. Len(serverLockTable[s]) <= calls
      BY FewLocks
  <2>3. Len(serverLockTable[s]) \in Nat /\ calls \in Nat /\ IdRange \in Nat
      BY <2>t, BudgetTypes, ServerGroupAssumption
  <2>4. i \in 1 .. IdRange
      BY <2>1, <2>2, <2>3
  <2>5. serverLockTable[s][i].id = (i - 1) + s * IdRange
      BY <2>1 DEF LockInv, IdsRight
  <2>6. numServers \in Nat /\ s \in 0 .. numServers - 1
      BY <2>t, ServerGroupAssumption DEF Types, Server
  <2>7. AsChar((i - 1) + s * IdRange) = (i - 1) + s * IdRange
      BY <2>4, <2>6, IdIsChar
  <2> QED BY <2>4, <2>5, <2>7
<1> QED BY <1>1, LockInvariance, PTL

-----------------------------------------------------------------------------
(***************************************************************************)
(* The monitor variables of a single server, until something undefined is  *)
(* done and while the positions and the indexes fit into a char.           *)
(***************************************************************************)
MVOp == {"setMV", "getMV", "destroyMV"}

\* A client waits for one answer: its request is in the inbox or its mail is
\* in the box, and the answer to CreateMV comes while it waits for that.
RequestWaits(m) ==
    /\ m.op \notin {"haveLock", "answer"}
    /\ call[m.client] # Idle
    /\ box[m.client] = <<>>
    /\ m.op = "createMV" => call[m.client] = m.name
    /\ m.op # "createMV" => call[m.client] \notin MVName
OneRequest ==
    \A i, j \in 1 .. Len(inbox[0]) : inbox[0][i].client = inbox[0][j].client => i = j
RequestsWait == \A m \in Elems(inbox[0]) : RequestWaits(m)
OneMail == \A c \in Client : Len(box[c]) <= 1 /\ (call[c] = Idle => box[c] = <<>>)
Waiting == OneRequest /\ RequestsWait /\ OneMail

\* The index x is the position of the MV with the name v.
Named(x, v) ==
    x \in 0 .. Len(serverMVTable[0]) - 1 /\ serverMVTable[0][x + 1].name = v

HandlesRight ==
    \A c \in Client, v \in MVName : handle[c][v] # NoIndex => Named(handle[c][v], v)
IndexesRight ==
    \A c \in Client : \A a \in Elems(box[c]) : call[c] \in MVName => Named(a.val, call[c])
UsesRight ==
    \A m \in Elems(inbox[0]) :
        m.op \in MVOp => /\ Named(m.index, m.name)
                         /\ m.position = m.givenPosition
                         /\ m.value = AsChar(m.givenValue)

\* The table holds every MV once, with the char of what was given last.
OneMV ==
    \A i, j \in 1 .. Len(serverMVTable[0]) :
        serverMVTable[0][i].name = serverMVTable[0][j].name => i = j
HoldsLast ==
    \A i \in 1 .. Len(serverMVTable[0]) :
        \A p \in Element :
            serverMVTable[0][i].values[p] = AsChar(last[serverMVTable[0][i].name][p])
NewIsZero ==
    \A v \in MVName : \/ \E i \in 1 .. Len(serverMVTable[0]) : serverMVTable[0][i].name = v
                      \/ last[v] = [p \in Element |-> 0]
Stores == OneMV /\ HoldsLast /\ NewIsZero

ValuesRight ==
    \A c \in Client : \A a \in Elems(box[c]) : a.kind = "value" => a.val = AsChar(a.want)

Reads == Waiting /\ HandlesRight /\ IndexesRight /\ UsesRight /\ Stores /\ ValuesRight
OneServer == numServers = 1 /\ ~undefined /\ MVsFit
ReadInv == OneServer => Reads

\* The only server is server 0, and its tables have their types.
LEMMA TheServer ==
    ASSUME Types, OneServer
    PROVE  /\ Server = {0} /\ 0 \in Server /\ inbox[0] \in Seq(Message)
           /\ serverMVTable[0] \in Seq(MV) /\ Len(serverMVTable[0]) \in Nat
<1>1. Server = {0}
    BY DEF OneServer, Server
<1> QED BY <1>1 DEF Types

\* What a client sends names the client.
LEMMA Sender ==
    ASSUME NEW m \in Message, m.op \notin {"haveLock", "answer"}
    PROVE  m.client \in Client
BY DEF Message, LockRequest, Question, Reply, NewMV, MVUse

\* A step that leaves the MVs alone.
LEMMA StoresStay ==
    ASSUME UNCHANGED <<serverMVTable, last>>
    PROVE  /\ Stores => Stores'
           /\ \A x, v : Named(x, v) => Named(x, v)'
BY DEF Stores, OneMV, HoldsLast, NewIsZero, AsChar, Named

\* A client that is in no call sends a request.
LEMMA AskReads ==
    ASSUME LockInv, Reads, OneServer, NEW c \in Client, NEW m \in Message, Ask(c, m),
           NEW x \in Doing, call' = [call EXCEPT ![c] = x], x # Idle,
           m.client = c, m.op \notin {"haveLock", "answer"},
           m.op = "createMV" => x = m.name, m.op # "createMV" => x \notin MVName,
           m.op \in MVOp => /\ Named(m.index, m.name)
                            /\ m.position = m.givenPosition
                            /\ m.value = AsChar(m.givenValue)
    PROVE  Reads'
<1> USE DEF Reads, Waiting
<1>t. Types
    BY DEF LockInv
<1>1. /\ Server = {0} /\ 0 \in Server /\ inbox[0] \in Seq(Message)
    BY <1>t, TheServer
<1>2. /\ call[c] = Idle /\ inbox' = [inbox EXCEPT ![0] = Append(inbox[0], m)]
      /\ UNCHANGED <<serverMVTable, box, handle, last>>
    BY <1>1 DEF Ask, tables
<1>3. call \in [Client -> Doing] /\ box \in [Client -> Seq(Mail)]
    BY <1>t DEF Types
<1>4. PICK q \in Seq(Message) : q = inbox[0]
    BY <1>1
<1>5. PICK z : z = Append(q, m)
    OBVIOUS
<1>6. /\ Len(q) \in Nat /\ Len(z) = Len(q) + 1 /\ z[Len(q) + 1] = m
      /\ \A i \in 1 .. Len(q) : z[i] = q[i] /\ i \in 1 .. Len(q) + 1
      /\ \A i \in 1 .. Len(q) + 1 : i \in 1 .. Len(q) \/ i = Len(q) + 1
      /\ Elems(z) = Elems(q) \cup {m}
    BY <1>5, Appended
<1>7. inbox'[0] = z
    BY <1>1, <1>2, <1>4, <1>5, <1>t DEF Types
<1>8. \A y \in Elems(q) : y \in Message
    BY DEF Elems
<1>9. \A y \in Elems(q) : y.client \in Client /\ y.client # c
    BY <1>2, <1>4, <1>8, Sender DEF RequestsWait, RequestWaits
<1>10. call'[c] = x /\ \A d \in Client \ {c} : call'[d] = call[d]
    BY <1>3
<1>11. OneRequest'
  <2>1. \A i \in 1 .. Len(q) : q[i] \in Elems(q)
      BY DEF Elems
  <2>2. \A i \in 1 .. Len(q) : z[i].client # c
      BY <1>6, <1>9, <2>1
  <2>3. \A i, j \in 1 .. Len(q) : z[i].client = z[j].client => i = j
      BY <1>4, <1>6 DEF OneRequest
  <2>4. \A i, j \in 1 .. Len(q) + 1 : z[i].client = z[j].client => i = j
      BY <1>6, <2>2, <2>3
  <2> QED BY <1>6, <1>7, <2>4 DEF OneRequest
<1>12. RequestsWait'
  <2> SUFFICES ASSUME NEW y \in Elems(z) PROVE RequestWaits(y)'
      BY <1>7 DEF RequestsWait, Elems
  <2>1. CASE y \in Elems(q)
    <3>1. RequestWaits(y)
        BY <1>4, <2>1 DEF RequestsWait
    <3>2. call'[y.client] = call[y.client]
        BY <1>9, <1>10, <2>1
    <3> QED BY <1>2, <3>1, <3>2 DEF RequestWaits
  <2>2. CASE y = m
    <3>1. box[c] = <<>>
        BY <1>2 DEF OneMail
    <3> QED BY <1>2, <1>10, <2>2, <3>1 DEF RequestWaits
  <2> QED BY <1>6, <2>1, <2>2
<1>13. OneMail'
    BY <1>2, <1>10 DEF OneMail
<1>14. Stores' /\ \A y, v : Named(y, v) => Named(y, v)'
    BY <1>2, StoresStay
<1>15. HandlesRight'
    BY <1>2 DEF HandlesRight, Named
<1>16. IndexesRight'
  <2> SUFFICES ASSUME NEW d \in Client, NEW a \in Elems(box[d]), call'[d] \in MVName
               PROVE  Named(a.val, call'[d])
      BY <1>2 DEF IndexesRight, Elems, Named
  <2>1. d # c
    <3>1. box[c] = <<>>
        BY <1>2 DEF OneMail
    <3>2. Elems(box[c]) = {}
        BY <3>1 DEF Elems
    <3> QED BY <3>2
  <2>2. Named(a.val, call[d])
      BY <1>10, <2>1 DEF IndexesRight
  <2> QED BY <1>10, <2>1, <2>2
<1>17. UsesRight'
  <2> SUFFICES ASSUME NEW y \in Elems(z), y.op \in MVOp
               PROVE  /\ Named(y.index, y.name)' /\ y.position = y.givenPosition
                      /\ y.value = AsChar(y.givenValue)
      BY <1>7 DEF UsesRight, Elems, AsChar
  <2>1. /\ Named(y.index, y.name) /\ y.position = y.givenPosition
        /\ y.value = AsChar(y.givenValue)
      BY <1>4, <1>6 DEF UsesRight
  <2> QED BY <1>2, <2>1 DEF Named
<1>18. ValuesRight'
    BY <1>2 DEF ValuesRight, Elems, AsChar
<1> QED BY <1>11, <1>12, <1>13, <1>14, <1>15, <1>16, <1>17, <1>18

\* The system calls.
LEMMA CallReads ==
    ASSUME LockInv, Reads, OneServer, NEW c \in Client, Call(c)
    PROVE  Reads'
<1>t. Types /\ ServerCounts # {}
    BY DEF LockInv, Types
<1>1. MVName \cap {Idle, "createLock", "setMV", "getMV", "destroyMV"} = {}
    BY ServerGroupAssumption DEF Idle
<1>2. ASSUME NEW name \in LockName, CreateLock_Syscall(c, name) PROVE Reads'
  <2>1. PICK m : m = [op |-> "createLock", client |-> c, name |-> name]
      OBVIOUS
  <2>2. m \in Message /\ m.op = "createLock" /\ m.client = c
      BY <2>1 DEF Message, LockRequest
  <2>3. Ask(c, m) /\ call' = [call EXCEPT ![c] = "createLock"]
      BY <1>2, <2>1 DEF CreateLock_Syscall
  <2>4. "createLock" \in Doing /\ "createLock" # Idle /\ "createLock" \notin MVName
      BY <1>1 DEF Doing, Idle
  <2> QED BY <2>2, <2>3, <2>4, AskReads DEF MVOp
<1>3. ASSUME NEW name \in MVName, CreateMV_Syscall(c, name) PROVE Reads'
  <2>1. PICK m : m = [op |-> "createMV", client |-> c, name |-> name]
      OBVIOUS
  <2>2. m \in Message /\ m.op = "createMV" /\ m.client = c /\ m.name = name
      BY <2>1 DEF Message, NewMV
  <2>3. Ask(c, m) /\ call' = [call EXCEPT ![c] = name]
      BY <1>3, <2>1 DEF CreateMV_Syscall
  <2>4. name \in Doing /\ name # Idle
      BY <1>1 DEF Doing
  <2> QED BY <2>2, <2>3, <2>4, AskReads DEF MVOp
<1>4. ASSUME NEW op \in MVOp, NEW name \in MVName,
             NEW p \in Position, NEW v \in Int, UseMV(c, op, name, p, v)
      PROVE  Reads'
  <2>1. PICK m : m = [op |-> op, client |-> c, name |-> name, index |-> AsChar(handle[c][name]),
                      position |-> AsChar(p), value |-> AsChar(v),
                      givenPosition |-> p, givenValue |-> v]
      OBVIOUS
  <2>2. PICK h \in Int : h = handle[c][name]
      BY <1>t DEF Types
  <2>3. Named(h, name)
      BY <1>4, <2>2 DEF Reads, HandlesRight, UseMV
  <2>4. AsChar(h) = h
    <3>1. /\ Len(serverMVTable[0]) \in Nat /\ CharRange \in Nat
          /\ 2 * Len(serverMVTable[0]) <= CharRange
        BY <1>t, TheServer, ServerGroupAssumption DEF OneServer, MVsFit
    <3>2. h >= 0 /\ h < Len(serverMVTable[0])
        BY <2>3, <3>1 DEF Named
    <3>4. 2 * h < CharRange
        BY <3>1, <3>2
    <3> QED BY <1>t, <3>2, <3>4, AsCharType
  <2>5. p \in Int /\ AsChar(p) = p /\ AsChar(v) \in Int
    <3>1. p \in Int /\ p >= -1 /\ p <= NumElements /\ NumElements \in Nat /\ CharRange \in Nat
        BY ServerGroupAssumption DEF Position
    <3>2. p = -1 \/ (p >= 0 /\ 2 * p < CharRange)
        BY <3>1 DEF OneServer, MVsFit
    <3> QED BY <3>1, <3>2, AsCharType
  <2>6. m \in MVUse
      BY <2>1, <2>2, <2>4, <2>5 DEF MVUse, MVOp
  <2>7. /\ m \in Message /\ m.op = op /\ m.client = c /\ m.index = h /\ m.name = name
        /\ m.position = m.givenPosition /\ m.value = AsChar(m.givenValue)
      BY <2>1, <2>2, <2>4, <2>5, <2>6 DEF Message
  <2>8. Ask(c, m) /\ call' = [call EXCEPT ![c] = op]
      BY <1>4, <2>1 DEF UseMV
  <2>9. op \in Doing /\ op # Idle /\ op \notin MVName /\ op \notin {"createMV", "haveLock", "answer"}
      BY <1>1 DEF Doing, MVOp, Idle
  <2> QED BY <2>3, <2>5, <2>7, <2>8, <2>9, AskReads
<1>5. Value \subseteq Int /\ 0 \in Int /\ 0 \in Position
    BY ServerGroupAssumption DEF Position
<1> QED BY <1>2, <1>3, <1>4, <1>5
       DEF Call, SetMV_Syscall, GetMV_Syscall, DestroyMV_Syscall, MVOp

\* A call returns with the only mail that is in the box.
LEMMA ReceiveReads ==
    ASSUME LockInv, Reads, OneServer, NEW c \in Client, Receive(c)
    PROVE  Reads'
<1> USE DEF Reads, Waiting
<1>t. Types
    BY DEF LockInv
<1>1. /\ Server = {0} /\ 0 \in Server /\ inbox[0] \in Seq(Message)
    BY <1>t, TheServer
<1>2. /\ box[c] # <<>> /\ box' = [box EXCEPT ![c] = Tail(box[c])]
      /\ call' = [call EXCEPT ![c] = Idle]
      /\ handle' = IF call[c] \in MVName
                   THEN [handle EXCEPT ![c][call[c]] = Head(box[c]).val] ELSE handle
      /\ UNCHANGED <<inbox, serverMVTable, last>>
    BY DEF Receive, tables
<1>3. call \in [Client -> Doing] /\ box \in [Client -> Seq(Mail)]
      /\ handle \in [Client -> [MVName -> Int]]
    BY <1>t DEF Types
<1>4. PICK b \in Seq(Mail) : b = box[c] /\ b # <<>>
    BY <1>2, <1>3
<1>5. Len(b) <= 1
    BY <1>4 DEF OneMail
<1>6. Tail(b) = <<>> /\ Head(b) \in Elems(b)
  <2>1. Tail(b) \in Seq(Mail) /\ Len(b) \in Nat /\ Len(Tail(b)) = Len(b) - 1 /\ Head(b) \in Elems(b)
      BY <1>4, Popped
  <2>2. PICK w \in Seq(Mail) : w = Tail(b) /\ Len(w) = 0
    <3>1. Len(Tail(b)) \in Nat
        BY <2>1
    <3>2. Len(Tail(b)) = 0
        BY <1>5, <2>1, <3>1
    <3> QED BY <2>1, <3>2
  <2>3. w = <<>>
      BY <2>2
  <2> QED BY <2>1, <2>2, <2>3
<1>7. /\ box'[c] = <<>> /\ call'[c] = Idle
      /\ \A d \in Client \ {c} : box'[d] = box[d] /\ call'[d] = call[d]
    BY <1>2, <1>3, <1>4, <1>6
<1>8. Elems(<<>>) = {}
    BY DEF Elems
<1>9. OneRequest'
    BY <1>2 DEF OneRequest
<1>10. RequestsWait'
  <2> SUFFICES ASSUME NEW y \in Elems(inbox[0]) PROVE RequestWaits(y)'
      BY <1>2 DEF RequestsWait, Elems
  <2>1. RequestWaits(y) /\ y \in Message
      BY <1>1 DEF RequestsWait, Elems
  <2>2. y.client \in Client /\ y.client # c
      BY <1>2, <2>1, Sender DEF RequestWaits
  <2> QED BY <1>7, <2>1, <2>2 DEF RequestWaits
<1>11. OneMail'
    BY <1>7 DEF OneMail
<1>12. Stores'
    BY <1>2, StoresStay
<1>13. HandlesRight'
  <2> SUFFICES ASSUME NEW d \in Client, NEW v \in MVName, handle'[d][v] # NoIndex
               PROVE  Named(handle'[d][v], v)
      BY <1>2 DEF HandlesRight, Named
  <2>1. CASE d = c /\ v = call[c]
    <3>1. handle'[d][v] = Head(b).val
        BY <1>2, <1>3, <1>4, <2>1
    <3>2. Named(Head(b).val, v)
        BY <1>4, <1>6, <2>1 DEF IndexesRight
    <3> QED BY <3>1, <3>2
  <2>2. CASE ~(d = c /\ v = call[c])
    <3>1. handle'[d][v] = handle[d][v]
        BY <1>2, <1>3, <2>2
    <3> QED BY <3>1 DEF HandlesRight
  <2> QED BY <2>1, <2>2
<1>14. IndexesRight'
  <2> SUFFICES ASSUME NEW d \in Client, NEW a \in Elems(box'[d]), call'[d] \in MVName
               PROVE  Named(a.val, call'[d])
      BY <1>2 DEF IndexesRight, Elems, Named
  <2>1. d # c
      BY <1>7, <1>8
  <2>2. Named(a.val, call[d])
      BY <1>7, <2>1 DEF IndexesRight
  <2> QED BY <1>7, <2>1, <2>2
<1>15. UsesRight'
    BY <1>2 DEF UsesRight, Named, Elems, AsChar
<1>16. ValuesRight'
  <2> SUFFICES ASSUME NEW d \in Client, NEW a \in Elems(box'[d])
               PROVE  a.kind = "value" => a.val = AsChar(a.want)
      BY DEF ValuesRight, Elems, AsChar
  <2> QED BY <1>7, <1>8 DEF ValuesRight
<1> QED BY <1>9, <1>10, <1>11, <1>12, <1>13, <1>14, <1>15, <1>16

(***************************************************************************)
(* The server takes the request of a client and answers it.                *)
(***************************************************************************)
LEMMA TurnReads ==
    ASSUME LockInv, Reads, OneServer, inbox[0] # <<>>,
           inbox' = [inbox EXCEPT ![0] = Tail(inbox[0])],
           UNCHANGED <<call, handle>>,
           NEW a \in Mail, NEW c \in Client, c = Head(inbox[0]).client,
           box' = [box EXCEPT ![c] = Append(box[c], a)],
           Stores', \A x, v : Named(x, v) => Named(x, v)',
           call[c] \in MVName => Named(a.val, call[c])',
           a.kind = "value" => a.val = AsChar(a.want)
    PROVE  Reads'
<1> USE DEF Reads, Waiting
<1>t. Types
    BY DEF LockInv
<1>1. /\ Server = {0} /\ 0 \in Server /\ inbox[0] \in Seq(Message)
    BY <1>t, TheServer
<1>2. call \in [Client -> Doing] /\ box \in [Client -> Seq(Mail)]
    BY <1>t DEF Types
<1>3. PICK q \in Seq(Message) : q = inbox[0] /\ q # <<>>
    BY <1>1
<1>4. PICK z : z = Tail(q)
    OBVIOUS
<1>5. /\ Head(q) = q[1] /\ 1 \in 1 .. Len(q) /\ Head(q) \in Elems(q)
      /\ Len(q) \in Nat /\ Len(z) = Len(q) - 1
      /\ \A i \in 1 .. Len(q) - 1 : z[i] = q[i + 1] /\ i + 1 \in 1 .. Len(q)
      /\ Elems(z) \subseteq Elems(q)
    BY <1>3, <1>4, Popped
<1>6. inbox'[0] = z
    BY <1>1, <1>3, <1>4, <1>t DEF Types
<1>7. box[c] = <<>>
    BY <1>3, <1>5 DEF RequestsWait, RequestWaits
<1>8. call[c] # Idle
    BY <1>3, <1>5 DEF RequestsWait, RequestWaits
<1>9. /\ Len(box'[c]) = 1 /\ Elems(box'[c]) = {a}
      /\ \A d \in Client \ {c} : box'[d] = box[d]
  <2>1. PICK b \in Seq(Mail) : b = box[c] /\ Len(b) = 0 /\ Elems(b) = {}
      BY <1>2, <1>7 DEF Elems
  <2>2. Len(Append(b, a)) = Len(b) + 1 /\ Elems(Append(b, a)) = Elems(b) \cup {a}
      BY Appended
  <2>3. box'[c] = Append(b, a) /\ \A d \in Client \ {c} : box'[d] = box[d]
      BY <1>2, <2>1
  <2>4. Len(Append(b, a)) = 1 /\ Elems(Append(b, a)) = {a}
      BY <2>1, <2>2
  <2> QED BY <2>3, <2>4
<1>10. \A i \in 1 .. Len(z) : z[i].client # c
  <2> SUFFICES ASSUME NEW i \in 1 .. Len(z) PROVE z[i].client # c
      OBVIOUS
  <2>1. z[i] = q[i + 1] /\ i + 1 \in 1 .. Len(q) /\ i + 1 # 1
      BY <1>5
  <2> QED BY <1>3, <1>5, <2>1 DEF OneRequest
<1>11. OneRequest'
  <2> SUFFICES ASSUME NEW i \in 1 .. Len(z), NEW j \in 1 .. Len(z), z[i].client = z[j].client
               PROVE  i = j
      BY <1>6 DEF OneRequest
  <2>1. /\ z[i] = q[i + 1] /\ i + 1 \in 1 .. Len(q) /\ z[j] = q[j + 1] /\ j + 1 \in 1 .. Len(q)
      BY <1>5
  <2>2. i + 1 = j + 1
      BY <1>3, <2>1 DEF OneRequest
  <2> QED BY <1>5, <2>2
<1>12. \A y \in Elems(z) : y \in Elems(q) /\ y \in Message /\ y.client # c
    BY <1>5, <1>10 DEF Elems
<1>13. RequestsWait'
  <2> SUFFICES ASSUME NEW y \in Elems(z) PROVE RequestWaits(y)'
      BY <1>6 DEF RequestsWait, Elems
  <2>1. RequestWaits(y) /\ y \in Message /\ y.client # c
      BY <1>3, <1>12 DEF RequestsWait
  <2>2. y.client \in Client
      BY <2>1, Sender DEF RequestWaits
  <2>3. box'[y.client] = box[y.client]
      BY <1>9, <2>1, <2>2
  <2> QED BY <2>1, <2>3 DEF RequestWaits
<1>14. OneMail'
    BY <1>8, <1>9 DEF OneMail
<1>15. HandlesRight'
  <2> SUFFICES ASSUME NEW d \in Client, NEW v \in MVName, NEW h, h = handle[d][v], h # NoIndex
               PROVE  Named(h, v)'
      BY DEF HandlesRight, Named
  <2>1. Named(h, v)
      BY DEF HandlesRight
  <2> QED BY <2>1
<1>16. IndexesRight'
  <2> SUFFICES ASSUME NEW d \in Client, NEW y \in Elems(box'[d]), call[d] \in MVName
               PROVE  Named(y.val, call[d])'
      BY DEF IndexesRight, Elems, Named
  <2>1. CASE d = c
      BY <1>9, <2>1 DEF Named
  <2>2. CASE d # c
    <3>1. Named(y.val, call[d])
        BY <1>9, <2>2 DEF IndexesRight
    <3> QED BY <3>1 DEF Named
  <2> QED BY <2>1, <2>2
<1>17. UsesRight'
  <2> SUFFICES ASSUME NEW y \in Elems(z), y.op \in MVOp
               PROVE  /\ Named(y.index, y.name)' /\ y.position = y.givenPosition
                      /\ y.value = AsChar(y.givenValue)
      BY <1>6 DEF UsesRight, Elems, AsChar
  <2>1. /\ Named(y.index, y.name) /\ y.position = y.givenPosition
        /\ y.value = AsChar(y.givenValue)
      BY <1>3, <1>12 DEF UsesRight
  <2> QED BY <2>1
<1>18. ValuesRight'
  <2> SUFFICES ASSUME NEW d \in Client, NEW y \in Elems(box'[d])
               PROVE  y.kind = "value" => y.val = AsChar(y.want)
      BY DEF ValuesRight, Elems, AsChar
  <2>1. CASE d = c
      BY <1>9, <2>1
  <2>2. CASE d # c
      BY <1>9, <2>2 DEF ValuesRight
  <2> QED BY <2>1, <2>2
<1> QED BY <1>11, <1>13, <1>14, <1>15, <1>16, <1>17, <1>18

\* SetMV stores what is expected.
LEMMA SetStores ==
    ASSUME LockInv, Stores, OneServer, NEW index, NEW position \in Int, NEW value \in Int,
           NEW name \in MVName, Named(index, name),
           serverMVTable' = SetMV(0, index, position, AsChar(value)),
           last' = [last EXCEPT ![name] = Stored(last[name], position, value)]
    PROVE  Stores' /\ \A x, v : Named(x, v) => Named(x, v)'
<1> USE DEF Stores
<1>t. Types
    BY DEF LockInv
<1>1. serverMVTable[0] \in Seq(MV) /\ 0 \in Server /\ serverMVTable \in [Server -> Seq(MV)]
      /\ last \in [MVName -> [Element -> Int]]
    BY <1>t, TheServer DEF Types
<1>2. PICK q \in Seq(MV) : q = serverMVTable[0]
    BY <1>1
<1>3. Len(q) \in Nat
    OBVIOUS
<1>4. index \in 0 .. Len(q) - 1 /\ q[index + 1].name = name
    BY <1>2 DEF Named
<1>5. PICK i \in 1 .. Len(q) : i = index + 1
    BY <1>3, <1>4
<1>6. q[i] \in MV /\ q[i].name = name
    BY <1>4, <1>5
<1>7. q[i].values \in [Element -> Int] /\ \A p \in Element : q[i].values[p] = AsChar(last[name][p])
    BY <1>2, <1>5, <1>6 DEF HoldsLast, MV
<1>8. IsMV(0, index)
    BY <1>2, <1>4 DEF IsMV
<1>9. CASE position \notin Element
  <2>1. serverMVTable' = serverMVTable
      BY <1>9 DEF SetMV, InMV, Element
  <2>2. DOMAIN last[name] = Element
      BY <1>1
  <2>3. last' = last
      BY <1>1, <1>9, <2>2 DEF Stored
  <2> QED BY <2>1, <2>3, StoresStay
<1>10. CASE position \in Element
  <2>a. PICK byte \in Int : byte = AsChar(value)
      BY AsCharType
  <2>1. PICK x : x = [q[i] EXCEPT !.values[position] = byte]
      OBVIOUS
  <2>2. /\ x \in MV /\ x.name = name
        /\ x.values = [q[i].values EXCEPT ![position] = byte]
      BY <1>6, <1>7, <1>10, <2>1 DEF MV
  <2>3. PICK z : z = [q EXCEPT ![i] = x]
      OBVIOUS
  <2>4. /\ z \in Seq(MV) /\ Len(z) = Len(q) /\ z[i] = x
        /\ \A j \in 1 .. Len(q) : j # i => z[j] = q[j]
      BY <2>2, <2>3
  <2>5. serverMVTable' = [serverMVTable EXCEPT ![0] = z]
    <3>1. InMV(0, index, position)
        BY <1>8, <1>10 DEF InMV, Element
    <3> QED BY <1>2, <1>5, <2>a, <2>1, <2>3, <3>1 DEF SetMV
  <2>6. serverMVTable'[0] = z
      BY <1>1, <2>5
  <2>7. \A j \in 1 .. Len(q) : z[j].name = q[j].name
      BY <1>6, <2>2, <2>4
  <2>8. /\ last'[name] = [last[name] EXCEPT ![position] = value]
        /\ \A v \in MVName \ {name} : last'[v] = last[v]
    <3>1. DOMAIN last[name] = Element
        BY <1>1
    <3> QED BY <1>1, <1>10, <3>1 DEF Stored
  <2>9. OneMV'
      BY <1>2, <2>4, <2>6, <2>7 DEF OneMV
  <2>10. HoldsLast'
    <3> SUFFICES \A j \in 1 .. Len(z) : \A p \in Element :
                    z[j].values[p] = AsChar(last'[z[j].name][p])
        BY <2>6 DEF HoldsLast
    <3> SUFFICES ASSUME NEW j \in 1 .. Len(q), NEW p \in Element
                 PROVE  z[j].values[p] = AsChar(last'[z[j].name][p])
        BY <2>4
    <3>1. CASE j = i /\ p = position
      <4>1. last'[name][p] = value
          BY <1>1, <2>8, <3>1
      <4>2. z[j].name = name /\ z[j].values[p] = byte
          BY <1>7, <2>2, <2>4, <3>1
      <4> QED BY <2>a, <4>1, <4>2
    <3>2. CASE j = i /\ p # position
      <4>1. last'[name][p] = last[name][p]
          BY <1>1, <2>8, <3>2
      <4>2. z[j].name = name /\ z[j].values[p] = q[i].values[p]
          BY <1>7, <2>2, <2>4, <3>2
      <4> QED BY <1>7, <4>1, <4>2
    <3>3. CASE j # i
      <4>1. q[j] \in MV /\ q[j].name # name
          BY <1>2, <1>6, <3>3 DEF OneMV
      <4>2. q[j].name \in MVName \ {name}
          BY <4>1 DEF MV
      <4>3. q[j].values[p] = AsChar(last[q[j].name][p])
          BY <1>2 DEF HoldsLast
      <4> QED BY <2>4, <2>8, <3>3, <4>2, <4>3
    <3> QED BY <3>1, <3>2, <3>3
  <2>11. NewIsZero'
    <3> SUFFICES ASSUME NEW v \in MVName
                 PROVE  \/ \E j \in 1 .. Len(z) : z[j].name = v
                        \/ last'[v] = [p \in Element |-> 0]
        BY <2>6 DEF NewIsZero
    <3>1. CASE v = name
        BY <2>2, <2>4, <3>1
    <3>2. CASE v # name
      <4>1. \/ \E j \in 1 .. Len(q) : q[j].name = v
            \/ last[v] = [p \in Element |-> 0]
          BY <1>2 DEF NewIsZero
      <4> QED BY <2>4, <2>7, <2>8, <3>2, <4>1
    <3> QED BY <3>1, <3>2
  <2>13. ASSUME NEW y, NEW v, Named(y, v) PROVE Named(y, v)'
    <3>1. y \in 0 .. Len(q) - 1 /\ q[y + 1].name = v
        BY <1>2, <2>13 DEF Named
    <3>2. y + 1 \in 1 .. Len(q)
        BY <1>3, <3>1
    <3>3. z[y + 1].name = v
        BY <2>7, <3>1, <3>2
    <3> QED BY <2>4, <2>6, <3>1, <3>3 DEF Named
  <2> QED BY <2>9, <2>10, <2>11, <2>13
<1> QED BY <1>9, <1>10

\* DestroyMV stores nothing.
LEMMA DestroyStores ==
    ASSUME LockInv, Stores, OneServer, NEW index \in Int,
           serverMVTable' = DestroyMV(0, index), last' = last
    PROVE  Stores' /\ \A x, v : Named(x, v) => Named(x, v)'
<1> USE DEF Stores
<1>t. Types
    BY DEF LockInv
<1>1. serverMVTable[0] \in Seq(MV) /\ 0 \in Server /\ serverMVTable \in [Server -> Seq(MV)]
    BY <1>t, TheServer DEF Types
<1>2. PICK q \in Seq(MV) : q = serverMVTable[0]
    BY <1>1
<1>3. Len(q) \in Nat
    OBVIOUS
<1>4. CASE ~IsMV(0, index)
  <2>1. serverMVTable' = serverMVTable
      BY <1>4 DEF DestroyMV
  <2> QED BY <2>1, StoresStay
<1>5. CASE IsMV(0, index)
  <2>1. PICK i \in 1 .. Len(q) : i = index + 1
      BY <1>2, <1>3, <1>5 DEF IsMV
  <2>2. PICK x : x = [q[i] EXCEPT !.freed = TRUE]
      OBVIOUS
  <2>3. x \in MV /\ x.name = q[i].name /\ x.values = q[i].values
    <3>1. q[i] \in MV
        OBVIOUS
    <3> QED BY <2>2, <3>1 DEF MV
  <2>4. PICK z : z = [q EXCEPT ![i] = x]
      OBVIOUS
  <2>5. /\ z \in Seq(MV) /\ Len(z) = Len(q) /\ z[i] = x
        /\ \A j \in 1 .. Len(q) : j # i => z[j] = q[j]
      BY <2>3, <2>4
  <2>6. serverMVTable' = [serverMVTable EXCEPT ![0] = z]
      BY <1>2, <1>5, <2>1, <2>2, <2>4 DEF DestroyMV
  <2>7. serverMVTable'[0] = z
      BY <1>1, <2>6
  <2>8. \A j \in 1 .. Len(q) : z[j].name = q[j].name /\ z[j].values = q[j].values
      BY <2>3, <2>5
  <2>a. OneMV'
      BY <1>2, <2>5, <2>7, <2>8 DEF OneMV
  <2>9. HoldsLast'
    <3> SUFFICES ASSUME NEW j \in 1 .. Len(q), NEW p \in Element
                 PROVE  z[j].values[p] = AsChar(last[z[j].name][p])
        BY <2>5, <2>7, Zenon DEF HoldsLast, AsChar
    <3> QED BY <1>2, <2>8 DEF HoldsLast
  <2>10. NewIsZero'
      BY <1>2, <2>5, <2>7, <2>8 DEF NewIsZero
  <2>11. ASSUME NEW y, NEW v, Named(y, v) PROVE Named(y, v)'
    <3>1. y \in 0 .. Len(q) - 1 /\ q[y + 1].name = v
        BY <1>2, <2>11 DEF Named
    <3>2. y + 1 \in 1 .. Len(q)
        BY <1>3, <3>1
    <3>3. z[y + 1].name = v
        BY <2>8, <3>1, <3>2
    <3> QED BY <2>5, <2>7, <3>1, <3>3 DEF Named
  <2> QED BY <2>a, <2>9, <2>10, <2>11
<1> QED BY <1>4, <1>5

\* A new MV holds zeros, and nothing was stored under its name.
LEMMA CreateStores ==
    ASSUME LockInv, Stores, OneServer, NEW name \in MVName,
           \A i \in 1 .. Len(serverMVTable[0]) : serverMVTable[0][i].name # name,
           serverMVTable' = [serverMVTable EXCEPT ![0] =
                                Append(serverMVTable[0], ServerMV(name))], last' = last
    PROVE  /\ Stores' /\ \A x, v : Named(x, v) => Named(x, v)'
           /\ \A x : x = Len(serverMVTable[0]) => Named(x, name)'
<1> USE DEF Stores
<1>t. Types
    BY DEF LockInv
<1>1. serverMVTable[0] \in Seq(MV) /\ 0 \in Server /\ serverMVTable \in [Server -> Seq(MV)]
    BY <1>t, TheServer DEF Types
<1>2. PICK q \in Seq(MV) : q = serverMVTable[0]
    BY <1>1
<1>3. PICK x : x = ServerMV(name)
    OBVIOUS
<1>4. x \in MV /\ x.name = name /\ x.values = [p \in Element |-> 0]
    BY <1>3 DEF ServerMV, MV, Element
<1>5. PICK z : z = Append(q, x)
    OBVIOUS
<1>6. /\ z \in Seq(MV) /\ Len(q) \in Nat /\ Len(z) = Len(q) + 1 /\ z[Len(q) + 1] = x
      /\ \A i \in 1 .. Len(q) : z[i] = q[i] /\ i \in 1 .. Len(q) + 1
      /\ \A i \in 1 .. Len(q) + 1 : i \in 1 .. Len(q) \/ i = Len(q) + 1
    BY <1>4, <1>5, Appended
<1>7. serverMVTable'[0] = z
    BY <1>1, <1>2, <1>3, <1>5
<1>8. \A i \in 1 .. Len(q) : z[i].name # name
    BY <1>2, <1>6
<1>9. OneMV'
  <2>1. \A i, j \in 1 .. Len(q) : z[i].name = z[j].name => i = j
      BY <1>2, <1>6 DEF OneMV
  <2>2. \A i, j \in 1 .. Len(q) + 1 : z[i].name = z[j].name => i = j
      BY <1>4, <1>6, <1>8, <2>1
  <2> QED BY <1>6, <1>7, <2>2 DEF OneMV
<1>10. HoldsLast'
  <2>1. last[name] = [p \in Element |-> 0]
      BY <1>2 DEF NewIsZero
  <2>2. AsChar(0) = 0
      BY AsCharType, ServerGroupAssumption
  <2>3. \A p \in Element : x.values[p] = AsChar(last[name][p])
      BY <1>4, <2>1, <2>2
  <2>4. \A i \in 1 .. Len(q) : \A p \in Element : z[i].values[p] = AsChar(last[z[i].name][p])
      BY <1>2, <1>6 DEF HoldsLast
  <2>5. \A i \in 1 .. Len(q) + 1 : \A p \in Element :
           z[i].values[p] = AsChar(last[z[i].name][p])
      BY <1>4, <1>6, <2>3, <2>4
  <2> QED BY <1>6, <1>7, <2>5 DEF HoldsLast
<1>11. NewIsZero'
  <2> SUFFICES ASSUME NEW v \in MVName
               PROVE  \/ \E j \in 1 .. Len(z) : z[j].name = v
                      \/ last[v] = [p \in Element |-> 0]
      BY <1>7 DEF NewIsZero
  <2>1. \/ \E j \in 1 .. Len(q) : q[j].name = v
        \/ last[v] = [p \in Element |-> 0]
      BY <1>2 DEF NewIsZero
  <2> QED BY <1>6, <2>1
<1>13. ASSUME NEW y, NEW v, Named(y, v) PROVE Named(y, v)'
  <2>1. y \in 0 .. Len(q) - 1 /\ q[y + 1].name = v
      BY <1>2, <1>13 DEF Named
  <2>2. y + 1 \in 1 .. Len(q) /\ y \in 0 .. Len(z) - 1
      BY <1>6, <2>1
  <2>3. z[y + 1].name = v
      BY <1>6, <2>1, <2>2
  <2> QED BY <1>7, <2>2, <2>3 DEF Named
<1>15. ASSUME NEW y, y = Len(serverMVTable[0]) PROVE Named(y, name)'
  <2>1. y = Len(q) /\ y \in 0 .. Len(z) - 1 /\ z[y + 1].name = name
      BY <1>2, <1>4, <1>6, <1>15
  <2> QED BY <1>7, <2>1 DEF Named
<1> QED BY <1>9, <1>10, <1>11, <1>13, <1>15

(***************************************************************************)
(* The handlers.                                                           *)
(***************************************************************************)
LEMMA ServeReads ==
    ASSUME LockInv, Reads, OneServer, OneServer', Serve(0)
    PROVE  Reads'
<1>t. Types /\ ServerCounts # {}
    BY DEF LockInv, Types
<1>1. /\ Server = {0} /\ 0 \in Server /\ inbox[0] \in Seq(Message)
    BY <1>t, TheServer
<1>2. inbox[0] # <<>> /\ UNCHANGED <<call, handle>>
    BY DEF Serve, ServeCreateLock, ServeHaveLock, ServeAnswer, ServeCreateMV, ServeSetMV,
           ServeGetMV, ServeDestroyMV, ServeFreedMV, Take, clientVars
<1>3. PICK m \in Message : m = Head(inbox[0]) /\ m \in Elems(inbox[0])
    BY <1>1, <1>2, Popped
<1>4. RequestWaits(m)
    BY <1>3 DEF Reads, Waiting, RequestsWait
<1>5. PICK c \in Client : c = m.client
    BY <1>4, Sender DEF RequestWaits
<1>6. m.op \notin {"haveLock", "answer"}
    BY <1>4 DEF RequestWaits
<1>7. ASSUME NEW kind \in {"lock", "index", "done", "value"}, NEW val \in Int, NEW want \in Int,
             NEW a, a = [kind |-> kind, val |-> AsChar(val), want |-> want],
             Answer(m.client, kind, val, want)
      PROVE  /\ a \in Mail /\ a.kind = kind /\ a.val = AsChar(val) /\ a.want = want
             /\ box' = [box EXCEPT ![c] = Append(box[c], a)]
  <2>1. AsChar(val) \in Int
      BY <1>t, AsCharType
  <2> QED BY <1>5, <1>7, <2>1 DEF Mail, Answer
<1>8. ASSUME m.op # "createMV" PROVE call[c] \notin MVName
    BY <1>4, <1>5, <1>8 DEF RequestWaits
<1>9. CASE ServeCreateLock(0)
  <2>1. PICK val : /\ Answer(m.client, "lock", val, 0) /\ Done(0)
                   /\ UNCHANGED <<serverMVTable, last>> /\ m.op = "createLock" /\ val \in Int
    <3>1. m.op = "createLock" /\ numServers = 1
        BY <1>3, <1>9 DEF ServeCreateLock, Take, OneServer
    <3>2. PICK id : id = getLockFromTable(0, m.name)
        OBVIOUS
    <3>3. CASE id # -1
      <4>1. Answer(m.client, "lock", id, 0) /\ Done(0) /\ UNCHANGED <<serverMVTable, last>>
          BY <1>3, <1>9, <3>1, <3>2, <3>3 DEF ServeCreateLock, tables
      <4>2. id \in Int
          BY <1>t, <1>1, <3>2, LockIdType
      <4> QED BY <3>1, <4>1, <4>2
    <3>4. CASE id = -1
      <4>1. PICK table : table = serverLockTable'[0]
          OBVIOUS
      <4>2. PICK val : val = table[Len(table)].id
          OBVIOUS
      <4>3. /\ CreateLock(0, m.name) /\ Answer(m.client, "lock", val, 0) /\ Done(0)
            /\ UNCHANGED <<serverMVTable, last>>
          BY <1>3, <1>9, <3>1, <3>2, <3>4, <4>1, <4>2 DEF ServeCreateLock, tables
      <4>4. val \in Int
        <5>1. PICK q \in Seq(Lock) : q = serverLockTable[0]
            BY <1>1, <1>t DEF Types
        <5>2. IdRange \in Nat /\ Len(q) \in Nat
            BY ServerGroupAssumption
        <5>3. PICK l : l = [name |-> m.name, id |-> Len(q) + 0 * IdRange]
            OBVIOUS
        <5>4. m.name \in LockName
            BY <3>1, Fields
        <5>5. l \in Lock
            BY <5>2, <5>3, <5>4 DEF Lock
        <5>6. table = Append(q, l)
            BY <1>1, <1>t, <4>1, <4>3, <5>1, <5>3 DEF CreateLock, Types
        <5>7. Len(table) = Len(q) + 1 /\ table[Len(q) + 1] = l
            BY <5>5, <5>6, Appended
        <5> QED BY <4>2, <5>2, <5>3, <5>7
      <4> QED BY <3>1, <4>3, <4>4
    <3> QED BY <3>3, <3>4
  <2>2. PICK a : a = [kind |-> "lock", val |-> AsChar(val), want |-> 0]
      OBVIOUS
  <2>3. a \in Mail /\ a.kind = "lock" /\ box' = [box EXCEPT ![c] = Append(box[c], a)]
      BY <1>7, <2>1, <2>2
  <2>4. Stores' /\ \A x, v : Named(x, v) => Named(x, v)'
      BY <2>1, StoresStay DEF Reads
  <2>5. inbox' = [inbox EXCEPT ![0] = Tail(inbox[0])] /\ call[c] \notin MVName
      BY <1>8, <2>1 DEF Done
  <2> QED BY <1>2, <1>3, <1>5, <2>3, <2>4, <2>5, TurnReads
<1>10. ASSUME ServeHaveLock(0) \/ ServeAnswer(0) PROVE FALSE
    BY <1>3, <1>6, <1>10 DEF ServeHaveLock, ServeAnswer, Take
<1>11. ASSUME ServeFreedMV(0) PROVE FALSE
    BY <1>11 DEF ServeFreedMV, Undefined, OneServer
<1>12. CASE ServeSetMV(0)
  <2>1. /\ m.op = "setMV" /\ serverMVTable' = SetMV(0, m.index, m.position, m.value)
        /\ Done(0)
        /\ last' = [last EXCEPT ![m.name] = Stored(last[m.name], m.givenPosition, m.givenValue)]
      BY <1>3, <1>12 DEF ServeSetMV, Take
  <2>a. Answer(m.client, "done", 127, 0)
      BY <1>3, <1>12 DEF ServeSetMV
  <2>2. /\ m.name \in MVName /\ m.position \in Int /\ m.givenValue \in Int
      BY <2>1, Fields
  <2>3. /\ Named(m.index, m.name) /\ m.position = m.givenPosition
        /\ m.value = AsChar(m.givenValue)
      BY <1>3, <2>1 DEF Reads, UsesRight, MVOp
  <2>b. /\ serverMVTable' = SetMV(0, m.index, m.position, AsChar(m.givenValue))
        /\ last' = [last EXCEPT ![m.name] = Stored(last[m.name], m.position, m.givenValue)]
      BY <2>1, <2>3
  <2>4. Stores' /\ \A x, v : Named(x, v) => Named(x, v)'
      BY <2>b, <2>2, <2>3, SetStores DEF Reads
  <2>5. PICK a : a = [kind |-> "done", val |-> AsChar(127), want |-> 0]
      OBVIOUS
  <2>6. a \in Mail /\ a.kind = "done" /\ box' = [box EXCEPT ![c] = Append(box[c], a)]
      BY <1>7, <2>a, <2>5
  <2>7. inbox' = [inbox EXCEPT ![0] = Tail(inbox[0])] /\ call[c] \notin MVName
      BY <1>8, <2>1 DEF Done
  <2> QED BY <1>2, <1>3, <1>5, <2>4, <2>6, <2>7, TurnReads
<1>13. CASE ServeDestroyMV(0)
  <2>1. /\ m.op = "destroyMV" /\ serverMVTable' = DestroyMV(0, m.index) /\ Done(0) /\ last' = last
      BY <1>3, <1>13 DEF ServeDestroyMV, Take
  <2>a. Answer(m.client, "done", 127, 0)
      BY <1>3, <1>13 DEF ServeDestroyMV
  <2>2. m.index \in Int
      BY <2>1, Fields
  <2>4. Stores' /\ \A x, v : Named(x, v) => Named(x, v)'
      BY <2>1, <2>2, DestroyStores DEF Reads
  <2>5. PICK a : a = [kind |-> "done", val |-> AsChar(127), want |-> 0]
      OBVIOUS
  <2>6. a \in Mail /\ a.kind = "done" /\ box' = [box EXCEPT ![c] = Append(box[c], a)]
      BY <1>7, <2>a, <2>5
  <2>7. inbox' = [inbox EXCEPT ![0] = Tail(inbox[0])] /\ call[c] \notin MVName
      BY <1>8, <2>1 DEF Done
  <2> QED BY <1>2, <1>3, <1>5, <2>4, <2>6, <2>7, TurnReads
<1>14. CASE ServeGetMV(0)
  <2>1. m.op = "getMV" /\ Done(0) /\ UNCHANGED <<serverMVTable, last>>
      BY <1>3, <1>14 DEF ServeGetMV, Take, tables
  <2>2. m.name \in MVName /\ m.index \in Int /\ m.position \in Int
      BY <2>1, Fields
  <2>3. Named(m.index, m.name) /\ m.position = m.givenPosition
      BY <1>3, <2>1 DEF Reads, UsesRight, MVOp
  <2>4. PICK want, val :
             /\ Answer(m.client, "value", val, want) /\ val = GetMV(0, m.index, m.position)
             /\ want = IF m.position \in DOMAIN last[m.name]
                       THEN last[m.name][m.position] ELSE -1
      BY <1>3, <1>14, <2>3 DEF ServeGetMV
  <2>5. last \in [MVName -> [Element -> Int]]
      BY <1>t DEF Types
  <2>6. val = AsChar(want) /\ want \in Int
    <3>1. PICK q \in Seq(MV) : q = serverMVTable[0]
        BY <1>t, TheServer
    <3>2. m.index \in 0 .. Len(q) - 1 /\ q[m.index + 1].name = m.name /\ m.index + 1 \in 1 .. Len(q)
        BY <2>2, <2>3, <3>1 DEF Named
    <3>3. \A p \in Element : q[m.index + 1].values[p] = AsChar(last[m.name][p])
        BY <3>1, <3>2 DEF Reads, Stores, HoldsLast
    <3>4. InMV(0, m.index, m.position) <=> m.position \in Element
        BY <3>1, <3>2 DEF InMV, IsMV, Element
    <3>5. DOMAIN last[m.name] = Element
        BY <2>2, <2>5
    <3>6. CASE m.position \in Element
      <4>1. want = last[m.name][m.position] /\ want \in Int
          BY <2>2, <2>4, <2>5, <3>5, <3>6
      <4>2. val = q[m.index + 1].values[m.position]
          BY <2>4, <3>1, <3>4, <3>6 DEF GetMV, MVAt
      <4> QED BY <3>3, <3>6, <4>1, <4>2
    <3>7. CASE m.position \notin Element
      <4>1. want = -1 /\ val = -1
          BY <2>4, <3>4, <3>5, <3>7 DEF GetMV
      <4> QED BY <4>1, AsCharType
    <3> QED BY <3>6, <3>7
  <2>7. val \in Int /\ AsChar(val) = val
      BY <2>6, AsCharType
  <2>8. PICK a : a = [kind |-> "value", val |-> AsChar(val), want |-> want]
      OBVIOUS
  <2>9. /\ a \in Mail /\ a.kind = "value" /\ a.val = AsChar(val) /\ a.want = want
        /\ box' = [box EXCEPT ![c] = Append(box[c], a)]
      BY <1>7, <2>4, <2>6, <2>7, <2>8
  <2>10. a.val = AsChar(a.want)
      BY <2>6, <2>7, <2>9
  <2>11. Stores' /\ \A x, v : Named(x, v) => Named(x, v)'
      BY <2>1, StoresStay DEF Reads
  <2>12. inbox' = [inbox EXCEPT ![0] = Tail(inbox[0])] /\ call[c] \notin MVName
      BY <1>8, <2>1 DEF Done
  <2> QED BY <1>2, <1>3, <1>5, <2>9, <2>10, <2>11, <2>12, TurnReads
<1>15. CASE ServeCreateMV(0)
  <2>1. m.op = "createMV" /\ CreateMV(0, m) /\ Done(0) /\ last' = last
      BY <1>3, <1>15 DEF ServeCreateMV, Take
  <2>2. m.name \in MVName /\ call[c] = m.name
      BY <1>4, <1>5, <2>1, Fields DEF RequestWaits
  <2>3. PICK q \in Seq(MV) : q = serverMVTable[0]
      BY <1>t, TheServer
  <2>4. PICK i : i = FindMV(0, m.name)
      OBVIOUS
  <2>5. \/ i = 0 /\ \A j \in 1 .. Len(q) : ~q[j].freed /\ q[j].name # m.name
        \/ i \in 1 .. Len(q) /\ (q[i].freed \/ q[i].name = m.name)
      BY <1>1, <1>t, <2>3, <2>4, MVFound
  <2>6. Len(q) \in Nat /\ IdRange \in Nat /\ CharRange \in Nat
      BY ServerGroupAssumption
  <2>7. 2 * Len(q) <= CharRange /\ 2 * Len(serverMVTable'[0]) <= CharRange
      BY <2>3 DEF OneServer, MVsFit
  <2>8. inbox' = [inbox EXCEPT ![0] = Tail(inbox[0])]
      BY <2>1 DEF Done
  <2>9. CASE /\ i # 0 /\ ~Freed(0, i - 1) /\ Answer(m.client, "index", i - 1, 0)
             /\ serverMVTable' = serverMVTable
    <3>1. PICK x \in Int : x = i - 1 /\ i \in 1 .. Len(q) /\ x \in 0 .. Len(q) - 1 /\ x + 1 = i
        BY <2>5, <2>6, <2>9
    <3>2. q[i].name = m.name
      <4>1. ~q[i].freed
          BY <2>3, <2>9, <3>1 DEF Freed, IsMV, MVAt
      <4> QED BY <2>5, <2>9, <4>1
    <3>3. AsChar(x) = x
      <4>1. x >= 0 /\ 2 * x < CharRange
          BY <2>6, <2>7, <3>1
      <4> QED BY <1>t, <4>1, AsCharType
    <3>4. PICK a : a = [kind |-> "index", val |-> AsChar(x), want |-> 0]
        OBVIOUS
    <3>5. /\ a \in Mail /\ a.kind = "index" /\ a.val = x
          /\ box' = [box EXCEPT ![c] = Append(box[c], a)]
        BY <1>7, <2>9, <3>1, <3>3, <3>4
    <3>6. Stores' /\ \A y, v : Named(y, v) => Named(y, v)'
        BY <2>1, <2>9, StoresStay DEF Reads
    <3>7. Named(a.val, m.name)'
        BY <2>3, <2>9, <3>1, <3>2, <3>5 DEF Named
    <3>8. call[c] \in MVName => Named(a.val, call[c])'
        BY <1>2, <2>2, <3>7 DEF Named
    <3> QED BY <1>2, <1>3, <1>5, <2>8, <3>5, <3>6, <3>8, TurnReads
  <2>10. CASE /\ i = 0
              /\ serverMVTable' = [serverMVTable EXCEPT ![0] =
                                      Append(serverMVTable[0], ServerMV(m.name))]
              /\ Answer(m.client, "index", Len(serverMVTable[0]) + 0 * IdRange, 0)
    <3>1. \A j \in 1 .. Len(serverMVTable[0]) : serverMVTable[0][j].name # m.name
        BY <2>3, <2>5, <2>10
    <3>2. PICK x \in Nat : x = Len(serverMVTable[0]) /\ Len(serverMVTable[0]) + 0 * IdRange = x
      <4>1. 0 * IdRange = 0
          BY <2>6
      <4>2. Len(serverMVTable[0]) \in Nat /\ Len(serverMVTable[0]) + 0 = Len(serverMVTable[0])
          BY <2>3, <2>6
      <4> QED BY <4>1, <4>2
    <3>3. /\ Stores' /\ \A y, v : Named(y, v) => Named(y, v)'
          /\ \A y : y = Len(serverMVTable[0]) => Named(y, m.name)'
        BY <2>1, <2>2, <2>10, <3>1, CreateStores DEF Reads
    <3>4. AsChar(x) = x
      <4>1. Len(serverMVTable'[0]) = Len(serverMVTable[0]) + 1
          BY <1>1, <1>t, <2>2, <2>10, MVMade
      <4>2. x >= 0 /\ 2 * x < CharRange
          BY <2>6, <2>7, <3>2, <4>1
      <4> QED BY <1>t, <4>2, AsCharType
    <3>5. PICK a : a = [kind |-> "index", val |-> AsChar(x), want |-> 0]
        OBVIOUS
    <3>6. Answer(m.client, "index", x, 0)
        BY <2>10, <3>2
    <3>7. /\ a \in Mail /\ a.kind = "index" /\ a.val = x
          /\ box' = [box EXCEPT ![c] = Append(box[c], a)]
        BY <1>7, <3>4, <3>5, <3>6
    <3>8. Named(a.val, m.name)'
        BY <3>2, <3>3, <3>7
    <3>9. call[c] \in MVName => Named(a.val, call[c])'
        BY <1>2, <2>2, <3>8 DEF Named
    <3> QED BY <1>2, <1>3, <1>5, <2>8, <3>3, <3>7, <3>9, TurnReads
  <2> QED BY <2>1, <2>4, <2>9, <2>10 DEF CreateMV, OneServer
<1> QED BY <1>9, <1>10, <1>11, <1>12, <1>13, <1>14, <1>15 DEF Serve

\* The invariant holds at the start.
LEMMA ReadInvInit ==
    Init => ReadInv
<1> SUFFICES ASSUME Init, OneServer PROVE Reads
    BY DEF ReadInv
<1> USE DEF Init
<1>t. Types
    BY LockInvInit DEF LockInv
<1>1. 0 \in Server /\ Elems(<<>>) = {}
    BY <1>t, TheServer DEF Elems
<1>2. inbox[0] = <<>> /\ serverMVTable[0] = <<>> /\ \A c \in Client : box[c] = <<>>
    BY <1>1
<1>3. Waiting
    BY <1>1, <1>2 DEF Waiting, OneRequest, RequestsWait, OneMail
<1>4. HandlesRight
    BY DEF HandlesRight
<1>5. IndexesRight /\ UsesRight /\ ValuesRight
    BY <1>1, <1>2 DEF IndexesRight, UsesRight, ValuesRight
<1>6. OneMV /\ HoldsLast /\ NewIsZero
    BY <1>2 DEF OneMV, HoldsLast, NewIsZero, Element
<1> QED BY <1>3, <1>4, <1>5, <1>6 DEF Reads, Stores

\* The number of servers stays.
LEMMA NumServersStay ==
    ASSUME Next PROVE numServers' = numServers
<1>1. ASSUME NEW c \in Client, Call(c) \/ Receive(c) PROVE numServers' = numServers
    BY <1>1 DEF Call, CreateLock_Syscall, CreateMV_Syscall, SetMV_Syscall, GetMV_Syscall,
                DestroyMV_Syscall, UseMV, Ask, Receive
<1>2. ASSUME NEW s \in Server, Serve(s) PROVE numServers' = numServers
    BY <1>2 DEF Serve, ServeCreateLock, ServeHaveLock, ServeAnswer, ServeCreateMV,
                ServeSetMV, ServeGetMV, ServeDestroyMV, ServeFreedMV, Take
<1> QED BY <1>1, <1>2 DEF Next

\* A step takes no MV out of the table, and none is taken after something undefined.
LEMMA MVsStay ==
    ASSUME LockInv, numServers = 1, Next
    PROVE  /\ numServers' = numServers /\ ~undefined
           /\ Len(serverMVTable[0]) \in Nat
           /\ \/ serverMVTable'[0] = serverMVTable[0]
              \/ Len(serverMVTable'[0]) = Len(serverMVTable[0])
              \/ Len(serverMVTable'[0]) = Len(serverMVTable[0]) + 1
<1>t. Types
    BY DEF LockInv
<1>1. Server = {0} /\ 0 \in Server
    BY DEF Server
<1>2. Len(serverMVTable[0]) \in Nat
    BY <1>t, <1>1 DEF Types
<1>3. ASSUME NEW c \in Client, Call(c) \/ Receive(c)
      PROVE  numServers' = numServers /\ ~undefined /\ serverMVTable' = serverMVTable
    BY <1>3 DEF Call, CreateLock_Syscall, CreateMV_Syscall, SetMV_Syscall, GetMV_Syscall,
                DestroyMV_Syscall, UseMV, Ask, Receive, tables
<1>4. CASE Serve(0)
  <2>1. Take(0, {"createLock", "haveLock", "answer", "createMV", "setMV", "getMV", "destroyMV"})
      BY <1>4 DEF Serve, ServeCreateLock, ServeHaveLock, ServeAnswer, ServeCreateMV,
                  ServeSetMV, ServeGetMV, ServeDestroyMV, ServeFreedMV, Take
  <2>2. numServers' = numServers /\ ~undefined /\ inbox[0] # <<>>
      BY <2>1 DEF Take
  <2>3. PICK m \in Message : m = Head(inbox[0])
      BY <1>t, <1>1, <2>2, Popped DEF Types
  <2>a. \A index, position, value \in Int :
           /\ Len(SetMV(0, index, position, value)[0]) = Len(serverMVTable[0])
           /\ Len(DestroyMV(0, index)[0]) = Len(serverMVTable[0])
    <3>1. PICK s \in Server : s = 0
        BY <1>1
    <3>2. ASSUME NEW index \in Int, NEW position \in Int, NEW value \in Int
          PROVE  \A T \in {SetMV(s, index, position, value), DestroyMV(s, index)} :
                    Len(T[s]) = Len(serverMVTable[s])
        BY <1>t, MVTable
    <3> QED BY <3>1, <3>2, Zenon
  <2>4. CASE ServeCreateLock(0) \/ ServeHaveLock(0) \/ ServeAnswer(0) \/ ServeGetMV(0)
             \/ ServeFreedMV(0)
    <3>1. serverMVTable' = serverMVTable
        BY <2>4 DEF ServeCreateLock, ServeHaveLock, ServeAnswer, ServeGetMV, ServeFreedMV,
                    Undefined, tables
    <3> QED BY <1>2, <2>2, <3>1
  <2>5. CASE ServeSetMV(0)
    <3>1. m.op = "setMV" /\ serverMVTable' = SetMV(0, m.index, m.position, m.value)
        BY <2>3, <2>5 DEF ServeSetMV, Take
    <3>2. m.index \in Int /\ m.position \in Int /\ m.value \in Int
        BY <3>1, Fields
    <3>5. Len(serverMVTable'[0]) = Len(serverMVTable[0])
        BY <2>a, <3>1, <3>2, Zenon
    <3> QED BY <1>2, <2>2, <3>5
  <2>6. CASE ServeDestroyMV(0)
    <3>1. m.op = "destroyMV" /\ serverMVTable' = DestroyMV(0, m.index)
        BY <2>3, <2>6 DEF ServeDestroyMV, Take
    <3>2. m.index \in Int /\ m.position \in Int /\ m.value \in Int
        BY <3>1, Fields
    <3>5. Len(serverMVTable'[0]) = Len(serverMVTable[0])
        BY <2>a, <3>1, <3>2, Zenon
    <3> QED BY <1>2, <2>2, <3>5
  <2>7. CASE ServeCreateMV(0)
    <3>1. m.op = "createMV" /\ CreateMV(0, m)
        BY <2>3, <2>7 DEF ServeCreateMV, Take
    <3>2. m.name \in MVName
        BY <3>1, Fields
    <3>3. \/ serverMVTable' = serverMVTable
          \/ serverMVTable' = [serverMVTable EXCEPT ![0] =
                                  Append(serverMVTable[0], ServerMV(m.name))]
        BY <3>1 DEF CreateMV
    <3>4. serverMVTable' # serverMVTable => Len(serverMVTable'[0]) = Len(serverMVTable[0]) + 1
        BY <1>t, <1>1, <3>2, <3>3, MVMade
    <3> QED BY <1>2, <2>2, <3>4
  <2> QED BY <1>4, <2>4, <2>5, <2>6, <2>7 DEF Serve
<1>5. CASE \E c \in Client : Call(c) \/ Receive(c)
    BY <1>2, <1>3, <1>5
<1> QED BY <1>1, <1>4, <1>5 DEF Next

\* Every step keeps the invariant.
LEMMA ReadInvNext ==
    LockInv /\ ReadInv /\ [Next]_vars => ReadInv'
<1> SUFFICES ASSUME LockInv, ReadInv, [Next]_vars, OneServer' PROVE Reads'
    BY DEF ReadInv
<1>t. Types
    BY DEF LockInv
<1>1. CASE UNCHANGED vars
  <2>1. UNCHANGED <<numServers, inbox, serverMVTable, call, box, handle, last, undefined>>
      BY <1>1 DEF vars, tables
  <2>2. Reads
      BY <2>1 DEF ReadInv, OneServer, MVsFit
  <2>3. Waiting'
      BY <2>1, <2>2 DEF Reads, Waiting, OneRequest, RequestsWait, RequestWaits, OneMail, Elems
  <2>4. Stores'
      BY <2>1, <2>2, StoresStay DEF Reads
  <2>5. HandlesRight' /\ IndexesRight' /\ UsesRight' /\ ValuesRight'
      BY <2>1, <2>2 DEF Reads, HandlesRight, IndexesRight, UsesRight, ValuesRight, Named, Elems,
                            AsChar
  <2> QED BY <2>3, <2>4, <2>5 DEF Reads
<1>2. CASE Next
  <2>1. numServers = 1 /\ ~undefined /\ MVsFit
    <3>1. numServers \in Nat
        BY <1>t, ServerGroupAssumption DEF Types
    <3>2. numServers = 1 /\ numServers' = 1
        BY <1>2, <3>1, NumServersStay DEF OneServer
    <3>3. /\ ~undefined /\ Len(serverMVTable[0]) \in Nat
          /\ \/ serverMVTable'[0] = serverMVTable[0]
             \/ Len(serverMVTable'[0]) = Len(serverMVTable[0])
             \/ Len(serverMVTable'[0]) = Len(serverMVTable[0]) + 1
        BY <1>2, <3>2, MVsStay
    <3>4. 2 * NumElements < CharRange /\ 2 * Len(serverMVTable'[0]) <= CharRange
        BY DEF OneServer, MVsFit
    <3>5. 2 * Len(serverMVTable[0]) <= CharRange
        BY <3>3, <3>4, ServerGroupAssumption
    <3> QED BY <3>2, <3>3, <3>4, <3>5 DEF MVsFit
  <2>2. OneServer /\ Reads
      BY <2>1 DEF OneServer, ReadInv
  <2>3. Server = {0}
      BY <1>t, <2>2, TheServer
  <2> QED BY <1>2, <2>2, <2>3, CallReads, ReceiveReads, ServeReads DEF Next
<1> QED BY <1>1, <1>2

(***************************************************************************)
(* With one server, until something undefined is done and while indexes    *)
(* and positions fit into a char: every client waits for one answer, every *)
(* index that is kept or sent is the position of the MV with that name,    *)
(* and the table holds the char of what SetMV was given last.              *)
(***************************************************************************)
THEOREM ReadInvariance == Spec => [](LockInv /\ ReadInv)
<1>1. Init => LockInv /\ ReadInv
    BY LockInvInit, ReadInvInit
<1>2. LockInv /\ ReadInv /\ [Next]_vars => LockInv' /\ ReadInv'
    BY LockInvNext, ReadInvNext
<1> QED BY <1>1, <1>2, PTL DEF Spec

(***************************************************************************)
(* GetMV answers with what SetMV was given last under that name            *)
(* (nettest.cc, cases 9 to 12), if that is a value of a char, with one     *)
(* server, until something undefined is done and while indexes and         *)
(* positions fit into a char.                                              *)
(***************************************************************************)
THEOREM ReadsAreLast == Spec => []ReadsLastSet
<1>1. LockInv /\ ReadInv => ReadsLastSet
  <2> SUFFICES ASSUME LockInv, ReadInv, numServers = 1, ~undefined, MVsFit,
                      NEW c \in Client, NEW k \in DOMAIN box[c], box[c][k].kind = "value",
                      AsChar(box[c][k].want) = box[c][k].want
               PROVE  box[c][k].val = box[c][k].want
      BY DEF ReadsLastSet
  <2>1. ValuesRight
      BY DEF ReadInv, OneServer, Reads
  <2>2. PICK q \in Seq(Mail) : q = box[c]
      BY DEF LockInv, Types
  <2>3. box[c][k] \in Elems(box[c])
      BY <2>2 DEF Elems
  <2> QED BY <2>1, <2>3 DEF ValuesRight
<1> QED BY <1>1, ReadInvariance, PTL

=============================================================================
