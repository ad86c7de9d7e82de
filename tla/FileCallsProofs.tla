--------------------------- MODULE FileCallsProofs ---------------------------
(***************************************************************************)
(* Proofs about FileCalls, for any number of processes, files, slots and   *)
(* sectors: who owns the open files, who owns the sectors of the disk, and *)
(* that the file system implements FileMap.                                *)
(***************************************************************************)
EXTENDS FileCalls, FiniteSetTheorems, SequenceTheorems, WellFoundedInduction, TLAPS

-----------------------------------------------------------------------------
\* An element that is minimal for < is a least element.
LEMMA MinimalIsLeast ==
    ASSUME NEW T \in SUBSET Nat, NEW R,
           \E x \in T : \A y \in T : ~(<<y, x>> \in R),
           \A x, y \in Nat : <<y, x>> \in R <=> y < x
    PROVE  \E x \in T : \A y \in T : x =< y
<1>1. PICK x \in T : \A y \in T : ~(<<y, x>> \in R)
    OBVIOUS
<1>2. \A y \in T : ~(y < x)
    BY <1>1, Zenon
<1>3. \A y \in T : x =< y
    BY <1>2
<1> QED BY <1>3

\* The first clear bit is clear.
LEMMA MinIn ==
    ASSUME NEW T \in SUBSET Nat, T # {}
    PROVE  Min(T) \in T
<1>1. PICK R : R = OpToRel(<, Nat)
    BY Zenon
<1>2. \E x \in T : \A y \in T : ~(<<y, x>> \in R)
    BY <1>1, WFMin, NatLessThanWellFounded, Zenon
<1>3. \A x, y \in Nat : <<y, x>> \in R <=> y < x
    BY <1>1 DEF OpToRel
<1>4. \E x \in T : \A y \in T : x =< y
    BY <1>2, <1>3, MinimalIsLeast, Zenon
<1> QED BY <1>4 DEF Min

-----------------------------------------------------------------------------
Table == [map : SUBSET OpenFileId, table : [OpenFileId -> {None} \cup UserHandle]]

\* A handle is a null pointer or an open file.
Opened(f) == "hdr" \in DOMAIN f
HandlesRight ==
    DOMAIN open = Handle /\ \A h \in Handle : open[h] = None \/ Opened(open[h])
TablesRight == fileTable \in [Process -> Table]

\* The file that an id of a process stands for.
FileOf(p, id) == Get(fileTable[p], id)
OneId ==
    \A p, q \in Process, i, j \in OpenFileId :
        FileOf(p, i) = FileOf(q, j) /\ FileOf(p, i) # None => p = q /\ i = j
IdsOpen == \A p \in Process, i \in OpenFileId : FileOf(p, i) # None => open[FileOf(p, i)] # None
OpenHasId ==
    \A f \in UserHandle : open[f] # None => \E p \in Process, i \in OpenFileId : FileOf(p, i) = f

CallsInv == HandlesRight /\ TablesRight /\ OneId /\ IdsOpen /\ OpenHasId

\* An open file is not a null pointer.
LEMMA OpenedSome ==
    ASSUME NEW f, Opened(f)
    PROVE  f # None
<1>1. DOMAIN <<>> = {}
    BY SMT
<1> QED BY <1>1 DEF Opened, None

\* What Open makes is an open file.
LEMMA NewOpened ==
    ASSUME NEW a, NEW b, NEW c
    PROVE  Opened([hdr |-> a, seekPosition |-> b, name |-> c])
BY DEF Opened

\* Put takes a slot that is not marked.
LEMMA PutRight ==
    ASSUME NEW t \in Table, NEW f \in {None} \cup UserHandle, Slot(t) # -1
    PROVE  /\ Slot(t) \in OpenFileId /\ Slot(t) \notin t.map
           /\ Put(t, f) \in Table
           /\ Get(t, Slot(t)) = None /\ Get(Put(t, f), Slot(t)) = f
           /\ \A i \in OpenFileId : i # Slot(t) => Get(Put(t, f), i) = Get(t, i)
<1>1. PICK clear : clear = OpenFileId \ t.map
    OBVIOUS
<1>2. Slot(t) = IF clear = {} THEN -1 ELSE Min(clear)
    BY <1>1 DEF Slot
<1>3. clear \in SUBSET Nat /\ clear # {}
  <2>1. OpenFileId \subseteq Nat
      BY FileCallsAssumption DEF OpenFileId
  <2> QED BY <1>1, <1>2, <2>1
<1>4. PICK x : x = Slot(t)
    OBVIOUS
<1>5. x \in clear
    BY <1>2, <1>3, <1>4, MinIn
<1>6. x \in OpenFileId /\ x \notin t.map
    BY <1>1, <1>5
<1>7. /\ t.map \in SUBSET OpenFileId /\ t.table \in [OpenFileId -> {None} \cup UserHandle]
    BY DEF Table
<1>8. PICK z : z = Put(t, f)
    OBVIOUS
<1>9. z = [map |-> t.map \cup {x}, table |-> [t.table EXCEPT ![x] = f]]
    BY <1>4, <1>8 DEF Put
<1>10. z.map = t.map \cup {x} /\ z.table = [t.table EXCEPT ![x] = f]
    BY <1>9
<1>11. z \in Table
    BY <1>6, <1>7, <1>9 DEF Table
<1>12. Get(t, x) = None /\ Get(z, x) = f
    BY <1>6, <1>7, <1>10 DEF Get
<1>13. \A i \in OpenFileId : i # x => Get(z, i) = Get(t, i)
    BY <1>7, <1>10 DEF Get
<1> QED BY <1>4, <1>6, <1>8, <1>11, <1>12, <1>13

\* Remove empties one slot.
LEMMA UnmarkRight ==
    ASSUME NEW t \in Table, NEW id \in OpenFileId
    PROVE  /\ Unmark(t, id) \in Table /\ Get(Unmark(t, id), id) = None
           /\ \A i \in OpenFileId : i # id => Get(Unmark(t, id), i) = Get(t, i)
<1>1. /\ t.map \in SUBSET OpenFileId /\ t.table \in [OpenFileId -> {None} \cup UserHandle]
    BY DEF Table
<1>2. PICK z : z = Unmark(t, id)
    OBVIOUS
<1>3. z = [map |-> t.map \ {id}, table |-> [t.table EXCEPT ![id] = None]]
    BY <1>2 DEF Unmark
<1>4. z.map = t.map \ {id} /\ z.table = [t.table EXCEPT ![id] = None]
    BY <1>3
<1>5. z \in Table
    BY <1>1, <1>3 DEF Table
<1>6. Get(z, id) = None /\ \A i \in OpenFileId : i # id => Get(z, i) = Get(t, i)
    BY <1>1, <1>4 DEF Get
<1> QED BY <1>2, <1>5, <1>6

\* An id of a process gives a file of a program, or nothing.
LEMMA GetType ==
    ASSUME TablesRight, NEW p \in Process, NEW i \in OpenFileId
    PROVE  FileOf(p, i) \in {None} \cup UserHandle /\ fileTable[p] \in Table
<1>1. PICK t \in Table : t = fileTable[p]
    BY DEF TablesRight
<1>2. t.table \in [OpenFileId -> {None} \cup UserHandle]
    BY DEF Table
<1> QED BY <1>1, <1>2 DEF FileOf, Get

\* The table of a new process holds no file.
LEMMA NewTableRight ==
    NewTable \in Table /\ \A i \in OpenFileId : Get(NewTable, i) = None
<1>1. PICK e : e = EmptyTable
    OBVIOUS
<1>2. e \in Table /\ e.map = {} /\ \A i \in OpenFileId : Get(e, i) = None
    BY <1>1 DEF EmptyTable, Table, Get
<1>3. MaxOpenFiles \in Nat /\ MaxOpenFiles >= 2
    BY FileCallsAssumption
<1>4. 0 \in OpenFileId /\ 1 \in OpenFileId /\ -1 \notin OpenFileId /\ OpenFileId \subseteq Nat
    BY <1>3 DEF OpenFileId
<1>5. ASSUME NEW t \in Table, OpenFileId \ t.map # {} PROVE Slot(t) # -1
  <2>1. PICK clear : clear = OpenFileId \ t.map
      OBVIOUS
  <2>2. Min(clear) \in clear
      BY <1>4, <1>5, <2>1, MinIn
  <2>3. Slot(t) = Min(clear)
      BY <1>5, <2>1 DEF Slot
  <2> QED BY <1>4, <2>1, <2>2, <2>3
<1>6. Slot(e) # -1
    BY <1>2, <1>4, <1>5
<1>7. PICK f \in Table : f = Put(e, None)
    BY <1>2, <1>6, PutRight
<1>8. \A i \in OpenFileId : Get(f, i) = None
    BY <1>2, <1>6, <1>7, PutRight
<1>9. Slot(f) # -1
  <2>1. f.map = {Slot(e)}
      BY <1>2, <1>7 DEF Put
  <2>2. OpenFileId \ f.map # {}
      BY <1>4, <2>1
  <2> QED BY <1>5, <2>2
<1>10. Put(f, None) \in Table /\ \A i \in OpenFileId : Get(Put(f, None), i) = None
    BY <1>8, <1>9, PutRight
<1> QED BY <1>1, <1>7, <1>10 DEF NewTable

\* No file is open and the tables are new.
Fresh == open = [h \in Handle |-> None] /\ fileTable = [p \in Process |-> NewTable]

\* Nobody has an open file after the start.
LEMMA FreshRight == Fresh => CallsInv
<1> SUFFICES ASSUME Fresh PROVE CallsInv
    OBVIOUS
<1>1. NewTable \in Table /\ \A i \in OpenFileId : Get(NewTable, i) = None
    BY NewTableRight
<1>2. \A p \in Process, i \in OpenFileId : FileOf(p, i) = None
    BY <1>1 DEF Fresh, FileOf
<1>3. HandlesRight
    BY DEF Fresh, HandlesRight
<1>4. TablesRight
    BY <1>1 DEF Fresh, TablesRight
<1>5. OneId /\ IdsOpen
    BY <1>2 DEF OneId, IdsOpen
<1>6. OpenHasId
  <2>1. UserHandle \subseteq Handle
      BY DEF UserHandle
  <2> QED BY <2>1 DEF Fresh, OpenHasId
<1> QED BY <1>3, <1>4, <1>5, <1>6 DEF CallsInv

\* A step after which the same files are open and the tables are the same.
LEMMA SameFiles ==
    ASSUME CallsInv, fileTable' = fileTable, HandlesRight',
           \A h \in UserHandle : open'[h] = None <=> open[h] = None
    PROVE  CallsInv'
<1>1. TablesRight' /\ \A p, i : FileOf(p, i)' = FileOf(p, i)
    BY DEF CallsInv, TablesRight, FileOf
<1>2. OneId'
    BY <1>1 DEF CallsInv, OneId
<1>3. \A p \in Process, i \in OpenFileId : FileOf(p, i) \in {None} \cup UserHandle
    BY GetType DEF CallsInv
<1>4. IdsOpen'
  <2> SUFFICES ASSUME NEW p \in Process, NEW i \in OpenFileId, NEW f, f = FileOf(p, i), f # None
               PROVE  open'[f] # None
      BY <1>1 DEF IdsOpen
  <2>1. open[f] # None /\ f \in UserHandle
      BY <1>3 DEF CallsInv, IdsOpen
  <2> QED BY <2>1
<1>5. OpenHasId'
    BY <1>1 DEF CallsInv, OpenHasId
<1> QED BY <1>1, <1>2, <1>4, <1>5 DEF CallsInv

\* A file keeps being open when it is read, written or positioned.
LEMMA Moved ==
    ASSUME HandlesRight, NEW h \in Handle, open[h] # None,
           NEW x, open' = [open EXCEPT ![h].seekPosition = x]
    PROVE  /\ HandlesRight' /\ \A g \in Handle : open'[g] = None <=> open[g] = None
<1>1. DOMAIN open' = Handle /\ DOMAIN open'[h] = DOMAIN open[h]
    BY Zenon DEF HandlesRight
<1>2. \A g \in Handle \ {h} : open'[g] = open[g]
    BY DEF HandlesRight
<1>3. Opened(open[h])
    BY DEF HandlesRight
<1>4. "hdr" \in DOMAIN open'[h]
    BY <1>1, <1>3 DEF Opened
<1>5. open'[h] # None
    BY <1>4, OpenedSome DEF Opened
<1>6. HandlesRight'
    BY <1>1, <1>2, <1>4 DEF HandlesRight, Opened
<1> QED BY <1>2, <1>5, <1>6

\* A handle is opened or closed.
LEMMA OneHandle ==
    ASSUME HandlesRight, NEW h \in Handle, NEW x, open' = [open EXCEPT ![h] = x],
           x = None \/ Opened(x)
    PROVE  HandlesRight' /\ open'[h] = x /\ \A g \in Handle \ {h} : open'[g] = open[g]
<1>1. DOMAIN open' = Handle /\ open'[h] = x /\ \A g \in Handle \ {h} : open'[g] = open[g]
    BY DEF HandlesRight
<1>2. \A g \in Handle : open'[g] = None \/ "hdr" \in DOMAIN open'[g]
    BY <1>1 DEF HandlesRight, Opened
<1> QED BY <1>1, <1>2 DEF HandlesRight, Opened

-----------------------------------------------------------------------------
\* A file of a program is opened and put in a free slot.
LEMMA PutKeeps ==
    ASSUME CallsInv, NEW p \in Process, NEW f \in UserHandle, open[f] = None,
           Slot(fileTable[p]) # -1, NEW x, Opened(x), open' = [open EXCEPT ![f] = x],
           fileTable' = [fileTable EXCEPT ![p] = Put(@, f)]
    PROVE  CallsInv'
<1>1. PICK t \in Table : t = fileTable[p]
    BY DEF CallsInv, TablesRight
<1>2. PICK s : s = Slot(t)
    OBVIOUS
<1>3. PICK u : u = Put(t, f)
    OBVIOUS
<1>4. /\ s \in OpenFileId /\ u \in Table /\ Get(t, s) = None /\ Get(u, s) = f
      /\ \A i \in OpenFileId : i # s => Get(u, i) = Get(t, i)
    BY <1>1, <1>2, <1>3, PutRight
<1>5. fileTable' = [fileTable EXCEPT ![p] = u]
    BY <1>1, <1>3
<1>6. TablesRight'
    BY <1>4, <1>5 DEF CallsInv, TablesRight
<1>7. /\ FileOf(p, s)' = f /\ FileOf(p, s) = None
      /\ \A q \in Process, j \in OpenFileId :
            ~(q = p /\ j = s) => FileOf(q, j)' = FileOf(q, j)
    BY <1>1, <1>4, <1>5 DEF CallsInv, TablesRight, FileOf
<1>8. f \in Handle /\ f # None
    BY FileCallsAssumption DEF UserHandle
<1>9. HandlesRight' /\ open'[f] = x /\ \A g \in Handle \ {f} : open'[g] = open[g]
    BY <1>8, OneHandle DEF CallsInv
<1>10. x # None
    BY OpenedSome
<1>11. \A q \in Process, j \in OpenFileId : FileOf(q, j) # f
    BY <1>8 DEF CallsInv, IdsOpen
<1>12. OneId'
  <2> SUFFICES ASSUME NEW q \in Process, NEW r \in Process,
                      NEW i \in OpenFileId, NEW j \in OpenFileId,
                      FileOf(q, i)' = FileOf(r, j)', FileOf(q, i)' # None
               PROVE  q = r /\ i = j
      BY DEF OneId
  <2>1. CASE (q = p /\ i = s) /\ (r = p /\ j = s)
      BY <2>1
  <2>2. CASE (q = p /\ i = s) /\ ~(r = p /\ j = s)
      BY <1>7, <1>11, <2>2
  <2>3. CASE ~(q = p /\ i = s) /\ (r = p /\ j = s)
      BY <1>7, <1>11, <2>3
  <2>4. CASE ~(q = p /\ i = s) /\ ~(r = p /\ j = s)
    <3>1. FileOf(q, i) = FileOf(r, j) /\ FileOf(q, i) # None
        BY <1>7, <2>4
    <3> QED BY <3>1 DEF CallsInv, OneId
  <2> QED BY <2>1, <2>2, <2>3, <2>4
<1>13. IdsOpen'
  <2> SUFFICES ASSUME NEW q \in Process, NEW j \in OpenFileId, NEW g, g = FileOf(q, j)', g # None
               PROVE  open'[g] # None
      BY DEF IdsOpen
  <2>1. CASE q = p /\ j = s
      BY <1>7, <1>9, <1>10, <2>1
  <2>2. CASE ~(q = p /\ j = s)
    <3>1. g = FileOf(q, j) /\ g # f
        BY <1>7, <1>11, <2>2
    <3>2. g \in Handle
        BY <3>1, GetType DEF CallsInv, UserHandle
    <3>3. open[g] # None
        BY <3>1 DEF CallsInv, IdsOpen
    <3> QED BY <1>9, <3>1, <3>2, <3>3
  <2> QED BY <2>1, <2>2
<1>14. OpenHasId'
  <2> SUFFICES ASSUME NEW g \in UserHandle, open'[g] # None
               PROVE  \E q \in Process, j \in OpenFileId : FileOf(q, j)' = g
      BY DEF OpenHasId
  <2>1. CASE g = f
      BY <1>4, <1>7, <2>1
  <2>2. CASE g # f
    <3>1. open[g] # None
        BY <1>9, <2>2 DEF UserHandle
    <3>2. PICK q \in Process, j \in OpenFileId : FileOf(q, j) = g
        BY <3>1 DEF CallsInv, OpenHasId
    <3>3. g # None
        BY FileCallsAssumption DEF UserHandle
    <3>4. FileOf(q, j)' = g
        BY <1>7, <3>2, <3>3
    <3> QED BY <3>4
  <2> QED BY <2>1, <2>2
<1> QED BY <1>6, <1>9, <1>12, <1>13, <1>14 DEF CallsInv

\* An id is given back, and the file it stood for, if any, is closed.
LEMMA UnmarkKeeps ==
    ASSUME CallsInv, NEW p \in Process, NEW id \in OpenFileId,
           fileTable' = [fileTable EXCEPT ![p] = Unmark(@, id)],
           open' = IF FileOf(p, id) = None THEN open ELSE [open EXCEPT ![FileOf(p, id)] = None]
    PROVE  CallsInv'
<1>1. PICK t \in Table : t = fileTable[p]
    BY DEF CallsInv, TablesRight
<1>2. PICK u : u = Unmark(t, id)
    OBVIOUS
<1>3. /\ u \in Table /\ Get(u, id) = None
      /\ \A i \in OpenFileId : i # id => Get(u, i) = Get(t, i)
    BY <1>2, UnmarkRight
<1>4. fileTable' = [fileTable EXCEPT ![p] = u]
    BY <1>1, <1>2
<1>5. TablesRight'
    BY <1>3, <1>4 DEF CallsInv, TablesRight
<1>6. /\ FileOf(p, id)' = None
      /\ \A q \in Process, j \in OpenFileId :
            ~(q = p /\ j = id) => FileOf(q, j)' = FileOf(q, j)
    BY <1>1, <1>3, <1>4 DEF CallsInv, TablesRight, FileOf
<1>7. PICK f \in {None} \cup UserHandle : f = FileOf(p, id)
    BY GetType DEF CallsInv
<1>8. open' = IF f = None THEN open ELSE [open EXCEPT ![f] = None]
    BY <1>7
<1>9. UserHandle \subseteq Handle /\ None \notin UserHandle
    BY FileCallsAssumption DEF UserHandle
<1>10. /\ HandlesRight' /\ \A g \in Handle \ {f} : open'[g] = open[g]
       /\ f # None => open'[f] = None
  <2>1. CASE f = None
      BY <1>8, <2>1 DEF CallsInv, HandlesRight
  <2>2. CASE f # None
    <3>1. f \in Handle /\ open' = [open EXCEPT ![f] = None]
        BY <1>8, <1>9, <2>2
    <3> QED BY <3>1, OneHandle DEF CallsInv
  <2> QED BY <2>1, <2>2
<1>11. OneId'
  <2> SUFFICES ASSUME NEW q \in Process, NEW r \in Process,
                      NEW i \in OpenFileId, NEW j \in OpenFileId,
                      FileOf(q, i)' = FileOf(r, j)', FileOf(q, i)' # None
               PROVE  q = r /\ i = j
      BY DEF OneId
  <2>1. FileOf(q, i) = FileOf(r, j) /\ FileOf(q, i) # None
      BY <1>6
  <2> QED BY <2>1 DEF CallsInv, OneId
<1>12. IdsOpen'
  <2> SUFFICES ASSUME NEW q \in Process, NEW j \in OpenFileId, NEW g, g = FileOf(q, j)', g # None
               PROVE  open'[g] # None
      BY DEF IdsOpen
  <2>1. ~(q = p /\ j = id)
      BY <1>6
  <2>2. g = FileOf(q, j)
      BY <1>6, <2>1
  <2>3. g # f
      BY <1>7, <2>1, <2>2 DEF CallsInv, OneId
  <2>4. g \in Handle
      BY <1>9, <2>2, GetType DEF CallsInv
  <2>5. open[g] # None
      BY <2>2 DEF CallsInv, IdsOpen
  <2> QED BY <1>10, <2>3, <2>4, <2>5
<1>13. OpenHasId'
  <2> SUFFICES ASSUME NEW g \in UserHandle, open'[g] # None
               PROVE  \E q \in Process, j \in OpenFileId : FileOf(q, j)' = g
      BY DEF OpenHasId
  <2>1. g # f /\ g \in Handle /\ g # None
      BY <1>9, <1>10
  <2>2. open[g] # None
      BY <1>10, <2>1
  <2>3. PICK q \in Process, j \in OpenFileId : FileOf(q, j) = g
      BY <2>2 DEF CallsInv, OpenHasId
  <2>4. ~(q = p /\ j = id)
      BY <1>7, <2>1, <2>3
  <2>5. FileOf(q, j)' = g
      BY <1>6, <2>3, <2>4
  <2> QED BY <2>5
<1> QED BY <1>5, <1>10, <1>11, <1>12, <1>13 DEF CallsInv

-----------------------------------------------------------------------------
\* Read moves the position of the file and leaves it open.
LEMMA ReadMoves ==
    ASSUME NEW h, NEW n, Read(h, n)
    PROVE  open[h] # None /\ \E x : open' = [open EXCEPT ![h].seekPosition = x]
BY Zenon DEF Read

\* Write moves the position of the file too.
LEMMA WriteMoves ==
    ASSUME NEW h, NEW b, NEW n, Write(h, b, n)
    PROVE  open[h] # None /\ \E x : open' = [open EXCEPT ![h].seekPosition = x]
BY Zenon DEF Write

\* Create and Remove open and close nothing.
LEMMA ManageOpens ==
    ASSUME NEW name, Manage(name)
    PROVE  open' = open
BY DEF Manage, Remove, Create

\* Open takes a handle that is free.
LEMMA OpenOpens ==
    ASSUME NEW h, NEW name, Open(h, name)
    PROVE  open[h] = None /\ \E x : Opened(x) /\ open' = [open EXCEPT ![h] = x]
BY NewOpened, Zenon DEF Open

\* The kernel's use of its own files.
LEMMA UseKeeps ==
    ASSUME CallsInv, NEW h \in KernelHandle, Use(h), fileTable' = fileTable
    PROVE  CallsInv'
<1>1. h \in Handle /\ UserHandle \subseteq Handle \ {h}
    BY FileCallsAssumption DEF UserHandle
<1>2. HandlesRight
    BY DEF CallsInv
<1>3. ASSUME NEW x, x = None \/ Opened(x), open' = [open EXCEPT ![h] = x]
      PROVE  CallsInv'
  <2>1. HandlesRight' /\ \A g \in Handle \ {h} : open'[g] = open[g]
      BY <1>1, <1>2, <1>3, OneHandle
  <2>2. \A g \in UserHandle : open'[g] = None <=> open[g] = None
      BY <1>1, <2>1
  <2> QED BY <2>1, <2>2, SameFiles
<1>4. ASSUME NEW x, open[h] # None, open' = [open EXCEPT ![h].seekPosition = x]
      PROVE  CallsInv'
  <2>1. HandlesRight' /\ \A g \in Handle : open'[g] = None <=> open[g] = None
      BY <1>1, <1>2, <1>4, Moved
  <2>2. \A g \in UserHandle : open'[g] = None <=> open[g] = None
      BY <1>1, <2>1
  <2> QED BY <2>1, <2>2, SameFiles
<1>5. ASSUME NEW name, Open(h, name) PROVE CallsInv'
    BY <1>3, <1>5, OpenOpens
<1>6. CASE Close(h)
    BY <1>3, <1>6 DEF Close
<1>7. ASSUME NEW q, Seek(h, q) PROVE CallsInv'
    BY <1>4, <1>7, Zenon DEF Seek
<1>8. ASSUME NEW q, Read(h, q) PROVE CallsInv'
    BY <1>4, <1>8, ReadMoves
<1>9. ASSUME NEW b, NEW n, Write(h, b, n) PROVE CallsInv'
    BY <1>4, <1>9, WriteMoves
<1> QED BY <1>5, <1>6, <1>7, <1>8, <1>9 DEF Use

\* Files that stay open while a program reads or writes one of them.
LEMMA ProgramMoves ==
    ASSUME CallsInv, NEW p \in Process, NEW id \in OpenFileId, FileOf(p, id) # None,
           fileTable' = fileTable,
           \E x : open' = [open EXCEPT ![FileOf(p, id)].seekPosition = x]
    PROVE  CallsInv'
<1>1. PICK f \in UserHandle : f = FileOf(p, id)
    BY GetType DEF CallsInv
<1>2. f \in Handle /\ UserHandle \subseteq Handle
    BY DEF UserHandle
<1>3. PICK x : open' = [open EXCEPT ![f].seekPosition = x]
    BY <1>1, Zenon
<1>4. open[f] # None /\ HandlesRight
    BY <1>1 DEF CallsInv, IdsOpen
<1>5. HandlesRight' /\ \A g \in Handle : open'[g] = None <=> open[g] = None
    BY <1>2, <1>3, <1>4, Moved
<1>6. \A g \in UserHandle : open'[g] = None <=> open[g] = None
    BY <1>2, <1>5
<1> QED BY <1>5, <1>6, SameFiles

\* Nothing is opened or closed.
LEMMA NothingOpens ==
    ASSUME CallsInv, open' = open, fileTable' = fileTable
    PROVE  CallsInv'
<1>1. HandlesRight'
    BY DEF CallsInv, HandlesRight
<1> QED BY <1>1, SameFiles

\* A step of a program.
LEMMA ProgramKeeps ==
    ASSUME CallsInv, NEW p \in Process, Program(p)
    PROVE  CallsInv'
<1>1. ASSUME NEW name, Create_Syscall(name) PROVE CallsInv'
    BY <1>1, NothingOpens DEF Create_Syscall, Create
<1>2. ASSUME NEW name, Open_Syscall(p, name) PROVE CallsInv'
  <2>1. CASE UNCHANGED <<open, fileTable>>
      BY <2>1, NothingOpens
  <2>2. ASSUME NEW f \in UserHandle, Slot(fileTable[p]) # -1, Open(f, name),
               fileTable' = [fileTable EXCEPT ![p] = Put(@, f)]
        PROVE  CallsInv'
    <3>1. PICK x : Opened(x) /\ open' = [open EXCEPT ![f] = x]
        BY <2>2, OpenOpens, Zenon
    <3>2. open[f] = None
        BY <2>2, OpenOpens, Zenon
    <3> QED BY <2>2, <3>1, <3>2, PutKeeps
  <2> QED BY <1>2, <2>1, <2>2 DEF Open_Syscall
<1>3. ASSUME NEW id \in OpenFileId, Close_Syscall(p, id) PROVE CallsInv'
  <2>1. fileTable' = [fileTable EXCEPT ![p] = Unmark(@, id)]
      BY <1>3 DEF Close_Syscall
  <2>2. open' = IF FileOf(p, id) = None THEN open ELSE [open EXCEPT ![FileOf(p, id)] = None]
      BY <1>3 DEF Close_Syscall, FileOf, Close
  <2> QED BY <2>1, <2>2, UnmarkKeeps
<1>4. ASSUME NEW id \in OpenFileId, NEW n, Read_Syscall(p, n, id) PROVE CallsInv'
  <2>1. FileOf(p, id) # None /\ Read(FileOf(p, id), n) /\ fileTable' = fileTable
      BY <1>4 DEF Read_Syscall, FileOf
  <2>2. \E x : open' = [open EXCEPT ![FileOf(p, id)].seekPosition = x]
      BY <2>1, ReadMoves, Zenon
  <2> QED BY <2>1, <2>2, ProgramMoves
<1>5. ASSUME NEW id \in OpenFileId, NEW n, NEW b, Write_Syscall(p, b, n, id) PROVE CallsInv'
  <2>1. FileOf(p, id) # None /\ Write(FileOf(p, id), b, n) /\ fileTable' = fileTable
      BY <1>5 DEF Write_Syscall, FileOf
  <2>2. \E x : open' = [open EXCEPT ![FileOf(p, id)].seekPosition = x]
      BY <2>1, WriteMoves, Zenon
  <2> QED BY <2>1, <2>2, ProgramMoves
<1> QED BY <1>1, <1>2, <1>3, <1>4, <1>5 DEF Program

(***************************************************************************)
(* CallsInv is an invariant of the file system calls: the tables hold open *)
(* files of programs, each in one slot, and every open file of a program   *)
(* is in a slot; Restart, the kernel's own files and every system call     *)
(* keep this.                                                              *)
(***************************************************************************)
THEOREM FileCallsInvariance == CallsSpec => []CallsInv
<1>1. CallsInit => CallsInv
    BY FreshRight DEF CallsInit, Init, Fresh
<1>2. CallsInv /\ [CallsNext]_<<vars, fileTable>> => CallsInv'
  <2> SUFFICES ASSUME CallsInv, [CallsNext]_<<vars, fileTable>> PROVE CallsInv'
      OBVIOUS
  <2>1. CASE Restart /\ fileTable' = [p \in Process |-> NewTable]
    <3>1. Fresh'
        BY <2>1 DEF Restart, Fresh
    <3> QED BY <3>1, FreshRight, PTL
  <2>2. ASSUME NEW name, Manage(name), UNCHANGED fileTable PROVE CallsInv'
      BY <2>2, ManageOpens, NothingOpens
  <2>3. ASSUME NEW h \in KernelHandle, Use(h), UNCHANGED fileTable PROVE CallsInv'
      BY <2>3, UseKeeps
  <2>4. ASSUME NEW p \in Process, Program(p) PROVE CallsInv'
      BY <2>4, ProgramKeeps
  <2>5. CASE UNCHANGED <<vars, fileTable>>
      BY <2>5, NothingOpens DEF vars
  <2> QED BY <2>1, <2>2, <2>3, <2>4, <2>5 DEF CallsNext
<1> QED BY <1>1, <1>2, PTL DEF CallsSpec

(***************************************************************************)
(* Whatever programs and kernel do with the file system calls, an open     *)
(* file of a program is in one slot of one table, and no slot gives out a  *)
(* closed one (Open_Syscall and Close_Syscall, exception.cc).              *)
(***************************************************************************)
THEOREM OpenFilesAreOwned == CallsSpec => []OpenFilesOwned
<1>1. CallsInv => OpenFilesOwned
  <2> SUFFICES ASSUME CallsInv, NEW f \in UserHandle
               PROVE  Cardinality({s \in Process \X OpenFileId : Get(fileTable[s[1]], s[2]) = f})
                        = IF open[f] = None THEN 0 ELSE 1
      BY DEF OpenFilesOwned
  <2>1. PICK T : T = {s \in Process \X OpenFileId : Get(fileTable[s[1]], s[2]) = f}
      OBVIOUS
  <2>2. f # None
      BY FileCallsAssumption DEF UserHandle
  <2>3. \A s \in T : s[1] \in Process /\ s[2] \in OpenFileId /\ FileOf(s[1], s[2]) = f
                     /\ s = <<s[1], s[2]>>
      BY <2>1 DEF FileOf
  <2>4. \A p \in Process, i \in OpenFileId : FileOf(p, i) = f => <<p, i>> \in T
      BY <2>1 DEF FileOf
  <2>5. CASE open[f] = None
    <3>1. T = {}
        BY <2>2, <2>3, <2>5 DEF CallsInv, IdsOpen
    <3> QED BY <2>1, <2>5, <3>1, FS_EmptySet
  <2>6. CASE open[f] # None
    <3>1. PICK p \in Process, i \in OpenFileId : FileOf(p, i) = f
        BY <2>6 DEF CallsInv, OpenHasId
    <3>2. <<p, i>> \in T
        BY <2>4, <3>1
    <3>3. ASSUME NEW s \in T PROVE s = <<p, i>>
      <4>1. PICK q \in Process, j \in OpenFileId : q = s[1] /\ j = s[2]
          BY <2>3
      <4>2. FileOf(q, j) = f /\ s = <<q, j>>
          BY <2>3, <4>1
      <4>3. q = p /\ j = i
          BY <2>2, <3>1, <4>2 DEF CallsInv, OneId
      <4> QED BY <4>2, <4>3
    <3>4. T = {<<p, i>>}
        BY <3>2, <3>3
    <3>5. Cardinality(T) = 1
        BY <3>4, FS_Singleton
    <3> QED BY <2>1, <2>6, <3>5
  <2> QED BY <2>5, <2>6
<1> QED BY <1>1, FileCallsInvariance, PTL

-----------------------------------------------------------------------------
(***************************************************************************)
(* The disk.  SpaceInv says what SpaceAccounted does, with what makes it   *)
(* inductive: the entries of the directory name different files, and the   *)
(* header of each lists as many sectors as its size asks for.              *)
(***************************************************************************)
HeaderRight(hdr) ==
    /\ hdr.numBytes \in Sizes
    /\ hdr.dataSectors \in [1 .. divRoundUp(hdr.numBytes, SectorSize) -> Sector]

HeaderOf(i) == header[table[i].sector]
Owned(i) == {table[i].sector} \cup Range(HeaderOf(i).dataSectors)

DirectoryRight ==
    /\ DOMAIN table = 1 .. NumDirEntries /\ DOMAIN header = Sector
    /\ \A i \in InUse :
          table[i].name \in Name /\ table[i].sector \in Sector /\ HeaderRight(HeaderOf(i))
    /\ \A i, j \in InUse : table[i].name = table[j].name => i = j

MapRight ==
    /\ freeMap \subseteq Sector
    /\ \A s \in Sector : s \in freeMap <=> s \in System \/ \E i \in InUse : s \in Owned(i)

SectorsApart ==
    /\ \A i \in InUse : Owned(i) \cap System = {}
    /\ \A i, j \in InUse : i # j => Owned(i) \cap Owned(j) = {}
    /\ \A i \in InUse : /\ table[i].sector \notin Range(HeaderOf(i).dataSectors)
                        /\ IsInjective(HeaderOf(i).dataSectors)

SpaceInv == DirectoryRight /\ MapRight /\ SectorsApart

BlocksRight == block \in [Sector -> [1 .. SectorSize -> Byte \cup {Junk}]]

\* An open file has the header of the entry with its name.
FileRight(f) ==
    /\ f = [hdr |-> f.hdr, seekPosition |-> f.seekPosition, name |-> f.name]
    /\ f.seekPosition \in Nat
    /\ \E i \in InUse : f.name = table[i].name /\ f.hdr = HeaderOf(i)

OpenRight == \A h \in Handle : open[h] # None => FileRight(open[h])

\* The constants that are numbers, and the sectors.
LEMMA FileNumbers ==
    /\ NumSectors \in Nat \ {0} /\ SectorSize \in Nat \ {0} /\ NumDirEntries \in Nat \ {0}
    /\ MaxPos \in Nat /\ Sizes \subseteq Nat
    /\ System \subseteq Sector /\ Sector \subseteq Nat
<1>1. {NumSectors, SectorSize, NumDirEntries, MaxPos} \subseteq Nat \ {0}
    BY FileSystemAssumption
<1>2. NumSectors \in Nat \ {0} /\ SectorSize \in Nat \ {0} /\ NumDirEntries \in Nat \ {0}
      /\ MaxPos \in Nat
    BY <1>1
<1>3. Sizes \subseteq Nat
    BY FileSystemAssumption
<1>4. MapSectors \in Nat /\ DirSectors \in Nat /\ 2 + MapSectors + DirSectors =< NumSectors
    BY FileSystemAssumption
<1>5. System \subseteq Sector /\ Sector \subseteq Nat
    BY <1>2, <1>4 DEF System, Sector
<1> QED BY <1>2, <1>3, <1>5

\* The clear sectors are finitely many.
LEMMA ClearFinite ==
    ASSUME NEW map
    PROVE  /\ Clear(map) \subseteq Sector /\ Clear(map) \in SUBSET Nat
           /\ IsFiniteSet(Clear(map)) /\ NumClear(map) \in Nat
<1>1. NumSectors \in Nat \ {0} /\ Sector \subseteq Nat
    BY FileNumbers
<1>2. IsFiniteSet(Sector)
    BY <1>1, FS_Interval DEF Sector
<1>3. Clear(map) \subseteq Sector /\ Clear(map) \in SUBSET Nat
    BY <1>1 DEF Clear
<1>4. IsFiniteSet(Clear(map))
    BY <1>2, <1>3, FS_Subset
<1> QED BY <1>3, <1>4, FS_CardinalityType DEF NumClear

\* Every rank below the number of elements is the rank of one of them.
LEMMA RankExists ==
    ASSUME NEW C \in SUBSET Nat, IsFiniteSet(C), NEW k \in Nat, k < Cardinality(C)
    PROVE  \E s \in C : Cardinality({r \in C : r < s}) = k
<1>1. PICK n \in Nat : n = Cardinality(C)
    BY FS_CardinalityType
<1>2. PICK rank : rank = [s \in C |-> Cardinality({r \in C : r < s})]
    OBVIOUS
<1>3. ASSUME NEW s \in C PROVE rank[s] \in 0 .. n - 1 /\ IsFiniteSet({r \in C : r < s})
  <2>1. PICK B : B = {r \in C : r < s}
      OBVIOUS
  <2>2. B \subseteq C \ {s}
      BY <2>1
  <2>3. IsFiniteSet(C \ {s}) /\ Cardinality(C \ {s}) = n - 1
      BY <1>1, FS_RemoveElement
  <2>4. PICK D : D = C \ {s}
      OBVIOUS
  <2>5. IsFiniteSet(B) /\ Cardinality(B) =< Cardinality(D)
      BY <2>2, <2>3, <2>4, FS_Subset
  <2>6. Cardinality(B) \in Nat
      BY <2>5, FS_CardinalityType
  <2>7. Cardinality(B) \in 0 .. n - 1
      BY <2>3, <2>4, <2>5, <2>6
  <2> QED BY <1>2, <2>1, <2>5, <2>7
<1>4. ASSUME NEW s \in C, NEW t \in C, s < t PROVE rank[s] < rank[t]
  <2>1. PICK A : A = {r \in C : r < s}
      OBVIOUS
  <2>2. PICK B : B = {r \in C : r < t}
      OBVIOUS
  <2>3. IsFiniteSet(A) /\ IsFiniteSet(B)
      BY <1>3, <2>1, <2>2
  <2>4. A \subseteq B /\ s \in B /\ s \notin A
    <3>1. s \in Nat /\ t \in Nat /\ ~(s < s) /\ \A r \in Nat : r < s => r < t
        BY <1>4
    <3> QED BY <1>4, <2>1, <2>2, <3>1
  <2>5. Cardinality(A) =< Cardinality(B) /\ (Cardinality(A) = Cardinality(B) => A = B)
      BY <2>3, <2>4, FS_Subset
  <2>6. Cardinality(A) \in Nat /\ Cardinality(B) \in Nat
      BY <2>3, FS_CardinalityType
  <2>7. Cardinality(A) < Cardinality(B)
      BY <2>4, <2>5, <2>6
  <2> QED BY <1>2, <2>1, <2>2, <2>7
<1>5. PICK T : T = 0 .. n - 1
    OBVIOUS
<1>6. rank \in [C -> T]
    BY <1>2, <1>3, <1>5
<1>7. \A s, t \in C : rank[s] = rank[t] => s = t
  <2> SUFFICES ASSUME NEW s \in C, NEW t \in C, rank[s] = rank[t] PROVE s = t
      OBVIOUS
  <2>1. PICK x \in Int : x = rank[s] /\ x = rank[t]
    <3>1. rank[s] \in 0 .. n - 1
        BY <1>3
    <3>2. rank[s] \in Int
        BY <3>1
    <3> QED BY <3>2
  <2>2. ~(x < x) /\ s \in Nat /\ t \in Nat
      OBVIOUS
  <2>3. ~(s < t) /\ ~(t < s)
      BY <1>4, <2>1, <2>2
  <2> QED BY <2>2, <2>3
<1>8. rank \in Injection(C, T)
    BY <1>6, <1>7 DEF Injection, IsInjective
<1>9. IsFiniteSet(T) /\ Cardinality(T) = n
    BY <1>1, <1>5, FS_Interval
<1>10. rank \in Surjection(C, T)
    BY <1>1, <1>8, <1>9, FS_Injection
<1>11. k \in T
    BY <1>1, <1>5
<1>12. PICK s \in C : rank[s] = k
    BY <1>10, <1>11 DEF Surjection
<1> QED BY <1>2, <1>12

\* When there are enough, n calls of Find return n different clear sectors.
LEMMA FindsRight ==
    ASSUME NEW map, NEW n \in Nat, NumClear(map) >= n
    PROVE  Finds(map, n) \in [1 .. n -> Clear(map)] /\ IsInjective(Finds(map, n))
<1>1. PICK C : C = Clear(map)
    OBVIOUS
<1>2. C \in SUBSET Nat /\ IsFiniteSet(C) /\ Cardinality(C) \in Nat /\ Cardinality(C) >= n
    BY <1>1, ClearFinite DEF NumClear
<1>3. PICK f : f = [k \in 1 .. n |-> CHOOSE s \in C : Cardinality({r \in C : r < s}) = k - 1]
    OBVIOUS
<1>4. ASSUME NEW k \in 1 .. n
      PROVE  f[k] \in C /\ Cardinality({r \in C : r < f[k]}) = k - 1
  <2>1. k - 1 \in Nat /\ k - 1 < Cardinality(C)
      BY <1>2
  <2>2. \E s \in C : Cardinality({r \in C : r < s}) = k - 1
      BY <1>2, <2>1, RankExists
  <2>3. f[k] = CHOOSE s \in C : Cardinality({r \in C : r < s}) = k - 1
      BY <1>3
  <2> QED BY <2>2, <2>3
<1>5. f \in [1 .. n -> C]
    BY <1>3, <1>4
<1>6. ASSUME NEW a \in 1 .. n, NEW b \in 1 .. n, f[a] = f[b] PROVE a = b
  <2>1. a - 1 = b - 1
      BY <1>4, <1>6
  <2> QED BY <2>1
<1>7. IsInjective(f)
    BY <1>5, <1>6 DEF IsInjective
<1>8. f = Finds(map, n)
    BY <1>1, <1>3 DEF Finds
<1> QED BY <1>1, <1>5, <1>7, <1>8

\* Find returns a clear sector.
LEMMA FindRight ==
    ASSUME NEW map, Find(map) # -1
    PROVE  Find(map) \in Clear(map)
<1>1. Clear(map) \in SUBSET Nat
    BY ClearFinite
<1>2. Clear(map) # {} /\ Find(map) = Min(Clear(map))
    BY DEF Find
<1> QED BY <1>1, <1>2, MinIn

\* The first of a set of entries is one of them.
LEMMA FirstOfRight ==
    ASSUME NEW T \in SUBSET (Nat \ {0})
    PROVE  (FirstOf(T) = 0 <=> T = {}) /\ (T # {} => FirstOf(T) \in T)
<1>1. T \in SUBSET Nat
    OBVIOUS
<1>2. T # {} => Min(T) \in T
    BY <1>1, MinIn
<1>3. 0 \notin T
    OBVIOUS
<1> QED BY <1>2, <1>3 DEF FirstOf

\* The entry of a file.
LEMMA FindIndexRight ==
    ASSUME DirectoryRight, NEW name
    PROVE  /\ FindIndex(name) = 0 <=> \A i \in InUse : table[i].name # name
           /\ \A i \in InUse : table[i].name = name => FindIndex(name) = i
           /\ FindIndex(name) # 0 => FindIndex(name) \in InUse
                                     /\ table[FindIndex(name)].name = name
<1>1. PICK T : T = {i \in DOMAIN table : table[i].inUse /\ table[i].name = name}
    OBVIOUS
<1>2. T = {i \in InUse : table[i].name = name} /\ T \in SUBSET (Nat \ {0})
    BY <1>1 DEF InUse, DirectoryRight
<1>3. FindIndex(name) = FirstOf(T)
    BY <1>1 DEF FindIndex
<1>4. (FirstOf(T) = 0 <=> T = {}) /\ (T # {} => FirstOf(T) \in T)
    BY <1>2, FirstOfRight
<1>5. \A i, j \in T : i = j
    BY <1>2 DEF DirectoryRight
<1> QED BY <1>2, <1>3, <1>4, <1>5

\* ... and its header's sector.
LEMMA FindSectorRight ==
    ASSUME DirectoryRight, NEW name
    PROVE  /\ FindSector(name) = -1 <=> \A i \in InUse : table[i].name # name
           /\ \A i \in InUse : table[i].name = name => FindSector(name) = table[i].sector
<1>1. /\ FindIndex(name) = 0 <=> \A i \in InUse : table[i].name # name
      /\ \A i \in InUse : table[i].name = name => FindIndex(name) = i
      /\ FindIndex(name) # 0 => FindIndex(name) \in InUse
    BY FindIndexRight
<1>2. \A i \in InUse : table[i].sector # -1 /\ i # 0
    BY FileNumbers DEF DirectoryRight, InUse
<1> QED BY <1>1, <1>2 DEF FindSector

\* A free entry.
LEMMA FreeIndexRight ==
    ASSUME DirectoryRight, FreeIndex # 0
    PROVE  FreeIndex \in (1 .. NumDirEntries) \ InUse
<1>1. PICK T : T = {i \in DOMAIN table : ~table[i].inUse}
    OBVIOUS
<1>2. T \in SUBSET (Nat \ {0}) /\ T = (1 .. NumDirEntries) \ InUse
    BY <1>1 DEF InUse, DirectoryRight
<1>3. FreeIndex = FirstOf(T)
    BY <1>1 DEF FreeIndex
<1> QED BY <1>2, <1>3, FirstOfRight

\* Sizes are rounded up to sectors.
LEMMA SectorsForSize ==
    ASSUME NEW size \in Sizes
    PROVE  divRoundUp(size, SectorSize) \in Nat
<1>1. size \in Nat /\ SectorSize \in Nat \ {0}
    BY FileNumbers
<1>2. size \div SectorSize \in Nat
    BY <1>1
<1> QED BY <1>2 DEF divRoundUp

-----------------------------------------------------------------------------
\* An entry whose header does not change keeps its sectors.
LEMMA SameEntry ==
    ASSUME NEW i, table'[i] = table[i], header'[table[i].sector] = header[table[i].sector]
    PROVE  HeaderOf(i)' = HeaderOf(i) /\ Owned(i)' = Owned(i)
<1>1. HeaderOf(i)' = HeaderOf(i)
    BY DEF HeaderOf
<1> QED BY <1>1 DEF Owned

\* Sectors of files are marked.
LEMMA OwnedMarked ==
    ASSUME DirectoryRight, MapRight, NEW i \in InUse
    PROVE  /\ Owned(i) \subseteq Sector /\ Owned(i) \subseteq freeMap
           /\ table[i].sector \in freeMap
<1>1. table[i].sector \in Sector /\ HeaderRight(HeaderOf(i))
    BY DEF DirectoryRight
<1>2. Range(HeaderOf(i).dataSectors) \subseteq Sector
    BY <1>1 DEF HeaderRight, Range
<1>3. Owned(i) \subseteq Sector
    BY <1>1, <1>2 DEF Owned
<1>4. Owned(i) \subseteq freeMap
    BY <1>3 DEF MapRight
<1> QED BY <1>3, <1>4 DEF Owned

\* What Create writes when it does not fail: the header hdr into a free sector, a free entry f.
Created(name, size, hdr, f, sector) ==
    /\ HeaderRight(hdr) /\ hdr.numBytes = size
    /\ IsInjective(hdr.dataSectors)
    /\ Range(hdr.dataSectors) \subseteq Clear(freeMap \cup {sector})
    /\ \A i \in InUse : table[i].name # name
    /\ header' = [header EXCEPT ![sector] = hdr]
    /\ table' = [table EXCEPT ![f] = [inUse |-> TRUE, name |-> name, sector |-> sector]]
    /\ freeMap' = freeMap \cup {sector} \cup Range(hdr.dataSectors)
    /\ f \in (1 .. NumDirEntries) \ InUse /\ sector \in Clear(freeMap)

\* Create does that.
LEMMA CreateMakes ==
    ASSUME DirectoryRight, NEW name, NEW size \in Sizes, Create(name, size),
           ~CreateFails(name, size)
    PROVE  \E hdr, f, sector : Created(name, size, hdr, f, sector)
<1>1. PICK sector : sector = Find(freeMap)
    OBVIOUS
<1>2. PICK n \in Nat : n = divRoundUp(size, SectorSize)
    BY SectorsForSize
<1>3. PICK map : map = freeMap \cup {sector}
    OBVIOUS
<1>4. PICK hdr : hdr = Allocate(map, size)
    OBVIOUS
<1>5. PICK f : f = FreeIndex
    OBVIOUS
<1>6. /\ FindSector(name) = -1 /\ sector # -1 /\ f # 0 /\ ~(NumClear(map) < n)
    BY <1>1, <1>2, <1>3, <1>5 DEF CreateFails
<1>7. /\ header' = [header EXCEPT ![sector] = hdr]
      /\ table' = [table EXCEPT ![f] = [inUse |-> TRUE, name |-> name, sector |-> sector]]
      /\ freeMap' = freeMap \cup {sector} \cup Range(hdr.dataSectors)
    BY <1>1, <1>3, <1>4, <1>5 DEF Create, Add
<1>8. sector \in Clear(freeMap)
    BY <1>1, <1>6, FindRight
<1>9. f \in (1 .. NumDirEntries) \ InUse
    BY <1>5, <1>6, FreeIndexRight
<1>10. hdr = [numBytes |-> size, dataSectors |-> Finds(map, n)]
    BY <1>2, <1>4 DEF Allocate
<1>11. hdr.numBytes = size /\ hdr.dataSectors = Finds(map, n)
    BY <1>10
<1>12. NumClear(map) >= n
  <2>1. NumClear(map) \in Nat
      BY ClearFinite
  <2> QED BY <1>6, <2>1
<1>13. hdr.dataSectors \in [1 .. n -> Clear(map)] /\ IsInjective(hdr.dataSectors)
    BY <1>11, <1>12, FindsRight
<1>14. HeaderRight(hdr)
  <2>1. Clear(map) \subseteq Sector
      BY DEF Clear
  <2>2. hdr.dataSectors \in [1 .. n -> Sector]
      BY <1>13, <2>1
  <2> QED BY <1>2, <1>11, <2>2 DEF HeaderRight
<1>15. Range(hdr.dataSectors) \subseteq Clear(map)
    BY <1>13 DEF Range
<1>16. \A i \in InUse : table[i].name # name
    BY <1>6, FindSectorRight
<1>17. Created(name, size, hdr, f, sector)
    BY <1>3, <1>7, <1>8, <1>9, <1>11, <1>13, <1>14, <1>15, <1>16 DEF Created
<1> QED BY <1>17

\* The entries of the directory then: the new one, and the others as they were.
LEMMA CreatedEntries ==
    ASSUME SpaceInv, NEW name, NEW size, NEW hdr, NEW f, NEW sector,
           Created(name, size, hdr, f, sector)
    PROVE  /\ DOMAIN table' = 1 .. NumDirEntries /\ DOMAIN header' = Sector
           /\ table'[f].name = name /\ table'[f].sector = sector /\ sector \in Sector
           /\ InUse' = InUse \cup {f} /\ f \notin InUse
           /\ HeaderOf(f)' = hdr /\ Owned(f)' = {sector} \cup Range(hdr.dataSectors)
           /\ sector \notin Range(hdr.dataSectors) /\ Owned(f)' \cap freeMap = {}
           /\ Owned(f)' \subseteq Sector
           /\ \A i \in InUse :
                table'[i] = table[i] /\ HeaderOf(i)' = HeaderOf(i) /\ Owned(i)' = Owned(i)
<1>1. DirectoryRight /\ MapRight /\ SectorsApart
    BY DEF SpaceInv
<1>2. /\ HeaderRight(hdr) /\ IsInjective(hdr.dataSectors)
      /\ Range(hdr.dataSectors) \subseteq Clear(freeMap \cup {sector})
      /\ \A i \in InUse : table[i].name # name
      /\ header' = [header EXCEPT ![sector] = hdr]
      /\ table' = [table EXCEPT ![f] = [inUse |-> TRUE, name |-> name, sector |-> sector]]
      /\ freeMap' = freeMap \cup {sector} \cup Range(hdr.dataSectors)
      /\ f \in (1 .. NumDirEntries) \ InUse /\ sector \in Clear(freeMap)
    BY DEF Created
<1>3. sector \in Sector /\ sector \notin freeMap /\ Range(hdr.dataSectors) \subseteq Sector
      /\ Range(hdr.dataSectors) \cap freeMap = {} /\ sector \notin Range(hdr.dataSectors)
    BY <1>2 DEF Clear
<1>4. DOMAIN table = 1 .. NumDirEntries /\ DOMAIN header = Sector
    BY <1>1 DEF DirectoryRight
<1>5. /\ DOMAIN table' = 1 .. NumDirEntries /\ DOMAIN header' = Sector
      /\ table'[f] = [inUse |-> TRUE, name |-> name, sector |-> sector] /\ header'[sector] = hdr
      /\ \A i \in 1 .. NumDirEntries : i # f => table'[i] = table[i]
      /\ \A s \in Sector : s # sector => header'[s] = header[s]
    BY <1>2, <1>3, <1>4
<1>6. table'[f].inUse /\ table'[f].name = name /\ table'[f].sector = sector
    BY <1>5
<1>7. InUse' = InUse \cup {f} /\ f \notin InUse
    BY <1>2, <1>5, <1>6 DEF InUse
<1>8. ASSUME NEW i \in InUse
      PROVE  table'[i] = table[i] /\ HeaderOf(i)' = HeaderOf(i) /\ Owned(i)' = Owned(i)
  <2>1. i \in 1 .. NumDirEntries /\ i # f
      BY <1>7 DEF InUse
  <2>2. table'[i] = table[i]
      BY <1>5, <2>1
  <2>3. table[i].sector \in Sector /\ table[i].sector # sector
      BY <1>1, <1>3, OwnedMarked DEF DirectoryRight
  <2>4. header'[table[i].sector] = header[table[i].sector]
      BY <1>5, <2>3
  <2> QED BY <2>2, <2>4, SameEntry
<1>9. HeaderOf(f)' = hdr /\ Owned(f)' = {sector} \cup Range(hdr.dataSectors)
  <2>1. HeaderOf(f)' = hdr
      BY <1>5, <1>6 DEF HeaderOf
  <2> QED BY <1>6, <2>1 DEF Owned
<1>10. Owned(f)' \cap freeMap = {} /\ Owned(f)' \subseteq Sector
    BY <1>3, <1>9
<1> QED BY <1>3, <1>5, <1>6, <1>7, <1>8, <1>9, <1>10

\* Create gives a new file sectors that were free.
LEMMA CreateKeepsSpace ==
    ASSUME SpaceInv, NEW name \in Name, NEW size \in Sizes, Create(name, size),
           ~CreateFails(name, size)
    PROVE  SpaceInv'
<1>1. DirectoryRight /\ MapRight /\ SectorsApart
    BY DEF SpaceInv
<1>2. PICK hdr, f, sector : Created(name, size, hdr, f, sector)
    BY <1>1, CreateMakes
<1>3. /\ HeaderRight(hdr) /\ IsInjective(hdr.dataSectors)
      /\ \A i \in InUse : table[i].name # name
      /\ freeMap' = freeMap \cup {sector} \cup Range(hdr.dataSectors)
    BY <1>2 DEF Created
<1>4. /\ DOMAIN table' = 1 .. NumDirEntries /\ DOMAIN header' = Sector
      /\ table'[f].name = name /\ table'[f].sector = sector /\ sector \in Sector
    BY <1>2, CreatedEntries
<1>5. InUse' = InUse \cup {f} /\ f \notin InUse
    BY <1>2, CreatedEntries
<1>6. /\ HeaderOf(f)' = hdr /\ Owned(f)' = {sector} \cup Range(hdr.dataSectors)
      /\ sector \notin Range(hdr.dataSectors) /\ Owned(f)' \cap freeMap = {}
      /\ Owned(f)' \subseteq Sector
    BY <1>2, CreatedEntries
<1>7. \A i \in InUse :
        table'[i] = table[i] /\ HeaderOf(i)' = HeaderOf(i) /\ Owned(i)' = Owned(i)
    BY <1>2, CreatedEntries
<1>8. DirectoryRight'
  <2>1. ASSUME NEW i \in InUse'
        PROVE  table'[i].name \in Name /\ table'[i].sector \in Sector /\ HeaderRight(HeaderOf(i)')
    <3>1. CASE i = f
        BY <1>3, <1>6, <1>4, <3>1
    <3>2. CASE i \in InUse
        BY <1>1, <1>7, <3>2 DEF DirectoryRight
    <3> QED BY <1>5, <3>1, <3>2
  <2>2. ASSUME NEW i \in InUse', NEW j \in InUse', table'[i].name = table'[j].name
        PROVE  i = j
      BY <1>1, <1>3, <1>4, <1>5, <1>7, <2>2 DEF DirectoryRight
  <2> QED BY <1>4, <2>1, <2>2 DEF DirectoryRight, HeaderRight
<1>9. MapRight'
  <2>1. freeMap' \subseteq Sector
      BY <1>1, <1>3, <1>6 DEF MapRight
  <2>2. ASSUME NEW s \in Sector
        PROVE  s \in freeMap' <=> s \in System \/ \E i \in InUse' : s \in Owned(i)'
    <3>1. s \in freeMap' <=> s \in freeMap \/ s \in Owned(f)'
        BY <1>3, <1>6
    <3>2. (\E i \in InUse' : s \in Owned(i)')
            <=> (\E i \in InUse : s \in Owned(i)) \/ s \in Owned(f)'
        BY <1>5, <1>7
    <3>3. s \in freeMap <=> s \in System \/ \E i \in InUse : s \in Owned(i)
        BY <1>1 DEF MapRight
    <3> QED BY <3>1, <3>2, <3>3
  <2> QED BY <2>1, <2>2 DEF MapRight
<1>10. SectorsApart'
  <2>1. Owned(f)' \cap freeMap = {}
      BY <1>6
  <2>2. System \subseteq freeMap /\ \A i \in InUse : Owned(i) \subseteq freeMap
      BY <1>1, FileNumbers, OwnedMarked DEF MapRight
  <2>3. ASSUME NEW i \in InUse' PROVE Owned(i)' \cap System = {}
      BY <1>1, <1>5, <1>7, <2>1, <2>2 DEF SectorsApart
  <2>4. ASSUME NEW i \in InUse', NEW j \in InUse', i # j PROVE Owned(i)' \cap Owned(j)' = {}
    <3>1. CASE i \in InUse /\ j \in InUse
        BY <1>1, <1>7, <2>4, <3>1 DEF SectorsApart
    <3>2. CASE i = f /\ j \in InUse
        BY <1>7, <2>1, <2>2, <3>2
    <3>3. CASE j = f /\ i \in InUse
        BY <1>7, <2>1, <2>2, <3>3
    <3> QED BY <1>5, <2>4, <3>1, <3>2, <3>3
  <2>5. ASSUME NEW i \in InUse'
        PROVE  /\ table'[i].sector \notin Range(HeaderOf(i)'.dataSectors)
               /\ IsInjective(HeaderOf(i)'.dataSectors)
    <3>1. CASE i = f
        BY <1>3, <1>6, <1>4, <3>1
    <3>2. CASE i \in InUse
        BY <1>1, <1>7, <3>2 DEF SectorsApart
    <3> QED BY <1>5, <3>1, <3>2
  <2> QED BY <2>3, <2>4, <2>5 DEF SectorsApart
<1> QED BY <1>8, <1>9, <1>10 DEF SpaceInv

\* What Remove writes.
LEMMA RemoveFrees ==
    ASSUME DirectoryRight, NEW name, Remove(name)
    PROVE  \E f \in InUse :
              /\ table[f].name = name
              /\ freeMap' = freeMap \ Owned(f)
              /\ table' = [table EXCEPT ![f] = Unused]
              /\ header' = [header EXCEPT ![table[f].sector] = None]
<1>1. FindSector(name) # -1
    BY DEF Remove
<1>2. PICK f \in InUse : table[f].name = name
    BY <1>1, FindSectorRight
<1>3. FindIndex(name) = f /\ FindSector(name) = table[f].sector
    BY <1>2, FindIndexRight, FindSectorRight
<1>4. /\ freeMap' = Deallocate(freeMap, header[table[f].sector]) \ {table[f].sector}
      /\ table' = [table EXCEPT ![f] = Unused]
      /\ header' = [header EXCEPT ![table[f].sector] = None]
    BY <1>3 DEF Remove, DirectoryRemove
<1>5. freeMap' = freeMap \ Owned(f)
    BY <1>4 DEF Deallocate, Owned, HeaderOf
<1> QED BY <1>2, <1>4, <1>5

\* The entries of the directory then: without it, and the others as they were.
LEMMA RemovedEntries ==
    ASSUME SpaceInv, NEW f \in InUse, table' = [table EXCEPT ![f] = Unused],
           header' = [header EXCEPT ![table[f].sector] = None]
    PROVE  /\ DOMAIN table' = 1 .. NumDirEntries /\ DOMAIN header' = Sector
           /\ InUse' = InUse \ {f}
           /\ \A i \in InUse' :
                /\ i \in InUse /\ i # f /\ table'[i] = table[i]
                /\ HeaderOf(i)' = HeaderOf(i) /\ Owned(i)' = Owned(i)
<1>1. DirectoryRight /\ MapRight /\ SectorsApart
    BY DEF SpaceInv
<1>3. /\ DOMAIN table = 1 .. NumDirEntries /\ DOMAIN header = Sector
      /\ f \in 1 .. NumDirEntries /\ table[f].sector \in Sector
    BY <1>1 DEF DirectoryRight, InUse
<1>4. /\ DOMAIN table' = 1 .. NumDirEntries /\ DOMAIN header' = Sector
      /\ table'[f] = Unused
      /\ \A i \in 1 .. NumDirEntries : i # f => table'[i] = table[i]
      /\ \A s \in Sector : s # table[f].sector => header'[s] = header[s]
    BY <1>3
<1>5. ~table'[f].inUse
    BY <1>4 DEF Unused
<1>6. InUse' = InUse \ {f}
    BY <1>4, <1>5 DEF InUse
<1>7. ASSUME NEW i \in InUse'
      PROVE  /\ i \in InUse /\ i # f /\ table'[i] = table[i]
             /\ HeaderOf(i)' = HeaderOf(i) /\ Owned(i)' = Owned(i)
  <2>1. i \in InUse /\ i # f /\ i \in 1 .. NumDirEntries
      BY <1>6 DEF InUse
  <2>2. table'[i] = table[i]
      BY <1>4, <2>1
  <2>3. Owned(i) \cap Owned(f) = {}
      BY <1>1, <2>1 DEF SectorsApart
  <2>4. table[i].sector \in Sector /\ table[i].sector # table[f].sector
      BY <1>1, <2>1, <2>3 DEF DirectoryRight, Owned
  <2>5. header'[table[i].sector] = header[table[i].sector]
      BY <1>4, <2>4
  <2> QED BY <2>1, <2>2, <2>5, SameEntry
<1> QED BY <1>4, <1>6, <1>7

\* Remove frees the sectors of the file, and no other.
LEMMA RemoveKeepsSpace ==
    ASSUME SpaceInv, NEW name, Remove(name)
    PROVE  SpaceInv'
<1>1. DirectoryRight /\ MapRight /\ SectorsApart
    BY DEF SpaceInv
<1>2. PICK f \in InUse :
          /\ freeMap' = freeMap \ Owned(f)
          /\ table' = [table EXCEPT ![f] = Unused]
          /\ header' = [header EXCEPT ![table[f].sector] = None]
    BY <1>1, RemoveFrees
<1>4. DOMAIN table' = 1 .. NumDirEntries /\ DOMAIN header' = Sector
    BY <1>2, RemovedEntries
<1>6. InUse' = InUse \ {f}
    BY <1>2, RemovedEntries
<1>7. \A i \in InUse' :
        /\ i \in InUse /\ i # f /\ table'[i] = table[i]
        /\ HeaderOf(i)' = HeaderOf(i) /\ Owned(i)' = Owned(i)
    BY <1>2, RemovedEntries
<1>8. DirectoryRight'
  <2>1. ASSUME NEW i \in InUse'
        PROVE  table'[i].name \in Name /\ table'[i].sector \in Sector /\ HeaderRight(HeaderOf(i)')
      BY <1>1, <1>7 DEF DirectoryRight
  <2>2. ASSUME NEW i \in InUse', NEW j \in InUse', table'[i].name = table'[j].name
        PROVE  i = j
      BY <1>1, <1>7, <2>2 DEF DirectoryRight
  <2> QED BY <1>4, <2>1, <2>2 DEF DirectoryRight, HeaderRight
<1>9. MapRight'
  <2>1. freeMap' \subseteq Sector
      BY <1>1, <1>2 DEF MapRight
  <2>2. Owned(f) \cap System = {} /\ \A i \in InUse \ {f} : Owned(i) \cap Owned(f) = {}
      BY <1>1 DEF SectorsApart
  <2>3. ASSUME NEW s \in Sector
        PROVE  s \in freeMap' <=> s \in System \/ \E i \in InUse' : s \in Owned(i)'
    <3>1. s \in freeMap' <=> s \in freeMap /\ s \notin Owned(f)
        BY <1>2
    <3>2. (\E i \in InUse' : s \in Owned(i)') <=> \E i \in InUse \ {f} : s \in Owned(i)
        BY <1>6, <1>7
    <3>3. s \in freeMap <=> s \in System \/ \E i \in InUse : s \in Owned(i)
        BY <1>1 DEF MapRight
    <3> QED BY <2>2, <3>1, <3>2, <3>3
  <2> QED BY <2>1, <2>3 DEF MapRight
<1>10. SectorsApart'
  <2>1. ASSUME NEW i \in InUse'
        PROVE  /\ Owned(i)' \cap System = {}
               /\ table'[i].sector \notin Range(HeaderOf(i)'.dataSectors)
               /\ IsInjective(HeaderOf(i)'.dataSectors)
      BY <1>1, <1>7 DEF SectorsApart
  <2>2. ASSUME NEW i \in InUse', NEW j \in InUse', i # j PROVE Owned(i)' \cap Owned(j)' = {}
      BY <1>1, <1>7, <2>2 DEF SectorsApart
  <2> QED BY <2>1, <2>2 DEF SectorsApart
<1> QED BY <1>8, <1>9, <1>10 DEF SpaceInv

\* The disk's tables as they were.
LEMMA SameSpace ==
    ASSUME SpaceInv, UNCHANGED <<freeMap, table, header>>
    PROVE  SpaceInv'
<1>1. InUse' = InUse
    BY DEF InUse
<1>2. \A i : HeaderOf(i)' = HeaderOf(i) /\ Owned(i)' = Owned(i) /\ table'[i] = table[i]
    BY DEF HeaderOf, Owned
<1>3. DirectoryRight'
    BY <1>1, <1>2 DEF SpaceInv, DirectoryRight, HeaderRight
<1>4. MapRight'
    BY <1>1, <1>2 DEF SpaceInv, MapRight
<1>5. SectorsApart'
    BY <1>1, <1>2 DEF SpaceInv, SectorsApart
<1> QED BY <1>3, <1>4, <1>5 DEF SpaceInv

\* Nothing is on a fresh disk but the system's files.
LEMMA SpaceAtStart == CallsInit => SpaceInv
<1> SUFFICES ASSUME CallsInit PROVE SpaceInv
    OBVIOUS
<1>1. /\ freeMap = System /\ table = [i \in 1 .. NumDirEntries |-> Unused]
      /\ header = [s \in Sector |-> None]
    BY DEF CallsInit, Init
<1>2. InUse = {}
    BY <1>1 DEF InUse, Unused
<1>3. System \subseteq Sector
    BY FileNumbers
<1> QED BY <1>1, <1>2, <1>3 DEF SpaceInv, DirectoryRight, MapRight, SectorsApart

\* A file system operation keeps the sectors accounted for.
LEMMA ManageKeepsSpace ==
    ASSUME SpaceInv, NEW name \in Name, Manage(name)
    PROVE  SpaceInv'
<1>1. CASE Remove(name)
    BY <1>1, RemoveKeepsSpace
<1>2. ASSUME NEW size \in Sizes, Create(name, size) PROVE SpaceInv'
  <2>1. CASE CreateFails(name, size)
    <3>1. UNCHANGED <<freeMap, table, header>>
        BY <1>2, <2>1 DEF Create
    <3> QED BY <3>1, SameSpace
  <2>2. CASE ~CreateFails(name, size)
      BY <1>2, <2>2, CreateKeepsSpace
  <2> QED BY <2>1, <2>2
<1> QED BY <1>1, <1>2 DEF Manage

\* The use of open files changes none of the tables of the disk.
LEMMA UseSpace ==
    ASSUME NEW h, Use(h)
    PROVE  UNCHANGED <<freeMap, table, header>>
BY Zenon DEF Use, Open, Close, Seek, Read, Write

\* A program creates files and uses them.
LEMMA ProgramSpace ==
    ASSUME NEW p, Program(p)
    PROVE  UNCHANGED <<freeMap, table, header>> \/ \E name \in Name : Create(name, 0)
<1>1. ASSUME NEW name \in Name, Create_Syscall(name)
      PROVE  \E n \in Name : Create(n, 0)
    BY <1>1 DEF Create_Syscall
<1>2. ASSUME NEW name, Open_Syscall(p, name) PROVE UNCHANGED <<freeMap, table, header>>
    BY <1>2, Zenon DEF Open_Syscall, Open
<1>3. ASSUME NEW id, Close_Syscall(p, id) PROVE UNCHANGED <<freeMap, table, header>>
    BY <1>3, Zenon DEF Close_Syscall, Close
<1>4. ASSUME NEW id, NEW n, Read_Syscall(p, n, id) PROVE UNCHANGED <<freeMap, table, header>>
    BY <1>4, Zenon DEF Read_Syscall, Read
<1>5. ASSUME NEW id, NEW n, NEW b, Write_Syscall(p, b, n, id)
      PROVE  UNCHANGED <<freeMap, table, header>>
    BY <1>5, Zenon DEF Write_Syscall, Write
<1> QED BY <1>1, <1>2, <1>3, <1>4, <1>5 DEF Program

(***************************************************************************)
(* SpaceInv is an invariant: FileSystem::Create and Remove, interleaved    *)
(* with restarts and with every use of open files, keep the bitmap, the    *)
(* directory and the headers on the disk consistent.                       *)
(***************************************************************************)
THEOREM SpaceInvariance == CallsSpec => []SpaceInv
<1>1. CallsInit => SpaceInv
    BY SpaceAtStart
<1>2. SpaceInv /\ [CallsNext]_<<vars, fileTable>> => SpaceInv'
  <2> SUFFICES ASSUME SpaceInv, [CallsNext]_<<vars, fileTable>> PROVE SpaceInv'
      OBVIOUS
  <2>1. ASSUME UNCHANGED <<freeMap, table, header>> PROVE SpaceInv'
      BY <2>1, SameSpace
  <2>2. CASE Restart
      BY <2>1, <2>2 DEF Restart
  <2>3. ASSUME NEW name \in Name, Manage(name) PROVE SpaceInv'
      BY <2>3, ManageKeepsSpace
  <2>4. ASSUME NEW h \in KernelHandle, Use(h) PROVE SpaceInv'
      BY <2>1, <2>4, UseSpace
  <2>5. ASSUME NEW p \in Process, Program(p) PROVE SpaceInv'
    <3>1. ASSUME NEW name \in Name, Create(name, 0) PROVE SpaceInv'
      <4>1. Manage(name)
          BY <3>1, FileCallsAssumption DEF Manage
      <4> QED BY <2>3, <4>1
    <3> QED BY <2>1, <2>5, <3>1, ProgramSpace
  <2>6. CASE UNCHANGED <<vars, fileTable>>
      BY <2>1, <2>6 DEF vars
  <2> QED BY <2>2, <2>3, <2>4, <2>5, <2>6 DEF CallsNext
<1> QED BY <1>1, <1>2, PTL DEF CallsSpec

\* The places of a file: the header's sector, then the data sectors.
LEMMA PlacesRight ==
    ASSUME DirectoryRight, NEW i \in InUse
    PROVE  \E n \in Nat :
              /\ DOMAIN SectorsOf(i) = 1 .. n + 1
              /\ DOMAIN HeaderOf(i).dataSectors = 1 .. n
              /\ SectorsOf(i)[1] = table[i].sector
              /\ \A k \in 1 .. n : SectorsOf(i)[k + 1] = HeaderOf(i).dataSectors[k]
<1>1. HeaderRight(HeaderOf(i)) /\ table[i].sector \in Sector
    BY DEF DirectoryRight
<1>2. PICK n \in Nat : n = divRoundUp(HeaderOf(i).numBytes, SectorSize)
    BY <1>1, SectorsForSize DEF HeaderRight
<1>3. PICK ds \in [1 .. n -> Sector] : ds = HeaderOf(i).dataSectors
    BY <1>1, <1>2 DEF HeaderRight
<1>4. ds \in Seq(Sector) /\ Len(ds) = n
    OBVIOUS
<1>5. PICK s \in Sector : s = table[i].sector
    BY <1>1
<1>6. PICK q : q = <<s>> \o ds
    OBVIOUS
<1>7. /\ DOMAIN q = 1 .. n + 1 /\ q[1] = s
      /\ \A k \in 1 .. n : q[k + 1] = ds[k]
    BY <1>4, <1>6
<1>8. SectorsOf(i) = q /\ DOMAIN ds = 1 .. n
    BY <1>3, <1>5, <1>6 DEF SectorsOf, HeaderOf
<1> QED BY <1>3, <1>5, <1>7, <1>8

\* They hold the sectors that the file owns, each once.
LEMMA PlacesOwned ==
    ASSUME DirectoryRight, SectorsApart, NEW i \in InUse
    PROVE  /\ Range(SectorsOf(i)) = Owned(i)
           /\ \A m, n \in DOMAIN SectorsOf(i) : SectorsOf(i)[m] = SectorsOf(i)[n] => m = n
<1>0. PICK q, ds : q = SectorsOf(i) /\ ds = HeaderOf(i).dataSectors
    OBVIOUS
<1>1. PICK n \in Nat :
          /\ q = SectorsOf(i) /\ ds = HeaderOf(i).dataSectors
          /\ DOMAIN q = 1 .. n + 1 /\ DOMAIN ds = 1 .. n
          /\ q[1] = table[i].sector /\ \A k \in 1 .. n : q[k + 1] = ds[k]
    BY <1>0, PlacesRight
<1>2. Owned(i) = {table[i].sector} \cup Range(ds)
    BY <1>1 DEF Owned
<1>3. \A m \in 1 .. n + 1 : m = 1 \/ (m - 1 \in 1 .. n /\ q[m] = ds[m - 1])
  <2> SUFFICES ASSUME NEW m \in 1 .. n + 1, m # 1
               PROVE  m - 1 \in 1 .. n /\ q[m] = ds[m - 1]
      OBVIOUS
  <2>1. m - 1 \in 1 .. n /\ (m - 1) + 1 = m
      OBVIOUS
  <2> QED BY <1>1, <2>1
<1>4. Range(q) = Owned(i)
  <2>1. ASSUME NEW s \in Range(q) PROVE s \in Owned(i)
    <3>1. PICK m \in 1 .. n + 1 : s = q[m]
        BY <1>1 DEF Range
    <3> QED BY <1>1, <1>2, <1>3, <3>1 DEF Range
  <2>2. ASSUME NEW s \in Owned(i) PROVE s \in Range(q)
    <3>1. 1 \in 1 .. n + 1 /\ \A k \in 1 .. n : k + 1 \in 1 .. n + 1
        OBVIOUS
    <3> QED BY <1>1, <1>2, <3>1 DEF Range
  <2> QED BY <2>1, <2>2
<1>5. table[i].sector \notin Range(ds) /\ \A a, b \in 1 .. n : ds[a] = ds[b] => a = b
    BY <1>1 DEF SectorsApart, IsInjective
<1>6. ASSUME NEW a \in 1 .. n + 1, NEW b \in 1 .. n + 1, q[a] = q[b] PROVE a = b
  <2>1. \A k \in 1 .. n : ds[k] # q[1]
      BY <1>1, <1>5 DEF Range
  <2>2. CASE a = 1 \/ b = 1
      BY <1>3, <1>6, <2>1, <2>2
  <2>3. CASE a # 1 /\ b # 1
    <3>1. a - 1 = b - 1
        BY <1>3, <1>5, <1>6, <2>3
    <3> QED BY <3>1
  <2> QED BY <2>2, <2>3
<1> QED BY <1>1, <1>4, <1>6

(***************************************************************************)
(* Every sector of the disk is free, or the system's, or in one place of   *)
(* one file: Create, Remove and Restart lose none and use none twice, for  *)
(* a disk, a directory and files of any size.                              *)
(***************************************************************************)
THEOREM SpaceIsAccounted == CallsSpec => []SpaceAccounted
<1>1. SpaceInv => SpaceAccounted
  <2> SUFFICES ASSUME SpaceInv, NEW owned, owned = UNION {Range(SectorsOf(i)) : i \in InUse}
               PROVE  /\ freeMap = System \cup owned /\ System \cap owned = {}
                      /\ \A i, j \in InUse :
                           \A m \in DOMAIN SectorsOf(i), n \in DOMAIN SectorsOf(j) :
                             SectorsOf(i)[m] = SectorsOf(j)[n] => i = j /\ m = n
      BY Zenon DEF SpaceAccounted
  <2>1. DirectoryRight /\ MapRight /\ SectorsApart
      BY DEF SpaceInv
  <2>2. \A i \in InUse : Range(SectorsOf(i)) = Owned(i)
      BY <2>1, PlacesOwned
  <2>3. \A s : s \in owned <=> \E i \in InUse : s \in Owned(i)
      BY <2>2
  <2>4. \A i \in InUse : Owned(i) \subseteq Sector
      BY <2>1, OwnedMarked
  <2>5. freeMap = System \cup owned
    <3>1. System \subseteq Sector /\ freeMap \subseteq Sector
        BY <2>1, FileNumbers DEF MapRight
    <3> QED BY <2>1, <2>3, <2>4, <3>1 DEF MapRight
  <2>6. System \cap owned = {}
      BY <2>1, <2>3 DEF SectorsApart
  <2>7. ASSUME NEW i \in InUse, NEW j \in InUse,
               NEW m \in DOMAIN SectorsOf(i), NEW n \in DOMAIN SectorsOf(j),
               SectorsOf(i)[m] = SectorsOf(j)[n]
        PROVE  i = j /\ m = n
    <3>1. SectorsOf(i)[m] \in Owned(i) /\ SectorsOf(j)[n] \in Owned(j)
        BY <2>2 DEF Range
    <3>2. i = j
        BY <2>1, <2>7, <3>1 DEF SectorsApart
    <3> QED BY <2>1, <2>7, <3>2, PlacesOwned
  <2> QED BY <2>5, <2>6, <2>7
<1> QED BY <1>1, SpaceInvariance, PTL

-----------------------------------------------------------------------------
(***************************************************************************)
(* Offsets and sectors: quotients and remainders.                          *)
(***************************************************************************)
LEMMA Quotient ==
    ASSUME NEW n \in Nat \ {0}, NEW a \in Nat
    PROVE  \E q \in Nat, r \in 0 .. n - 1 : q = a \div n /\ r = a % n /\ a = n * q + r
<1>1. PICK q \in Nat : q = a \div n
    OBVIOUS
<1>2. PICK r \in 0 .. n - 1 : r = a % n
    OBVIOUS
<1>3. n > 0 /\ r \in Int
    OBVIOUS
<1>4. a = n * q + r
    BY <1>1, <1>2, <1>3, SMT
<1> QED BY <1>1, <1>2, <1>4

\* Products.
LEMMA Products ==
    ASSUME NEW a \in Int, NEW b \in Int, NEW c \in Int
    PROVE  /\ a * (b + c) = a * b + a * c
           /\ a * (b - c) = a * b - a * c
           /\ a * b = b * a
           /\ a * b \in Int
OBVIOUS

\* A multiple of n is 0 or at least n away from it.
LEMMA Multiples ==
    ASSUME NEW n \in Nat \ {0}, NEW d \in Int
    PROVE  /\ d >= 1 => n * d >= n
           /\ d =< 0 => n * d =< 0
           /\ d =< -1 => n * d =< -n
           /\ d >= 0 => n * d >= 0
OBVIOUS

\* Offsets are ordered as their sectors are.
LEMMA QuotientOrder ==
    ASSUME NEW n \in Nat \ {0}, NEW q \in Int, NEW r \in 0 .. n - 1,
           NEW p \in Int, NEW s \in 0 .. n - 1
    PROVE  /\ n * q + r =< n * p + s => q =< p
           /\ q < p => n * q + r < n * p
<1>1. n * (q - p) = n * q - n * p /\ q - p \in Int
    BY Products
<1>2. PICK a \in Int, b \in Int : a = n * q /\ b = n * p
    BY Products
<1>3. q - p >= 1 => a - b >= n
    BY <1>1, <1>2, Multiples
<1>4. q - p =< -1 => a - b =< -n
    BY <1>1, <1>2, Multiples
<1> QED BY <1>2, <1>3, <1>4

\* Quotient and remainder can be read off a sum.
LEMMA QuotientOf ==
    ASSUME NEW n \in Nat \ {0}, NEW q \in Nat, NEW r \in 0 .. n - 1
    PROVE  (n * q + r) % n = r /\ (n * q + r) \div n = q
<1>1. PICK a \in Nat : a = n * q + r
    OBVIOUS
<1>2. PICK p \in Nat, s \in 0 .. n - 1 : p = a \div n /\ s = a % n /\ a = n * p + s
    BY Quotient
<1>3. q =< p /\ p =< q
  <2>1. n * q + r =< n * p + s /\ n * p + s =< n * q + r
      BY <1>1, <1>2
  <2> QED BY <2>1, QuotientOrder
<1>4. q = p
    BY <1>3
<1>5. r = s
    BY <1>1, <1>2, <1>4
<1> QED BY <1>1, <1>2, <1>4, <1>5

\* The sectors that the header lists hold every byte of the file.
LEMMA InFile ==
    ASSUME NEW hdr, HeaderRight(hdr), NEW o \in Nat, o < hdr.numBytes
    PROVE  /\ o \div SectorSize \in Nat
           /\ (o \div SectorSize) + 1 \in DOMAIN hdr.dataSectors
           /\ ByteToSector(hdr, o) \in Sector
<1>1. SectorSize \in Nat \ {0} /\ hdr.numBytes \in Nat
    BY FileNumbers DEF HeaderRight
<1>2. PICK m \in Nat : m = hdr.numBytes
    BY <1>1
<1>3. PICK q \in Nat, r \in 0 .. SectorSize - 1 :
          q = m \div SectorSize /\ r = m % SectorSize /\ m = SectorSize * q + r
    BY <1>1, Quotient
<1>4. PICK c \in Nat, e \in 0 .. SectorSize - 1 :
          c = o \div SectorSize /\ e = o % SectorSize /\ o = SectorSize * c + e
    BY <1>1, Quotient
<1>5. PICK n \in Nat : n = divRoundUp(m, SectorSize)
    BY <1>2, SectorsForSize DEF HeaderRight
<1>6. n = q + (IF r > 0 THEN 1 ELSE 0)
    BY <1>3, <1>5 DEF divRoundUp
<1>7. c < n
  <2>1. SectorSize * c + e < SectorSize * q + r
      BY <1>2, <1>3, <1>4
  <2>2. c =< q
      BY <1>1, <2>1, QuotientOrder
  <2>3. CASE r > 0
      BY <1>6, <2>2, <2>3
  <2>4. CASE r = 0
    <3>1. c # q
      <4> SUFFICES ASSUME c = q PROVE FALSE
          OBVIOUS
      <4>1. PICK x \in Int : x = SectorSize * q
          BY <1>1, Products
      <4>2. x + e < x + r
          BY <2>1, <4>1
      <4> QED BY <2>4, <4>2
    <3> QED BY <1>6, <2>2, <2>4, <3>1
  <2> QED BY <2>3, <2>4
<1>8. hdr.dataSectors \in [1 .. n -> Sector]
    BY <1>2, <1>5 DEF HeaderRight
<1>9. c + 1 \in 1 .. n
    BY <1>7
<1> QED BY <1>4, <1>8, <1>9 DEF ByteToSector

\* The part of a request that lies in the file.
LEMMA TransferredRight ==
    ASSUME NEW hdr, HeaderRight(hdr), NEW m \in Nat, NEW p \in Nat
    PROVE  /\ hdr.numBytes \in Nat
           /\ Transferred(hdr, m, p) = IF m =< 0 \/ p >= hdr.numBytes THEN 0
                                       ELSE IF p + m > hdr.numBytes THEN hdr.numBytes - p
                                       ELSE m
           /\ Transferred(hdr, m, p) \in Nat
           /\ Transferred(hdr, m, p) > 0 => p + Transferred(hdr, m, p) =< hdr.numBytes
<1>1. hdr.numBytes \in Nat
    BY FileNumbers DEF HeaderRight
<1>2. PICK k : k = Transferred(hdr, m, p)
    OBVIOUS
<1>3. k = IF m =< 0 \/ p >= hdr.numBytes THEN 0
          ELSE IF p + m > hdr.numBytes THEN hdr.numBytes - p ELSE m
    BY <1>1, <1>2 DEF Transferred
<1>4. k \in Nat /\ (k > 0 => p + k =< hdr.numBytes)
    BY <1>1, <1>3
<1> QED BY <1>1, <1>2, <1>3, <1>4

\* The byte at an offset of a file.
ByteAt(hdr, o) == block[ByteToSector(hdr, o)][(o % SectorSize) + 1]

\* Part of a sequence.
LEMMA PartOf ==
    ASSUME NEW X, NEW M \in Nat, NEW buf \in [1 .. M -> X],
           NEW a \in Nat, NEW k \in Nat, a + k =< M
    PROVE  SubSeq(buf, a + 1, a + k) = [i \in 1 .. k |-> buf[a + i]]
<1>1. buf \in Seq(X) /\ Len(buf) = M
    OBVIOUS
<1>2. PICK m : m = a + 1
    OBVIOUS
<1>3. PICK n : n = a + k
    OBVIOUS
<1>4. m \in Int /\ n \in Int /\ \A i \in m .. n : buf[i] \in X
    BY <1>1, <1>2, <1>3
<1>5. PICK z : z = SubSeq(buf, m, n)
    OBVIOUS
<1>6. /\ z \in Seq(X) /\ Len(z) = IF m =< n THEN n - m + 1 ELSE 0
      /\ \A i \in 1 .. n - m + 1 : z[i] = buf[m + i - 1]
    BY <1>4, <1>5, SubSeqProperties
<1>7. n - m + 1 = k /\ \A i \in 1 .. k : m + i - 1 = a + i
    BY <1>2, <1>3
<1>8. DOMAIN z = 1 .. k /\ \A i \in 1 .. k : z[i] = buf[a + i]
    BY <1>2, <1>3, <1>6, <1>7
<1>9. z = [i \in 1 .. k |-> z[i]]
    BY <1>6, <1>8
<1> QED BY <1>2, <1>3, <1>5, <1>8, <1>9

\* ReadAt returns the bytes that were asked for and that the file has.
LEMMA ReadAtRight ==
    ASSUME NEW hdr, HeaderRight(hdr), NEW m \in Nat, NEW p \in Nat,
           NEW k, k = Transferred(hdr, m, p)
    PROVE  ReadAt(hdr, m, p) = [i \in 1 .. k |-> ByteAt(hdr, p + i - 1)]
<1>1. k \in Nat /\ SectorSize \in Nat \ {0}
    BY TransferredRight, FileNumbers
<1>2. CASE k = 0
  <2>1. ReadAt(hdr, m, p) = <<>>
      BY <1>2 DEF ReadAt
  <2>2. [i \in 1 .. 0 |-> ByteAt(hdr, p + i - 1)] = <<>>
      OBVIOUS
  <2> QED BY <1>2, <2>1, <2>2
<1>3. CASE k > 0
  <2>1. PICK first \in Nat, skip \in 0 .. SectorSize - 1 :
            first = p \div SectorSize /\ skip = p % SectorSize /\ p = SectorSize * first + skip
      BY <1>1, Quotient
  <2>2. PICK last \in Nat, r \in 0 .. SectorSize - 1 :
            last = (p + k - 1) \div SectorSize /\ p + k - 1 = SectorSize * last + r
    <3>1. PICK a \in Nat : a = p + k - 1
        BY <1>1, <1>3
    <3>2. PICK last \in Nat, r \in 0 .. SectorSize - 1 :
              last = a \div SectorSize /\ r = a % SectorSize /\ a = SectorSize * last + r
        BY <1>1, <3>1, Quotient
    <3> QED BY <3>1, <3>2
  <2>3. PICK sf \in Nat, sl \in Nat :
            /\ sf = SectorSize * first /\ sf = first * SectorSize /\ sl = SectorSize * last
      BY <1>1, Products
  <2>4. first =< last
    <3>1. SectorSize * first + skip =< SectorSize * last + r
        BY <1>1, <1>3, <2>1, <2>2
    <3> QED BY <1>1, <3>1, QuotientOrder
  <2>5. PICK M \in Nat : M = (last - first + 1) * SectorSize /\ M = sl - sf + SectorSize
    <3>1. last - first + 1 \in Nat
        BY <2>4
    <3>2. SectorSize * (last - first) = sl - sf
        BY <1>1, <2>3, Products
    <3>3. (last - first + 1) * SectorSize = SectorSize * (last - first) + SectorSize
        BY <1>1
    <3>4. (last - first + 1) * SectorSize \in Nat
        BY <1>1, <3>1
    <3> QED BY <3>2, <3>3, <3>4
  <2>6. PICK buf : buf = Fetch(hdr, first, last)
      OBVIOUS
  <2>7. buf = [i \in 1 .. M |-> ByteAt(hdr, sf + i - 1)]
      BY <2>3, <2>5, <2>6 DEF Fetch, ByteAt
  <2>8. skip + k =< M
      BY <1>1, <2>1, <2>2, <2>3, <2>5
  <2>9. SubSeq(buf, skip + 1, skip + k) = [i \in 1 .. k |-> buf[skip + i]]
    <3>1. PICK X : X = {ByteAt(hdr, sf + i - 1) : i \in 1 .. M}
        OBVIOUS
    <3>2. buf \in [1 .. M -> X] /\ skip \in Nat
        BY <2>7, <3>1
    <3> QED BY <1>1, <2>8, <3>2, PartOf
  <2>10. \A i \in 1 .. k : buf[skip + i] = ByteAt(hdr, p + i - 1)
    <3> SUFFICES ASSUME NEW i \in 1 .. k PROVE buf[skip + i] = ByteAt(hdr, p + i - 1)
        OBVIOUS
    <3>1. skip + i \in 1 .. M /\ sf + (skip + i) - 1 = p + i - 1
        BY <1>1, <2>1, <2>3, <2>8
    <3> QED BY <2>7, <3>1
  <2>11. ReadAt(hdr, m, p) = SubSeq(buf, skip + 1, skip + k)
    <3>1. p - first * SectorSize = skip
        BY <2>1, <2>3
    <3>2. First(p) = first /\ Last(p, k) = last
        BY <2>1, <2>2 DEF First, Last, divRoundDown
    <3> QED BY <1>1, <1>3, <2>6, <3>1, <3>2 DEF ReadAt
  <2> QED BY <2>9, <2>10, <2>11
<1> QED BY <1>1, <1>2, <1>3

-----------------------------------------------------------------------------
\* The byte at an offset after WriteAt has written k bytes from at position p.
Written(hdr, from, k, p, o) ==
    IF o \in p .. p + k - 1 THEN from
    ELSE IF o < hdr.numBytes THEN ByteAt(hdr, o) ELSE Junk

\* The sectors that a request touches.
LEMMA TouchedRight ==
    ASSUME NEW p \in Nat, NEW k \in Nat \ {0}
    PROVE  \E first \in Nat, last \in Nat, skip \in 0 .. SectorSize - 1, r \in 0 .. SectorSize - 1 :
              /\ first = First(p) /\ last = Last(p, k) /\ first =< last
              /\ p = SectorSize * first + skip /\ p + k - 1 = SectorSize * last + r
<1>1. SectorSize \in Nat \ {0}
    BY FileNumbers
<1>2. PICK first \in Nat, skip \in 0 .. SectorSize - 1 :
          first = p \div SectorSize /\ skip = p % SectorSize /\ p = SectorSize * first + skip
    BY <1>1, Quotient
<1>3. PICK a \in Nat : a = p + k - 1
    OBVIOUS
<1>4. PICK last \in Nat, r \in 0 .. SectorSize - 1 :
          last = a \div SectorSize /\ r = a % SectorSize /\ a = SectorSize * last + r
    BY <1>1, Quotient
<1>5. first =< last
  <2>1. SectorSize * first + skip =< SectorSize * last + r
      BY <1>2, <1>3, <1>4
  <2> QED BY <1>1, <2>1, QuotientOrder
<1>6. first = First(p) /\ last = Last(p, k)
    BY <1>2, <1>3, <1>4 DEF First, Last, divRoundDown
<1>7. p + k - 1 = SectorSize * last + r
    BY <1>3, <1>4
<1> QED BY <1>2, <1>5, <1>6, <1>7

\* What is kept of a sector that is not wholly overwritten: the bytes of the file in it.
LEMMA OldSector ==
    ASSUME NEW hdr, HeaderRight(hdr), NEW c \in Nat, SectorSize * c < hdr.numBytes,
           NEW r \in 0 .. SectorSize - 1, NEW old, old = ReadAt(hdr, SectorSize, c * SectorSize)
    PROVE  /\ r + 1 =< Len(old) <=> SectorSize * c + r < hdr.numBytes
           /\ r + 1 =< Len(old) => old[r + 1] = ByteAt(hdr, SectorSize * c + r)
<1>1. SectorSize \in Nat \ {0} /\ hdr.numBytes \in Nat
    BY FileNumbers, TransferredRight
<1>2. PICK sc \in Nat : sc = SectorSize * c /\ sc = c * SectorSize
  <2>1. SectorSize * c \in Nat /\ SectorSize * c = c * SectorSize
      BY <1>1
  <2> QED BY <2>1
<1>3. PICK k \in Nat : k = Transferred(hdr, SectorSize, sc)
    BY <1>1, TransferredRight
<1>4. k = IF sc + SectorSize > hdr.numBytes THEN hdr.numBytes - sc ELSE SectorSize
  <2>1. SectorSize \in Nat /\ ~(SectorSize =< 0) /\ ~(sc >= hdr.numBytes)
      BY <1>1, <1>2
  <2>2. k = IF SectorSize =< 0 \/ sc >= hdr.numBytes THEN 0
            ELSE IF sc + SectorSize > hdr.numBytes THEN hdr.numBytes - sc ELSE SectorSize
      BY <1>3, <2>1, TransferredRight
  <2> QED BY <2>1, <2>2
<1>5. old = [i \in 1 .. k |-> ByteAt(hdr, sc + i - 1)]
    BY <1>1, <1>2, <1>3, ReadAtRight
<1>6. Len(old) = k
    BY <1>5
<1>7. r + 1 =< k <=> sc + r < hdr.numBytes
    BY <1>1, <1>2, <1>4
<1>8. r + 1 =< k => r + 1 \in 1 .. k /\ sc + (r + 1) - 1 = sc + r
    BY <1>2
<1> QED BY <1>2, <1>5, <1>6, <1>7, <1>8

\* The buffer of WriteAt, byte by byte.
LEMMA BufferByte ==
    ASSUME NEW hdr, HeaderRight(hdr), NEW from, NEW p \in Nat, NEW k \in Nat \ {0},
           p + k =< hdr.numBytes, NEW c \in First(p) .. Last(p, k), NEW r \in 0 .. SectorSize - 1,
           NEW j, j = SectorSize * (c - First(p)) + r + 1,
           NEW M, M = (Last(p, k) - First(p) + 1) * SectorSize
    PROVE  /\ M \in Nat /\ j \in 1 .. M /\ DOMAIN WriteBuffer(hdr, from, k, p) = 1 .. M
           /\ WriteBuffer(hdr, from, k, p)[j] = Written(hdr, from, k, p, SectorSize * c + r)
<1>1. SectorSize \in Nat \ {0} /\ hdr.numBytes \in Nat
    BY FileNumbers, TransferredRight
<1>2. PICK first \in Nat, last \in Nat, skip \in 0 .. SectorSize - 1, e \in 0 .. SectorSize - 1 :
          /\ first = First(p) /\ last = Last(p, k) /\ first =< last
          /\ p = SectorSize * first + skip /\ p + k - 1 = SectorSize * last + e
    BY TouchedRight
<1>3. c \in Nat /\ first =< c /\ c =< last
    BY <1>2
<1>4. PICK d \in Nat : d = c - first
    BY <1>3
<1>5. PICK sf \in Nat, sl \in Nat, sc \in Nat, sd \in Nat :
          /\ sf = SectorSize * first /\ sf = first * SectorSize /\ sl = SectorSize * last
          /\ sc = SectorSize * c /\ sd = SectorSize * d
  <2>1. /\ SectorSize * first \in Nat /\ SectorSize * last \in Nat /\ SectorSize * c \in Nat
        /\ SectorSize * d \in Nat /\ SectorSize * first = first * SectorSize
      BY <1>1, <1>3
  <2> QED BY <2>1
<1>6. sc = sf + sd
  <2>1. SectorSize * d = SectorSize * c - SectorSize * first
      BY <1>1, <1>3, <1>4, Products
  <2> QED BY <1>5, <2>1
<1>7. j = sd + r + 1
    BY <1>2, <1>4, <1>5
<1>8. M \in Nat /\ M = sl - sf + SectorSize /\ (last + 1) * SectorSize = sl + SectorSize
  <2>1. SectorSize * (last - first) = sl - sf
      BY <1>1, <1>5, Products
  <2>2. (last - first + 1) * SectorSize = SectorSize * (last - first) + SectorSize
      BY <1>1
  <2>3. last - first + 1 \in Nat
      BY <1>2
  <2>4. (last - first + 1) * SectorSize \in Nat
      BY <1>1, <2>3
  <2>5. (last + 1) * SectorSize = SectorSize * last + SectorSize
      BY <1>1
  <2> QED BY <1>2, <1>5, <2>1, <2>2, <2>4, <2>5
<1>9. sc =< sl
  <2>1. last - c \in Int /\ last - c >= 0
      BY <1>3
  <2>2. SectorSize * (last - c) >= 0 /\ SectorSize * (last - c) = SectorSize * last - SectorSize * c
      BY <1>1, <1>3, <2>1, Multiples, Products
  <2> QED BY <1>5, <2>2
<1>10. j \in 1 .. M
    BY <1>1, <1>6, <1>7, <1>8, <1>9
<1>11. first + ((j - 1) \div SectorSize) = c /\ ((j - 1) % SectorSize) + 1 = r + 1
  <2>1. j - 1 = SectorSize * d + r
      BY <1>5, <1>7
  <2>2. (SectorSize * d + r) % SectorSize = r /\ (SectorSize * d + r) \div SectorSize = d
      BY <1>1, QuotientOf
  <2> QED BY <1>3, <1>4, <2>1, <2>2
<1>12. PICK o \in Nat : o = sc + r
    OBVIOUS
<1>13. j \in skip + 1 .. skip + k <=> o \in p .. p + k - 1
  <2>1. p = sf + skip
      BY <1>2, <1>5
  <2> QED BY <1>6, <1>7, <1>12, <2>1
<1>14. PICK kept : kept = (IF p = first * SectorSize THEN {} ELSE {first})
                            \cup (IF p + k # (last + 1) * SectorSize
                                     /\ (first # last \/ p = first * SectorSize)
                                  THEN {last} ELSE {})
    OBVIOUS
<1>15. PICK old : old = ReadAt(hdr, SectorSize, c * SectorSize)
    OBVIOUS
<1>16. PICK buf : buf = WriteBuffer(hdr, from, k, p)
    OBVIOUS
<1>17. /\ DOMAIN buf = 1 .. M
       /\ buf[j] = IF j \in skip + 1 .. skip + k THEN from
                   ELSE IF c \in kept /\ r + 1 =< Len(old) THEN old[r + 1] ELSE Junk
  <2>1. p - first * SectorSize = skip
      BY <1>2, <1>5
  <2>2. buf = [i \in 1 .. M |->
                 IF i \in skip + 1 .. skip + k THEN from
                 ELSE IF first + ((i - 1) \div SectorSize) \in kept
                           /\ ((i - 1) % SectorSize) + 1
                                =< Len(ReadAt(hdr, SectorSize,
                                              (first + ((i - 1) \div SectorSize)) * SectorSize))
                      THEN ReadAt(hdr, SectorSize,
                                  (first + ((i - 1) \div SectorSize)) * SectorSize)
                             [((i - 1) % SectorSize) + 1]
                      ELSE Junk]
      BY <1>2, <1>14, <1>16, <2>1 DEF WriteBuffer
  <2> QED BY <1>10, <1>11, <1>15, <2>2
<1>18. /\ r + 1 =< Len(old) <=> o < hdr.numBytes
       /\ r + 1 =< Len(old) => old[r + 1] = ByteAt(hdr, o)
  <2>1. SectorSize * c < hdr.numBytes
      BY <1>1, <1>2, <1>5, <1>9
  <2>2. /\ r + 1 =< Len(old) <=> SectorSize * c + r < hdr.numBytes
        /\ r + 1 =< Len(old) => old[r + 1] = ByteAt(hdr, SectorSize * c + r)
    <3>1. PICK x \in Nat : x = c
        BY <1>3
    <3>2. SectorSize * x < hdr.numBytes /\ old = ReadAt(hdr, SectorSize, x * SectorSize)
        BY <1>15, <2>1, <3>1
    <3>3. /\ r + 1 =< Len(old) <=> SectorSize * x + r < hdr.numBytes
          /\ r + 1 =< Len(old) => old[r + 1] = ByteAt(hdr, SectorSize * x + r)
        BY <3>2, OldSector
    <3> QED BY <3>1, <3>3
  <2> QED BY <1>5, <1>12, <2>2
<1>19. ASSUME o \notin p .. p + k - 1, o < hdr.numBytes PROVE c \in kept
  <2>1. CASE o < p
    <3>1. SectorSize * c + r =< SectorSize * first + skip
        BY <1>2, <1>5, <1>12, <2>1
    <3>2. c = first
        BY <1>1, <1>3, <3>1, QuotientOrder
    <3>3. p # first * SectorSize
        BY <1>5, <1>12, <2>1, <3>2
    <3> QED BY <1>14, <3>2, <3>3
  <2>2. CASE o >= p + k
    <3>1. SectorSize * last + e =< SectorSize * c + r
        BY <1>2, <1>5, <1>12, <2>2
    <3>2. c = last
        BY <1>1, <1>3, <3>1, QuotientOrder
    <3>3. sc = sl
        BY <1>5, <3>2
    <3>4. p + k # (last + 1) * SectorSize
        BY <1>1, <1>8, <1>12, <2>2, <3>3
    <3> QED BY <1>14, <3>2, <3>4
  <2> QED BY <1>19, <2>1, <2>2
<1>20. buf[j] = Written(hdr, from, k, p, o)
    BY <1>13, <1>17, <1>18, <1>19 DEF Written
<1> QED BY <1>5, <1>8, <1>10, <1>12, <1>16, <1>17, <1>20

\* The part of the buffer that WriteAt writes to the sector number c of the file ...
Touched(p, k) == First(p) .. Last(p, k)
Part(hdr, from, k, p, c) ==
    SubSeq(WriteBuffer(hdr, from, k, p), (c - First(p)) * SectorSize + 1,
           (c - First(p) + 1) * SectorSize)

\* ... and the bytes that belong there.
WrittenSector(hdr, from, k, p, c) ==
    [i \in 1 .. SectorSize |-> Written(hdr, from, k, p, SectorSize * c + (i - 1))]

\* They are the same.
LEMMA PartRight ==
    ASSUME NEW hdr, HeaderRight(hdr), NEW from, NEW p \in Nat, NEW k \in Nat \ {0},
           p + k =< hdr.numBytes, NEW c \in Touched(p, k)
    PROVE  Part(hdr, from, k, p, c) = WrittenSector(hdr, from, k, p, c)
<1>1. SectorSize \in Nat \ {0}
    BY FileNumbers
<1>2. PICK first \in Nat, last \in Nat : first = First(p) /\ last = Last(p, k) /\ first =< last
    BY TouchedRight
<1>3. PICK d \in Nat : d = c - first
    BY <1>2 DEF Touched
<1>4. PICK sd \in Nat : /\ sd = SectorSize * d /\ sd = (c - first) * SectorSize
                        /\ sd + SectorSize = (c - first + 1) * SectorSize
  <2>1. /\ SectorSize * d \in Nat /\ d * SectorSize = SectorSize * d
        /\ (d + 1) * SectorSize = SectorSize * d + SectorSize
      BY <1>1
  <2> QED BY <1>3, <2>1
<1>5. PICK M : M = (Last(p, k) - First(p) + 1) * SectorSize
    OBVIOUS
<1>6. PICK buf : buf = WriteBuffer(hdr, from, k, p)
    OBVIOUS
<1>7. ASSUME NEW r \in 0 .. SectorSize - 1
      PROVE  /\ M \in Nat /\ DOMAIN buf = 1 .. M /\ sd + r + 1 \in 1 .. M
             /\ buf[sd + r + 1] = Written(hdr, from, k, p, SectorSize * c + r)
  <2>1. PICK j : j = SectorSize * (c - First(p)) + r + 1
      OBVIOUS
  <2>2. /\ M \in Nat /\ j \in 1 .. M /\ DOMAIN buf = 1 .. M
        /\ buf[j] = Written(hdr, from, k, p, SectorSize * c + r)
      BY <1>5, <1>6, <2>1, BufferByte DEF Touched
  <2>3. j = sd + r + 1
      BY <1>2, <1>3, <1>4, <2>1
  <2> QED BY <2>2, <2>3
<1>8. 0 \in 0 .. SectorSize - 1 /\ SectorSize - 1 \in 0 .. SectorSize - 1
    BY <1>1
<1>9. M \in Nat /\ DOMAIN buf = 1 .. M
    BY <1>7, <1>8
<1>10. sd + SectorSize =< M
  <2>1. sd + (SectorSize - 1) + 1 \in 1 .. M
      BY <1>7, <1>8
  <2> QED BY <1>1, <1>9, <2>1
<1>11. PICK X : X = {buf[i] : i \in 1 .. M}
    OBVIOUS
<1>12. buf \in [1 .. M -> X]
  <2>1. buf = [i \in 1 .. M |-> buf[i]]
    <3>1. \E f : buf = [i \in 1 .. M |-> f[i]]
      <4>1. buf = [i \in DOMAIN buf |-> buf[i]]
          BY <1>6 DEF WriteBuffer
      <4> QED BY <1>9, <4>1
    <3> QED BY <3>1
  <2> QED BY <1>11, <2>1
<1>13. SubSeq(buf, sd + 1, sd + SectorSize) = [i \in 1 .. SectorSize |-> buf[sd + i]]
    BY <1>1, <1>9, <1>10, <1>12, PartOf
<1>14. ASSUME NEW i \in 1 .. SectorSize
       PROVE  buf[sd + i] = Written(hdr, from, k, p, SectorSize * c + (i - 1))
  <2>1. i - 1 \in 0 .. SectorSize - 1 /\ sd + (i - 1) + 1 = sd + i
      BY <1>1
  <2> QED BY <1>7, <2>1
<1>15. SubSeq(buf, sd + 1, sd + SectorSize) = WrittenSector(hdr, from, k, p, c)
    BY <1>13, <1>14 DEF WrittenSector
<1> QED BY <1>2, <1>4, <1>6, <1>15 DEF Part

\* The file that a request of an open file is about.
Requested(h, hdr, m, p, k) ==
    /\ hdr = open[h].hdr /\ p = open[h].seekPosition /\ k = Transferred(hdr, m, p)
    /\ HeaderRight(hdr) /\ IsInjective(hdr.dataSectors) /\ p \in Nat /\ m \in Nat

\* What Write does to each sector of the disk.
LEMMA WriteSectors ==
    ASSUME NEW h, NEW from, NEW m, NEW hdr, NEW p, NEW k, Requested(h, hdr, m, p, k),
           Write(h, from, m), k # 0
    PROVE  /\ DOMAIN block' = Sector
           /\ \A c \in Touched(p, k) :
                /\ c + 1 \in DOMAIN hdr.dataSectors /\ hdr.dataSectors[c + 1] \in Sector
                /\ block'[hdr.dataSectors[c + 1]] = WrittenSector(hdr, from, k, p, c)
           /\ \A s \in Sector :
                (\A c \in Touched(p, k) : hdr.dataSectors[c + 1] # s)
                  => block'[s] = block[s]
<1>1. /\ HeaderRight(hdr) /\ IsInjective(hdr.dataSectors) /\ p \in Nat
      /\ k = Transferred(hdr, m, p) /\ m \in Nat
    BY DEF Requested
<1>2. k \in Nat \ {0} /\ p + k =< hdr.numBytes /\ hdr.numBytes \in Nat
    BY <1>1, TransferredRight
<1>3. SectorSize \in Nat \ {0}
    BY FileNumbers
<1>4. PICK first \in Nat, last \in Nat, skip \in 0 .. SectorSize - 1, e \in 0 .. SectorSize - 1 :
          /\ first = First(p) /\ last = Last(p, k) /\ first =< last
          /\ p = SectorSize * first + skip /\ p + k - 1 = SectorSize * last + e
    BY <1>1, <1>2, TouchedRight
<1>5. PICK T : T = Touched(p, k)
    OBVIOUS
<1>6. PICK ds : ds = hdr.dataSectors
    OBVIOUS
<1>7. block' = [s \in Sector |->
                  IF \E c \in Touched(p, k) : hdr.dataSectors[c + 1] = s
                  THEN Part(hdr, from, k, p,
                            CHOOSE c \in Touched(p, k) : hdr.dataSectors[c + 1] = s)
                  ELSE block[s]]
    BY DEF Requested, Write, Touched, Part
<1>8. /\ DOMAIN block' = Sector
      /\ \A s \in Sector :
            block'[s] = IF \E c \in T : ds[c + 1] = s
                        THEN Part(hdr, from, k, p, CHOOSE c \in T : ds[c + 1] = s)
                        ELSE block[s]
    BY <1>5, <1>6, <1>7
<1>9. ASSUME NEW c \in T PROVE c \in Nat /\ c + 1 \in DOMAIN ds /\ ds[c + 1] \in Sector
  <2>0. c \in first .. last
      BY <1>4, <1>5 DEF Touched
  <2>1. c \in Nat /\ c =< last
      BY <2>0
  <2>2. SectorSize * c \in Nat /\ SectorSize * c =< SectorSize * last
    <3>1. last - c \in Int /\ last - c >= 0
        BY <2>1
    <3>2. /\ SectorSize * (last - c) >= 0
          /\ SectorSize * (last - c) = SectorSize * last - SectorSize * c
        BY <1>3, <2>1, <3>1, Multiples, Products
    <3>3. PICK x \in Int, y \in Int : x = SectorSize * last /\ y = SectorSize * c
        BY <1>3, <2>1, Products
    <3>4. y >= 0
        BY <1>3, <2>1, <3>3, Multiples
    <3> QED BY <3>2, <3>3, <3>4
  <2>3. PICK o \in Nat : o = SectorSize * c
      BY <2>2
  <2>4. o < hdr.numBytes
    <3>1. PICK x \in Int : x = SectorSize * last
        BY <1>3, Products
    <3> QED BY <1>1, <1>2, <1>4, <2>2, <2>3, <3>1
  <2>5. o \div SectorSize = c
    <3>1. 0 \in 0 .. SectorSize - 1 /\ SectorSize * c + 0 = o
        BY <1>3, <2>3
    <3> QED BY <1>3, <2>1, <3>1, QuotientOf
  <2>6. (o \div SectorSize) + 1 \in DOMAIN hdr.dataSectors /\ ByteToSector(hdr, o) \in Sector
      BY <1>1, <2>4, InFile
  <2> QED BY <1>6, <2>1, <2>5, <2>6 DEF ByteToSector
<1>10. ASSUME NEW c \in T PROVE (CHOOSE d \in T : ds[d + 1] = ds[c + 1]) = c
  <2>1. PICK x : x = CHOOSE d \in T : ds[d + 1] = ds[c + 1]
      OBVIOUS
  <2>2. x \in T /\ ds[x + 1] = ds[c + 1]
      BY <2>1
  <2>3. x + 1 = c + 1
      BY <1>1, <1>6, <1>9, <2>2 DEF IsInjective
  <2>4. x \in Nat /\ c \in Nat
      BY <1>9, <2>2
  <2> QED BY <2>1, <2>3, <2>4
<1>11. ASSUME NEW c \in T
       PROVE  block'[ds[c + 1]] = WrittenSector(hdr, from, k, p, c)
  <2>1. block'[ds[c + 1]] = Part(hdr, from, k, p, c)
      BY <1>8, <1>9, <1>10
  <2> QED BY <1>1, <1>2, <1>5, <2>1, PartRight
<1>12. \A s \in Sector : (\A c \in T : ds[c + 1] # s) => block'[s] = block[s]
    BY <1>8
<1> QED BY <1>5, <1>6, <1>8, <1>9, <1>11, <1>12

\* The sectors of different bytes of a file, and of different files, do not mix.
LEMMA ByteIn ==
    ASSUME NEW hdr, HeaderRight(hdr), NEW o \in Nat, o < hdr.numBytes
    PROVE  \E c \in Nat, r \in 0 .. SectorSize - 1 :
              /\ o = SectorSize * c + r
              /\ c + 1 \in DOMAIN hdr.dataSectors /\ hdr.dataSectors[c + 1] \in Sector
              /\ ByteToSector(hdr, o) = hdr.dataSectors[c + 1] /\ o % SectorSize = r
<1>1. SectorSize \in Nat \ {0}
    BY FileNumbers
<1>2. PICK c \in Nat, r \in 0 .. SectorSize - 1 :
          c = o \div SectorSize /\ r = o % SectorSize /\ o = SectorSize * c + r
    BY <1>1, Quotient
<1>3. (o \div SectorSize) + 1 \in DOMAIN hdr.dataSectors /\ ByteToSector(hdr, o) \in Sector
    BY InFile
<1>4. ByteToSector(hdr, o) = hdr.dataSectors[c + 1]
    BY <1>2 DEF ByteToSector
<1> QED BY <1>2, <1>3, <1>4

(***************************************************************************)
(* A write changes the bytes that were asked for and that the file has,    *)
(* and no other byte of the file (OpenFile::WriteAt).                      *)
(***************************************************************************)
LEMMA WriteBytes ==
    ASSUME NEW h, NEW from, NEW m, NEW hdr, NEW p, NEW k, Requested(h, hdr, m, p, k),
           Write(h, from, m), NEW o \in Nat, o < hdr.numBytes
    PROVE  ByteAt(hdr, o)' = IF o \in p .. p + k - 1 THEN from ELSE ByteAt(hdr, o)
<1>1. /\ HeaderRight(hdr) /\ IsInjective(hdr.dataSectors) /\ p \in Nat
      /\ k = Transferred(hdr, m, p) /\ m \in Nat
    BY DEF Requested
<1>2. k \in Nat /\ (k > 0 => p + k =< hdr.numBytes) /\ hdr.numBytes \in Nat
    BY <1>1, TransferredRight
<1>3. SectorSize \in Nat \ {0}
    BY FileNumbers
<1>4. PICK c \in Nat, r \in 0 .. SectorSize - 1 :
          /\ o = SectorSize * c + r
          /\ c + 1 \in DOMAIN hdr.dataSectors /\ hdr.dataSectors[c + 1] \in Sector
          /\ ByteToSector(hdr, o) = hdr.dataSectors[c + 1] /\ o % SectorSize = r
    BY <1>1, ByteIn
<1>5. /\ ByteAt(hdr, o) = block[hdr.dataSectors[c + 1]][r + 1]
      /\ ByteAt(hdr, o)' = block'[hdr.dataSectors[c + 1]][r + 1]
    BY <1>4 DEF ByteAt
<1>6. CASE k = 0
  <2>1. block' = block
      BY <1>6 DEF Write, Requested
  <2>2. o \notin p .. p + k - 1
      BY <1>1, <1>6
  <2> QED BY <1>5, <2>1, <2>2
<1>7. CASE k # 0
  <2>0. k \in Nat \ {0}
      BY <1>2, <1>7
  <2>1. PICK first \in Nat, last \in Nat, skip \in 0 .. SectorSize - 1, e \in 0 .. SectorSize - 1 :
            /\ first = First(p) /\ last = Last(p, k) /\ first =< last
            /\ p = SectorSize * first + skip /\ p + k - 1 = SectorSize * last + e
      BY <1>1, <2>0, TouchedRight
  <2>2. PICK T : T = Touched(p, k) /\ T = first .. last
      BY <2>1 DEF Touched
  <2>3. /\ \A d \in T :
             /\ d + 1 \in DOMAIN hdr.dataSectors
             /\ block'[hdr.dataSectors[d + 1]] = WrittenSector(hdr, from, k, p, d)
        /\ \A s \in Sector :
             (\A d \in T : hdr.dataSectors[d + 1] # s) => block'[s] = block[s]
    <3>1. \A d \in Touched(p, k) : d + 1 \in DOMAIN hdr.dataSectors
        BY <1>7, WriteSectors
    <3>2. \A d \in Touched(p, k) :
            block'[hdr.dataSectors[d + 1]] = WrittenSector(hdr, from, k, p, d)
        BY <1>7, WriteSectors
    <3>3. \A s \in Sector :
            (\A d \in Touched(p, k) : hdr.dataSectors[d + 1] # s) => block'[s] = block[s]
        BY <1>7, WriteSectors
    <3> QED BY <2>2, <3>1, <3>2, <3>3
  <2>4. CASE c \in T
    <3>1. r + 1 \in 1 .. SectorSize /\ SectorSize * c + ((r + 1) - 1) = o
      <4>1. PICK sc \in Int : sc = SectorSize * c
          BY <1>3, Products
      <4>2. (r + 1) - 1 = r
          OBVIOUS
      <4> QED BY <1>3, <1>4, <4>1, <4>2
    <3>2. PICK w : w = WrittenSector(hdr, from, k, p, c)
        OBVIOUS
    <3>3. w[r + 1] = Written(hdr, from, k, p, o)
        BY <3>1, <3>2 DEF WrittenSector
    <3>4. ByteAt(hdr, o)' = w[r + 1]
        BY <1>5, <2>3, <2>4, <3>2
    <3> QED BY <3>3, <3>4 DEF Written
  <2>5. CASE c \notin T
    <3>1. ASSUME NEW d \in T PROVE hdr.dataSectors[d + 1] # hdr.dataSectors[c + 1]
      <4>1. d \in Nat /\ d # c
          BY <2>2, <2>5
      <4>2. d + 1 # c + 1
          BY <4>1
      <4> QED BY <1>1, <1>4, <2>3, <4>2 DEF IsInjective
    <3>2. block'[hdr.dataSectors[c + 1]] = block[hdr.dataSectors[c + 1]]
        BY <1>4, <2>3, <3>1
    <3>3. ASSUME o \in p .. p + k - 1 PROVE c \in T
      <4>1. p =< o /\ o =< p + k - 1
          BY <3>3
      <4>2. /\ SectorSize * first + skip =< SectorSize * c + r
            /\ SectorSize * c + r =< SectorSize * last + e
          BY <1>4, <2>1, <4>1
      <4>3. first =< c /\ c =< last
          BY <1>3, <4>2, QuotientOrder
      <4> QED BY <2>2, <4>3
    <3> QED BY <1>5, <2>5, <3>2, <3>3
  <2> QED BY <2>4, <2>5
<1> QED BY <1>6, <1>7

\* It changes nothing of a file that has other sectors.
LEMMA WriteOthers ==
    ASSUME NEW h, NEW from, NEW m, NEW hdr, NEW p, NEW k, Requested(h, hdr, m, p, k),
           Write(h, from, m), NEW g, HeaderRight(g), NEW o \in Nat, o < g.numBytes,
           Range(g.dataSectors) \cap Range(hdr.dataSectors) = {}
    PROVE  ByteAt(g, o)' = ByteAt(g, o)
<1>1. PICK c \in Nat, r \in 0 .. SectorSize - 1 :
          /\ c + 1 \in DOMAIN g.dataSectors /\ g.dataSectors[c + 1] \in Sector
          /\ ByteToSector(g, o) = g.dataSectors[c + 1]
    BY ByteIn
<1>2. PICK s \in Sector : s = ByteToSector(g, o) /\ s \in Range(g.dataSectors)
    BY <1>1 DEF Range
<1>3. block'[s] = block[s]
  <2>1. CASE k = 0
      BY <2>1 DEF Write, Requested
  <2>2. CASE k # 0
    <3>1. ASSUME NEW d \in Touched(p, k) PROVE hdr.dataSectors[d + 1] # s
      <4>1. d + 1 \in DOMAIN hdr.dataSectors
          BY <2>2, WriteSectors
      <4>2. hdr.dataSectors[d + 1] \in Range(hdr.dataSectors)
          BY <4>1 DEF Range
      <4> QED BY <1>2, <4>2
    <3> QED BY <2>2, <3>1, WriteSectors
  <2> QED BY <2>1, <2>2
<1> QED BY <1>2, <1>3 DEF ByteAt

\* The bytes of a file are bytes.
LEMMA BytesRight ==
    ASSUME BlocksRight, NEW hdr, HeaderRight(hdr), NEW o \in Nat, o < hdr.numBytes
    PROVE  ByteAt(hdr, o) \in Byte \cup {Junk}
<1>1. PICK c \in Nat, r \in 0 .. SectorSize - 1 :
          /\ c + 1 \in DOMAIN hdr.dataSectors /\ hdr.dataSectors[c + 1] \in Sector
          /\ ByteToSector(hdr, o) = hdr.dataSectors[c + 1] /\ o % SectorSize = r
    BY ByteIn
<1>2. r + 1 \in 1 .. SectorSize
    BY FileNumbers
<1> QED BY <1>1, <1>2 DEF ByteAt, BlocksRight

\* After a write every sector still holds bytes.
LEMMA WriteBlocks ==
    ASSUME BlocksRight, NEW h, NEW from \in Byte, NEW m, NEW hdr, NEW p, NEW k,
           Requested(h, hdr, m, p, k), Write(h, from, m)
    PROVE  BlocksRight'
<1>1. CASE k = 0
    BY <1>1 DEF Write, Requested, BlocksRight
<1>2. CASE k # 0
  <2>1. /\ HeaderRight(hdr) /\ p \in Nat /\ k = Transferred(hdr, m, p) /\ m \in Nat
      BY DEF Requested
  <2>2. k \in Nat \ {0} /\ SectorSize \in Nat \ {0}
      BY <1>2, <2>1, TransferredRight, FileNumbers
  <2>3. PICK T : T = Touched(p, k) /\ T \subseteq Nat
    <3>1. PICK first \in Nat, last \in Nat : first = First(p) /\ last = Last(p, k)
        BY <2>1, <2>2, TouchedRight
    <3> QED BY <3>1 DEF Touched
  <2>4. PICK ds : ds = hdr.dataSectors
      OBVIOUS
  <2>5. /\ DOMAIN block' = Sector
        /\ \A d \in T : block'[ds[d + 1]] = WrittenSector(hdr, from, k, p, d)
        /\ \A s \in Sector : (\A d \in T : ds[d + 1] # s) => block'[s] = block[s]
      BY <1>2, <2>3, <2>4, WriteSectors
  <2>6. ASSUME NEW d \in T
        PROVE  WrittenSector(hdr, from, k, p, d) \in [1 .. SectorSize -> Byte \cup {Junk}]
    <3>1. ASSUME NEW i \in 1 .. SectorSize
          PROVE  Written(hdr, from, k, p, SectorSize * d + (i - 1)) \in Byte \cup {Junk}
      <4>1. PICK o \in Nat : o = SectorSize * d + (i - 1)
        <5>1. SectorSize * d \in Nat /\ i - 1 \in Nat
            BY <2>2, <2>3
        <5> QED BY <5>1
      <4>2. o < hdr.numBytes => ByteAt(hdr, o) \in Byte \cup {Junk}
          BY <2>1, BytesRight
      <4> QED BY <4>1, <4>2 DEF Written
    <3> QED BY <3>1 DEF WrittenSector
  <2>7. ASSUME NEW s \in Sector PROVE block'[s] \in [1 .. SectorSize -> Byte \cup {Junk}]
    <3>1. CASE \E d \in T : ds[d + 1] = s
        BY <2>5, <2>6, <3>1
    <3>2. CASE \A d \in T : ds[d + 1] # s
        BY <2>5, <3>2 DEF BlocksRight
    <3> QED BY <3>1, <3>2
  <2>8. block' = [s \in Sector |-> block'[s]]
    <3>1. block' = [s \in DOMAIN block' |-> block'[s]]
        BY <1>2 DEF Write, Requested
    <3> QED BY <2>5, <3>1
  <2>9. block' \in [Sector -> [1 .. SectorSize -> Byte \cup {Junk}]]
      BY <2>7, <2>8
  <2> QED BY <2>9 DEF BlocksRight
<1> QED BY <1>1, <1>2

-----------------------------------------------------------------------------
(***************************************************************************)
(* What FileMap sees of the disk: the text of a file is what its header's  *)
(* sectors hold, up to its size.                                           *)
(***************************************************************************)
Text(hdr) == [i \in 1 .. hdr.numBytes |-> ByteAt(hdr, i - 1)]

FilesShown ==
    /\ Files = [n \in DOMAIN Files |-> Files[n]]
    /\ DOMAIN Files = {table[i].name : i \in InUse}
    /\ \A i \in InUse : \A hdr \in {HeaderOf(i)} : Files[table[i].name] = Text(hdr)

\* Contents reads the whole text.
LEMMA FilesAreShown == DirectoryRight => FilesShown
<1> SUFFICES ASSUME DirectoryRight PROVE FilesShown
    OBVIOUS
<1>1. Files = [n \in DOMAIN Files |-> Files[n]] /\ DOMAIN Files = {table[i].name : i \in InUse}
    BY DEF Files
<1>2. ASSUME NEW i \in InUse, NEW hdr \in {HeaderOf(i)} PROVE Files[table[i].name] = Text(hdr)
  <2>1. PICK name : name = table[i].name
      OBVIOUS
  <2>2. FindSector(name) = table[i].sector
      BY <2>1, FindSectorRight
  <2>3. header[FindSector(name)] = hdr /\ HeaderRight(hdr)
      BY <2>2 DEF HeaderOf, DirectoryRight
  <2>4. Contents(name) = ReadAt(hdr, hdr.numBytes, 0)
      BY <2>3 DEF Contents
  <2>5. PICK m \in Nat : m = hdr.numBytes
      BY <2>3, FileNumbers DEF HeaderRight
  <2>6. PICK z \in Nat : z = 0
      OBVIOUS
  <2>7. PICK k : k = Transferred(hdr, m, z)
      OBVIOUS
  <2>8. k = m
    <3>1. k = IF m =< 0 \/ z >= hdr.numBytes THEN 0
              ELSE IF z + m > hdr.numBytes THEN hdr.numBytes - z ELSE m
        BY <2>3, <2>7, TransferredRight, Zenon
    <3>2. k = IF m =< 0 \/ z >= m THEN 0 ELSE IF z + m > m THEN m - z ELSE m
        BY <2>5, <3>1
    <3> QED BY <2>6, <3>2
  <2>9. ReadAt(hdr, m, z) = [x \in 1 .. k |-> ByteAt(hdr, z + x - 1)]
      BY <2>3, <2>7, ReadAtRight
  <2>10. \A x \in 1 .. m : z + x - 1 = x - 1
      BY <2>6
  <2>11. Contents(name) = Text(hdr)
      BY <2>4, <2>5, <2>6, <2>8, <2>9, <2>10 DEF Text
  <2>12. name \in {table[j].name : j \in InUse}
      BY <2>1
  <2> QED BY <2>1, <2>11, <2>12 DEF Files
<1> QED BY <1>1, <1>2 DEF FilesShown

\* The files are the same when the disk is.
LEMMA SameDisk ==
    ASSUME UNCHANGED <<table, header, block>>
    PROVE  Files' = Files
<1>1. InUse' = InUse
    BY DEF InUse
<1>2. \A name : FindSector(name)' = FindSector(name)
    BY DEF FindSector, FindIndex
<1>3. \A hdr, m, p : ReadAt(hdr, m, p)' = ReadAt(hdr, m, p)
    BY DEF ReadAt, Fetch
<1>4. \A name : Contents(name)' = Contents(name)
    BY <1>2, <1>3 DEF Contents
<1> QED BY <1>1, <1>4 DEF Files

\* What FileMap sees of an open file.
Shown(f) == IF f = None THEN None ELSE [name |-> f.name, pos |-> f.seekPosition]

\* An open file is not a null pointer there either.
LEMMA ShownSome ==
    ASSUME NEW a, NEW b
    PROVE  [name |-> a, pos |-> b] # None
<1>1. PICK f : f = [name |-> a, pos |-> b]
    OBVIOUS
<1>2. "name" \in DOMAIN f
    BY <1>1
<1>3. DOMAIN <<>> = {}
    BY SMT
<1> QED BY <1>1, <1>2, <1>3 DEF None

\* When a handle is opened or closed, FileMap sees that and nothing else.
LEMMA ShowHandle ==
    ASSUME HandlesRight, NEW h \in Handle, NEW x, open' = [open EXCEPT ![h] = x]
    PROVE  Handles' = [Handles EXCEPT ![h] = Shown(x)]
<1>1. open'[h] = x /\ \A g \in Handle \ {h} : open'[g] = open[g]
    BY DEF HandlesRight
<1>2. Handles = [g \in Handle |-> Shown(open[g])] /\ Handles' = [g \in Handle |-> Shown(open'[g])]
    BY DEF Handles, Shown
<1> QED BY <1>1, <1>2

\* When the position of an open file changes, too.
LEMMA ShowMoved ==
    ASSUME HandlesRight, NEW h \in Handle, open[h] # None, OpenRight,
           NEW x, open' = [open EXCEPT ![h].seekPosition = x]
    PROVE  /\ Handles' = [Handles EXCEPT ![h].pos = x]
           /\ Handles[h] = [name |-> open[h].name, pos |-> open[h].seekPosition]
           /\ Handles[h] # None
           /\ open'[h] = [hdr |-> open[h].hdr, seekPosition |-> x, name |-> open[h].name]
           /\ \A g \in Handle \ {h} : open'[g] = open[g]
<1>0. open[h] = [hdr |-> open[h].hdr, seekPosition |-> open[h].seekPosition,
                 name |-> open[h].name]
    BY DEF OpenRight, FileRight
<1>1. PICK a, b, c : open[h] = [hdr |-> a, seekPosition |-> b, name |-> c]
    BY <1>0, Zenon
<1>2. DOMAIN open = Handle
    BY DEF HandlesRight
<1>3. open'[h] = [open[h] EXCEPT !.seekPosition = x]
    BY <1>2
<1>4. open'[h] = [hdr |-> a, seekPosition |-> x, name |-> c]
    BY <1>1, <1>3
<1>5. \A g \in Handle \ {h} : open'[g] = open[g]
    BY <1>2
<1>6. Handles = [g \in Handle |-> Shown(open[g])] /\ Handles' = [g \in Handle |-> Shown(open'[g])]
    BY DEF Handles, Shown
<1>7. open'[h] # None
    BY <1>4, NewOpened, OpenedSome
<1>8. Handles[h] = [name |-> c, pos |-> b] /\ Handles'[h] = [name |-> c, pos |-> x]
    BY <1>1, <1>4, <1>6, <1>7 DEF Shown
<1>9. Handles' = [Handles EXCEPT ![h].pos = x]
  <2>1. \A g \in Handle \ {h} : Handles'[g] = Handles[g]
      BY <1>5, <1>6
  <2>2. [Handles[h] EXCEPT !.pos = x] = [name |-> c, pos |-> x]
      BY <1>8
  <2> QED BY <1>6, <1>8, <2>1, <2>2
<1>10. Handles[h] # None
    BY <1>8, ShownSome
<1> QED BY <1>1, <1>4, <1>5, <1>8, <1>9, <1>10

-----------------------------------------------------------------------------
(***************************************************************************)
(* The steps of FileSystem are steps of FileMap.  DiskInv is what they     *)
(* need: the sectors hold bytes, and the header that an open file keeps in *)
(* memory is the one on the disk.                                          *)
(***************************************************************************)
DiskInv == SpaceInv /\ HandlesRight /\ BlocksRight /\ OpenRight
Step == BlocksRight' /\ OpenRight' /\ F!Next

\* An open file whose entry stays.
LEMMA SameFile ==
    ASSUME NEW x, FileRight(x), UNCHANGED <<table, header>>
    PROVE  FileRight(x)'
<1>1. InUse' = InUse /\ \A i : HeaderOf(i)' = HeaderOf(i)
    BY DEF InUse, HeaderOf
<1> QED BY <1>1 DEF FileRight

\* A step that changes neither the disk nor what is open.
LEMMA NothingShown ==
    ASSUME DiskInv, UNCHANGED <<table, header, block, open>>, result' = <<>>
    PROVE  Step
<1>1. Files' = Files /\ Handles' = Handles
    BY SameDisk DEF Handles
<1>2. BlocksRight'
    BY DEF DiskInv, BlocksRight
<1>3. OpenRight'
    BY SameFile DEF DiskInv, OpenRight
<1>4. F!Next
    BY <1>1 DEF F!Next, F!Nothing
<1> QED BY <1>2, <1>3, <1>4 DEF Step

\* Nachos starts again.
LEMMA RestartShown ==
    ASSUME DiskInv, Restart
    PROVE  Step
<1>1. UNCHANGED <<table, header, block>> /\ open' = [h \in Handle |-> None] /\ result' = <<>>
    BY DEF Restart
<1>2. Files' = Files
    BY <1>1, SameDisk
<1>3. Handles' = [h \in Handle |-> None]
    BY <1>1 DEF Handles
<1>4. BlocksRight' /\ OpenRight'
    BY <1>1 DEF DiskInv, BlocksRight, OpenRight
<1>5. F!Next
    BY <1>1, <1>2, <1>3 DEF F!Next, F!Restart
<1> QED BY <1>4, <1>5 DEF Step

\* A handle gets a file of the directory, or none.
LEMMA OneHandleRight ==
    ASSUME DiskInv, NEW h \in Handle, NEW x, open' = [open EXCEPT ![h] = x],
           x = None \/ FileRight(x), UNCHANGED <<table, header, block>>
    PROVE  BlocksRight' /\ OpenRight' /\ Files' = Files
           /\ Handles' = [Handles EXCEPT ![h] = Shown(x)]
<1>1. open'[h] = x /\ \A g \in Handle \ {h} : open'[g] = open[g]
    BY DEF DiskInv, HandlesRight
<1>2. ASSUME NEW g \in Handle, open'[g] # None PROVE FileRight(open[g])'
  <2>1. PICK y : y = open'[g]
      OBVIOUS
  <2>2. FileRight(y)
      BY <1>1, <1>2, <2>1 DEF DiskInv, OpenRight
  <2>3. FileRight(y)'
      BY <2>2, SameFile
  <2> QED BY <2>1, <2>3 DEF FileRight
<1>3. OpenRight'
    BY <1>2 DEF OpenRight
<1>4. BlocksRight'
    BY DEF DiskInv, BlocksRight
<1>5. Files' = Files /\ Handles' = [Handles EXCEPT ![h] = Shown(x)]
    BY SameDisk, ShowHandle DEF DiskInv
<1> QED BY <1>3, <1>4, <1>5

\* FileSystem::Open.
LEMMA OpenShown ==
    ASSUME DiskInv, NEW h \in Handle, NEW name \in Name, Open(h, name)
    PROVE  Step
<1>1. DirectoryRight /\ UNCHANGED <<table, header, block>> /\ result' = <<>>
    BY DEF DiskInv, SpaceInv, Open
<1>2. PICK i \in InUse : table[i].name = name
    BY <1>1, FindSectorRight DEF Open
<1>3. PICK hdr : hdr = HeaderOf(i)
    OBVIOUS
<1>4. header[FindSector(name)] = hdr
    BY <1>1, <1>2, <1>3, FindSectorRight DEF HeaderOf
<1>5. PICK x : x = [hdr |-> hdr, seekPosition |-> 0, name |-> name]
    OBVIOUS
<1>6. open' = [open EXCEPT ![h] = x]
    BY <1>4, <1>5 DEF Open
<1>7. FileRight(x)
    BY <1>2, <1>3, <1>5 DEF FileRight
<1>8. BlocksRight' /\ OpenRight' /\ Files' = Files /\ Handles' = [Handles EXCEPT ![h] = Shown(x)]
    BY <1>1, <1>6, <1>7, OneHandleRight
<1>9. Shown(x) = [name |-> name, pos |-> 0]
  <2>1. x # None
      BY <1>5, NewOpened, OpenedSome
  <2> QED BY <1>5, <2>1 DEF Shown
<1>10. name \in DOMAIN Files
    BY <1>2 DEF Files
<1>11. F!Open(h, name)
    BY <1>1, <1>8, <1>9, <1>10 DEF F!Open
<1>12. F!Next
    BY <1>11 DEF F!Next
<1> QED BY <1>8, <1>12 DEF Step

\* Close.
LEMMA CloseShown ==
    ASSUME DiskInv, NEW h \in Handle, Close(h)
    PROVE  Step
<1>1. UNCHANGED <<table, header, block>> /\ result' = <<>>
    BY DEF Close
<1>2. PICK x : x = None
    OBVIOUS
<1>3. open' = [open EXCEPT ![h] = x]
    BY <1>2 DEF Close
<1>4. BlocksRight' /\ OpenRight' /\ Files' = Files /\ Handles' = [Handles EXCEPT ![h] = Shown(x)]
    BY <1>1, <1>2, <1>3, OneHandleRight
<1>5. Shown(x) = None
    BY <1>2 DEF Shown
<1>6. F!Close(h)
    BY <1>1, <1>4, <1>5 DEF F!Close
<1>7. F!Next
    BY <1>6 DEF F!Next
<1> QED BY <1>4, <1>7 DEF Step

\* A file moves to another position.
LEMMA MovedRight ==
    ASSUME DiskInv, NEW h \in Handle, open[h] # None, NEW x \in Nat,
           open' = [open EXCEPT ![h].seekPosition = x], UNCHANGED <<table, header>>
    PROVE  /\ OpenRight' /\ Handles' = [Handles EXCEPT ![h].pos = x]
           /\ Handles[h] = [name |-> open[h].name, pos |-> open[h].seekPosition]
           /\ Handles[h] # None
<1>1. HandlesRight /\ OpenRight
    BY DEF DiskInv
<1>2. /\ Handles' = [Handles EXCEPT ![h].pos = x]
      /\ Handles[h] = [name |-> open[h].name, pos |-> open[h].seekPosition]
      /\ Handles[h] # None
      /\ open'[h] = [hdr |-> open[h].hdr, seekPosition |-> x, name |-> open[h].name]
      /\ \A g \in Handle \ {h} : open'[g] = open[g]
    BY <1>1, ShowMoved
<1>3. ASSUME NEW g \in Handle, open'[g] # None PROVE FileRight(open[g])'
  <2>1. PICK y : y = open'[g]
      OBVIOUS
  <2>2. FileRight(y)
    <3>1. CASE g = h
      <4>1. FileRight(open[h])
          BY <1>1 DEF OpenRight
      <4>2. y = [hdr |-> open[h].hdr, seekPosition |-> x, name |-> open[h].name]
          BY <1>2, <2>1, <3>1
      <4>3. y.hdr = open[h].hdr /\ y.seekPosition = x /\ y.name = open[h].name
          BY <4>2
      <4>4. y = [hdr |-> y.hdr, seekPosition |-> y.seekPosition, name |-> y.name]
          BY <4>2, <4>3
      <4> QED BY <4>1, <4>3, <4>4 DEF FileRight
    <3>2. CASE g # h
      <4>1. y = open[g] /\ open[g] # None
          BY <1>2, <1>3, <2>1, <3>2
      <4> QED BY <1>1, <4>1 DEF OpenRight
    <3> QED BY <3>1, <3>2
  <2>3. FileRight(y)'
      BY <2>2, SameFile
  <2> QED BY <2>1, <2>3 DEF FileRight
<1>4. OpenRight'
    BY <1>3 DEF OpenRight
<1> QED BY <1>2, <1>4

\* OpenFile::Seek.
LEMMA SeekShown ==
    ASSUME DiskInv, NEW h \in Handle, NEW x \in 0 .. MaxPos, Seek(h, x)
    PROVE  Step
<1>1. /\ UNCHANGED <<table, header, block>> /\ result' = <<>> /\ open[h] # None
      /\ open' = [open EXCEPT ![h].seekPosition = x] /\ x \in Nat
    BY FileNumbers DEF Seek
<1>2. OpenRight' /\ Handles' = [Handles EXCEPT ![h].pos = x] /\ Handles[h] # None
    BY <1>1, MovedRight
<1>3. Files' = Files /\ BlocksRight'
    BY <1>1, SameDisk DEF DiskInv, BlocksRight
<1>4. F!Seek(h)
    BY <1>1, <1>2, <1>3 DEF F!Seek
<1>5. F!Next
    BY <1>4 DEF F!Next
<1> QED BY <1>2, <1>3, <1>5 DEF Step

\* A request of an open file is about a file of the directory, and moves what FileMap says.
LEMMA RequestRight ==
    ASSUME DiskInv, NEW h \in Handle, open[h] # None, NEW m \in Nat
    PROVE  \E i \in InUse : \E hdr, p, k :
              /\ Requested(h, hdr, m, p, k) /\ hdr = HeaderOf(i)
              /\ open[h].name = table[i].name /\ table[i].name \in DOMAIN Files
              /\ Files[table[i].name] = Text(hdr)
              /\ k \in Nat /\ k = F!Reach(Text(hdr), p, m)
<1>1. FileRight(open[h]) /\ DirectoryRight /\ SectorsApart
    BY DEF DiskInv, OpenRight, SpaceInv
<1>2. PICK i \in InUse : open[h].name = table[i].name /\ open[h].hdr = HeaderOf(i)
    BY <1>1 DEF FileRight
<1>3. PICK hdr : hdr = HeaderOf(i)
    OBVIOUS
<1>4. PICK p \in Nat : p = open[h].seekPosition
    BY <1>1 DEF FileRight
<1>5. PICK k : k = Transferred(hdr, m, p)
    OBVIOUS
<1>6. HeaderRight(hdr) /\ IsInjective(hdr.dataSectors)
    BY <1>1, <1>3 DEF DirectoryRight, SectorsApart
<1>7. Requested(h, hdr, m, p, k)
    BY <1>2, <1>3, <1>4, <1>5, <1>6 DEF Requested
<1>8. FilesShown
    BY <1>1, FilesAreShown
<1>9. table[i].name \in DOMAIN Files /\ Files[table[i].name] = Text(hdr)
    BY <1>3, <1>8 DEF FilesShown
<1>10. k \in Nat /\ hdr.numBytes \in Nat
    BY <1>5, <1>6, TransferredRight
<1>11. Len(Text(hdr)) = hdr.numBytes
    BY <1>10 DEF Text
<1>12. k = IF m =< 0 \/ p >= hdr.numBytes THEN 0
           ELSE IF p + m > hdr.numBytes THEN hdr.numBytes - p ELSE m
    BY <1>5, <1>6, TransferredRight, Zenon
<1>13. k = F!Reach(Text(hdr), p, m)
    BY <1>11, <1>12 DEF F!Reach
<1> QED BY <1>2, <1>3, <1>7, <1>9, <1>10, <1>13

\* ReadAt returns the part of the text that was asked for.
LEMMA TextPart ==
    ASSUME NEW hdr, HeaderRight(hdr), NEW m \in Nat, NEW p \in Nat, NEW k,
           k = Transferred(hdr, m, p)
    PROVE  SubSeq(Text(hdr), p + 1, p + k) = ReadAt(hdr, m, p)
<1>1. k \in Nat /\ hdr.numBytes \in Nat /\ (k > 0 => p + k =< hdr.numBytes)
    BY TransferredRight
<1>2. PICK M \in Nat : M = hdr.numBytes
    BY <1>1
<1>3. PICK text : text = Text(hdr)
    OBVIOUS
<1>4. text = [i \in 1 .. M |-> ByteAt(hdr, i - 1)]
    BY <1>2, <1>3 DEF Text
<1>5. PICK X : X = {ByteAt(hdr, i - 1) : i \in 1 .. M}
    OBVIOUS
<1>6. text \in [1 .. M -> X]
    BY <1>4, <1>5
<1>7. ReadAt(hdr, m, p) = [i \in 1 .. k |-> ByteAt(hdr, p + i - 1)]
    BY ReadAtRight
<1>8. ASSUME k = 0
      PROVE  SubSeq(Text(hdr), p + 1, p + k) = [i \in 1 .. k |-> ByteAt(hdr, p + i - 1)]
  <2>1. PICK a, b : a = p + 1 /\ b = p
      OBVIOUS
  <2>2. a \in Int /\ b \in Int /\ b < a /\ text \in Seq(X) /\ \A i \in a .. b : text[i] \in X
      BY <1>6, <2>1
  <2>3. PICK z : z = SubSeq(text, a, b)
      OBVIOUS
  <2>4. z \in Seq(X) /\ Len(z) = IF a =< b THEN b - a + 1 ELSE 0
      BY <2>2, <2>3, SubSeqProperties
  <2>5. z = <<>>
      BY <2>2, <2>4
  <2>6. [i \in 1 .. 0 |-> ByteAt(hdr, p + i - 1)] = <<>>
      OBVIOUS
  <2>7. p + k = b
      BY <1>8, <2>1
  <2> QED BY <1>3, <1>8, <2>1, <2>3, <2>5, <2>6, <2>7
<1>9. ASSUME k > 0
      PROVE  SubSeq(Text(hdr), p + 1, p + k) = [i \in 1 .. k |-> ByteAt(hdr, p + i - 1)]
  <2>1. p + k =< M
      BY <1>1, <1>2, <1>9
  <2>2. SubSeq(text, p + 1, p + k) = [i \in 1 .. k |-> text[p + i]]
      BY <1>1, <1>6, <2>1, PartOf
  <2>3. ASSUME NEW i \in 1 .. k PROVE text[p + i] = ByteAt(hdr, p + i - 1)
    <3>1. p + i \in 1 .. M
        BY <1>1, <2>1
    <3> QED BY <1>4, <3>1
  <2> QED BY <1>3, <2>2, <2>3
<1>10. SubSeq(Text(hdr), p + 1, p + k) = [i \in 1 .. k |-> ByteAt(hdr, p + i - 1)]
    BY <1>1, <1>8, <1>9
<1> QED BY <1>7, <1>10

\* OpenFile::Read returns the part of the file that was asked for.
LEMMA ReadShown ==
    ASSUME DiskInv, NEW h \in Handle, NEW m \in 0 .. MaxPos, Read(h, m)
    PROVE  Step
<1>1. open[h] # None /\ UNCHANGED <<table, header, block>> /\ m \in Nat
    BY FileNumbers DEF Read
<1>2. PICK i \in InUse : \E hdr, p, k :
          /\ Requested(h, hdr, m, p, k) /\ hdr = HeaderOf(i)
          /\ open[h].name = table[i].name /\ table[i].name \in DOMAIN Files
          /\ Files[table[i].name] = Text(hdr)
          /\ k \in Nat /\ k = F!Reach(Text(hdr), p, m)
    BY <1>1, RequestRight
<1>3. PICK hdr, p, k :
          /\ Requested(h, hdr, m, p, k) /\ hdr = HeaderOf(i)
          /\ open[h].name = table[i].name /\ table[i].name \in DOMAIN Files
          /\ Files[table[i].name] = Text(hdr)
          /\ k \in Nat /\ k = F!Reach(Text(hdr), p, m)
    BY <1>2
<1>4. /\ hdr = open[h].hdr /\ p = open[h].seekPosition /\ k = Transferred(hdr, m, p)
      /\ HeaderRight(hdr) /\ p \in Nat
    BY <1>3 DEF Requested
<1>5. PICK data : data = ReadAt(hdr, m, p)
    OBVIOUS
<1>6. data = [x \in 1 .. k |-> ByteAt(hdr, p + x - 1)]
  <2>1. PICK n \in Nat, q \in Nat : n = m /\ q = p
      BY <1>1, <1>4
  <2>2. HeaderRight(hdr) /\ k = Transferred(hdr, n, q)
      BY <1>4, <2>1
  <2>3. ReadAt(hdr, n, q) = [x \in 1 .. k |-> ByteAt(hdr, q + x - 1)]
      BY <2>2, ReadAtRight
  <2> QED BY <1>5, <2>1, <2>3
<1>7. Len(data) = k
    BY <1>3, <1>6
<1>8. result' = data /\ open' = [open EXCEPT ![h].seekPosition = p + k]
    BY <1>4, <1>5, <1>7 DEF Read
<1>9. SubSeq(Text(hdr), p + 1, p + k) = data
  <2>1. PICK n \in Nat, q \in Nat : n = m /\ q = p
      BY <1>1, <1>4
  <2>2. HeaderRight(hdr) /\ k = Transferred(hdr, n, q)
      BY <1>4, <2>1
  <2>3. SubSeq(Text(hdr), q + 1, q + k) = ReadAt(hdr, n, q)
      BY <2>2, TextPart, Zenon
  <2> QED BY <1>5, <2>1, <2>3
<1>10. p + k \in Nat
    BY <1>3, <1>4
<1>11. PICK x \in Nat : x = p + k
    BY <1>10
<1>12. /\ OpenRight' /\ Handles' = [Handles EXCEPT ![h].pos = x]
       /\ Handles[h] = [name |-> open[h].name, pos |-> open[h].seekPosition]
       /\ Handles[h] # None
    BY <1>1, <1>8, <1>11, MovedRight
<1>13. Handles[h].name = table[i].name /\ Handles[h].pos = p
    BY <1>3, <1>4, <1>12
<1>14. Files' = Files /\ BlocksRight'
    BY <1>1, SameDisk DEF DiskInv, BlocksRight
<1>15. F!Read(h, m)
    BY <1>3, <1>8, <1>9, <1>11, <1>12, <1>13, <1>14 DEF F!Read, F!HasFile
<1>16. F!Next
    BY <1>15 DEF F!Next
<1> QED BY <1>12, <1>14, <1>16 DEF Step

\* The text of the file that is written, after that.
LEMMA WriteText ==
    ASSUME NEW h, NEW from, NEW m, NEW hdr, NEW p, NEW k, Requested(h, hdr, m, p, k),
           Write(h, from, m)
    PROVE  Text(hdr)' = [x \in DOMAIN Text(hdr) |-> IF x \in p + 1 .. p + k THEN from
                                                    ELSE Text(hdr)[x]]
<1>1. HeaderRight(hdr) /\ p \in Nat /\ m \in Nat /\ k = Transferred(hdr, m, p)
    BY DEF Requested
<1>2. k \in Nat /\ hdr.numBytes \in Nat
    BY <1>1, TransferredRight
<1>3. PICK M \in Nat : M = hdr.numBytes
    BY <1>2
<1>4. PICK text : text = Text(hdr)
    OBVIOUS
<1>5. text = [x \in 1 .. M |-> ByteAt(hdr, x - 1)]
    BY <1>3, <1>4 DEF Text
<1>6. Text(hdr)' = [x \in 1 .. M |-> ByteAt(hdr, x - 1)']
    BY <1>3 DEF Text
<1>7. ASSUME NEW x \in 1 .. M
      PROVE  ByteAt(hdr, x - 1)' = IF x \in p + 1 .. p + k THEN from ELSE text[x]
  <2>1. PICK o \in Nat : o = x - 1 /\ o < hdr.numBytes
      BY <1>3
  <2>2. ByteAt(hdr, o)' = IF o \in p .. p + k - 1 THEN from ELSE ByteAt(hdr, o)
      BY <2>1, WriteBytes
  <2>3. o \in p .. p + k - 1 <=> x \in p + 1 .. p + k
      BY <1>1, <1>2, <2>1
  <2>4. text[x] = ByteAt(hdr, o)
      BY <1>5, <2>1
  <2>5. ByteAt(hdr, x - 1)' = ByteAt(hdr, o)'
      BY <2>1
  <2> QED BY <2>2, <2>3, <2>4, <2>5
<1> QED BY <1>4, <1>5, <1>6, <1>7

\* The text of another file.
LEMMA OtherText ==
    ASSUME NEW h, NEW from, NEW m, NEW hdr, NEW p, NEW k, Requested(h, hdr, m, p, k),
           Write(h, from, m), NEW g, HeaderRight(g),
           Range(g.dataSectors) \cap Range(hdr.dataSectors) = {}
    PROVE  Text(g)' = Text(g)
<1>1. PICK M \in Nat : M = g.numBytes
    BY FileNumbers DEF HeaderRight
<1>2. ASSUME NEW x \in 1 .. M PROVE ByteAt(g, x - 1)' = ByteAt(g, x - 1)
  <2>1. PICK o \in Nat : o = x - 1 /\ o < g.numBytes
      BY <1>1
  <2>2. ByteAt(g, o)' = ByteAt(g, o)
      BY <2>1, WriteOthers
  <2> QED BY <2>1, <2>2
<1>3. Text(g) = [x \in 1 .. M |-> ByteAt(g, x - 1)]
      /\ Text(g)' = [x \in 1 .. M |-> ByteAt(g, x - 1)']
    BY <1>1 DEF Text
<1> QED BY <1>2, <1>3

(***************************************************************************)
(* The files after a write: WriteAt reads and writes whole sectors, but    *)
(* one file changes, and of it the bytes that were asked for.              *)
(***************************************************************************)
LEMMA WriteFiles ==
    ASSUME DiskInv, NEW h, NEW from, NEW m, NEW hdr, NEW p, NEW k,
           Requested(h, hdr, m, p, k), Write(h, from, m), NEW i \in InUse, hdr = HeaderOf(i)
    PROVE  Files' = [Files EXCEPT ![table[i].name] =
                       [x \in DOMAIN Text(hdr) |-> IF x \in p + 1 .. p + k THEN from
                                                   ELSE Text(hdr)[x]]]
<1>1. SpaceInv /\ UNCHANGED <<freeMap, table, header>>
    BY DEF DiskInv, Write
<1>2. DirectoryRight /\ SectorsApart /\ DirectoryRight'
    BY <1>1, SameSpace DEF SpaceInv
<1>3. FilesShown
    BY <1>2, FilesAreShown
<1>4. DirectoryRight' => FilesShown'
    BY FilesAreShown, PTL
<1>5. FilesShown'
    BY <1>2, <1>4
<1>6. InUse' = InUse /\ \A j : HeaderOf(j)' = HeaderOf(j) /\ table'[j] = table[j]
    BY <1>1 DEF InUse, HeaderOf
<1>7. /\ Files = [n \in DOMAIN Files |-> Files[n]] /\ Files' = [n \in DOMAIN Files' |-> Files'[n]]
      /\ DOMAIN Files = {table[j].name : j \in InUse} /\ DOMAIN Files' = DOMAIN Files
    BY <1>3, <1>5, <1>6 DEF FilesShown
<1>8. ASSUME NEW j \in InUse, NEW g, g = HeaderOf(j)
      PROVE  Files[table[j].name] = Text(g) /\ Files'[table[j].name] = Text(g)'
  <2>1. Files[table[j].name] = Text(g)
      BY <1>3, <1>8 DEF FilesShown
  <2>2. j \in InUse' /\ g \in {HeaderOf(j)'}
      BY <1>6, <1>8
  <2>3. Files'[table'[j].name] = Text(g)'
      BY <1>5, <2>2 DEF FilesShown
  <2> QED BY <1>6, <2>1, <2>3
<1>9. PICK new : new = [x \in DOMAIN Text(hdr) |-> IF x \in p + 1 .. p + k THEN from
                                                  ELSE Text(hdr)[x]]
    OBVIOUS
<1>10. Files'[table[i].name] = new
    BY <1>8, <1>9, WriteText
<1>11. ASSUME NEW j \in InUse, table[j].name # table[i].name
       PROVE  Files'[table[j].name] = Files[table[j].name]
  <2>1. PICK g : g = HeaderOf(j)
      OBVIOUS
  <2>2. HeaderRight(g) /\ Owned(i) \cap Owned(j) = {}
      BY <1>2, <1>11, <2>1 DEF DirectoryRight, SectorsApart
  <2>3. Range(g.dataSectors) \cap Range(hdr.dataSectors) = {}
      BY <2>1, <2>2 DEF Owned
  <2>4. Text(g)' = Text(g)
      BY <2>2, <2>3, OtherText
  <2> QED BY <1>8, <2>1, <2>4
<1>12. ASSUME NEW n \in DOMAIN Files
       PROVE  Files'[n] = IF n = table[i].name THEN new ELSE Files[n]
  <2>1. PICK j \in InUse : n = table[j].name
      BY <1>7
  <2> QED BY <1>10, <1>11, <2>1
<1>13. Files' = [n \in DOMAIN Files |-> IF n = table[i].name THEN new ELSE Files[n]]
    BY <1>7, <1>12
<1>14. [Files EXCEPT ![table[i].name] = new]
         = [n \in DOMAIN Files |-> IF n = table[i].name THEN new ELSE Files[n]]
    BY <1>7
<1> QED BY <1>9, <1>13, <1>14

\* OpenFile::Write writes the part of the file that was asked for.
LEMMA WriteShown ==
    ASSUME DiskInv, NEW h \in Handle, NEW m \in 0 .. MaxPos, NEW from \in Byte,
           Write(h, from, m)
    PROVE  Step
<1>1. open[h] # None /\ UNCHANGED <<table, header>> /\ m \in Nat /\ result' = <<>>
    BY FileNumbers DEF Write
<1>2. PICK i \in InUse : \E hdr, p, k :
          /\ Requested(h, hdr, m, p, k) /\ hdr = HeaderOf(i)
          /\ open[h].name = table[i].name /\ table[i].name \in DOMAIN Files
          /\ Files[table[i].name] = Text(hdr)
          /\ k \in Nat /\ k = F!Reach(Text(hdr), p, m)
    BY <1>1, RequestRight
<1>3. PICK hdr, p, k :
          /\ Requested(h, hdr, m, p, k) /\ hdr = HeaderOf(i)
          /\ open[h].name = table[i].name /\ table[i].name \in DOMAIN Files
          /\ Files[table[i].name] = Text(hdr)
          /\ k \in Nat /\ k = F!Reach(Text(hdr), p, m)
    BY <1>2
<1>4. hdr = open[h].hdr /\ p = open[h].seekPosition /\ k = Transferred(hdr, m, p) /\ p \in Nat
    BY <1>3 DEF Requested
<1>5. PICK x \in Nat : x = p + k
    BY <1>3, <1>4
<1>6. open' = [open EXCEPT ![h].seekPosition = x]
    BY <1>4, <1>5 DEF Write
<1>7. /\ OpenRight' /\ Handles' = [Handles EXCEPT ![h].pos = x]
      /\ Handles[h] = [name |-> open[h].name, pos |-> open[h].seekPosition]
      /\ Handles[h] # None
    BY <1>1, <1>6, MovedRight
<1>8. Handles[h].name = table[i].name /\ Handles[h].pos = p
    BY <1>3, <1>4, <1>7
<1>9. BlocksRight'
    BY <1>3, WriteBlocks DEF DiskInv
<1>10. Files' = [Files EXCEPT ![table[i].name] =
                   [y \in DOMAIN Text(hdr) |-> IF y \in p + 1 .. p + k THEN from
                                               ELSE Text(hdr)[y]]]
    BY <1>3, WriteFiles
<1>11. F!Write(h, m, from)
    BY <1>1, <1>3, <1>5, <1>7, <1>8, <1>10 DEF F!Write, F!HasFile
<1>12. F!Next
    BY <1>11 DEF F!Next
<1> QED BY <1>7, <1>9, <1>12 DEF Step

\* A text as long as its file holds bytes; it changes only with its sectors.
LEMMA TextRight ==
    ASSUME BlocksRight, NEW hdr, HeaderRight(hdr), block' = block
    PROVE  /\ Text(hdr)' = Text(hdr)
           /\ Text(hdr) \in [1 .. hdr.numBytes -> Byte \cup {Junk}]
<1>1. Text(hdr)' = Text(hdr)
    BY DEF Text, ByteAt
<1>2. PICK M \in Nat : M = hdr.numBytes
    BY FileNumbers DEF HeaderRight
<1>3. ASSUME NEW x \in 1 .. M PROVE ByteAt(hdr, x - 1) \in Byte \cup {Junk}
  <2>1. PICK o \in Nat : o = x - 1 /\ o < hdr.numBytes
      BY <1>2
  <2>2. ByteAt(hdr, o) \in Byte \cup {Junk}
      BY <2>1, BytesRight
  <2> QED BY <2>1, <2>2
<1> QED BY <1>1, <1>2, <1>3 DEF Text

\* An open file whose entry is still there.
LEMMA FileStays ==
    ASSUME NEW y, FileRight(y),
           \A i \in InUse : y.name = table[i].name =>
              i \in InUse' /\ table'[i] = table[i] /\ HeaderOf(i)' = HeaderOf(i)
    PROVE  FileRight(y)'
<1>1. PICK i \in InUse : y.name = table[i].name /\ y.hdr = HeaderOf(i)
    BY DEF FileRight
<1>2. i \in InUse' /\ y.name = table'[i].name /\ y.hdr = HeaderOf(i)'
    BY <1>1
<1> QED BY <1>2 DEF FileRight

\* FileSystem::Create adds a file of the size that was asked for and leaves the others alone.
LEMMA CreateShown ==
    ASSUME DiskInv, NEW name \in Name, NEW size \in Sizes, Create(name, size)
    PROVE  Step
<1>1. SpaceInv /\ DirectoryRight /\ BlocksRight /\ OpenRight
    BY DEF DiskInv, SpaceInv
<1>2. UNCHANGED <<block, open>> /\ result' = <<>>
    BY DEF Create
<1>3. CASE CreateFails(name, size)
  <2>1. UNCHANGED <<table, header>>
      BY <1>3 DEF Create
  <2> QED BY <1>2, <2>1, NothingShown
<1>4. CASE ~CreateFails(name, size)
  <2>1. PICK hdr, f, sector : Created(name, size, hdr, f, sector)
      BY <1>1, <1>4, CreateMakes
  <2>2. /\ HeaderRight(hdr) /\ hdr.numBytes = size /\ \A i \in InUse : table[i].name # name
      BY <2>1 DEF Created
  <2>3. /\ table'[f].name = name /\ InUse' = InUse \cup {f} /\ f \notin InUse
        /\ HeaderOf(f)' = hdr
      BY <1>1, <2>1, CreatedEntries
  <2>4. \A i \in InUse : table'[i] = table[i] /\ HeaderOf(i)' = HeaderOf(i)
      BY <1>1, <2>1, CreatedEntries
  <2>5. BlocksRight'
      BY <1>1, <1>2 DEF BlocksRight
  <2>6. ASSUME NEW g \in Handle, open'[g] # None PROVE FileRight(open[g])'
    <3>1. PICK y : y = open[g] /\ y = open'[g]
        BY <1>2
    <3>2. FileRight(y)
        BY <1>1, <2>6, <3>1 DEF OpenRight
    <3>3. FileRight(y)'
        BY <2>3, <2>4, <3>2, FileStays
    <3> QED BY <3>1, <3>3 DEF FileRight
  <2>7. OpenRight'
      BY <2>6 DEF OpenRight
  <2>8. DirectoryRight'
      BY <1>1, <1>4, CreateKeepsSpace DEF SpaceInv
  <2>9. FilesShown
      BY <1>1, FilesAreShown
  <2>10. DirectoryRight' => FilesShown'
      BY FilesAreShown, PTL
  <2>11. FilesShown'
      BY <2>8, <2>10
  <2>12. DOMAIN Files = {table[i].name : i \in InUse}
         /\ DOMAIN Files' = {table'[i].name : i \in InUse'}
      BY <2>9, <2>11 DEF FilesShown
  <2>13. name \notin DOMAIN Files /\ DOMAIN Files' = DOMAIN Files \cup {name}
      BY <2>2, <2>3, <2>4, <2>12
  <2>14. Files'[name] \in [1 .. size -> Byte \cup {Junk}]
    <3>1. f \in InUse' /\ hdr \in {HeaderOf(f)'}
        BY <2>3
    <3>2. Files'[table'[f].name] = Text(hdr)'
        BY <2>11, <3>1 DEF FilesShown
    <3> QED BY <1>1, <1>2, <2>2, <2>3, <3>2, TextRight
  <2>15. ASSUME NEW n \in DOMAIN Files PROVE Files'[n] = Files[n]
    <3>1. PICK i \in InUse : n = table[i].name
        BY <2>12
    <3>2. PICK g : g = HeaderOf(i) /\ HeaderRight(g)
        BY <1>1 DEF DirectoryRight
    <3>3. i \in InUse' /\ g \in {HeaderOf(i)'} /\ table'[i].name = n
        BY <2>3, <2>4, <3>1, <3>2
    <3>4. Files'[table'[i].name] = Text(g)'
        BY <2>11, <3>3 DEF FilesShown
    <3>5. Files[table[i].name] = Text(g)
        BY <2>9, <3>2 DEF FilesShown
    <3>6. Text(g)' = Text(g)
        BY <1>1, <1>2, <3>2, TextRight
    <3> QED BY <3>1, <3>3, <3>4, <3>5, <3>6
  <2>16. Handles' = Handles
      BY <1>2 DEF Handles
  <2>17. F!Create(name)
      BY <1>2, <2>13, <2>14, <2>15, <2>16 DEF F!Create
  <2>18. F!Next
      BY <2>17 DEF F!Next
  <2> QED BY <2>5, <2>7, <2>18 DEF Step
<1> QED BY <1>3, <1>4

\* FileSystem::Remove takes the file away, when nobody has it open, and leaves the others alone.
LEMMA RemoveShown ==
    ASSUME DiskInv, CloseFirst, NEW name \in Name, Remove(name)
    PROVE  Step
<1>1. SpaceInv /\ DirectoryRight /\ BlocksRight /\ OpenRight
    BY DEF DiskInv, SpaceInv
<1>2. UNCHANGED <<block, open>> /\ result' = <<>> /\ ~IsOpen(name)
    BY DEF Remove
<1>3. PICK f \in InUse :
          /\ table[f].name = name
          /\ table' = [table EXCEPT ![f] = Unused]
          /\ header' = [header EXCEPT ![table[f].sector] = None]
    BY <1>1, RemoveFrees
<1>4. /\ InUse' = InUse \ {f}
      /\ \A i \in InUse' :
           i \in InUse /\ i # f /\ table'[i] = table[i] /\ HeaderOf(i)' = HeaderOf(i)
    BY <1>1, <1>3, RemovedEntries
<1>5. BlocksRight'
    BY <1>1, <1>2 DEF BlocksRight
<1>6. ASSUME NEW g \in Handle, open'[g] # None PROVE FileRight(open[g])'
  <2>1. PICK y : y = open[g] /\ y = open'[g]
      BY <1>2
  <2>2. FileRight(y) /\ y.name # name
      BY <1>1, <1>2, <1>6, <2>1 DEF OpenRight, IsOpen
  <2>3. \A i \in InUse : y.name = table[i].name => i \in InUse'
      BY <1>3, <1>4, <2>2
  <2>4. FileRight(y)'
      BY <1>4, <2>2, <2>3, FileStays
  <2> QED BY <2>1, <2>4 DEF FileRight
<1>7. OpenRight'
    BY <1>6 DEF OpenRight
<1>8. DirectoryRight'
    BY <1>1, RemoveKeepsSpace DEF SpaceInv
<1>9. FilesShown
    BY <1>1, FilesAreShown
<1>10. DirectoryRight' => FilesShown'
    BY FilesAreShown, PTL
<1>11. FilesShown'
    BY <1>8, <1>10
<1>12. /\ DOMAIN Files = {table[i].name : i \in InUse}
       /\ DOMAIN Files' = {table'[i].name : i \in InUse'}
       /\ Files' = [n \in DOMAIN Files' |-> Files'[n]]
    BY <1>9, <1>11 DEF FilesShown
<1>13. name \in DOMAIN Files /\ DOMAIN Files' = DOMAIN Files \ {name}
  <2>1. \A i \in InUse : table[i].name = name <=> i = f
      BY <1>1, <1>3 DEF DirectoryRight
  <2>2. ASSUME NEW n \in DOMAIN Files' PROVE n \in DOMAIN Files \ {name}
      BY <1>4, <1>12, <2>1
  <2>3. ASSUME NEW n \in DOMAIN Files \ {name} PROVE n \in DOMAIN Files'
    <3>1. PICK i \in InUse : n = table[i].name
        BY <1>12
    <3>2. i \in InUse'
        BY <1>4, <2>1, <3>1
    <3>3. n = table'[i].name
        BY <1>4, <3>1, <3>2
    <3> QED BY <1>12, <3>2, <3>3
  <2>4. name \in DOMAIN Files
      BY <1>3, <1>12
  <2> QED BY <2>2, <2>3, <2>4
<1>14. ASSUME NEW n \in DOMAIN Files' PROVE Files'[n] = Files[n]
  <2>1. PICK i \in InUse' : n = table'[i].name
      BY <1>12
  <2>2. PICK g : g = HeaderOf(i) /\ HeaderRight(g)
      BY <1>1, <1>4 DEF DirectoryRight
  <2>3. i \in InUse /\ g \in {HeaderOf(i)'} /\ table[i].name = n
      BY <1>4, <2>1, <2>2
  <2>4. Files'[table'[i].name] = Text(g)'
      BY <1>11, <2>3 DEF FilesShown
  <2>5. Files[table[i].name] = Text(g)
      BY <1>9, <2>2, <2>3 DEF FilesShown
  <2>6. Text(g)' = Text(g)
      BY <1>1, <1>2, <2>2, TextRight
  <2> QED BY <2>1, <2>3, <2>4, <2>5, <2>6
<1>15. Files' = [n \in DOMAIN Files \ {name} |-> Files[n]]
    BY <1>12, <1>13, <1>14
<1>16. Handles' = Handles
    BY <1>2 DEF Handles
<1>17. F!Remove(name)
    BY <1>2, <1>13, <1>15, <1>16 DEF F!Remove
<1>18. F!Next
    BY <1>17 DEF F!Next
<1> QED BY <1>5, <1>7, <1>18 DEF Step

\* Every use of an open file is a step of FileMap.
LEMMA UseShown ==
    ASSUME DiskInv, NEW h \in Handle, Use(h)
    PROVE  Step
<1>1. ASSUME NEW name \in Name, Open(h, name) PROVE Step
    BY <1>1, OpenShown
<1>2. CASE Close(h)
    BY <1>2, CloseShown
<1>3. ASSUME NEW x \in 0 .. MaxPos, Seek(h, x) PROVE Step
    BY <1>3, SeekShown
<1>4. ASSUME NEW m \in 0 .. MaxPos, Read(h, m) PROVE Step
    BY <1>4, ReadShown
<1>5. ASSUME NEW m \in 0 .. MaxPos, NEW b \in Byte, Write(h, b, m) PROVE Step
    BY <1>5, WriteShown
<1> QED BY <1>1, <1>2, <1>3, <1>4, <1>5 DEF Use

\* Every system call is.
LEMMA ProgramShown ==
    ASSUME DiskInv, CallsInv, NEW p \in Process, Program(p)
    PROVE  Step
<1>0. UserHandle \subseteq Handle
    BY DEF UserHandle
<1>1. ASSUME NEW name \in Name, Create_Syscall(name) PROVE Step
    BY <1>1, CreateShown, FileCallsAssumption DEF Create_Syscall
<1>2. ASSUME NEW name \in Name, Open_Syscall(p, name) PROVE Step
  <2>1. CASE result' = <<>> /\ UNCHANGED <<freeMap, table, header, block, open, fileTable>>
      BY <2>1, NothingShown
  <2>2. ASSUME NEW f \in UserHandle, Open(f, name) PROVE Step
      BY <1>0, <2>2, OpenShown
  <2> QED BY <1>2, <2>1, <2>2 DEF Open_Syscall
<1>3. ASSUME NEW id \in OpenFileId, FileOf(p, id) # None PROVE FileOf(p, id) \in Handle
    BY <1>0, <1>3, GetType DEF CallsInv
<1>4. ASSUME NEW id \in OpenFileId, Close_Syscall(p, id) PROVE Step
  <2>1. CASE FileOf(p, id) # None
    <3>1. Close(FileOf(p, id))
        BY <1>4, <2>1 DEF Close_Syscall, FileOf
    <3> QED BY <1>3, <2>1, <3>1, CloseShown
  <2>2. CASE FileOf(p, id) = None
    <3>1. result' = <<>> /\ UNCHANGED <<table, header, block, open>>
        BY <1>4, <2>2 DEF Close_Syscall, FileOf
    <3> QED BY <3>1, NothingShown
  <2> QED BY <2>1, <2>2
<1>5. ASSUME NEW id \in OpenFileId, NEW m \in 0 .. MaxPos, Read_Syscall(p, m, id) PROVE Step
  <2>1. FileOf(p, id) # None /\ Read(FileOf(p, id), m)
      BY <1>5 DEF Read_Syscall, FileOf
  <2> QED BY <1>3, <2>1, ReadShown
<1>6. ASSUME NEW id \in OpenFileId, NEW m \in 0 .. MaxPos, NEW b \in Byte,
             Write_Syscall(p, b, m, id)
      PROVE  Step
  <2>1. FileOf(p, id) # None /\ Write(FileOf(p, id), b, m)
      BY <1>6 DEF Write_Syscall, FileOf
  <2> QED BY <1>3, <2>1, WriteShown
<1> QED BY <1>1, <1>2, <1>4, <1>5, <1>6 DEF Program

\* So is every step of the system, or FileMap sees nothing of it.
LEMMA CallsShown ==
    ASSUME CloseFirst, DiskInv, CallsInv, [CallsNext]_<<vars, fileTable>>
    PROVE  BlocksRight' /\ OpenRight' /\ [F!Next]_(F!vars)
<1>1. ASSUME Step PROVE BlocksRight' /\ OpenRight' /\ [F!Next]_(F!vars)
    BY <1>1 DEF Step
<1>2. CASE Restart
    BY <1>1, <1>2, RestartShown
<1>3. ASSUME NEW name \in Name, Manage(name)
      PROVE  BlocksRight' /\ OpenRight' /\ [F!Next]_(F!vars)
  <2>1. Step
      BY <1>3, RemoveShown, CreateShown DEF Manage
  <2> QED BY <1>1, <2>1
<1>4. ASSUME NEW h \in KernelHandle, Use(h)
      PROVE  BlocksRight' /\ OpenRight' /\ [F!Next]_(F!vars)
  <2>1. h \in Handle
      BY FileCallsAssumption
  <2> QED BY <1>1, <1>4, <2>1, UseShown
<1>5. ASSUME NEW p \in Process, Program(p)
      PROVE  BlocksRight' /\ OpenRight' /\ [F!Next]_(F!vars)
    BY <1>1, <1>5, ProgramShown
<1>6. CASE UNCHANGED <<vars, fileTable>>
  <2>1. UNCHANGED <<table, header, block, open, result>>
      BY <1>6 DEF vars
  <2>2. Files' = Files /\ Handles' = Handles
      BY <2>1, SameDisk DEF Handles
  <2>3. UNCHANGED F!vars
      BY <2>1, <2>2 DEF F!vars
  <2>4. BlocksRight' /\ OpenRight'
      BY <2>1, SameFile DEF DiskInv, BlocksRight, OpenRight
  <2> QED BY <2>3, <2>4
<1> QED BY <1>2, <1>3, <1>4, <1>5, <1>6 DEF CallsNext

\* A fresh disk has no files, and none is open.
LEMMA CallsStart == CallsInit => BlocksRight /\ OpenRight /\ F!Init
<1> SUFFICES ASSUME CallsInit PROVE BlocksRight /\ OpenRight /\ F!Init
    OBVIOUS
<1>1. /\ table = [i \in 1 .. NumDirEntries |-> Unused]
      /\ block = [s \in Sector |-> [i \in 1 .. SectorSize |-> Junk]]
      /\ open = [h \in Handle |-> None] /\ result = <<>>
    BY DEF CallsInit, Init
<1>2. BlocksRight /\ OpenRight
    BY <1>1 DEF BlocksRight, OpenRight
<1>3. InUse = {}
    BY <1>1 DEF InUse, Unused
<1>4. Files = [n \in {} |-> <<>>]
    BY <1>3 DEF Files
<1>5. Handles = [h \in Handle |-> None]
    BY <1>1 DEF Handles
<1> QED BY <1>1, <1>2, <1>4, <1>5 DEF F!Init

(***************************************************************************)
(* DiskInv is an invariant, for programs that remove a file only when      *)
(* nobody has it open: every sector holds bytes, and an open file's header *)
(* in memory is the one on the disk, whatever Create, Remove, Write and    *)
(* Restart do to it meanwhile.                                             *)
(***************************************************************************)
THEOREM DiskInvariance ==
    ASSUME CloseFirst
    PROVE  CallsSpec => []DiskInv
<1>1. CallsInit => BlocksRight /\ OpenRight
    BY CallsStart
<1>2. CallsInv /\ SpaceInv /\ BlocksRight /\ OpenRight /\ [CallsNext]_<<vars, fileTable>>
        => BlocksRight' /\ OpenRight'
    BY CallsShown DEF DiskInv, CallsInv
<1>3. CallsInv => HandlesRight
    BY DEF CallsInv
<1> QED BY <1>1, <1>2, <1>3, FileCallsInvariance, SpaceInvariance, PTL DEF CallsSpec, DiskInv

(***************************************************************************)
(* The file system and its system calls implement FileMap: a write changes *)
(* exactly the bytes that were asked for, in that file and no other, reads *)
(* return what was written last, and files are created, removed and kept   *)
(* over a restart as named texts of a fixed length.                        *)
(***************************************************************************)
THEOREM FilesAreImplemented ==
    ASSUME CloseFirst
    PROVE  CallsSpec => FilesImplemented
<1>1. DiskInv /\ CallsInv /\ [CallsNext]_<<vars, fileTable>> => [F!Next]_(F!vars)
    BY CallsShown
<1>2. CallsInit => F!Init
    BY CallsStart
<1> QED BY <1>1, <1>2, DiskInvariance, FileCallsInvariance, PTL
        DEF CallsSpec, FilesImplemented, F!Spec

=============================================================================
