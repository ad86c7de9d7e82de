--------------------------- MODULE DevicesProofs ---------------------------
(***************************************************************************)
(* Proofs about Devices, for any number of threads, any geometry and       *)
(* timing of the disk, any intervals of the timer and lines of any length. *)
(***************************************************************************)
EXTENDS Devices, FunctionTheorems, FiniteSetTheorems,
        SequenceTheorems, TLAPS

-----------------------------------------------------------------------------
(***************************************************************************)
(* Queues of threads.                                                      *)
(***************************************************************************)
InQ(q, t) == \E k \in 1 .. Len(q) : q[k] = t
NoRepeats(q) == \A k, n \in 1 .. Len(q) : q[k] = q[n] => k = n

\* Nobody is in an empty queue.
LEMMA EmptyQueue ==
    ASSUME NEW q \in Seq(Thread)
    PROVE  q = <<>> <=> \A x \in Thread : ~InQ(q, x)
<1>1. CASE q = <<>>
    BY <1>1 DEF InQ
<1>2. CASE q # <<>>
  <2>1. 1 \in 1 .. Len(q) /\ q[1] \in Thread
      BY <1>2
  <2> QED BY <1>2, <2>1 DEF InQ
<1> QED BY <1>1, <1>2

\* Append adds one thread.
LEMMA AppendQueue ==
    ASSUME NEW q \in Seq(Thread), NEW t \in Thread
    PROVE  /\ Append(q, t) \in Seq(Thread)
           /\ \A x : InQ(Append(q, t), x) <=> InQ(q, x) \/ x = t
           /\ NoRepeats(q) /\ ~InQ(q, t) => NoRepeats(Append(q, t))
<1>0. Append(q, t) \in Seq(Thread)
    OBVIOUS
<1>1. PICK r \in Seq(Thread) : r = Append(q, t)
    BY <1>0, Zenon
<1>2. Len(r) = Len(q) + 1 /\ r[Len(q) + 1] = t /\ \A k \in 1 .. Len(q) : r[k] = q[k]
    BY <1>1
<1>3. ASSUME NEW x PROVE InQ(r, x) <=> InQ(q, x) \/ x = t
    BY <1>2 DEF InQ
<1>4. NoRepeats(q) /\ ~InQ(q, t) => NoRepeats(r)
    BY <1>2 DEF NoRepeats, InQ
<1> QED BY <1>1, <1>3, <1>4

\* Remove takes the first thread, which is then in the queue no more.
LEMMA TailQueue ==
    ASSUME NEW q \in Seq(Thread), q # <<>>, NoRepeats(q)
    PROVE  /\ Head(q) \in Thread /\ Tail(q) \in Seq(Thread) /\ InQ(q, Head(q))
           /\ \A x : InQ(Tail(q), x) <=> InQ(q, x) /\ x # Head(q)
           /\ NoRepeats(Tail(q))
<1>0. Tail(q) \in Seq(Thread)
    OBVIOUS
<1>1. PICK r \in Seq(Thread) : r = Tail(q)
    BY <1>0, Zenon
<1>2. PICK h \in Thread : h = Head(q) /\ h = q[1]
    OBVIOUS
<1>3. Len(r) = Len(q) - 1 /\ Len(q) \in Nat \ {0} /\ \A k \in 1 .. Len(r) : r[k] = q[k + 1]
    BY <1>1
<1>4. ASSUME NEW x, InQ(r, x) PROVE InQ(q, x) /\ x # h
  <2>1. PICK k \in 1 .. Len(r) : r[k] = x
      BY <1>4 DEF InQ
  <2>2. k + 1 \in 1 .. Len(q) /\ q[k + 1] = x /\ k + 1 # 1 /\ 1 \in 1 .. Len(q)
      BY <1>3, <2>1
  <2> QED BY <1>2, <2>2 DEF InQ, NoRepeats
<1>5. ASSUME NEW x, InQ(q, x), x # h PROVE InQ(r, x)
  <2>1. PICK k \in 1 .. Len(q) : q[k] = x
      BY <1>5 DEF InQ
  <2>2. k - 1 \in 1 .. Len(r) /\ r[k - 1] = x
      BY <1>2, <1>3, <1>5, <2>1
  <2> QED BY <2>2 DEF InQ
<1>6. NoRepeats(r)
  <2> SUFFICES ASSUME NEW k \in 1 .. Len(r), NEW n \in 1 .. Len(r), r[k] = r[n] PROVE k = n
      BY DEF NoRepeats
  <2>1. k + 1 \in 1 .. Len(q) /\ n + 1 \in 1 .. Len(q) /\ q[k + 1] = q[n + 1]
      BY <1>3
  <2>2. k + 1 = n + 1
      BY <2>1 DEF NoRepeats
  <2> QED BY <2>2
<1>7. InQ(q, h)
    BY <1>2, <1>3 DEF InQ
<1> QED BY <1>1, <1>2, <1>4, <1>5, <1>6, <1>7

-----------------------------------------------------------------------------
(***************************************************************************)
(* The list of pending interrupts.                                         *)
(***************************************************************************)
Interrupts == {"timer", "disk", "out", "in"}
Interrupt == [type : Interrupts, ticks : Int]

Of(list, type) == {i \in DOMAIN list : list[i].type = type}
CountOf(list, type) == Cardinality(Of(list, type))

\* The interrupts of a type are finitely many.
LEMMA CountType ==
    ASSUME NEW list \in Seq(Interrupt), NEW type
    PROVE  /\ IsFiniteSet(Of(list, type)) /\ CountOf(list, type) \in Nat
           /\ CountOf(list, type) > 0 => \E i \in DOMAIN list : list[i].type = type
<1>1. DOMAIN list = 1 .. Len(list) /\ Len(list) \in Nat
    OBVIOUS
<1>2. IsFiniteSet(1 .. Len(list))
    BY <1>1, FS_Interval
<1>3. IsFiniteSet(Of(list, type))
    BY <1>1, <1>2, FS_Subset DEF Of
<1>4. CountOf(list, type) \in Nat
    BY <1>3, FS_CardinalityType DEF CountOf
<1>5. Of(list, type) = {} => CountOf(list, type) = 0
    BY FS_EmptySet DEF CountOf
<1> QED BY <1>3, <1>4, <1>5 DEF Of

\* The lists differ by the element in place n + 1 of the longer one.
Differ(short, long, n) ==
    /\ n =< Len(short) /\ Len(long) = Len(short) + 1
    /\ \A k \in 1 .. n : long[k] = short[k]
    /\ \A k \in n + 1 .. Len(short) : long[k + 1] = short[k]

\* The longer list has one interrupt more.
LEMMA OneMore ==
    ASSUME NEW short \in Seq(Interrupt), NEW long \in Seq(Interrupt), NEW n \in Nat,
           Differ(short, long, n), NEW type
    PROVE  CountOf(long, type)
             = CountOf(short, type) + (IF long[n + 1].type = type THEN 1 ELSE 0)
<1> DEFINE f == [k \in Of(short, type) |-> IF k =< n THEN k ELSE k + 1]
           Rest == Of(long, type) \ {n + 1}
<1>0. /\ n =< Len(short) /\ Len(long) = Len(short) + 1
      /\ \A k \in 1 .. n : long[k] = short[k]
      /\ \A k \in n + 1 .. Len(short) : long[k + 1] = short[k]
    BY DEF Differ
<1>1. /\ Of(short, type) = {k \in 1 .. Len(short) : short[k].type = type}
      /\ Of(long, type) = {k \in 1 .. Len(long) : long[k].type = type}
      /\ Len(short) \in Nat
    BY DEF Of
<1>2. f \in Bijection(Of(short, type), Rest)
  <2>1. \A k \in Of(short, type) : f[k] \in Rest
    <3> SUFFICES ASSUME NEW k \in Of(short, type) PROVE f[k] \in Rest
        OBVIOUS
    <3>1. k \in 1 .. Len(short) /\ short[k].type = type
        BY <1>1
    <3>2. CASE k =< n
      <4>1. f[k] = k /\ k \in 1 .. n
          BY <3>1, <3>2
      <4> QED BY <1>0, <1>1, <3>1, <4>1
    <3>3. CASE ~(k =< n)
      <4>1. f[k] = k + 1 /\ k \in n + 1 .. Len(short)
          BY <3>1, <3>3
      <4>2. long[k + 1].type = type /\ k + 1 \in 1 .. Len(long) /\ k + 1 # n + 1
          BY <1>0, <3>1, <4>1
      <4> QED BY <1>0, <1>1, <4>1, <4>2
    <3> QED BY <3>2, <3>3
  <2>2. \A k, m \in Of(short, type) : f[k] = f[m] => k = m
    <3> SUFFICES ASSUME NEW k \in Of(short, type), NEW m \in Of(short, type), f[k] = f[m]
                 PROVE  k = m
        OBVIOUS
    <3>1. k \in Nat /\ m \in Nat
        BY <1>1
    <3> QED BY <3>1
  <2>3. \A j \in Rest : \E k \in Of(short, type) : f[k] = j
    <3> SUFFICES ASSUME NEW j \in Rest PROVE \E k \in Of(short, type) : f[k] = j
        OBVIOUS
    <3>1. j \in 1 .. Len(long) /\ long[j].type = type /\ j # n + 1
        BY <1>1
    <3>2. CASE j =< n
      <4>1. j \in Of(short, type)
          BY <1>0, <1>1, <3>1, <3>2
      <4>2. f[j] = j
          BY <3>2, <4>1
      <4> QED BY <4>1, <4>2
    <3>3. CASE ~(j =< n)
      <4>1. PICK k \in n + 1 .. Len(short) : j = k + 1
          BY <1>0, <1>1, <3>1, <3>3
      <4>2. short[k].type = type
          BY <1>0, <3>1, <4>1
      <4>3. k \in Of(short, type) /\ ~(k =< n)
          BY <1>0, <1>1, <4>1, <4>2
      <4>4. f[k] = j
          BY <4>1, <4>3
      <4> QED BY <4>3, <4>4
    <3> QED BY <3>2, <3>3
  <2>4. f \in [Of(short, type) -> Rest]
      BY <2>1
  <2> HIDE DEF f, Rest
  <2> QED BY <2>2, <2>3, <2>4, Fun_IsBij, Zenon
<1> HIDE DEF f
<1>3. IsFiniteSet(Of(short, type)) /\ IsFiniteSet(Of(long, type))
    BY CountType
<1>4. Cardinality(Rest) = CountOf(short, type)
  <2>1. ExistsBijection(Of(short, type), Rest)
      BY <1>2, Zenon DEF ExistsBijection
  <2> QED BY <1>3, <2>1, FS_Bijection DEF CountOf
<1>5. CASE long[n + 1].type = type
  <2>1. n + 1 \in Of(long, type)
      BY <1>0, <1>1, <1>5
  <2>2. Cardinality(Rest) = Cardinality(Of(long, type)) - 1
      BY <1>3, <2>1, FS_RemoveElement
  <2>3. CountOf(long, type) \in Nat /\ CountOf(short, type) \in Nat
      BY CountType
  <2> QED BY <1>4, <1>5, <2>2, <2>3 DEF CountOf
<1>6. CASE long[n + 1].type # type
  <2>1. Rest = Of(long, type)
      BY <1>0, <1>1, <1>6
  <2>2. CountOf(short, type) \in Nat
      BY CountType
  <2>3. CountOf(long, type) = CountOf(short, type)
      BY <1>4, <2>1 DEF CountOf
  <2> QED BY <1>6, <2>2, <2>3
<1> QED BY <1>5, <1>6

\* SortedInsert puts the interrupt somewhere into the list.
LEMMA InsertPlace ==
    ASSUME NEW list \in Seq(Interrupt), NEW type \in Interrupts, NEW ticks \in Int
    PROVE  \E r \in Seq(Interrupt), n \in Nat :
               /\ r = SortedInsert(list, type, ticks) /\ Differ(list, r, n)
               /\ r[n + 1] = [type |-> type, ticks |-> ticks]
<1>1. PICK e \in Interrupt : e = [type |-> type, ticks |-> ticks]
    BY DEF Interrupt
<1>2. PICK K : K = {i \in DOMAIN list : list[i].ticks =< ticks}
    OBVIOUS
<1>3. PICK L \in Nat : L = Len(list) /\ DOMAIN list = 1 .. L
    OBVIOUS
<1>4. PICK n \in Nat : n = Cardinality(K) /\ n =< L
  <2>1. K \subseteq 1 .. L
      BY <1>2, <1>3
  <2>2. IsFiniteSet(1 .. L) /\ Cardinality(1 .. L) = L
      BY FS_Interval
  <2>3. IsFiniteSet(K) /\ Cardinality(K) =< L
      BY <2>1, <2>2, FS_Subset
  <2>4. Cardinality(K) \in Nat
      BY <2>3, FS_CardinalityType
  <2> QED BY <2>3, <2>4
<1>5. PICK a : a = SubSeq(list, 1, n)
    OBVIOUS
<1>6. a \in Seq(Interrupt) /\ Len(a) = n /\ \A k \in 1 .. n : a[k] = list[k]
    BY <1>3, <1>4, <1>5
<1>7. PICK b : b = SubSeq(list, n + 1, Len(list))
    OBVIOUS
<1>8. b \in Seq(Interrupt) /\ Len(b) = L - n /\ \A k \in 1 .. (L - n) : b[k] = list[n + k]
    BY <1>3, <1>4, <1>7, SMTT(60)
<1>9. PICK c : c = a \o <<e>>
    OBVIOUS
<1>10. c \in Seq(Interrupt) /\ Len(c) = n + 1 /\ c[n + 1] = e /\ \A k \in 1 .. n : c[k] = a[k]
  <2>1. PICK s : s = <<e>>
      OBVIOUS
  <2>2. s \in Seq(Interrupt) /\ Len(s) = 1 /\ s[1] = e
      BY <2>1
  <2>3. c = a \o s
      BY <1>9, <2>1
  <2>4. /\ c \in Seq(Interrupt) /\ Len(c) = Len(a) + Len(s)
        /\ \A i \in 1 .. Len(a) + Len(s) : c[i] = IF i =< Len(a) THEN a[i] ELSE s[i - Len(a)]
      BY <1>6, <2>2, <2>3, ConcatProperties
  <2>5. c[n + 1] = s[n + 1 - n] /\ n + 1 - n = 1
      BY <1>6, <2>2, <2>4
  <2>6. Len(c) = n + 1
      BY <1>6, <2>2, <2>4
  <2>7. \A k \in 1 .. n : c[k] = a[k]
      BY <1>6, <2>2, <2>4
  <2> QED BY <2>2, <2>4, <2>5, <2>6, <2>7
<1>11. PICK r : r = c \o b
    OBVIOUS
<1>12. /\ r \in Seq(Interrupt) /\ Len(r) = L + 1
       /\ \A k \in 1 .. n + 1 : r[k] = c[k]
       /\ \A k \in 1 .. (L - n) : r[n + 1 + k] = b[k]
  <2>1. r \in Seq(Interrupt)
      BY <1>8, <1>10, <1>11, ConcatProperties
  <2>2. /\ Len(r) = Len(c) + Len(b)
        /\ \A i \in 1 .. Len(c) + Len(b) : r[i] = IF i =< Len(c) THEN c[i] ELSE b[i - Len(c)]
      BY <1>8, <1>10, <1>11, ConcatProperties
  <2>3. Len(r) = L + 1
      BY <1>8, <1>10, <2>2
  <2>4. \A k \in 1 .. n + 1 : r[k] = c[k]
      BY <1>8, <1>10, <2>2
  <2>5. ASSUME NEW k \in 1 .. (L - n) PROVE r[n + 1 + k] = b[k]
    <3>1. n + 1 + k \in Len(c) + 1 .. Len(c) + Len(b)
        BY <1>8, <1>10
    <3>2. r[n + 1 + k] = b[n + 1 + k - Len(c)]
        BY <1>8, <1>10, <2>2, <3>1
    <3>3. n + 1 + k - Len(c) = k
        BY <1>10
    <3> QED BY <3>2, <3>3
  <2> QED BY <2>1, <2>3, <2>4, <2>5
<1>13. SortedInsert(list, type, ticks) = r
    BY <1>1, <1>2, <1>4, <1>5, <1>7, <1>9, <1>11, Zenon DEF SortedInsert
<1>14. \A k \in 1 .. n : r[k] = list[k]
    BY <1>6, <1>10, <1>12
<1>15. \A k \in n + 1 .. Len(list) : r[k + 1] = list[k]
  <2> SUFFICES ASSUME NEW k \in n + 1 .. L PROVE r[k + 1] = list[k]
      BY <1>3
  <2>1. PICK j \in 1 .. (L - n) : k = n + j
    <3>1. k - n \in 1 .. (L - n) /\ k = n + (k - n)
        OBVIOUS
    <3> QED BY <3>1
  <2>2. r[n + 1 + j] = list[n + j]
      BY <1>8, <1>12
  <2>3. n + 1 + j = k + 1
      BY <2>1
  <2> QED BY <2>1, <2>2, <2>3
<1>16. r[n + 1] = [type |-> type, ticks |-> ticks]
    BY <1>1, <1>10, <1>12
<1>17. Differ(list, r, n)
  <2>1. n =< Len(list)
      BY <1>3, <1>4
  <2>2. Len(r) = Len(list) + 1
      BY <1>3, <1>12
  <2> QED BY <1>14, <1>15, <2>1, <2>2 DEF Differ
<1> QED BY <1>12, <1>13, <1>16, <1>17, Zenon

\* SortedInsert adds one interrupt of the type.
LEMMA InsertCount ==
    ASSUME NEW list \in Seq(Interrupt), NEW type \in Interrupts, NEW ticks \in Int
    PROVE  /\ SortedInsert(list, type, ticks) \in Seq(Interrupt)
           /\ \A y : CountOf(SortedInsert(list, type, ticks), y)
                       = CountOf(list, y) + (IF type = y THEN 1 ELSE 0)
<1>1. PICK r \in Seq(Interrupt), n \in Nat :
          /\ r = SortedInsert(list, type, ticks) /\ Differ(list, r, n)
          /\ r[n + 1] = [type |-> type, ticks |-> ticks]
    BY InsertPlace
<1>2. r[n + 1].type = type
    BY <1>1
<1>3. \A y : CountOf(r, y) = CountOf(list, y) + (IF r[n + 1].type = y THEN 1 ELSE 0)
    BY <1>1, OneMore
<1> QED BY <1>1, <1>2, <1>3

\* The others stay in it.
LEMMA InsertKeeps ==
    ASSUME NEW list \in Seq(Interrupt), NEW type \in Interrupts, NEW ticks \in Int,
           NEW r, r = SortedInsert(list, type, ticks)
    PROVE  /\ \E j \in DOMAIN r : r[j] = [type |-> type, ticks |-> ticks]
           /\ \A i \in DOMAIN list : \E j \in DOMAIN r : r[j] = list[i]
<1>1. PICK q \in Seq(Interrupt), n \in Nat :
          /\ q = SortedInsert(list, type, ticks) /\ Differ(list, q, n)
          /\ q[n + 1] = [type |-> type, ticks |-> ticks]
    BY InsertPlace
<1>2. /\ n =< Len(list) /\ Len(q) = Len(list) + 1
      /\ \A k \in 1 .. n : q[k] = list[k]
      /\ \A k \in n + 1 .. Len(list) : q[k + 1] = list[k]
    BY <1>1 DEF Differ
<1>3. DOMAIN q = 1 .. Len(list) + 1 /\ DOMAIN list = 1 .. Len(list) /\ Len(list) \in Nat
    BY <1>2
<1>4. n + 1 \in DOMAIN q
    BY <1>2, <1>3
<1>5. ASSUME NEW i \in DOMAIN list PROVE \E j \in DOMAIN q : q[j] = list[i]
  <2>1. CASE i =< n
    <3>1. i \in 1 .. n /\ i \in DOMAIN q
        BY <1>3, <2>1
    <3> QED BY <1>2, <3>1
  <2>2. CASE ~(i =< n)
    <3>1. i \in n + 1 .. Len(list) /\ i + 1 \in DOMAIN q
        BY <1>3, <2>2
    <3> QED BY <1>2, <3>1
  <2> QED BY <2>1, <2>2
<1> QED BY <1>1, <1>4, <1>5

\* Time passes: the same interrupts are pending.
LEMMA LaterCount ==
    ASSUME NEW list \in Seq(Interrupt), NEW d \in Int
    PROVE  /\ Later(list, d) \in Seq(Interrupt) /\ Len(Later(list, d)) = Len(list)
           /\ \A i \in DOMAIN list : Later(list, d)[i].type = list[i].type
           /\ DOMAIN Later(list, d) = DOMAIN list
           /\ \A y : CountOf(Later(list, d), y) = CountOf(list, y)
<1>1. PICK r : r = Later(list, d)
    OBVIOUS
<1>2. PICK L \in Nat : L = Len(list) /\ DOMAIN list = 1 .. L
    OBVIOUS
<1>3. \A i \in 1 .. L : list[i] \in Interrupt
    BY <1>2
<1>4. r = [i \in 1 .. L |-> [list[i] EXCEPT !.ticks = @ - d]]
    BY <1>1, <1>2 DEF Later
<1>5. DOMAIN r = 1 .. L /\ \A i \in 1 .. L : r[i] \in Interrupt /\ r[i].type = list[i].type
  <2>1. DOMAIN r = 1 .. L
      BY <1>4
  <2>2. ASSUME NEW i \in 1 .. L PROVE r[i] \in Interrupt /\ r[i].type = list[i].type
    <3>1. PICK e \in Interrupt : e = list[i]
        BY <1>3
    <3>2. r[i] = [e EXCEPT !.ticks = e.ticks - d]
        BY <1>4, <3>1
    <3>3. e.ticks - d \in Int /\ e.type \in Interrupts
        BY DEF Interrupt
    <3>4. r[i] = [type |-> e.type, ticks |-> e.ticks - d]
        BY <3>2 DEF Interrupt
    <3> QED BY <3>1, <3>3, <3>4 DEF Interrupt
  <2> QED BY <2>1, <2>2
<1>6. r \in Seq(Interrupt) /\ Len(r) = L
  <2>1. r \in [1 .. L -> Interrupt]
      BY <1>4, <1>5
  <2> QED BY <2>1
<1>7. \A y : Of(r, y) = Of(list, y)
    BY <1>2, <1>5 DEF Of
<1> QED BY <1>1, <1>2, <1>5, <1>6, <1>7 DEF CountOf

\* The first interrupt is taken off the list.
LEMMA TailCount ==
    ASSUME NEW list \in Seq(Interrupt), list # <<>>
    PROVE  /\ Tail(list) \in Seq(Interrupt) /\ Head(list) \in Interrupt
           /\ \A y : CountOf(list, y)
                       = CountOf(Tail(list), y) + (IF Head(list).type = y THEN 1 ELSE 0)
<1>1. Tail(list) \in Seq(Interrupt) /\ Head(list) \in Interrupt /\ Head(list) = list[1]
    OBVIOUS
<1>2. PICK r \in Seq(Interrupt) : r = Tail(list)
    BY <1>1, Zenon
<1>3. Len(list) = Len(r) + 1 /\ \A k \in 0 + 1 .. Len(r) : list[k + 1] = r[k]
    BY <1>2
<1>4. \A k \in 1 .. 0 : list[k] = r[k]
    OBVIOUS
<1>5. 0 \in Nat /\ 0 =< Len(r) /\ 0 + 1 = 1
    OBVIOUS
<1>6. ASSUME NEW y PROVE CountOf(list, y) = CountOf(r, y) + (IF list[0 + 1].type = y THEN 1 ELSE 0)
  <2>1. Differ(r, list, 0)
      BY <1>3, <1>4, <1>5 DEF Differ
  <2> QED BY <1>5, <2>1, OneMore
<1> QED BY <1>1, <1>2, <1>5, <1>6

-----------------------------------------------------------------------------
(***************************************************************************)
(* Quotients and remainders.                                               *)
(***************************************************************************)

\* What \div and % are.
LEMMA DivMod ==
    ASSUME NEW n \in Nat \ {0}, NEW a \in Int
    PROVE  \E q \in Int, r \in 0 .. n - 1 : q = a \div n /\ r = a % n /\ a = n * q + r
<1>1. PICK q \in Int : q = a \div n
    OBVIOUS
<1>2. PICK r \in 0 .. n - 1 : r = a % n
    OBVIOUS
<1>3. n > 0 /\ r \in Int
    OBVIOUS
<1>4. a = n * q + r
    BY <1>1, <1>2, <1>3, SMT
<1> QED BY <1>1, <1>2, <1>4

\* Products.
LEMMA Ring ==
    ASSUME NEW a \in Int, NEW b \in Int, NEW c \in Int
    PROVE  /\ a * (b + c) = a * b + a * c
           /\ a * (b - c) = a * b - a * c
           /\ (a * b) * c = a * (b * c)
           /\ a * b = b * a
           /\ a * b \in Int
OBVIOUS

\* A multiple of n is 0 or at least n away from it.
LEMMA Multiple ==
    ASSUME NEW n \in Nat \ {0}, NEW d \in Int
    PROVE  /\ d >= 1 => n * d >= n
           /\ d =< 0 => n * d =< 0
           /\ d =< -1 => n * d =< -n
           /\ d >= 0 => n * d >= 0
OBVIOUS

\* Quotient and remainder are unique.
LEMMA Unique ==
    ASSUME NEW n \in Nat \ {0}, NEW q \in Int, NEW r \in 0 .. n - 1,
           NEW p \in Int, NEW s \in 0 .. n - 1, n * q + r = n * p + s
    PROVE  q = p /\ r = s
<1>1. n * (q - p) = s - r
    BY Ring
<1>2. q - p \in Int
    OBVIOUS
<1>3. ~(q - p >= 1) /\ ~(q - p =< -1)
    BY <1>1, <1>2, Multiple
<1>4. q = p
    BY <1>3
<1> QED BY <1>4

\* So they can be read off a sum.
LEMMA DivModOf ==
    ASSUME NEW n \in Nat \ {0}, NEW q \in Int, NEW r \in 0 .. n - 1
    PROVE  (n * q + r) % n = r /\ (n * q + r) \div n = q
<1>1. PICK a \in Int : a = n * q + r
    OBVIOUS
<1>2. PICK p \in Int, s \in 0 .. n - 1 : p = a \div n /\ s = a % n /\ a = n * p + s
    BY DivMod
<1>3. q = p /\ r = s
    BY <1>1, <1>2, Unique
<1> QED BY <1>1, <1>2, <1>3

\* TimeToSeek waits for the first multiple of n that is not before a.
LEMMA NextMultiple ==
    ASSUME NEW n \in Nat \ {0}, NEW a \in Nat,
           NEW wait, wait = IF a % n > 0 THEN n - (a % n) ELSE 0
    PROVE  /\ wait \in 0 .. n - 1
           /\ \E m \in Nat : /\ a + wait = n * m /\ (a + wait) \div n = m
                             /\ \A j \in Int : n * j >= a => j >= m
<1>1. PICK q \in Int, r \in 0 .. n - 1 : q = a \div n /\ r = a % n /\ a = n * q + r
    BY DivMod
<1>2. q >= 0
  <2>1. ~(q =< -1)
      BY <1>1, Multiple
  <2> QED BY <2>1
<1>3. ASSUME NEW m \in Nat, a + wait = n * m PROVE (a + wait) \div n = m
  <2>1. n * m + 0 = n * m /\ 0 \in 0 .. n - 1
      BY Ring
  <2> QED BY <1>3, <2>1, DivModOf
<1>4. CASE r = 0
  <2>1. wait = 0 /\ a + wait = n * q
      BY <1>1, <1>4
  <2>2. ASSUME NEW j \in Int, n * j >= a PROVE j >= q
    <3>1. n * (j - q) >= 0 /\ j - q \in Int
        BY <2>1, <2>2, Ring
    <3>2. ~(j - q =< -1)
        BY <3>1, Multiple
    <3> QED BY <3>2
  <2>3. q \in Nat /\ (a + wait) \div n = q /\ wait \in 0 .. n - 1
      BY <1>2, <1>3, <2>1
  <2> QED BY <2>1, <2>2, <2>3
<1>5. CASE r > 0
  <2>1. wait = n - r /\ a + wait = n * q + n
      BY <1>1, <1>5
  <2>2. n * (q + 1) = n * q + n /\ q + 1 \in Nat
      BY <1>2, Ring
  <2>3. ASSUME NEW j \in Int, n * j >= a PROVE j >= q + 1
    <3>1. n * (j - q) > 0 /\ j - q \in Int
        BY <1>1, <1>5, <2>3, Ring
    <3>2. ~(j - q =< 0)
        BY <3>1, Multiple
    <3> QED BY <3>2
  <2>4. wait \in 0 .. n - 1
      BY <1>5, <2>1
  <2> QED BY <1>3, <2>1, <2>2, <2>3, <2>4
<1> QED BY <1>4, <1>5

\* ModuloDiff counts the sectors from y to the next x.
LEMMA NextCongruent ==
    ASSUME NEW n \in Nat \ {0}, NEW x \in Int, NEW y \in Int
    PROVE  \E d \in 0 .. n - 1 :
              /\ d = ((x % n) - (y % n) + n) % n
              /\ \E k \in Int : y + d = n * k + (x % n)
              /\ \A k \in Int : n * k + (x % n) >= y => n * k + (x % n) >= y + d
<1>0. PICK d : d = ((x % n) - (y % n) + n) % n
    OBVIOUS
<1>1. PICK xx \in 0 .. n - 1 : xx = x % n
    BY DivMod
<1>2. PICK p \in Int, yy \in 0 .. n - 1 : yy = y % n /\ y = n * p + yy
    BY DivMod
<1>3. PICK z \in Int : z = xx - yy + n
    OBVIOUS
<1>4. PICK c \in Int, dd \in 0 .. n - 1 : dd = z % n /\ z = n * c + dd
    BY DivMod
<1>5. d = dd
    BY <1>0, <1>1, <1>2, <1>3, <1>4
<1>6. PICK k \in Int : k = p + 1 - c
    OBVIOUS
<1>7. y + d = n * k + xx
  <2>1. PICK np \in Int : np = n * p
      BY Ring
  <2>2. PICK nc \in Int : nc = n * c
      BY Ring
  <2>3. n * k = np + n - nc
      BY <1>6, <2>1, <2>2, Ring
  <2>4. y = np + yy /\ xx - yy + n = nc + dd
      BY <1>2, <1>3, <1>4, <2>1, <2>2
  <2> QED BY <1>5, <2>3, <2>4
<1>8. ASSUME NEW j \in Int, n * j + xx >= y PROVE n * j + xx >= y + d
  <2>1. k - j \in Int /\ n * (k - j) = n * k - n * j
      BY Ring
  <2>2. n * (k - j) =< d
      BY <1>5, <1>7, <1>8, <2>1
  <2>3. d < n
      BY <1>5
  <2>4. ~(k - j >= 1)
      BY <1>5, <2>1, <2>2, <2>3, Multiple
  <2>5. n * (k - j) =< 0
      BY <2>1, <2>4, Multiple
  <2> QED BY <1>5, <1>7, <2>1, <2>5
<1>9. \E j \in Int : y + d = n * j + (x % n)
    BY <1>1, <1>7
<1>10. \A j \in Int : n * j + (x % n) >= y => n * j + (x % n) >= y + d
    BY <1>1, <1>8
<1> QED BY <1>0, <1>5, <1>9, <1>10

-----------------------------------------------------------------------------
(***************************************************************************)
(* Types.                                                                  *)
(***************************************************************************)
Place == {"idle", "acquire", "io", "P", "get", "release", "done"}
Work == [dev : Device, sector : Nat, writing : BOOLEAN, left : Int]

CpuTypes ==
    /\ mode \in {"run", "tick", "idle", "drain", "halted"}
    /\ current \in Thread \cup {None}
    /\ mode \in {"run", "tick"} <=> current \in Thread
    /\ ready \in Seq(Thread) /\ waking \in SUBSET Thread
    /\ pc \in [Thread -> Place] /\ work \in [Thread -> Work]

ObjectTypes ==
    /\ lock \in [Device -> [owner : Thread \cup {None}, waiting : Seq(Thread)]]
    /\ sem \in [Device -> [value : Nat, waiting : Seq(Thread)]]

TimeTypes ==
    /\ pending \in Seq(Interrupt) /\ clock \in Nat /\ bufferAge \in Int
    /\ lastTrack \in Nat /\ bufferSector \in Int

DeviceTypes == active \in BOOLEAN /\ putBusy \in BOOLEAN /\ incoming \in Char \cup {EOF}

\* The constants are positive, and so is a turn of the disk.
LEMMA Constants ==
    /\ SectorsPerTrack \in Nat \ {0} /\ RotationTime \in Nat \ {0} /\ SeekTime \in Nat \ {0}
    /\ ConsoleTime \in Nat \ {0} /\ SystemTick \in Nat \ {0} /\ UserTick \in Nat \ {0}
    /\ NumThreads \in Nat \ {0} /\ Intervals \subseteq Nat /\ Turn \in Nat \ {0}
<1>1. {NumThreads, SectorsPerTrack, NumTracks, RotationTime, SeekTime, ConsoleTime,
       SystemTick, UserTick} \subseteq Nat \ {0} /\ Intervals \subseteq Nat \ {0}
    BY DevicesAssumption
<1>2. /\ SectorsPerTrack \in Nat \ {0} /\ RotationTime \in Nat \ {0} /\ SeekTime \in Nat \ {0}
      /\ ConsoleTime \in Nat \ {0} /\ SystemTick \in Nat \ {0} /\ UserTick \in Nat \ {0}
      /\ NumThreads \in Nat \ {0} /\ Intervals \subseteq Nat
    BY <1>1
<1>3. \A m, n \in Nat \ {0} : m * n \in Nat \ {0}
    OBVIOUS
<1>4. Turn \in Nat \ {0}
    BY <1>2, <1>3 DEF Turn
<1> QED BY <1>2, <1>4

\* Time passes.
LEMMA ElapseTypes ==
    ASSUME TimeTypes, NEW d \in Nat, Elapse(d)
    PROVE  clock' \in Nat /\ bufferAge' \in Int
<1>1. Turn \in Nat \ {0}
    BY Constants
<1>2. \A a \in Nat, b \in Nat \ {0} : a % b \in Nat
    OBVIOUS
<1>3. clock' = (clock + d) % Turn /\ clock + d \in Nat
    BY DEF Elapse, TimeTypes
<1>4. clock' \in Nat
    BY <1>1, <1>2, <1>3
<1>5. bufferAge' \in Int
    BY <1>1 DEF Elapse, TimeTypes
<1> QED BY <1>4, <1>5

\* The parts of the latency of a request are numbers.
LEMMA LatencyTypes ==
    ASSUME TimeTypes, NEW s \in Nat
    PROVE  /\ Seek(s) \in Nat /\ Rotation(s) \in Nat /\ Track(s) \in Nat
           /\ \A w : ComputeLatency(s, w) \in Int
<1>1. SectorsPerTrack \in Nat \ {0} /\ RotationTime \in Nat \ {0} /\ SeekTime \in Nat
    BY Constants
<1>2. clock \in Nat /\ lastTrack \in Nat
    BY DEF TimeTypes
<1>3. \A a, b \in Nat : a * b \in Nat
    OBVIOUS
<1>4. \A a \in Nat, b \in Nat \ {0} : a \div b \in Nat /\ a % b \in 0 .. b - 1
    OBVIOUS
<1>5. Track(s) \in Nat
    BY <1>1, <1>4 DEF Track
<1>6. Distance(Track(s), lastTrack) \in Nat
    BY <1>2, <1>5 DEF Distance
<1>7. Seek(s) \in Nat
    BY <1>1, <1>3, <1>6 DEF Seek
<1>8. PICK over \in 0 .. RotationTime - 1 : over = (clock + Seek(s)) % RotationTime
    BY <1>1, <1>2, <1>4, <1>7
<1>9. Rotation(s) \in Nat
  <2>1. Rotation(s) = IF over > 0 THEN RotationTime - over ELSE 0
      BY <1>8 DEF Rotation
  <2> QED BY <1>1, <2>1
<1>10. PICK after \in Nat : after = clock + Seek(s) + Rotation(s)
    BY <1>2, <1>7, <1>9
<1>11. PICK k \in Nat : k = after \div RotationTime
    BY <1>1, <1>4
<1>12. PICK m : m = ModuloDiff(s, k)
    OBVIOUS
<1>13. m \in Int
  <2>1. PICK a \in 0 .. SectorsPerTrack - 1 : a = s % SectorsPerTrack
      BY <1>1, <1>4
  <2>2. PICK b \in 0 .. SectorsPerTrack - 1 : b = k % SectorsPerTrack
      BY <1>1, <1>4
  <2>3. m = (a - b + SectorsPerTrack) % SectorsPerTrack
      BY <1>12, <2>1, <2>2 DEF ModuloDiff
  <2>4. a - b + SectorsPerTrack \in Nat
      BY <1>1
  <2> QED BY <1>1, <1>4, <2>3, <2>4
<1>14. \A a, b \in Int : a * b \in Int
    OBVIOUS
<1>15. PICK turn \in Int : turn = m * RotationTime
    BY <1>1, <1>13, <1>14
<1>16. ASSUME NEW w PROVE ComputeLatency(s, w) \in Int
  <2>1. \/ ComputeLatency(s, w) = RotationTime
        \/ ComputeLatency(s, w) = Seek(s) + Rotation(s) + turn + RotationTime
      BY <1>10, <1>11, <1>12, <1>15 DEF ComputeLatency
  <2> QED BY <1>1, <1>7, <1>9, <2>1
<1> QED BY <1>5, <1>7, <1>9, <1>16

\* UpdateLast keeps the types of what is known about the head.
LEMMA UpdateTypes ==
    ASSUME TimeTypes, NEW s \in Nat, UpdateLast(s)
    PROVE  lastTrack' \in Nat /\ bufferAge' \in Int /\ bufferSector' \in Int
<1>1. SectorsPerTrack \in Nat \ {0} /\ RotationTime \in Nat \ {0}
    BY Constants
<1>2. \A a \in Nat, b \in Nat \ {0} : a \div b \in Nat /\ a % b \in Nat
    OBVIOUS
<1>3. PICK after \in Nat : after = Seek(s) + Rotation(s)
    BY LatencyTypes
<1>4. lastTrack' \in Nat
    BY LatencyTypes DEF UpdateLast
<1>5. CASE Seek(s) = 0
    BY <1>4, <1>5 DEF UpdateLast, TimeTypes
<1>6. CASE Seek(s) # 0
  <2>1. bufferAge' = -after /\ bufferSector' = ((clock + after) \div RotationTime) % SectorsPerTrack
      BY <1>3, <1>6 DEF UpdateLast
  <2>2. PICK k \in Nat : k = (clock + after) \div RotationTime
    <3>1. clock + after \in Nat
        BY DEF TimeTypes
    <3> QED BY <1>1, <1>2, <3>1
  <2>3. k % SectorsPerTrack \in Nat
      BY <1>1, <1>2
  <2> QED BY <1>4, <2>1, <2>2, <2>3
<1> QED BY <1>5, <1>6

-----------------------------------------------------------------------------
(***************************************************************************)
(* Threads: each is on the CPU, ready, waiting for a lock or for an        *)
(* interrupt, or done.                                                     *)
(***************************************************************************)
Ready(t) == InQ(ready, t)
LockQ(d, t) == InQ(lock[d].waiting, t)
SemQ(d, t) == InQ(sem[d].waiting, t)

NoneTwice ==
    /\ NoRepeats(ready)
    /\ \A d \in Device : NoRepeats(lock[d].waiting) /\ NoRepeats(sem[d].waiting)

Apart ==
    /\ \A t \in Thread : Ready(t) => t # current /\ pc[t] # "done"
    /\ \A d \in Device, t \in Thread :
          LockQ(d, t) => /\ t # current /\ ~Ready(t) /\ t \in waking
                         /\ pc[t] = "io" /\ work[t].dev = d
    /\ \A d \in Device, t \in Thread :
          SemQ(d, t) => t # current /\ ~Ready(t) /\ pc[t] = "P" /\ work[t].dev = d

NobodyLost ==
    /\ \A t \in Thread :
          pc[t] # "done" => t = current \/ Ready(t) \/ \E d \in Device : LockQ(d, t) \/ SemQ(d, t)
    /\ current \in Thread => pc[current] # "done"
    /\ mode = "idle" => ready = <<>>
    /\ mode = "halted" => \A t \in Thread : pc[t] = "done"

(***************************************************************************)
(* The owner of a lock is the one thread between Acquire and Release.      *)
(***************************************************************************)
Within == {"io", "P", "get", "release"}
LocksRight ==
    \A d \in Device :
        /\ lock[d].owner = None => lock[d].waiting = <<>>
        /\ \A t \in Thread :
              lock[d].owner = t <=> work[t].dev = d /\ pc[t] \in Within /\ ~LockQ(d, t)

ThreadInv == CpuTypes /\ ObjectTypes /\ NoneTwice /\ Apart /\ NobodyLost /\ LocksRight

\* The thread that runs is in no queue.
LEMMA CurrentApart ==
    ASSUME ThreadInv, NEW t \in Thread, current = t
    PROVE  ~Ready(t) /\ \A d \in Device : ~LockQ(d, t) /\ ~SemQ(d, t)
BY DEF ThreadInv, Apart

\* None is no thread.
LEMMA NoneIsNoThread == None \notin Thread
BY Constants DEF None, Thread

\* The first ready thread gets the CPU, if there is one.
LEMMA DispatchRight ==
    ASSUME ready \in Seq(Thread), NoRepeats(ready), Dispatch(ready)
    PROVE  /\ current' \in Thread \cup {None} /\ mode' \in {"run", "idle"}
           /\ mode' = "run" <=> current' \in Thread
           /\ ready' \in Seq(Thread) /\ NoRepeats(ready')
           /\ mode' = "idle" => ready' = <<>>
           /\ \A x \in Thread : InQ(ready, x) <=> x = current' \/ InQ(ready', x)
           /\ \A x \in Thread : InQ(ready', x) => x # current'
<1>1. CASE ready = <<>>
  <2>1. mode' = "idle" /\ current' = None /\ ready' = ready
      BY <1>1 DEF Dispatch
  <2>2. \A x \in Thread : ~InQ(ready, x)
      BY <1>1, EmptyQueue
  <2> QED BY <1>1, <2>1, <2>2, NoneIsNoThread
<1>2. CASE ready # <<>>
  <2>1. mode' = "run" /\ current' = Head(ready) /\ ready' = Tail(ready)
      BY <1>2 DEF Dispatch
  <2>2. PICK r \in Seq(Thread) : r = ready
      OBVIOUS
  <2>3. r # <<>> /\ NoRepeats(r)
      BY <1>2, <2>2
  <2>4. /\ Head(r) \in Thread /\ Tail(r) \in Seq(Thread) /\ InQ(r, Head(r))
        /\ \A x : InQ(Tail(r), x) <=> InQ(r, x) /\ x # Head(r)
        /\ NoRepeats(Tail(r))
      BY <2>3, TailQueue
  <2> QED BY <2>1, <2>2, <2>4
<1> QED BY <1>1, <1>2

\* A step that leaves the threads alone.
LEMMA SameThreads ==
    ASSUME ThreadInv, UNCHANGED <<mode, current, ready, waking, pc, work, lock, sem>>
    PROVE  ThreadInv'
BY DEF ThreadInv, CpuTypes, ObjectTypes, NoneTwice, Apart, NobodyLost, LocksRight, Ready,
       LockQ, SemQ

\* The clock goes on while a thread keeps the CPU.
LEMMA Ticks ==
    ASSUME ThreadInv, mode \in {"run", "tick"}, mode' \in {"run", "tick"},
           UNCHANGED <<current, ready, pc, work, lock, sem>>,
           waking \ {current} \subseteq waking', waking' \subseteq Thread
    PROVE  ThreadInv'
<1>1. \A t \in Thread, d \in Device : LockQ(d, t) => t \in waking'
    BY DEF ThreadInv, Apart
<1>2. /\ \A t : Ready(t)' = Ready(t)
      /\ \A t, d : LockQ(d, t)' = LockQ(d, t) /\ SemQ(d, t)' = SemQ(d, t)
    BY DEF Ready, LockQ, SemQ
<1>3. CpuTypes' /\ ObjectTypes' /\ NoneTwice'
    BY DEF ThreadInv, CpuTypes, ObjectTypes, NoneTwice
<1>4. Apart'
    BY <1>1, <1>2 DEF ThreadInv, Apart
<1>5. NobodyLost' /\ LocksRight'
    BY <1>2 DEF ThreadInv, NobodyLost, LocksRight
<1> QED BY <1>3, <1>4, <1>5 DEF ThreadInv

\* The thread that runs goes to another place, on the same side of its lock.
LEMMA Goes ==
    ASSUME ThreadInv, NEW t \in Thread, current = t, NEW l \in Place, l # "done",
           NEW w \in Work,
           \/ l \in Within /\ pc[t] \in Within /\ w.dev = work[t].dev
           \/ l \notin Within /\ pc[t] \notin Within,
           pc' = [pc EXCEPT ![t] = l], work' = [work EXCEPT ![t] = w],
           UNCHANGED <<current, ready, waking, lock>>,
           mode' \in {"run", "tick"},
           sem' \in [Device -> [value : Nat, waiting : Seq(Thread)]],
           \A d \in Device : sem'[d].waiting = sem[d].waiting
    PROVE  ThreadInv'
<1>1. /\ \A x : Ready(x)' = Ready(x)
      /\ \A x, d : LockQ(d, x)' = LockQ(d, x)
      /\ \A x : \A d \in Device : SemQ(d, x)' = SemQ(d, x)
    BY DEF Ready, LockQ, SemQ
<1>2. ~Ready(t) /\ \A d \in Device : ~LockQ(d, t) /\ ~SemQ(d, t)
    BY CurrentApart
<1>3. /\ pc'[t] = l /\ work'[t] = w
      /\ \A x \in Thread \ {t} : pc'[x] = pc[x] /\ work'[x] = work[x]
    BY DEF ThreadInv, CpuTypes
<1>4. CpuTypes'
    BY DEF ThreadInv, CpuTypes
<1>5. ObjectTypes' /\ NoneTwice'
    BY DEF ThreadInv, ObjectTypes, NoneTwice
<1>6. Apart'
  <2>1. \A x \in Thread : Ready(x)' => x # current' /\ pc'[x] # "done"
      BY <1>1, <1>2, <1>3 DEF ThreadInv, Apart
  <2>2. ASSUME NEW d \in Device, NEW x \in Thread, LockQ(d, x)
        PROVE  x # current' /\ ~Ready(x)' /\ x \in waking' /\ pc'[x] = "io" /\ work'[x].dev = d
      BY <1>1, <1>2, <1>3, <2>2 DEF ThreadInv, Apart
  <2>3. ASSUME NEW d \in Device, NEW x \in Thread, SemQ(d, x)
        PROVE  x # current' /\ ~Ready(x)' /\ pc'[x] = "P" /\ work'[x].dev = d
      BY <1>1, <1>2, <1>3, <2>3 DEF ThreadInv, Apart
  <2> QED BY <1>1, <2>1, <2>2, <2>3 DEF Apart
<1>7. NobodyLost'
  <2>1. ASSUME NEW x \in Thread, pc'[x] # "done"
        PROVE  x = current' \/ Ready(x)' \/ \E d \in Device : LockQ(d, x)' \/ SemQ(d, x)'
      BY <1>1, <1>3, <2>1 DEF ThreadInv, NobodyLost
  <2> QED BY <1>3, <2>1 DEF NobodyLost
<1>8. LocksRight'
  <2> SUFFICES ASSUME NEW d \in Device, NEW x \in Thread
               PROVE  /\ lock'[d].owner = None => lock'[d].waiting = <<>>
                      /\ lock'[d].owner = x
                           <=> work'[x].dev = d /\ pc'[x] \in Within /\ ~LockQ(d, x)'
      BY DEF LocksRight
  <2>1. CASE x # t
      BY <1>1, <1>3, <2>1 DEF ThreadInv, LocksRight
  <2>2. CASE x = t
      BY <1>1, <1>3, <2>2 DEF ThreadInv, LocksRight
  <2> QED BY <2>1, <2>2
<1> QED BY <1>4, <1>5, <1>6, <1>7, <1>8 DEF ThreadInv

\* Finish: the running thread gives up the CPU for good.
LEMMA FinishThreads ==
    ASSUME ThreadInv, NEW t \in Thread, Finish(t)
    PROVE  ThreadInv'
<1>1. /\ mode = "run" /\ current = t /\ pc[t] = "idle" /\ pc' = [pc EXCEPT ![t] = "done"]
      /\ Dispatch(ready) /\ UNCHANGED <<waking, work, lock, sem>>
    BY DEF Finish, Running
<1>2. ready \in Seq(Thread) /\ NoRepeats(ready)
    BY DEF ThreadInv, CpuTypes, NoneTwice
<1>3. /\ current' \in Thread \cup {None} /\ mode' \in {"run", "idle"}
      /\ mode' = "run" <=> current' \in Thread
      /\ ready' \in Seq(Thread) /\ NoRepeats(ready')
      /\ mode' = "idle" => ready' = <<>>
      /\ \A x \in Thread : Ready(x) <=> x = current' \/ Ready(x)'
      /\ \A x \in Thread : Ready(x)' => x # current'
    BY <1>1, <1>2, DispatchRight DEF Ready
<1>4. ~Ready(t) /\ \A d \in Device : ~LockQ(d, t) /\ ~SemQ(d, t)
    BY <1>1, CurrentApart
<1>5. \A x, d : LockQ(d, x)' = LockQ(d, x) /\ SemQ(d, x)' = SemQ(d, x)
    BY <1>1 DEF LockQ, SemQ
<1>6. pc'[t] = "done" /\ \A x \in Thread \ {t} : pc'[x] = pc[x]
    BY <1>1 DEF ThreadInv, CpuTypes
<1>7. CpuTypes'
    BY <1>1, <1>3 DEF ThreadInv, CpuTypes, Place
<1>8. ObjectTypes' /\ NoneTwice'
    BY <1>1, <1>3 DEF ThreadInv, ObjectTypes, NoneTwice
<1>9. Apart'
  <2>1. \A x \in Thread : Ready(x)' => x # current' /\ pc'[x] # "done"
      BY <1>3, <1>4, <1>6 DEF ThreadInv, Apart
  <2>2. ASSUME NEW d \in Device, NEW x \in Thread, LockQ(d, x)
        PROVE  x # current' /\ ~Ready(x)' /\ x \in waking' /\ pc'[x] = "io" /\ work'[x].dev = d
      BY <1>1, <1>3, <1>4, <1>6, <2>2 DEF ThreadInv, Apart
  <2>3. ASSUME NEW d \in Device, NEW x \in Thread, SemQ(d, x)
        PROVE  x # current' /\ ~Ready(x)' /\ pc'[x] = "P" /\ work'[x].dev = d
      BY <1>1, <1>3, <1>4, <1>6, <2>3 DEF ThreadInv, Apart
  <2> QED BY <1>5, <2>1, <2>2, <2>3 DEF Apart
<1>10. NobodyLost'
  <2>1. ASSUME NEW x \in Thread, pc'[x] # "done"
        PROVE  x = current' \/ Ready(x)' \/ \E d \in Device : LockQ(d, x)' \/ SemQ(d, x)'
    <3>1. x # t /\ pc[x] # "done"
        BY <1>6, <2>1
    <3> QED BY <1>1, <1>3, <1>5, <3>1 DEF ThreadInv, NobodyLost
  <2>2. current' \in Thread => pc'[current'] # "done"
      BY <1>3, <1>4, <1>6 DEF ThreadInv, Apart
  <2> QED BY <1>3, <2>1, <2>2 DEF NobodyLost
<1>11. LocksRight'
  <2> SUFFICES ASSUME NEW d \in Device, NEW x \in Thread
               PROVE  /\ lock'[d].owner = None => lock'[d].waiting = <<>>
                      /\ lock'[d].owner = x
                           <=> work'[x].dev = d /\ pc'[x] \in Within /\ ~LockQ(d, x)'
      BY DEF LocksRight
  <2>1. pc'[x] \in Within <=> pc[x] \in Within
      BY <1>1, <1>6 DEF Within
  <2> QED BY <1>1, <1>5, <2>1 DEF ThreadInv, LocksRight
<1> QED BY <1>7, <1>8, <1>9, <1>10, <1>11 DEF ThreadInv

\* Acquire: the lock is free, or the thread waits for it.
LEMMA AcquireThreads ==
    ASSUME ThreadInv, NEW t \in Thread, Acquire(t)
    PROVE  ThreadInv'
<1>1. PICK d \in Device : d = work[t].dev
    BY DEF ThreadInv, CpuTypes, Work
<1>2. /\ mode = "run" /\ current = t /\ pc[t] = "acquire"
      /\ pc' = [pc EXCEPT ![t] = "io"] /\ UNCHANGED <<work, sem>>
    BY DEF Acquire, Running
<1>3. ~Ready(t) /\ \A e \in Device : ~LockQ(e, t) /\ ~SemQ(e, t)
    BY <1>2, CurrentApart
<1>4. pc'[t] = "io" /\ \A x \in Thread \ {t} : pc'[x] = pc[x]
    BY <1>2 DEF ThreadInv, CpuTypes
<1>5. pc' \in [Thread -> Place]
    BY <1>2 DEF ThreadInv, CpuTypes, Place
<1>6. lock[d] \in [owner : Thread \cup {None}, waiting : Seq(Thread)] /\ DOMAIN lock = Device
    BY DEF ThreadInv, ObjectTypes
<1>7. CASE lock[d].owner = None
  <2>1. /\ lock' = [lock EXCEPT ![d].owner = t] /\ mode' = "tick"
        /\ UNCHANGED <<current, ready, waking>>
      BY <1>1, <1>7 DEF Acquire, Enable
  <2>2. /\ lock'[d].owner = t /\ lock'[d].waiting = lock[d].waiting
        /\ lock'[d] \in [owner : Thread \cup {None}, waiting : Seq(Thread)]
        /\ \A e \in Device \ {d} : lock'[e] = lock[e]
        /\ lock' \in [Device -> [owner : Thread \cup {None}, waiting : Seq(Thread)]]
      BY <2>1 DEF ThreadInv, ObjectTypes
  <2>3. /\ \A x : Ready(x)' = Ready(x)
        /\ \A x : \A e \in Device : LockQ(e, x)' = LockQ(e, x) /\ SemQ(e, x)' = SemQ(e, x)
      BY <1>2, <2>1, <2>2 DEF Ready, LockQ, SemQ
  <2>4. CpuTypes'
      BY <1>2, <1>5, <2>1 DEF ThreadInv, CpuTypes
  <2>5. ObjectTypes' /\ NoneTwice'
      BY <1>2, <2>1, <2>2 DEF ThreadInv, ObjectTypes, NoneTwice
  <2>6. Apart'
    <3>1. \A x \in Thread : Ready(x)' => x # current' /\ pc'[x] # "done"
        BY <1>3, <1>4, <2>1, <2>3 DEF ThreadInv, Apart
    <3>2. ASSUME NEW e \in Device, NEW x \in Thread, LockQ(e, x)
          PROVE  x # current' /\ ~Ready(x)' /\ x \in waking' /\ pc'[x] = "io" /\ work'[x].dev = e
        BY <1>2, <1>4, <2>1, <2>3, <3>2 DEF ThreadInv, Apart
    <3>3. ASSUME NEW e \in Device, NEW x \in Thread, SemQ(e, x)
          PROVE  x # current' /\ ~Ready(x)' /\ pc'[x] = "P" /\ work'[x].dev = e
        BY <1>2, <1>3, <1>4, <2>1, <2>3, <3>3 DEF ThreadInv, Apart
    <3> QED BY <2>3, <3>1, <3>2, <3>3 DEF Apart
  <2>7. NobodyLost'
    <3>1. ASSUME NEW x \in Thread, pc'[x] # "done"
          PROVE  x = current' \/ Ready(x)' \/ \E e \in Device : LockQ(e, x)' \/ SemQ(e, x)'
        BY <1>2, <1>4, <2>1, <2>3, <3>1 DEF ThreadInv, NobodyLost
    <3> QED BY <1>2, <1>4, <2>1, <3>1 DEF NobodyLost
  <2>8. LocksRight'
    <3> SUFFICES ASSUME NEW e \in Device, NEW x \in Thread
                 PROVE  /\ lock'[e].owner = None => lock'[e].waiting = <<>>
                        /\ lock'[e].owner = x
                             <=> work'[x].dev = e /\ pc'[x] \in Within /\ ~LockQ(e, x)'
        BY DEF LocksRight
    <3>1. t # None
        BY NoneIsNoThread
    <3>2. CASE e # d
      <4>1. CASE x = t
          BY <1>1, <1>2, <1>3, <1>4, <2>2, <2>3, <3>2, <4>1 DEF ThreadInv, LocksRight
      <4>2. CASE x # t
          BY <1>2, <1>4, <2>2, <2>3, <3>2, <4>2 DEF ThreadInv, LocksRight
      <4> QED BY <4>1, <4>2
    <3>3. CASE e = d
      <4>1. CASE x = t
          BY <1>1, <1>2, <1>3, <1>4, <2>2, <2>3, <3>1, <3>3, <4>1 DEF Within
      <4>2. CASE x # t
        <5>1. x # None
            BY NoneIsNoThread
        <5>2. ~(work[x].dev = d /\ pc[x] \in Within /\ ~LockQ(d, x))
            BY <1>7, <5>1 DEF ThreadInv, LocksRight
        <5> QED BY <1>2, <1>4, <2>2, <2>3, <3>1, <3>3, <4>2, <5>2
      <4> QED BY <4>1, <4>2
    <3> QED BY <3>2, <3>3
  <2> QED BY <2>4, <2>5, <2>6, <2>7, <2>8 DEF ThreadInv
<1>8. CASE lock[d].owner # None
  <2>1. /\ lock' = [lock EXCEPT ![d].waiting = Append(@, t)]
        /\ waking' = waking \cup {t} /\ Dispatch(ready)
      BY <1>1, <1>8 DEF Acquire
  <2>2. PICK q \in Seq(Thread) : q = lock[d].waiting
      BY <1>6
  <2>3. NoRepeats(q) /\ ~InQ(q, t)
      BY <1>3, <2>2 DEF ThreadInv, NoneTwice, LockQ
  <2>4. PICK r : r = Append(q, t)
      OBVIOUS
  <2>5. r \in Seq(Thread) /\ NoRepeats(r) /\ \A x : InQ(r, x) <=> InQ(q, x) \/ x = t
      BY <2>3, <2>4, AppendQueue
  <2>6. /\ lock'[d].owner = lock[d].owner /\ lock'[d].waiting = r
        /\ \A e \in Device \ {d} : lock'[e] = lock[e]
        /\ lock' \in [Device -> [owner : Thread \cup {None}, waiting : Seq(Thread)]]
      BY <2>1, <2>2, <2>4, <2>5 DEF ThreadInv, ObjectTypes
  <2>7. ready \in Seq(Thread) /\ NoRepeats(ready)
      BY DEF ThreadInv, CpuTypes, NoneTwice
  <2>8. /\ current' \in Thread \cup {None} /\ mode' \in {"run", "idle"}
        /\ mode' = "run" <=> current' \in Thread
        /\ ready' \in Seq(Thread) /\ NoRepeats(ready')
        /\ mode' = "idle" => ready' = <<>>
        /\ \A x \in Thread : Ready(x) <=> x = current' \/ Ready(x)'
        /\ \A x \in Thread : Ready(x)' => x # current'
      BY <2>1, <2>7, DispatchRight DEF Ready
  <2>9. \A x : \A e \in Device : /\ LockQ(e, x)' <=> LockQ(e, x) \/ (e = d /\ x = t)
                                 /\ SemQ(e, x)' <=> SemQ(e, x)
      BY <1>2, <2>2, <2>5, <2>6 DEF LockQ, SemQ
  <2>10. CpuTypes'
      BY <1>2, <1>5, <2>1, <2>8 DEF ThreadInv, CpuTypes
  <2>11. ObjectTypes' /\ NoneTwice'
      BY <1>2, <2>5, <2>6, <2>8 DEF ThreadInv, ObjectTypes, NoneTwice
  <2>12. Apart'
    <3>1. \A x \in Thread : Ready(x)' => x # current' /\ pc'[x] # "done"
        BY <1>3, <1>4, <2>8 DEF ThreadInv, Apart
    <3>2. ASSUME NEW e \in Device, NEW x \in Thread, LockQ(e, x)'
          PROVE  x # current' /\ ~Ready(x)' /\ x \in waking' /\ pc'[x] = "io" /\ work'[x].dev = e
      <4>1. CASE x = t
          BY <1>1, <1>2, <1>3, <1>4, <2>1, <2>8, <2>9, <3>2, <4>1
      <4>2. CASE x # t
          BY <1>2, <1>4, <2>1, <2>8, <2>9, <3>2, <4>2 DEF ThreadInv, Apart
      <4> QED BY <4>1, <4>2
    <3>3. ASSUME NEW e \in Device, NEW x \in Thread, SemQ(e, x)
          PROVE  x # current' /\ ~Ready(x)' /\ pc'[x] = "P" /\ work'[x].dev = e
        BY <1>2, <1>3, <1>4, <2>8, <3>3 DEF ThreadInv, Apart
    <3> QED BY <2>9, <3>1, <3>2, <3>3 DEF Apart
  <2>13. NobodyLost'
    <3>1. ASSUME NEW x \in Thread, pc'[x] # "done"
          PROVE  x = current' \/ Ready(x)' \/ \E e \in Device : LockQ(e, x)' \/ SemQ(e, x)'
      <4>1. CASE x = t
          BY <2>9, <4>1
      <4>2. CASE x # t
        <5>1. Ready(x) \/ \E e \in Device : LockQ(e, x) \/ SemQ(e, x)
            BY <1>2, <1>4, <3>1, <4>2 DEF ThreadInv, NobodyLost
        <5> QED BY <2>8, <2>9, <5>1
      <4> QED BY <4>1, <4>2
    <3>2. current' \in Thread => pc'[current'] # "done"
        BY <1>3, <1>4, <2>8 DEF ThreadInv, Apart
    <3> QED BY <2>8, <3>1, <3>2 DEF NobodyLost
  <2>14. LocksRight'
    <3> SUFFICES ASSUME NEW e \in Device, NEW x \in Thread
                 PROVE  /\ lock'[e].owner = None => lock'[e].waiting = <<>>
                        /\ lock'[e].owner = x
                             <=> work'[x].dev = e /\ pc'[x] \in Within /\ ~LockQ(e, x)'
        BY DEF LocksRight
    <3>1. lock'[e].owner = lock[e].owner
        BY <2>6
    <3>2. lock'[e].owner = None => lock'[e].waiting = <<>>
        BY <1>8, <2>6 DEF ThreadInv, LocksRight
    <3>3. CASE x = t
        BY <1>1, <1>2, <1>3, <1>4, <2>9, <3>1, <3>2, <3>3 DEF ThreadInv, LocksRight, Within
    <3>4. CASE x # t
        BY <1>2, <1>4, <2>9, <3>1, <3>2, <3>4 DEF ThreadInv, LocksRight
    <3> QED BY <3>3, <3>4
  <2> QED BY <2>10, <2>11, <2>12, <2>13, <2>14 DEF ThreadInv
<1> QED BY <1>7, <1>8

\* Release: the lock is free, or goes to the first that waits, who is ready.
LEMMA ReleaseThreads ==
    ASSUME ThreadInv, NEW t \in Thread, Release(t)
    PROVE  ThreadInv'
<1>1. PICK d \in Device : d = work[t].dev
    BY DEF ThreadInv, CpuTypes, Work
<1>2. /\ mode = "run" /\ current = t /\ pc[t] = "release" /\ mode' = "tick"
      /\ pc' = [pc EXCEPT ![t] = "idle"] /\ work' = [work EXCEPT ![t] = NoWork]
      /\ UNCHANGED <<current, waking, sem>>
    BY DEF Release, Running, Enable
<1>3. ~Ready(t) /\ \A e \in Device : ~LockQ(e, t) /\ ~SemQ(e, t)
    BY <1>2, CurrentApart
<1>4. /\ pc'[t] = "idle" /\ \A x \in Thread \ {t} : pc'[x] = pc[x] /\ work'[x] = work[x]
    BY <1>2 DEF ThreadInv, CpuTypes
<1>5. pc' \in [Thread -> Place] /\ work' \in [Thread -> Work]
  <2>1. NoWork \in Work
      BY DEF NoWork, Work, Device
  <2> QED BY <1>2, <2>1 DEF ThreadInv, CpuTypes, Place
<1>6. lock[d] \in [owner : Thread \cup {None}, waiting : Seq(Thread)] /\ DOMAIN lock = Device
    BY DEF ThreadInv, ObjectTypes
<1>7. PICK q \in Seq(Thread) : q = lock[d].waiting
    BY <1>6
<1>8. NoRepeats(q) /\ ~InQ(q, t)
    BY <1>3, <1>7 DEF ThreadInv, NoneTwice, LockQ
<1>9. lock[d].owner = t
    BY <1>1, <1>2, <1>3 DEF ThreadInv, LocksRight, Within
<1>10. \A x \in Thread \ {t} : \A e \in Device :
          lock[e].owner = x <=> work'[x].dev = e /\ pc'[x] \in Within /\ ~LockQ(e, x)
    BY <1>4 DEF ThreadInv, LocksRight
<1>11. \A e \in Device \ {d} : lock[e].owner # t
    BY <1>1 DEF ThreadInv, LocksRight
<1>12. pc'[t] \notin Within
    BY <1>4 DEF Within
<1>13. CASE q = <<>>
  <2>1. lock' = [lock EXCEPT ![d].owner = None] /\ ready' = ready
      BY <1>1, <1>7, <1>13 DEF Release
  <2>2. /\ lock'[d].owner = None /\ lock'[d].waiting = lock[d].waiting
        /\ \A e \in Device \ {d} : lock'[e] = lock[e]
        /\ lock' \in [Device -> [owner : Thread \cup {None}, waiting : Seq(Thread)]]
      BY <2>1 DEF ThreadInv, ObjectTypes
  <2>3. /\ \A x : Ready(x)' = Ready(x)
        /\ \A x : \A e \in Device : LockQ(e, x)' = LockQ(e, x) /\ SemQ(e, x)' = SemQ(e, x)
      BY <1>2, <2>1, <2>2 DEF Ready, LockQ, SemQ
  <2>4. CpuTypes'
      BY <1>2, <1>5, <2>1 DEF ThreadInv, CpuTypes
  <2>5. ObjectTypes' /\ NoneTwice'
      BY <1>2, <2>1, <2>2 DEF ThreadInv, ObjectTypes, NoneTwice
  <2>6. Apart'
    <3>1. \A x \in Thread : Ready(x)' => x # current' /\ pc'[x] # "done"
        BY <1>2, <1>3, <1>4, <2>3 DEF ThreadInv, Apart
    <3>2. ASSUME NEW e \in Device, NEW x \in Thread, LockQ(e, x)
          PROVE  x # current' /\ ~Ready(x)' /\ x \in waking' /\ pc'[x] = "io" /\ work'[x].dev = e
        BY <1>2, <1>3, <1>4, <2>1, <2>3, <3>2 DEF ThreadInv, Apart
    <3>3. ASSUME NEW e \in Device, NEW x \in Thread, SemQ(e, x)
          PROVE  x # current' /\ ~Ready(x)' /\ pc'[x] = "P" /\ work'[x].dev = e
        BY <1>2, <1>3, <1>4, <2>1, <2>3, <3>3 DEF ThreadInv, Apart
    <3> QED BY <2>3, <3>1, <3>2, <3>3 DEF Apart
  <2>7. NobodyLost'
    <3>1. ASSUME NEW x \in Thread, pc'[x] # "done"
          PROVE  x = current' \/ Ready(x)' \/ \E e \in Device : LockQ(e, x)' \/ SemQ(e, x)'
        BY <1>2, <1>4, <2>1, <2>3, <3>1 DEF ThreadInv, NobodyLost
    <3> QED BY <1>2, <1>4, <2>1, <3>1 DEF NobodyLost
  <2>8. LocksRight'
    <3> SUFFICES ASSUME NEW e \in Device, NEW x \in Thread
                 PROVE  /\ lock'[e].owner = None => lock'[e].waiting = <<>>
                        /\ lock'[e].owner = x
                             <=> work'[x].dev = e /\ pc'[x] \in Within /\ ~LockQ(e, x)'
        BY DEF LocksRight
    <3>1. x # None
        BY NoneIsNoThread
    <3>2. lock'[e].owner = None => lock'[e].waiting = <<>>
        BY <1>7, <1>13, <2>2 DEF ThreadInv, LocksRight
    <3>3. CASE x = t
        BY <1>11, <1>12, <2>2, <3>1, <3>2, <3>3
    <3>4. CASE x # t
        BY <1>9, <1>10, <2>2, <2>3, <3>1, <3>2, <3>4, SMTT(60)
    <3> QED BY <3>3, <3>4
  <2> QED BY <2>4, <2>5, <2>6, <2>7, <2>8 DEF ThreadInv
<1>14. CASE q # <<>>
  <2>1. /\ lock' = [lock EXCEPT ![d] = [owner |-> Head(q), waiting |-> Tail(q)]]
        /\ ready' = Append(ready, Head(q))
      BY <1>1, <1>7, <1>14 DEF Release
  <2>2. PICK h : h = Head(q)
      OBVIOUS
  <2>3. PICK r : r = Tail(q)
      OBVIOUS
  <2>4. /\ h \in Thread /\ r \in Seq(Thread) /\ InQ(q, h) /\ NoRepeats(r)
        /\ \A x : InQ(r, x) <=> InQ(q, x) /\ x # h
      BY <1>8, <1>14, <2>2, <2>3, TailQueue
  <2>5. /\ lock'[d].owner = h /\ lock'[d].waiting = r
        /\ \A e \in Device \ {d} : lock'[e] = lock[e]
        /\ lock' \in [Device -> [owner : Thread \cup {None}, waiting : Seq(Thread)]]
      BY <2>1, <2>2, <2>3, <2>4 DEF ThreadInv, ObjectTypes
  <2>6. LockQ(d, h)
      BY <1>7, <2>4 DEF LockQ
  <2>7. /\ h # t /\ ~Ready(h) /\ h \in waking /\ pc[h] = "io" /\ work[h].dev = d
        /\ \A e \in Device : e # d => ~LockQ(e, h)
        /\ \A e \in Device : ~SemQ(e, h)
      BY <1>2, <2>4, <2>6 DEF ThreadInv, Apart
  <2>8. PICK a \in Seq(Thread) : a = ready
      BY DEF ThreadInv, CpuTypes
  <2>9. NoRepeats(a) /\ ~InQ(a, h)
      BY <2>7, <2>8 DEF ThreadInv, NoneTwice, Ready
  <2>10. ready' = Append(a, h)
      BY <2>1, <2>2, <2>8
  <2>11. /\ ready' \in Seq(Thread) /\ NoRepeats(ready')
         /\ \A x : InQ(ready', x) <=> InQ(a, x) \/ x = h
      BY <2>4, <2>9, <2>10, AppendQueue
  <2>12. \A x : Ready(x)' <=> Ready(x) \/ x = h
      BY <2>8, <2>11 DEF Ready
  <2>13. \A x : \A e \in Device : /\ LockQ(e, x)' <=> LockQ(e, x) /\ ~(e = d /\ x = h)
                                  /\ SemQ(e, x)' <=> SemQ(e, x)
      BY <1>2, <1>7, <2>4, <2>5 DEF LockQ, SemQ
  <2>14. CpuTypes'
      BY <1>2, <1>5, <2>11 DEF ThreadInv, CpuTypes
  <2>15. ObjectTypes' /\ NoneTwice'
      BY <1>2, <2>4, <2>5, <2>11 DEF ThreadInv, ObjectTypes, NoneTwice
  <2>16. Apart'
    <3>1. \A x \in Thread : Ready(x)' => x # current' /\ pc'[x] # "done"
        BY <1>2, <1>3, <1>4, <2>4, <2>7, <2>12 DEF ThreadInv, Apart
    <3>2. ASSUME NEW e \in Device, NEW x \in Thread, LockQ(e, x)'
          PROVE  x # current' /\ ~Ready(x)' /\ x \in waking' /\ pc'[x] = "io" /\ work'[x].dev = e
      <4>1. LockQ(e, x) /\ x # h
          BY <2>7, <2>13, <3>2
      <4> QED BY <1>2, <1>3, <1>4, <2>12, <4>1 DEF ThreadInv, Apart
    <3>3. ASSUME NEW e \in Device, NEW x \in Thread, SemQ(e, x)
          PROVE  x # current' /\ ~Ready(x)' /\ pc'[x] = "P" /\ work'[x].dev = e
      <4>1. x # h /\ x # t
          BY <1>3, <2>7, <3>3
      <4> QED BY <1>2, <1>4, <2>12, <3>3, <4>1 DEF ThreadInv, Apart
    <3> QED BY <2>13, <3>1, <3>2, <3>3 DEF Apart
  <2>17. NobodyLost'
    <3>1. ASSUME NEW x \in Thread, pc'[x] # "done"
          PROVE  x = current' \/ Ready(x)' \/ \E e \in Device : LockQ(e, x)' \/ SemQ(e, x)'
      <4>1. CASE x = t \/ x = h
          BY <1>2, <2>12, <4>1
      <4>2. CASE x # t /\ x # h
        <5>1. Ready(x) \/ \E e \in Device : LockQ(e, x) \/ SemQ(e, x)
            BY <1>2, <1>4, <3>1, <4>2 DEF ThreadInv, NobodyLost
        <5> QED BY <2>12, <2>13, <4>2, <5>1
      <4> QED BY <4>1, <4>2
    <3> QED BY <1>2, <1>4, <3>1 DEF NobodyLost
  <2>18. LocksRight'
    <3> SUFFICES ASSUME NEW e \in Device, NEW x \in Thread
                 PROVE  /\ lock'[e].owner = None => lock'[e].waiting = <<>>
                        /\ lock'[e].owner = x
                             <=> work'[x].dev = e /\ pc'[x] \in Within /\ ~LockQ(e, x)'
        BY DEF LocksRight
    <3>1. h # None
        BY <2>4, NoneIsNoThread
    <3>2. lock'[e].owner = None => lock'[e].waiting = <<>>
        BY <2>5, <3>1 DEF ThreadInv, LocksRight
    <3>3. CASE x = t
        BY <1>11, <1>12, <2>5, <2>7, <3>2, <3>3
    <3>4. CASE x = h
      <4>1. work'[h].dev = d /\ pc'[h] \in Within
          BY <1>4, <2>4, <2>7 DEF Within
      <4>2. CASE e = d
          BY <2>5, <2>13, <3>1, <3>4, <4>1, <4>2
      <4>3. CASE e # d
          BY <1>10, <2>4, <2>5, <2>7, <3>2, <3>4, <4>1, <4>3
      <4> QED BY <4>2, <4>3
    <3>5. CASE x # t /\ x # h
      <4>1. LockQ(e, x)' <=> LockQ(e, x)
          BY <2>13, <3>5
      <4>2. lock[e].owner = x <=> work'[x].dev = e /\ pc'[x] \in Within /\ ~LockQ(e, x)
          BY <1>10, <3>5
      <4>3. lock'[e].owner = x <=> lock[e].owner = x
          BY <1>9, <2>5, <3>5
      <4> QED BY <3>2, <4>1, <4>2, <4>3
    <3> QED BY <3>3, <3>4, <3>5
  <2> QED BY <2>14, <2>15, <2>16, <2>17, <2>18 DEF ThreadInv
<1> QED BY <1>13, <1>14

\* P: the thread sleeps while the value is zero.
LEMMA SleepThreads ==
    ASSUME ThreadInv, NEW t \in Thread, current = t, pc[t] = "P", NEW d \in Device,
           d = work[t].dev, sem' = [sem EXCEPT ![d].waiting = Append(@, t)],
           Dispatch(ready), UNCHANGED <<pc, waking, work, lock>>
    PROVE  ThreadInv'
<1>1. ~Ready(t) /\ \A e \in Device : ~LockQ(e, t) /\ ~SemQ(e, t)
    BY CurrentApart
<1>2. PICK q \in Seq(Thread) : q = sem[d].waiting
    BY DEF ThreadInv, ObjectTypes
<1>3. NoRepeats(q) /\ ~InQ(q, t)
    BY <1>1, <1>2 DEF ThreadInv, NoneTwice, SemQ
<1>4. PICK r : r = Append(q, t)
    OBVIOUS
<1>5. r \in Seq(Thread) /\ NoRepeats(r) /\ \A x : InQ(r, x) <=> InQ(q, x) \/ x = t
    BY <1>3, <1>4, AppendQueue
<1>6. /\ sem'[d].value = sem[d].value /\ sem'[d].waiting = r
      /\ \A e \in Device \ {d} : sem'[e] = sem[e]
      /\ sem' \in [Device -> [value : Nat, waiting : Seq(Thread)]]
    BY <1>2, <1>4, <1>5 DEF ThreadInv, ObjectTypes
<1>7. ready \in Seq(Thread) /\ NoRepeats(ready)
    BY DEF ThreadInv, CpuTypes, NoneTwice
<1>8. /\ current' \in Thread \cup {None} /\ mode' \in {"run", "idle"}
      /\ mode' = "run" <=> current' \in Thread
      /\ ready' \in Seq(Thread) /\ NoRepeats(ready')
      /\ mode' = "idle" => ready' = <<>>
      /\ \A x \in Thread : Ready(x) <=> x = current' \/ Ready(x)'
      /\ \A x \in Thread : Ready(x)' => x # current'
    BY <1>7, DispatchRight DEF Ready
<1>9. \A x : \A e \in Device : /\ SemQ(e, x)' <=> SemQ(e, x) \/ (e = d /\ x = t)
                               /\ LockQ(e, x)' <=> LockQ(e, x)
    BY <1>2, <1>5, <1>6 DEF LockQ, SemQ
<1>10. CpuTypes'
    BY <1>8 DEF ThreadInv, CpuTypes
<1>11. ObjectTypes' /\ NoneTwice'
    BY <1>5, <1>6, <1>8 DEF ThreadInv, ObjectTypes, NoneTwice
<1>12. Apart'
  <2>1. \A x \in Thread : Ready(x)' => x # current' /\ pc'[x] # "done"
      BY <1>8 DEF ThreadInv, Apart
  <2>2. ASSUME NEW e \in Device, NEW x \in Thread, SemQ(e, x)'
        PROVE  x # current' /\ ~Ready(x)' /\ pc'[x] = "P" /\ work'[x].dev = e
    <3>1. CASE x = t
        BY <1>1, <1>8, <1>9, <2>2, <3>1
    <3>2. CASE x # t
        BY <1>8, <1>9, <2>2, <3>2 DEF ThreadInv, Apart
    <3> QED BY <3>1, <3>2
  <2>3. ASSUME NEW e \in Device, NEW x \in Thread, LockQ(e, x)
        PROVE  x # current' /\ ~Ready(x)' /\ x \in waking' /\ pc'[x] = "io" /\ work'[x].dev = e
      BY <1>8, <2>3 DEF ThreadInv, Apart
  <2> QED BY <1>9, <2>1, <2>2, <2>3 DEF Apart
<1>13. NobodyLost'
  <2>1. ASSUME NEW x \in Thread, pc'[x] # "done"
        PROVE  x = current' \/ Ready(x)' \/ \E e \in Device : LockQ(e, x)' \/ SemQ(e, x)'
    <3>1. CASE x = t
        BY <1>9, <3>1
    <3>2. CASE x # t
      <4>1. Ready(x) \/ \E e \in Device : LockQ(e, x) \/ SemQ(e, x)
          BY <2>1, <3>2 DEF ThreadInv, NobodyLost
      <4> QED BY <1>8, <1>9, <4>1
    <3> QED BY <3>1, <3>2
  <2>2. current' \in Thread => pc'[current'] # "done"
      BY <1>8 DEF ThreadInv, Apart
  <2> QED BY <1>8, <2>1, <2>2 DEF NobodyLost
<1>14. LocksRight'
    BY <1>9 DEF ThreadInv, LocksRight
<1> QED BY <1>10, <1>11, <1>12, <1>13, <1>14 DEF ThreadInv

\* V in a handler: the first thread that waits for the interrupt is ready.
LEMMA WakeThreads ==
    ASSUME ThreadInv, NEW d \in Device, V(d), UNCHANGED <<current, waking, pc, work, lock>>,
           mode' \in {"tick", "drain"}, mode' = "tick" <=> mode = "tick", mode # "run"
    PROVE  /\ ThreadInv'
           /\ sem'[d].value = sem[d].value + 1
           /\ \A e \in Device \ {d} : sem'[e] = sem[e]
           /\ \A x : SemQ(d, x)' => SemQ(d, x)
           /\ sem[d].waiting # <<>> => \E h \in Thread : SemQ(d, h) /\ ~SemQ(d, h)'
<1>1. PICK q \in Seq(Thread) : q = sem[d].waiting
    BY DEF ThreadInv, ObjectTypes
<1>2. NoRepeats(q)
    BY <1>1 DEF ThreadInv, NoneTwice
<1>3. PICK v \in Nat : v = sem[d].value
    BY DEF ThreadInv, ObjectTypes
<1>4. v + 1 \in Nat
    OBVIOUS
<1>5. CASE q = <<>>
  <2>1. sem' = [sem EXCEPT ![d].value = @ + 1] /\ ready' = ready
      BY <1>1, <1>5 DEF V
  <2>2. /\ sem'[d].value = v + 1 /\ \A e \in Device : sem'[e].waiting = sem[e].waiting
        /\ \A e \in Device \ {d} : sem'[e] = sem[e]
        /\ sem' \in [Device -> [value : Nat, waiting : Seq(Thread)]]
      BY <1>3, <1>4, <2>1 DEF ThreadInv, ObjectTypes
  <2>3. /\ \A x : Ready(x)' = Ready(x)
        /\ \A x : \A e \in Device : LockQ(e, x)' = LockQ(e, x) /\ SemQ(e, x)' = SemQ(e, x)
      BY <2>1, <2>2 DEF Ready, LockQ, SemQ
  <2>4. CpuTypes'
      BY <2>1 DEF ThreadInv, CpuTypes
  <2>5. ObjectTypes' /\ NoneTwice'
      BY <2>1, <2>2 DEF ThreadInv, ObjectTypes, NoneTwice
  <2>6. Apart'
      BY <2>3 DEF ThreadInv, Apart
  <2>7. NobodyLost'
      BY <2>3 DEF ThreadInv, NobodyLost
  <2>8. LocksRight'
      BY <2>3 DEF ThreadInv, LocksRight
  <2>9. ThreadInv'
      BY <2>4, <2>5, <2>6, <2>7, <2>8 DEF ThreadInv
  <2> QED BY <1>1, <1>3, <1>5, <2>2, <2>3, <2>9
<1>6. CASE q # <<>>
  <2>1. PICK h : h = Head(q)
      OBVIOUS
  <2>2. PICK r : r = Tail(q)
      OBVIOUS
  <2>3. /\ sem' = [sem EXCEPT ![d] = [value |-> v + 1, waiting |-> r]]
        /\ ready' = Append(ready, h)
      BY <1>1, <1>3, <1>6, <2>1, <2>2 DEF V
  <2>4. /\ h \in Thread /\ r \in Seq(Thread) /\ InQ(q, h) /\ NoRepeats(r)
        /\ \A x : InQ(r, x) <=> InQ(q, x) /\ x # h
      BY <1>2, <1>6, <2>1, <2>2, TailQueue
  <2>5. /\ sem'[d].value = v + 1 /\ sem'[d].waiting = r
        /\ \A e \in Device \ {d} : sem'[e] = sem[e]
        /\ sem' \in [Device -> [value : Nat, waiting : Seq(Thread)]]
      BY <1>4, <2>3, <2>4 DEF ThreadInv, ObjectTypes
  <2>6. SemQ(d, h)
      BY <1>1, <2>4 DEF SemQ
  <2>7. /\ h # current /\ ~Ready(h) /\ pc[h] = "P" /\ work[h].dev = d
        /\ \A e \in Device : e # d => ~SemQ(e, h)
        /\ \A e \in Device : ~LockQ(e, h)
      BY <2>4, <2>6 DEF ThreadInv, Apart
  <2>8. PICK a \in Seq(Thread) : a = ready
      BY DEF ThreadInv, CpuTypes
  <2>9. NoRepeats(a) /\ ~InQ(a, h)
      BY <2>7, <2>8 DEF ThreadInv, NoneTwice, Ready
  <2>10. ready' = Append(a, h)
      BY <2>3, <2>8
  <2>11. /\ ready' \in Seq(Thread) /\ NoRepeats(ready')
         /\ \A x : InQ(ready', x) <=> InQ(a, x) \/ x = h
      BY <2>4, <2>9, <2>10, AppendQueue
  <2>12. \A x : Ready(x)' <=> Ready(x) \/ x = h
      BY <2>8, <2>11 DEF Ready
  <2>13. \A x : \A e \in Device : /\ SemQ(e, x)' <=> SemQ(e, x) /\ ~(e = d /\ x = h)
                                  /\ LockQ(e, x)' <=> LockQ(e, x)
      BY <1>1, <2>4, <2>5 DEF LockQ, SemQ
  <2>14. CpuTypes'
      BY <2>11 DEF ThreadInv, CpuTypes
  <2>15. ObjectTypes' /\ NoneTwice'
      BY <2>4, <2>5, <2>11 DEF ThreadInv, ObjectTypes, NoneTwice
  <2>16. Apart'
    <3>1. \A x \in Thread : Ready(x)' => x # current' /\ pc'[x] # "done"
        BY <2>7, <2>12 DEF ThreadInv, Apart
    <3>2. ASSUME NEW e \in Device, NEW x \in Thread, SemQ(e, x)'
          PROVE  x # current' /\ ~Ready(x)' /\ pc'[x] = "P" /\ work'[x].dev = e
      <4>1. SemQ(e, x) /\ x # h
          BY <2>7, <2>13, <3>2
      <4> QED BY <2>12, <4>1 DEF ThreadInv, Apart
    <3>3. ASSUME NEW e \in Device, NEW x \in Thread, LockQ(e, x)
          PROVE  x # current' /\ ~Ready(x)' /\ x \in waking' /\ pc'[x] = "io" /\ work'[x].dev = e
      <4>1. x # h
          BY <2>7, <3>3
      <4> QED BY <2>12, <3>3, <4>1 DEF ThreadInv, Apart
    <3> QED BY <2>13, <3>1, <3>2, <3>3 DEF Apart
  <2>17. NobodyLost'
    <3>1. ASSUME NEW x \in Thread, pc'[x] # "done"
          PROVE  x = current' \/ Ready(x)' \/ \E e \in Device : LockQ(e, x)' \/ SemQ(e, x)'
      <4>1. CASE x = h
          BY <2>12, <4>1
      <4>2. CASE x # h
        <5>1. x = current \/ Ready(x) \/ \E e \in Device : LockQ(e, x) \/ SemQ(e, x)
            BY <3>1 DEF ThreadInv, NobodyLost
        <5> QED BY <2>12, <2>13, <4>2, <5>1
      <4> QED BY <4>1, <4>2
    <3>2. current' \in Thread => pc'[current'] # "done"
        BY DEF ThreadInv, NobodyLost
    <3> QED BY <3>1, <3>2 DEF NobodyLost
  <2>18. LocksRight'
      BY <2>13 DEF ThreadInv, LocksRight
  <2>19. ThreadInv'
      BY <2>14, <2>15, <2>16, <2>17, <2>18 DEF ThreadInv
  <2> QED BY <1>3, <2>4, <2>5, <2>6, <2>13, <2>19
<1> QED BY <1>5, <1>6

\* The end of OneTick, with or without a Yield.
LEMMA EndTickThreads ==
    ASSUME ThreadInv, EndTick
    PROVE  ThreadInv'
<1>1. mode = "tick" /\ mode' = "run" /\ UNCHANGED <<pc, work, lock, sem>>
    BY DEF EndTick
<1>2. PICK t \in Thread : t = current
    BY <1>1 DEF ThreadInv, CpuTypes
<1>3. CASE UNCHANGED <<current, ready>> /\ (waking' = waking \/ waking' = waking \cup {current})
  <2>1. waking \in SUBSET Thread
      BY DEF ThreadInv, CpuTypes
  <2>2. waking \ {current} \subseteq waking' /\ waking' \subseteq Thread
      BY <1>2, <1>3, <2>1
  <2> QED BY <1>1, <1>3, <2>2, Ticks
<1>4. CASE /\ ready # <<>> /\ waking' = waking \cup {t}
           /\ current' = Head(ready) /\ ready' = Append(Tail(ready), t)
  <2>1. PICK q \in Seq(Thread) : q = ready
      BY DEF ThreadInv, CpuTypes
  <2>2. NoRepeats(q) /\ q # <<>>
      BY <1>4, <2>1 DEF ThreadInv, NoneTwice
  <2>3. PICK h : h = Head(q)
      OBVIOUS
  <2>4. PICK r : r = Tail(q)
      OBVIOUS
  <2>5. /\ h \in Thread /\ r \in Seq(Thread) /\ InQ(q, h) /\ NoRepeats(r)
        /\ \A x : InQ(r, x) <=> InQ(q, x) /\ x # h
      BY <2>2, <2>3, <2>4, TailQueue
  <2>6. ~Ready(t) /\ \A d \in Device : ~LockQ(d, t) /\ ~SemQ(d, t)
      BY <1>2, CurrentApart
  <2>7. current' = h /\ ready' = Append(r, t)
      BY <1>4, <2>1, <2>3, <2>4
  <2>8. ~InQ(r, t) /\ h # t
      BY <2>1, <2>5, <2>6 DEF Ready
  <2>9. /\ ready' \in Seq(Thread) /\ NoRepeats(ready')
        /\ \A x : InQ(ready', x) <=> InQ(r, x) \/ x = t
      BY <2>5, <2>7, <2>8, AppendQueue
  <2>10. /\ \A x : Ready(x)' <=> (Ready(x) /\ x # h) \/ x = t
         /\ Ready(h)
      BY <2>1, <2>5, <2>9 DEF Ready
  <2>11. \A x, d : LockQ(d, x)' = LockQ(d, x) /\ SemQ(d, x)' = SemQ(d, x)
      BY <1>1 DEF LockQ, SemQ
  <2>12. CpuTypes'
      BY <1>1, <1>4, <2>5, <2>7, <2>9 DEF ThreadInv, CpuTypes
  <2>13. ObjectTypes' /\ NoneTwice'
      BY <1>1, <2>9 DEF ThreadInv, ObjectTypes, NoneTwice
  <2>14. Apart'
    <3>1. pc[t] # "done" /\ pc[h] # "done"
        BY <1>2, <2>5, <2>10 DEF ThreadInv, NobodyLost, Apart
    <3>2. \A x \in Thread : Ready(x)' => x # current' /\ pc'[x] # "done"
        BY <1>1, <2>7, <2>8, <2>10, <3>1 DEF ThreadInv, Apart
    <3>3. ASSUME NEW d \in Device, NEW x \in Thread, LockQ(d, x)
          PROVE  x # current' /\ ~Ready(x)' /\ x \in waking' /\ pc'[x] = "io" /\ work'[x].dev = d
        BY <1>1, <1>4, <2>6, <2>7, <2>10, <3>3 DEF ThreadInv, Apart
    <3>4. ASSUME NEW d \in Device, NEW x \in Thread, SemQ(d, x)
          PROVE  x # current' /\ ~Ready(x)' /\ pc'[x] = "P" /\ work'[x].dev = d
        BY <1>1, <2>6, <2>7, <2>10, <3>4 DEF ThreadInv, Apart
    <3> QED BY <2>11, <3>2, <3>3, <3>4 DEF Apart
  <2>15. NobodyLost'
    <3>1. ASSUME NEW x \in Thread, pc'[x] # "done"
          PROVE  x = current' \/ Ready(x)' \/ \E e \in Device : LockQ(e, x)' \/ SemQ(e, x)'
      <4>1. x = t \/ Ready(x) \/ \E e \in Device : LockQ(e, x) \/ SemQ(e, x)
          BY <1>1, <1>2, <3>1 DEF ThreadInv, NobodyLost
      <4> QED BY <2>7, <2>10, <2>11, <4>1
    <3>2. pc'[h] # "done"
        BY <1>1, <2>5, <2>10 DEF ThreadInv, Apart
    <3> QED BY <1>1, <2>7, <3>1, <3>2 DEF NobodyLost
  <2>16. LocksRight'
      BY <1>1, <2>11 DEF ThreadInv, LocksRight
  <2> QED BY <2>12, <2>13, <2>14, <2>15, <2>16 DEF ThreadInv
<1> QED BY <1>2, <1>3, <1>4 DEF EndTick

\* The end of Idle tries the ready list.
LEMMA EndIdleThreads ==
    ASSUME ThreadInv, EndIdle
    PROVE  ThreadInv'
<1>1. mode = "drain" /\ Dispatch(ready) /\ UNCHANGED <<waking, pc, work, lock, sem>>
    BY DEF EndIdle
<1>2. current \notin Thread /\ ready \in Seq(Thread) /\ NoRepeats(ready)
    BY <1>1 DEF ThreadInv, CpuTypes, NoneTwice
<1>3. /\ current' \in Thread \cup {None} /\ mode' \in {"run", "idle"}
      /\ mode' = "run" <=> current' \in Thread
      /\ ready' \in Seq(Thread) /\ NoRepeats(ready')
      /\ mode' = "idle" => ready' = <<>>
      /\ \A x \in Thread : Ready(x) <=> x = current' \/ Ready(x)'
      /\ \A x \in Thread : Ready(x)' => x # current'
    BY <1>1, <1>2, DispatchRight DEF Ready
<1>4. \A x, d : LockQ(d, x)' = LockQ(d, x) /\ SemQ(d, x)' = SemQ(d, x)
    BY <1>1 DEF LockQ, SemQ
<1>5. CpuTypes'
    BY <1>1, <1>3 DEF ThreadInv, CpuTypes
<1>6. ObjectTypes' /\ NoneTwice'
    BY <1>1, <1>3 DEF ThreadInv, ObjectTypes, NoneTwice
<1>7. Apart'
  <2>1. \A x \in Thread : Ready(x)' => x # current' /\ pc'[x] # "done"
      BY <1>1, <1>3 DEF ThreadInv, Apart
  <2>2. ASSUME NEW d \in Device, NEW x \in Thread, LockQ(d, x)
        PROVE  x # current' /\ ~Ready(x)' /\ x \in waking' /\ pc'[x] = "io" /\ work'[x].dev = d
      BY <1>1, <1>3, <2>2 DEF ThreadInv, Apart
  <2>3. ASSUME NEW d \in Device, NEW x \in Thread, SemQ(d, x)
        PROVE  x # current' /\ ~Ready(x)' /\ pc'[x] = "P" /\ work'[x].dev = d
      BY <1>1, <1>3, <2>3 DEF ThreadInv, Apart
  <2> QED BY <1>4, <2>1, <2>2, <2>3 DEF Apart
<1>8. NobodyLost'
  <2>1. ASSUME NEW x \in Thread, pc'[x] # "done"
        PROVE  x = current' \/ Ready(x)' \/ \E d \in Device : LockQ(d, x)' \/ SemQ(d, x)'
    <3>1. Ready(x) \/ \E d \in Device : LockQ(d, x) \/ SemQ(d, x)
        BY <1>1, <1>2, <2>1 DEF ThreadInv, NobodyLost
    <3> QED BY <1>3, <1>4, <3>1
  <2>2. current' \in Thread => pc'[current'] # "done"
      BY <1>1, <1>3 DEF ThreadInv, Apart
  <2> QED BY <1>3, <2>1, <2>2 DEF NobodyLost
<1>9. LocksRight'
    BY <1>1, <1>4 DEF ThreadInv, LocksRight
<1> QED BY <1>5, <1>6, <1>7, <1>8, <1>9 DEF ThreadInv

-----------------------------------------------------------------------------
(***************************************************************************)
(* Requests.  A thread that is after a request waits for one interrupt,    *)
(* which is pending or has come.                                           *)
(***************************************************************************)
Somebody(d, l) == \E t \in Thread : pc[t] = l /\ work[t].dev = d

OneInterrupt ==
    \A d \in {"disk", "out"} :
        CountOf(pending, d) + sem[d].value = IF Somebody(d, "P") THEN 1 ELSE 0

Busy ==
    /\ active <=> CountOf(pending, "disk") = 1
    /\ putBusy <=> CountOf(pending, "out") = 1

Chars ==
    /\ sem["in"].value + (IF Somebody("in", "get") THEN 1 ELSE 0) = IF incoming = EOF THEN 0 ELSE 1
    /\ \A t \in Thread : pc[t] = "get" => work[t].dev = "in"
    /\ \A t \in Thread : work[t].dev = "in" => CountOf(pending, "in") > 0

SleepAtZero == \A d \in Device : sem[d].waiting # <<>> => sem[d].value = 0

RequestInv == TimeTypes /\ DeviceTypes /\ OneInterrupt /\ Busy /\ Chars /\ SleepAtZero

\* Nobody but the owner of its lock uses a device.
LEMMA Alone ==
    ASSUME ThreadInv, NEW t \in Thread, NEW d \in Device, d = work[t].dev, pc[t] \in Within,
           ~LockQ(d, t), NEW x \in Thread, work[x].dev = d, pc[x] \in {"P", "get", "release"}
    PROVE  x = t
<1>1. ~LockQ(d, x)
    BY DEF ThreadInv, Apart
<1> QED BY <1>1 DEF ThreadInv, LocksRight, Within

\* A device has at most one thread at P, at get or at release.
LEMMA AtMostOne ==
    ASSUME ThreadInv, NEW d \in Device, NEW x \in Thread, NEW y \in Thread,
           work[x].dev = d, pc[x] \in {"P", "get", "release"},
           work[y].dev = d, pc[y] \in {"P", "get", "release"}
    PROVE  x = y
<1>1. ~LockQ(d, y) /\ pc[y] \in Within
    BY DEF ThreadInv, Apart, Within
<1> QED BY <1>1, Alone

\* The clock advances; the same interrupts are pending.
LEMMA TickTimes ==
    ASSUME TimeTypes, NEW k \in Nat, Elapse(k), pending' = Later(pending, k),
           UNCHANGED <<lastTrack, bufferSector>>
    PROVE  TimeTypes' /\ \A y : CountOf(pending', y) = CountOf(pending, y)
<1>1. PICK p \in Seq(Interrupt) : p = pending
    BY DEF TimeTypes
<1>2. Later(p, k) \in Seq(Interrupt) /\ \A y : CountOf(Later(p, k), y) = CountOf(p, y)
    BY LaterCount
<1>3. clock' \in Nat /\ bufferAge' \in Int
    BY ElapseTypes
<1> QED BY <1>1, <1>2, <1>3 DEF TimeTypes

\* Nothing happens to time.
LEMMA SameTimes ==
    ASSUME TimeTypes, UNCHANGED <<pending, clock, bufferAge, lastTrack, bufferSector>>
    PROVE  TimeTypes' /\ \A y : CountOf(pending', y) = CountOf(pending, y)
BY DEF TimeTypes

\* Steps in which nobody asks, waits or is answered.
LEMMA Quiet ==
    ASSUME RequestInv, TimeTypes', \A y : CountOf(pending', y) = CountOf(pending, y),
           UNCHANGED <<active, putBusy, incoming, sem>>,
           \A x \in Thread : pc'[x] = "P" <=> pc[x] = "P",
           \A x \in Thread : pc'[x] = "get" <=> pc[x] = "get",
           \A x \in Thread : pc[x] \in {"P", "get"} => work'[x].dev = work[x].dev,
           \A x \in Thread : work'[x].dev = "in" => work[x].dev = "in" \/ CountOf(pending, "in") > 0
    PROVE  RequestInv'
<1>1. \A d : Somebody(d, "P")' = Somebody(d, "P") /\ Somebody(d, "get")' = Somebody(d, "get")
    BY DEF Somebody
<1>2. OneInterrupt'
    BY <1>1 DEF RequestInv, OneInterrupt
<1>3. Busy' /\ SleepAtZero' /\ DeviceTypes'
    BY DEF RequestInv, Busy, SleepAtZero, DeviceTypes
<1>4. Chars'
    BY <1>1 DEF RequestInv, Chars
<1> QED BY <1>2, <1>3, <1>4 DEF RequestInv

\* The same for a thread that changes its place.
LEMMA QuietMove ==
    ASSUME CpuTypes, RequestInv, TimeTypes', \A y : CountOf(pending', y) = CountOf(pending, y),
           UNCHANGED <<active, putBusy, incoming, sem>>,
           NEW t \in Thread, pc[t] \notin {"P", "get"}, NEW l, l \notin {"P", "get"},
           pc' = [pc EXCEPT ![t] = l],
           \/ work' = work
           \/ \E w : /\ work' = [work EXCEPT ![t] = w]
                     /\ w.dev = "in" => CountOf(pending, "in") > 0
    PROVE  RequestInv'
<1>1. pc'[t] = l /\ \A x \in Thread \ {t} : pc'[x] = pc[x] /\ work'[x] = work[x]
    BY DEF CpuTypes
<1>2. work'[t].dev = "in" => work[t].dev = "in" \/ CountOf(pending, "in") > 0
    BY DEF CpuTypes
<1>3. /\ \A x \in Thread : pc'[x] = "P" <=> pc[x] = "P"
      /\ \A x \in Thread : pc'[x] = "get" <=> pc[x] = "get"
      /\ \A x \in Thread : pc[x] \in {"P", "get"} => work'[x].dev = work[x].dev
      /\ \A x \in Thread : work'[x].dev = "in" => work[x].dev = "in" \/ CountOf(pending, "in") > 0
    BY <1>1, <1>2
<1> QED BY <1>3, Quiet

\* The same when no thread moves.
LEMMA QuietTime ==
    ASSUME RequestInv, TimeTypes', \A y : CountOf(pending', y) = CountOf(pending, y),
           UNCHANGED <<active, putBusy, incoming, sem, pc, work>>
    PROVE  RequestInv'
BY Quiet

\* The owner of a device goes to another place.
LEMMA OwnerMoves ==
    ASSUME ThreadInv, NEW t \in Thread, current = t, NEW d \in Device, d = work[t].dev,
           pc[t] \in Within, NEW l, pc' = [pc EXCEPT ![t] = l],
           work'[t].dev = d, \A x \in Thread \ {t} : work'[x] = work[x]
    PROVE  /\ \A k \in {"P", "get"} :
                 /\ Somebody(d, k) <=> pc[t] = k
                 /\ Somebody(d, k)' <=> l = k
                 /\ \A e \in Device \ {d} : Somebody(e, k)' <=> Somebody(e, k)
           /\ pc'[t] = l /\ \A x \in Thread \ {t} : pc'[x] = pc[x]
<1>1. pc'[t] = l /\ \A x \in Thread \ {t} : pc'[x] = pc[x]
    BY DEF ThreadInv, CpuTypes
<1>2. ~LockQ(d, t)
    BY CurrentApart
<1>3. ASSUME NEW x \in Thread, x # t, work[x].dev = d PROVE pc[x] \notin {"P", "get"}
    BY <1>2, <1>3, Alone
<1>4. ASSUME NEW k \in {"P", "get"}, NEW e \in Device \ {d}
      PROVE  Somebody(e, k)' <=> Somebody(e, k)
  <2>1. \A x \in Thread : pc'[x] = k /\ work'[x].dev = e <=> pc[x] = k /\ work[x].dev = e
      BY <1>1
  <2> QED BY <2>1 DEF Somebody
<1>5. ASSUME NEW k \in {"P", "get"} PROVE Somebody(d, k) <=> pc[t] = k
    BY <1>3 DEF Somebody
<1>6. ASSUME NEW k \in {"P", "get"} PROVE Somebody(d, k)' <=> l = k
  <2>1. \A x \in Thread : pc'[x] = k /\ work'[x].dev = d <=> x = t /\ l = k
      BY <1>1, <1>3
  <2> QED BY <2>1 DEF Somebody
<1> QED BY <1>1, <1>4, <1>5, <1>6

\* Begin: a thread asks for a device; for the console only if there is one.
LEMMA BeginKeeps ==
    ASSUME ThreadInv, RequestInv, NEW t \in Thread, NEW w \in Work, Begin(t, w),
           w.dev = "in" => CountOf(pending, "in") > 0
    PROVE  ThreadInv' /\ RequestInv'
<1>1. /\ mode = "run" /\ current = t /\ pc[t] = "idle"
      /\ pc' = [pc EXCEPT ![t] = "acquire"] /\ work' = [work EXCEPT ![t] = w]
      /\ UNCHANGED <<mode, current, ready, waking, pending, clock, bufferAge, lastTrack,
                     bufferSector, active, putBusy, incoming, lock, sem>>
    BY DEF Begin, Running, cpu, time, diskVars, consoleVars
<1>2. "acquire" \in Place /\ "acquire" \notin Within /\ pc[t] \notin Within
    BY <1>1 DEF Place, Within
<1>3. sem' \in [Device -> [value : Nat, waiting : Seq(Thread)]]
    BY <1>1 DEF ThreadInv, ObjectTypes
<1>4. \A d \in Device : sem'[d].waiting = sem[d].waiting
    BY <1>1
<1>5. ThreadInv'
    BY <1>1, <1>2, <1>3, <1>4, Goes
<1>6. CpuTypes /\ TimeTypes
    BY DEF ThreadInv, RequestInv
<1>7. TimeTypes' /\ \A y : CountOf(pending', y) = CountOf(pending, y)
    BY <1>1, <1>6, SameTimes
<1>8. RequestInv'
    BY <1>1, <1>6, <1>7, QuietMove
<1> QED BY <1>5, <1>8

\* The three calls that begin a request.
LEMMA CallsKeep ==
    ASSUME ThreadInv, RequestInv, NEW t \in Thread,
           Sectors(t) \/ WriteLine(t) \/ ReadLine(t)
    PROVE  ThreadInv' /\ RequestInv'
<1>1. CASE Sectors(t)
  <2>1. PICK s \in Sector, b \in BOOLEAN :
            Begin(t, [dev |-> "disk", sector |-> s, writing |-> b, left |-> 0])
      BY <1>1 DEF Sectors
  <2>2. PICK w : w = [dev |-> "disk", sector |-> s, writing |-> b, left |-> 0]
      OBVIOUS
  <2>3. s \in Nat
      BY DEF Sector
  <2>4. w \in Work /\ w.dev # "in"
      BY <2>2, <2>3 DEF Work, Device
  <2> QED BY <2>1, <2>2, <2>4, BeginKeeps
<1>2. CASE WriteLine(t)
  <2>1. PICK n \in 0 .. MaxLine :
            Begin(t, [dev |-> "out", sector |-> 0, writing |-> TRUE, left |-> n])
      BY <1>2 DEF WriteLine
  <2>2. PICK w : w = [dev |-> "out", sector |-> 0, writing |-> TRUE, left |-> n]
      OBVIOUS
  <2>3. w \in Work /\ w.dev # "in"
      BY <2>2 DEF Work, Device
  <2> QED BY <2>1, <2>2, <2>3, BeginKeeps
<1>3. CASE ReadLine(t)
  <2>1. PICK n \in 0 .. MaxLine :
            Begin(t, [dev |-> "in", sector |-> 0, writing |-> FALSE, left |-> n])
      BY <1>3 DEF ReadLine
  <2>2. PICK w : w = [dev |-> "in", sector |-> 0, writing |-> FALSE, left |-> n]
      OBVIOUS
  <2>3. w \in Work
      BY <2>2 DEF Work, Device
  <2>4. PICK p \in Seq(Interrupt) : p = pending
      BY DEF RequestInv, TimeTypes
  <2>5. Of(p, "in") # {}
      BY <1>3, <2>4 DEF ReadLine, HasConsole, Of
  <2>6. IsFiniteSet(Of(p, "in")) /\ CountOf(p, "in") \in Nat
      BY CountType
  <2>7. CountOf(p, "in") # 0
      BY <2>5, <2>6, FS_EmptySet DEF CountOf
  <2>8. CountOf(pending, "in") > 0
      BY <2>4, <2>6, <2>7
  <2> QED BY <2>1, <2>2, <2>3, <2>8, BeginKeeps
<1> QED BY <1>1, <1>2, <1>3

\* Acquire, Release, Finish, Resume and UserInstruction ask for nothing.
LEMMA PlainKeep ==
    ASSUME ThreadInv, RequestInv, NEW t \in Thread,
           Acquire(t) \/ Release(t) \/ Finish(t) \/ Resume(t) \/ UserInstruction(t)
    PROVE  ThreadInv' /\ RequestInv'
<1>1. CpuTypes /\ TimeTypes
    BY DEF ThreadInv, RequestInv
<1>2. SystemTick \in Nat /\ UserTick \in Nat
    BY Constants
<1>3. ASSUME Enable, UNCHANGED <<lastTrack, bufferSector>>
      PROVE  TimeTypes' /\ \A y : CountOf(pending', y) = CountOf(pending, y)
    BY <1>1, <1>2, <1>3, TickTimes DEF Enable
<1>4. CASE Acquire(t)
  <2>1. /\ pc[t] = "acquire" /\ pc' = [pc EXCEPT ![t] = "io"] /\ work' = work
        /\ UNCHANGED <<active, putBusy, incoming, sem, lastTrack, bufferSector>>
      BY <1>4 DEF Acquire, diskVars, consoleVars
  <2>2. Enable \/ UNCHANGED <<pending, clock, bufferAge>>
      BY <1>4 DEF Acquire, time
  <2>3. TimeTypes' /\ \A y : CountOf(pending', y) = CountOf(pending, y)
      BY <1>1, <1>3, <2>1, <2>2, SameTimes
  <2>4. RequestInv'
      BY <1>1, <2>1, <2>3, QuietMove
  <2> QED BY <1>4, <2>4, AcquireThreads
<1>5. CASE Release(t)
  <2>1. /\ pc[t] = "release" /\ pc' = [pc EXCEPT ![t] = "idle"]
        /\ work' = [work EXCEPT ![t] = NoWork] /\ Enable
        /\ UNCHANGED <<active, putBusy, incoming, sem, lastTrack, bufferSector>>
      BY <1>5 DEF Release, diskVars, consoleVars
  <2>2. NoWork.dev # "in"
      BY DEF NoWork
  <2>3. TimeTypes' /\ \A y : CountOf(pending', y) = CountOf(pending, y)
      BY <1>3, <2>1
  <2>4. RequestInv'
      BY <1>1, <2>1, <2>2, <2>3, QuietMove
  <2> QED BY <1>5, <2>4, ReleaseThreads
<1>6. CASE Finish(t)
  <2>1. /\ pc[t] = "idle" /\ pc' = [pc EXCEPT ![t] = "done"] /\ work' = work
        /\ UNCHANGED <<pending, clock, bufferAge, active, putBusy, incoming, sem, lastTrack,
                       bufferSector>>
      BY <1>6 DEF Finish, time, diskVars, consoleVars
  <2>2. TimeTypes' /\ \A y : CountOf(pending', y) = CountOf(pending, y)
      BY <1>1, <2>1, SameTimes
  <2>3. RequestInv'
      BY <1>1, <2>1, <2>2, QuietMove
  <2> QED BY <1>6, <2>3, FinishThreads
<1>7. CASE Resume(t)
  <2>1. /\ mode = "run" /\ mode' = "tick" /\ current = t /\ waking' = waking \ {t} /\ Enable
        /\ UNCHANGED <<current, ready, pc, work, lock, sem, active, putBusy, incoming, lastTrack,
                       bufferSector>>
      BY <1>7 DEF Resume, Enable, diskVars, consoleVars
  <2>2. waking \ {current} \subseteq waking' /\ waking' \subseteq Thread
      BY <2>1 DEF ThreadInv, CpuTypes
  <2>3. ThreadInv'
      BY <2>1, <2>2, Ticks
  <2>4. TimeTypes' /\ \A y : CountOf(pending', y) = CountOf(pending, y)
      BY <1>3, <2>1
  <2> QED BY <2>1, <2>3, <2>4, QuietTime
<1>8. CASE UserInstruction(t)
  <2>1. /\ mode = "run" /\ mode' = "tick" /\ Elapse(UserTick)
        /\ pending' = Later(pending, UserTick)
        /\ UNCHANGED <<current, ready, waking, pc, work, lock, sem, active, putBusy, incoming,
                       lastTrack, bufferSector>>
      BY <1>8 DEF UserInstruction, Running, diskVars, consoleVars
  <2>2. waking \ {current} \subseteq waking' /\ waking' \subseteq Thread
      BY <2>1 DEF ThreadInv, CpuTypes
  <2>3. ThreadInv'
      BY <2>1, <2>2, Ticks
  <2>4. TimeTypes' /\ \A y : CountOf(pending', y) = CountOf(pending, y)
      BY <1>1, <1>2, <2>1, TickTimes
  <2> QED BY <2>1, <2>3, <2>4, QuietTime
<1> QED BY <1>4, <1>5, <1>6, <1>7, <1>8

\* P: the thread sleeps until its interrupt has come.
LEMMA PKeeps ==
    ASSUME ThreadInv, RequestInv, NEW t \in Thread, P(t)
    PROVE  ThreadInv' /\ RequestInv'
<1>1. PICK d \in Device : d = work[t].dev
    BY DEF ThreadInv, CpuTypes, Work
<1>2. /\ mode = "run" /\ current = t /\ pc[t] = "P"
      /\ UNCHANGED <<waking, work, active, putBusy, incoming, lastTrack, bufferSector, lock>>
    BY DEF P, Running, diskVars, consoleVars
<1>3. CpuTypes /\ TimeTypes /\ SleepAtZero
    BY DEF ThreadInv, RequestInv
<1>4. PICK v \in Nat : v = sem[d].value
    BY DEF ThreadInv, ObjectTypes
<1>5. CASE v = 0
  <2>1. /\ sem' = [sem EXCEPT ![d].waiting = Append(@, t)] /\ Dispatch(ready)
        /\ UNCHANGED <<pc, pending, clock, bufferAge>>
      BY <1>1, <1>4, <1>5 DEF P, time
  <2>2. ThreadInv'
      BY <1>1, <1>2, <2>1, SleepThreads
  <2>3. \A e \in Device : sem'[e].value = sem[e].value
      BY <2>1 DEF ThreadInv, ObjectTypes
  <2>4. \A e \in Device \ {d} : sem'[e] = sem[e]
      BY <2>1 DEF ThreadInv, ObjectTypes
  <2>5. \A e, l : Somebody(e, l)' = Somebody(e, l)
      BY <1>2, <2>1 DEF Somebody
  <2>6. SleepAtZero'
      BY <1>3, <1>4, <1>5, <2>3, <2>4 DEF SleepAtZero
  <2>7. TimeTypes' /\ DeviceTypes' /\ Busy'
      BY <1>2, <2>1 DEF RequestInv, TimeTypes, DeviceTypes, Busy
  <2>8. OneInterrupt'
      BY <2>1, <2>3, <2>5 DEF RequestInv, OneInterrupt, Device
  <2>9. Chars'
      BY <1>2, <2>1, <2>3, <2>5 DEF RequestInv, Chars, Device
  <2> QED BY <2>2, <2>6, <2>7, <2>8, <2>9 DEF RequestInv
<1>6. CASE v # 0
  <2>1. PICK l : l = [disk |-> "release", out |-> "io", in |-> "get"][d]
      OBVIOUS
  <2>2. /\ sem' = [sem EXCEPT ![d].value = @ - 1] /\ pc' = [pc EXCEPT ![t] = l] /\ Enable
        /\ UNCHANGED <<current, ready>>
      BY <1>1, <1>4, <1>6, <2>1 DEF P
  <2>3. /\ d = "disk" => l = "release"
        /\ d = "out" => l = "io"
        /\ d = "in" => l = "get"
      BY <2>1
  <2>4. l \in Within /\ l \in Place /\ l # "done" /\ l # "P" /\ pc[t] \in Within
      BY <1>2, <2>3 DEF Within, Place, Device
  <2>5. PICK w \in Work : w = work[t]
      BY DEF ThreadInv, CpuTypes
  <2>6. work' = [work EXCEPT ![t] = w]
      BY <1>2, <2>5 DEF ThreadInv, CpuTypes
  <2>7. /\ sem'[d].value = v - 1 /\ v - 1 \in Nat
        /\ \A e \in Device : sem'[e].waiting = sem[e].waiting
        /\ \A e \in Device \ {d} : sem'[e] = sem[e]
        /\ sem' \in [Device -> [value : Nat, waiting : Seq(Thread)]]
    <3>1. v - 1 \in Nat
        BY <1>6
    <3> QED BY <1>4, <2>2, <3>1 DEF ThreadInv, ObjectTypes
  <2>8. mode' = "tick"
      BY <2>2 DEF Enable
  <2>9. ThreadInv'
      BY <1>2, <2>2, <2>4, <2>5, <2>6, <2>7, <2>8, Goes
  <2>10. SystemTick \in Nat
      BY Constants
  <2>11. TimeTypes' /\ \A y : CountOf(pending', y) = CountOf(pending, y)
      BY <1>2, <1>3, <2>2, <2>10, TickTimes DEF Enable
  <2>12. work'[t].dev = d /\ \A x \in Thread \ {t} : work'[x] = work[x]
      BY <1>1, <1>2
  <2>13. /\ \A k \in {"P", "get"} :
                /\ Somebody(d, k) <=> pc[t] = k
                /\ Somebody(d, k)' <=> l = k
                /\ \A e \in Device \ {d} : Somebody(e, k)' <=> Somebody(e, k)
         /\ pc'[t] = l /\ \A x \in Thread \ {t} : pc'[x] = pc[x]
      BY <1>1, <1>2, <2>2, <2>4, <2>12, OwnerMoves
  <2>14. Somebody(d, "P") /\ ~Somebody(d, "P")' /\ ~Somebody(d, "get")
         /\ (d = "in" => Somebody(d, "get")')
      BY <1>2, <2>3, <2>4, <2>13
  <2>15. Busy' /\ DeviceTypes'
      BY <1>2, <2>11 DEF RequestInv, Busy, DeviceTypes
  <2>16. SleepAtZero'
    <3> SUFFICES ASSUME NEW e \in Device, sem'[e].waiting # <<>> PROVE sem'[e].value = 0
        BY DEF SleepAtZero
    <3>1. sem[e].value = 0
        BY <1>3, <2>7 DEF SleepAtZero
    <3>2. e # d
        BY <1>4, <1>6, <3>1
    <3> QED BY <2>7, <3>1, <3>2
  <2>17. OneInterrupt'
    <3> SUFFICES ASSUME NEW e \in {"disk", "out"}
                 PROVE  CountOf(pending', e) + sem'[e].value = IF Somebody(e, "P")' THEN 1 ELSE 0
        BY DEF OneInterrupt
    <3>1. e \in Device
        BY DEF Device
    <3>2. CountOf(pending, e) + sem[e].value = IF Somebody(e, "P") THEN 1 ELSE 0
        BY DEF RequestInv, OneInterrupt
    <3>3. CASE e = d
      <4>1. PICK c : c = CountOf(pending, e)
          OBVIOUS
      <4>2. c \in Nat
          BY <1>3, <4>1, CountType DEF TimeTypes
      <4>3. c + v = 1
          BY <1>4, <2>14, <3>2, <3>3, <4>1
      <4>4. c + (v - 1) = 0
          BY <1>6, <4>2, <4>3
      <4> QED BY <2>7, <2>11, <2>14, <3>3, <4>1, <4>4
    <3>4. CASE e # d
        BY <2>7, <2>11, <2>13, <3>1, <3>2, <3>4
    <3> QED BY <3>3, <3>4
  <2>18. Chars'
    <3>1. \A x \in Thread : pc'[x] = "get" => work'[x].dev = "in"
        BY <1>1, <1>2, <2>3, <2>13 DEF RequestInv, Chars, Device
    <3>2. \A x \in Thread : work'[x].dev = "in" => CountOf(pending', "in") > 0
        BY <1>2, <2>11 DEF RequestInv, Chars
    <3>3. sem["in"].value + (IF Somebody("in", "get") THEN 1 ELSE 0) = IF incoming = EOF THEN 0 ELSE 1
        BY DEF RequestInv, Chars
    <3>4. sem'["in"].value + (IF Somebody("in", "get")' THEN 1 ELSE 0)
             = IF incoming' = EOF THEN 0 ELSE 1
      <4>1. CASE d = "in"
        <5>1. v + 0 = IF incoming = EOF THEN 0 ELSE 1
            BY <1>4, <2>14, <3>3, <4>1
        <5>2. (v - 1) + 1 = IF incoming = EOF THEN 0 ELSE 1
            BY <5>1
        <5> QED BY <1>2, <2>7, <2>14, <4>1, <5>2
      <4>2. CASE d # "in"
          BY <1>2, <2>7, <2>13, <3>3, <4>2 DEF Device
      <4> QED BY <4>1, <4>2
    <3> QED BY <3>1, <3>2, <3>4 DEF Chars
  <2> QED BY <2>9, <2>11, <2>15, <2>16, <2>17, <2>18 DEF RequestInv
<1> QED BY <1>5, <1>6

\* Request and PutChar: a request is made, and its interrupt is pending.
LEMMA AskKeeps ==
    ASSUME ThreadInv, RequestInv, NEW t \in Thread, current = t, mode = "run", pc[t] = "io",
           NEW d \in {"disk", "out"}, work[t].dev = d, NEW w \in Work, w.dev = d,
           pc' = [pc EXCEPT ![t] = "P"], work' = [work EXCEPT ![t] = w],
           NEW n \in Int, pending' = SortedInsert(pending, d, n),
           UNCHANGED <<mode, current, ready, waking, lock, sem, incoming>>,
           TimeTypes',
           active' = (IF d = "disk" THEN TRUE ELSE active),
           putBusy' = (IF d = "out" THEN TRUE ELSE putBusy)
    PROVE  ThreadInv' /\ RequestInv'
<1>1. d \in Device /\ d \in Interrupts
    BY DEF Device, Interrupts
<1>2. "P" \in Within /\ "P" \in Place /\ pc[t] \in Within
    BY DEF Within, Place
<1>3. sem' \in [Device -> [value : Nat, waiting : Seq(Thread)]]
    BY DEF ThreadInv, ObjectTypes
<1>4. \A e \in Device : sem'[e].waiting = sem[e].waiting
    OBVIOUS
<1>5. ThreadInv'
    BY <1>2, <1>3, <1>4, Goes
<1>6. PICK p \in Seq(Interrupt) : p = pending
    BY DEF RequestInv, TimeTypes
<1>7. \A y : CountOf(pending', y) = CountOf(p, y) + (IF d = y THEN 1 ELSE 0)
  <2>1. pending' = SortedInsert(p, d, n)
      BY <1>6
  <2>2. \A y : CountOf(SortedInsert(p, d, n), y) = CountOf(p, y) + (IF d = y THEN 1 ELSE 0)
      BY <1>1, InsertCount
  <2> QED BY <2>1, <2>2
<1>8. \A y : CountOf(p, y) \in Nat
    BY CountType
<1>9. \A y : y # d => CountOf(pending', y) = CountOf(pending, y)
    BY <1>6, <1>7, <1>8
<1>10. CountOf(pending', d) = CountOf(pending, d) + 1
    BY <1>6, <1>7
<1>11. work'[t].dev = d /\ \A x \in Thread \ {t} : work'[x] = work[x]
    BY DEF ThreadInv, CpuTypes
<1>12. /\ \A k \in {"P", "get"} :
              /\ Somebody(d, k) <=> pc[t] = k
              /\ Somebody(d, k)' <=> "P" = k
              /\ \A e \in Device \ {d} : Somebody(e, k)' <=> Somebody(e, k)
       /\ pc'[t] = "P" /\ \A x \in Thread \ {t} : pc'[x] = pc[x]
    BY <1>1, <1>2, <1>11, OwnerMoves
<1>13. PICK v \in Nat : v = sem[d].value
    BY <1>1 DEF ThreadInv, ObjectTypes
<1>14. PICK c \in Nat : c = CountOf(pending, d)
    BY <1>6, <1>8
<1>15. c = 0 /\ v = 0
  <2>1. c + v = 0
      BY <1>12, <1>13, <1>14 DEF RequestInv, OneInterrupt
  <2> QED BY <2>1
<1>16. OneInterrupt'
  <2> SUFFICES ASSUME NEW e \in {"disk", "out"}
               PROVE  CountOf(pending', e) + sem'[e].value = IF Somebody(e, "P")' THEN 1 ELSE 0
      BY DEF OneInterrupt
  <2>1. CASE e = d
    <3>1. CountOf(pending', d) = 1 /\ sem'[d].value = 0
        BY <1>10, <1>13, <1>14, <1>15
    <3> QED BY <1>12, <2>1, <3>1
  <2>2. CASE e # d
    <3>1. CountOf(pending, e) + sem[e].value = IF Somebody(e, "P") THEN 1 ELSE 0
        BY DEF RequestInv, OneInterrupt
    <3> QED BY <1>9, <1>12, <2>2, <3>1 DEF Device
  <2> QED BY <2>1, <2>2
<1>17. Busy'
  <2>1. CountOf(pending', d) = 1
      BY <1>10, <1>14, <1>15
  <2> QED BY <1>9, <2>1 DEF RequestInv, Busy
<1>18. DeviceTypes' /\ SleepAtZero'
    BY DEF RequestInv, DeviceTypes, SleepAtZero
<1>19. Chars'
  <2>1. \A x \in Thread : pc'[x] = "get" => work'[x].dev = "in"
      BY <1>11, <1>12 DEF RequestInv, Chars
  <2>2. \A x \in Thread : work'[x].dev = "in" => CountOf(pending', "in") > 0
      BY <1>9, <1>11 DEF RequestInv, Chars
  <2>3. Somebody("in", "get")' <=> Somebody("in", "get")
      BY <1>12 DEF Device
  <2> QED BY <2>1, <2>2, <2>3 DEF RequestInv, Chars
<1> QED BY <1>5, <1>16, <1>17, <1>18, <1>19 DEF RequestInv

\* Request and PutChar are such steps.
LEMMA RequestKeeps ==
    ASSUME ThreadInv, RequestInv, NEW t \in Thread, Request(t) \/ PutChar(t)
    PROVE  ThreadInv' /\ RequestInv'
<1>1. PICK u \in Work : u = work[t]
    BY DEF ThreadInv, CpuTypes
<1>2. PICK p \in Seq(Interrupt) : p = pending
    BY DEF RequestInv, TimeTypes
<1>3. TimeTypes
    BY DEF RequestInv
<1>4. CASE Request(t)
  <2>1. /\ mode = "run" /\ current = t /\ pc[t] = "io" /\ work[t].dev = "disk"
        /\ pending' = SortedInsert(pending, "disk", ComputeLatency(u.sector, u.writing))
        /\ active' = TRUE /\ UpdateLast(u.sector) /\ work' = [work EXCEPT ![t] = NoWork]
        /\ pc' = [pc EXCEPT ![t] = "P"]
        /\ UNCHANGED <<mode, current, ready, waking, clock, putBusy, incoming, lock, sem>>
      BY <1>1, <1>4 DEF Request, Running, cpu, consoleVars
  <2>2. u.sector \in Nat
      BY DEF Work
  <2>3. PICK n \in Int : n = ComputeLatency(u.sector, u.writing)
      BY <1>3, <2>2, LatencyTypes
  <2>4. pending' = SortedInsert(p, "disk", n)
      BY <1>2, <2>1, <2>3
  <2>5. pending' \in Seq(Interrupt)
      BY <2>4, InsertCount DEF Interrupts
  <2>6. lastTrack' \in Nat /\ bufferAge' \in Int /\ bufferSector' \in Int
      BY <1>3, <2>1, <2>2, UpdateTypes
  <2>7. TimeTypes'
      BY <1>3, <2>1, <2>5, <2>6 DEF TimeTypes
  <2>8. NoWork \in Work /\ NoWork.dev = "disk"
      BY DEF NoWork, Work, Device
  <2>9. pending' = SortedInsert(pending, "disk", n)
      BY <2>1, <2>3
  <2> QED BY <2>1, <2>7, <2>8, <2>9, AskKeeps
<1>5. CASE PutChar(t)
  <2>1. /\ mode = "run" /\ current = t /\ pc[t] = "io" /\ work[t].dev = "out"
        /\ pending' = SortedInsert(pending, "out", ConsoleTime)
        /\ putBusy' = TRUE /\ work' = [work EXCEPT ![t].left = @ - 1]
        /\ pc' = [pc EXCEPT ![t] = "P"]
        /\ UNCHANGED <<mode, current, ready, waking, clock, bufferAge, active, lastTrack,
                       bufferSector, incoming, lock, sem>>
      BY <1>5 DEF PutChar, Running, cpu, diskVars
  <2>2. PICK w : w = [u EXCEPT !.left = u.left - 1]
      OBVIOUS
  <2>3. w \in Work /\ w.dev = "out"
      BY <1>1, <2>1, <2>2, SMTT(60) DEF Work
  <2>4. work' = [work EXCEPT ![t] = w]
      BY <1>1, <2>1, <2>2 DEF ThreadInv, CpuTypes
  <2>5. ConsoleTime \in Int
      BY Constants
  <2>6. pending' = SortedInsert(p, "out", ConsoleTime)
      BY <1>2, <2>1
  <2>7. pending' \in Seq(Interrupt)
      BY <2>5, <2>6, InsertCount DEF Interrupts
  <2>8. TimeTypes'
      BY <1>3, <2>1, <2>7 DEF TimeTypes
  <2> QED BY <2>1, <2>3, <2>4, <2>5, <2>8, AskKeeps
<1> QED BY <1>4, <1>5

\* AwaitChar, GetChar and EndLine: the owner of the console goes on.
LEMMA LineKeeps ==
    ASSUME ThreadInv, RequestInv, NEW t \in Thread, AwaitChar(t) \/ GetChar(t) \/ EndLine(t)
    PROVE  ThreadInv' /\ RequestInv'
<1>1. PICK u \in Work : u = work[t]
    BY DEF ThreadInv, CpuTypes
<1>2. CpuTypes /\ TimeTypes
    BY DEF ThreadInv, RequestInv
<1>3. sem \in [Device -> [value : Nat, waiting : Seq(Thread)]]
    BY DEF ThreadInv, ObjectTypes
<1>4. /\ mode = "run" /\ current = t
      /\ UNCHANGED <<mode, current, ready, waking, pending, clock, bufferAge, active, lastTrack,
                     bufferSector, putBusy, lock, sem>>
    BY DEF AwaitChar, GetChar, EndLine, Running, cpu, time, diskVars, consoleVars
<1>5. TimeTypes' /\ \A y : CountOf(pending', y) = CountOf(pending, y)
    BY <1>2, <1>4, SameTimes
<1>6. sem' \in [Device -> [value : Nat, waiting : Seq(Thread)]]
      /\ \A e \in Device : sem'[e].waiting = sem[e].waiting
    BY <1>3, <1>4
<1>7. mode' \in {"run", "tick"}
    BY <1>4
<1>8. CASE EndLine(t)
  <2>1. /\ pc[t] = "io" /\ pc' = [pc EXCEPT ![t] = "release"] /\ work' = work
        /\ incoming' = incoming
      BY <1>8 DEF EndLine, consoleVars
  <2>2. "release" \in Within /\ "release" \in Place /\ pc[t] \in Within
      BY <2>1 DEF Within, Place
  <2>3. work' = [work EXCEPT ![t] = u]
      BY <1>1, <2>1 DEF ThreadInv, CpuTypes
  <2>4. ThreadInv'
      BY <1>1, <1>4, <1>6, <1>7, <2>1, <2>2, <2>3, Goes
  <2>5. RequestInv'
      BY <1>2, <1>4, <1>5, <2>1, QuietMove
  <2> QED BY <2>4, <2>5
<1>9. CASE AwaitChar(t)
  <2>1. /\ pc[t] = "io" /\ pc' = [pc EXCEPT ![t] = "P"] /\ work' = work /\ u.dev = "in"
        /\ incoming' = incoming
      BY <1>1, <1>9 DEF AwaitChar, consoleVars
  <2>2. "P" \in Within /\ "P" \in Place /\ pc[t] \in Within /\ "in" \in Device
      BY <2>1 DEF Within, Place, Device
  <2>3. work' = [work EXCEPT ![t] = u]
      BY <1>1, <2>1 DEF ThreadInv, CpuTypes
  <2>4. ThreadInv'
      BY <1>1, <1>4, <1>6, <1>7, <2>1, <2>2, <2>3, Goes
  <2>5. /\ \A k \in {"P", "get"} :
              /\ Somebody("in", k) <=> pc[t] = k
              /\ Somebody("in", k)' <=> "P" = k
              /\ \A e \in Device \ {"in"} : Somebody(e, k)' <=> Somebody(e, k)
        /\ pc'[t] = "P" /\ \A x \in Thread \ {t} : pc'[x] = pc[x]
      BY <1>1, <1>4, <2>1, <2>2, OwnerMoves
  <2>6. OneInterrupt'
      BY <1>4, <2>5 DEF RequestInv, OneInterrupt, Device
  <2>7. Somebody("in", "get")' <=> Somebody("in", "get")
      BY <2>1, <2>5
  <2>8. Chars'
      BY <1>4, <2>1, <2>5, <2>7 DEF RequestInv, Chars
  <2>9. Busy' /\ SleepAtZero' /\ DeviceTypes'
      BY <1>4, <2>1 DEF RequestInv, Busy, SleepAtZero, DeviceTypes
  <2> QED BY <1>5, <2>4, <2>6, <2>8, <2>9 DEF RequestInv
<1>10. CASE GetChar(t)
  <2>1. /\ pc[t] = "get" /\ pc' = [pc EXCEPT ![t] = "io"] /\ incoming' = EOF
        /\ work' = [work EXCEPT ![t].left = IF incoming = "newline" THEN 0 ELSE @ - 1]
      BY <1>10 DEF GetChar
  <2>2. u.dev = "in"
      BY <1>1, <2>1 DEF RequestInv, Chars
  <2>3. PICK w : w = [u EXCEPT !.left = IF incoming = "newline" THEN 0 ELSE u.left - 1]
      OBVIOUS
  <2>4. w \in Work /\ w.dev = "in"
      BY <2>2, <2>3 DEF Work
  <2>5. work' = [work EXCEPT ![t] = w]
      BY <1>1, <2>1, <2>3 DEF ThreadInv, CpuTypes
  <2>6. "io" \in Within /\ "io" \in Place /\ pc[t] \in Within /\ "in" \in Device
      BY <2>1 DEF Within, Place, Device
  <2>7. ThreadInv'
      BY <1>1, <1>4, <1>6, <1>7, <2>1, <2>2, <2>4, <2>5, <2>6, Goes
  <2>8. work'[t] = w /\ \A x \in Thread \ {t} : work'[x] = work[x]
      BY <2>5 DEF ThreadInv, CpuTypes
  <2>9. /\ \A k \in {"P", "get"} :
              /\ Somebody("in", k) <=> pc[t] = k
              /\ Somebody("in", k)' <=> "io" = k
              /\ \A e \in Device \ {"in"} : Somebody(e, k)' <=> Somebody(e, k)
        /\ pc'[t] = "io" /\ \A x \in Thread \ {t} : pc'[x] = pc[x]
      BY <1>1, <1>4, <2>1, <2>2, <2>4, <2>6, <2>8, OwnerMoves
  <2>10. OneInterrupt'
      BY <1>4, <2>9 DEF RequestInv, OneInterrupt, Device
  <2>11. sem["in"].value + 1 = IF incoming = EOF THEN 0 ELSE 1
      BY <2>1, <2>9 DEF RequestInv, Chars
  <2>12. sem["in"].value = 0
    <3>1. PICK v \in Nat : v = sem["in"].value
        BY <1>3, <2>6
    <3>2. v + 1 = 0 \/ v + 1 = 1
        BY <2>11, <3>1
    <3> QED BY <3>1, <3>2
  <2>13. Chars'
    <3>1. \A x \in Thread : pc'[x] = "get" => work'[x].dev = "in"
        BY <2>8, <2>9 DEF RequestInv, Chars
    <3>2. \A x \in Thread : work'[x].dev = "in" => CountOf(pending', "in") > 0
        BY <1>1, <1>4, <2>2, <2>8 DEF RequestInv, Chars
    <3>3. ~Somebody("in", "get")'
        BY <2>9
    <3> QED BY <1>4, <2>1, <2>12, <3>1, <3>2, <3>3 DEF Chars
  <2>14. Busy' /\ SleepAtZero' /\ DeviceTypes'
      BY <1>4, <2>1 DEF RequestInv, Busy, SleepAtZero, DeviceTypes
  <2> QED BY <1>5, <2>7, <2>10, <2>13, <2>14 DEF RequestInv
<1> QED BY <1>8, <1>9, <1>10

-----------------------------------------------------------------------------
(***************************************************************************)
(* Interrupt handlers.                                                     *)
(***************************************************************************)

\* A handler that wakes nobody.
LEMMA NobodyWoken ==
    ASSUME ThreadInv, UNCHANGED <<current, ready, waking, pc, work, lock, sem>>,
           mode' \in {"tick", "drain"}, mode' = "tick" <=> mode = "tick", mode # "run"
    PROVE  ThreadInv'
<1>1. /\ \A x : Ready(x)' = Ready(x)
      /\ \A x, d : LockQ(d, x)' = LockQ(d, x) /\ SemQ(d, x)' = SemQ(d, x)
    BY DEF Ready, LockQ, SemQ
<1>2. CpuTypes' /\ ObjectTypes' /\ NoneTwice'
    BY DEF ThreadInv, CpuTypes, ObjectTypes, NoneTwice
<1>3. Apart' /\ NobodyLost' /\ LocksRight'
    BY <1>1 DEF ThreadInv, Apart, NobodyLost, LocksRight
<1> QED BY <1>2, <1>3 DEF ThreadInv

\* V wakes the one thread that waits, so that nobody waits any more.
LEMMA WakeOne ==
    ASSUME ThreadInv, NEW d \in Device, V(d), UNCHANGED <<current, waking, pc, work, lock>>,
           mode' \in {"tick", "drain"}, mode' = "tick" <=> mode = "tick", mode # "run"
    PROVE  /\ ThreadInv' /\ sem'[d].value = sem[d].value + 1 /\ sem'[d].waiting = <<>>
           /\ \A e \in Device \ {d} : sem'[e] = sem[e]
<1>1. /\ ThreadInv' /\ sem'[d].value = sem[d].value + 1
      /\ \A e \in Device \ {d} : sem'[e] = sem[e]
      /\ \A x : SemQ(d, x)' => SemQ(d, x)
      /\ sem[d].waiting # <<>> => \E h \in Thread : SemQ(d, h) /\ ~SemQ(d, h)'
    BY WakeThreads
<1>2. ASSUME NEW x \in Thread PROVE ~SemQ(d, x)'
  <2>1. SUFFICES ASSUME SemQ(d, x)' PROVE FALSE
      OBVIOUS
  <2>2. SemQ(d, x)
      BY <1>1, <2>1
  <2>3. PICK q \in Seq(Thread) : q = sem[d].waiting
      BY DEF ThreadInv, ObjectTypes
  <2>4. q # <<>>
      BY <2>2, <2>3, EmptyQueue DEF SemQ
  <2>5. PICK h \in Thread : SemQ(d, h) /\ ~SemQ(d, h)'
      BY <1>1, <2>3, <2>4
  <2>6. /\ work[x].dev = d /\ pc[x] \in {"P", "get", "release"}
        /\ work[h].dev = d /\ pc[h] \in {"P", "get", "release"}
      BY <2>2, <2>5 DEF ThreadInv, Apart
  <2>7. x = h
      BY <2>6, AtMostOne
  <2> QED BY <2>1, <2>5, <2>7
<1>3. PICK r \in Seq(Thread) : r = sem'[d].waiting
    BY <1>1 DEF ThreadInv, ObjectTypes
<1>4. r = <<>>
    BY <1>2, <1>3, EmptyQueue DEF SemQ
<1> QED BY <1>1, <1>3, <1>4

\* The interrupt of a request comes: the device is free and its semaphore raised.
LEMMA DoneKeeps ==
    ASSUME ThreadInv, RequestInv, NEW d \in {"disk", "out"}, V(d), TimeTypes',
           CountOf(pending, d) = CountOf(pending', d) + 1,
           \A z \in Interrupts \ {d} : CountOf(pending', z) = CountOf(pending, z),
           UNCHANGED <<current, waking, pc, work, lock, incoming>>,
           active' = (IF d = "disk" THEN FALSE ELSE active),
           putBusy' = (IF d = "out" THEN FALSE ELSE putBusy),
           mode' \in {"tick", "drain"}, mode' = "tick" <=> mode = "tick", mode # "run"
    PROVE  ThreadInv' /\ RequestInv'
<1>1. d \in Device
    BY DEF Device
<1>2. /\ ThreadInv' /\ sem'[d].value = sem[d].value + 1 /\ sem'[d].waiting = <<>>
      /\ \A e \in Device \ {d} : sem'[e] = sem[e]
    BY <1>1, WakeOne
<1>3. \A e, l : Somebody(e, l)' = Somebody(e, l)
    BY DEF Somebody
<1>4. PICK v \in Nat : v = sem[d].value
    BY <1>1 DEF ThreadInv, ObjectTypes
<1>5. PICK c \in Nat : c = CountOf(pending', d)
    BY CountType DEF TimeTypes
<1>6. (c + 1) + v = IF Somebody(d, "P") THEN 1 ELSE 0
    BY <1>4, <1>5 DEF RequestInv, OneInterrupt
<1>7. c = 0 /\ v = 0 /\ Somebody(d, "P")
    BY <1>6
<1>8. OneInterrupt'
  <2> SUFFICES ASSUME NEW e \in {"disk", "out"}
               PROVE  CountOf(pending', e) + sem'[e].value = IF Somebody(e, "P")' THEN 1 ELSE 0
      BY DEF OneInterrupt
  <2>1. CASE e = d
    <3>1. CountOf(pending', d) = 0 /\ sem'[d].value = 1
        BY <1>2, <1>4, <1>5, <1>7
    <3> QED BY <1>3, <1>7, <2>1, <3>1
  <2>2. CASE e # d
    <3>1. CountOf(pending', e) = CountOf(pending, e)
        BY <2>2 DEF Interrupts
    <3>2. sem'[e] = sem[e]
        BY <1>2, <2>2 DEF Device
    <3>3. CountOf(pending, e) + sem[e].value = IF Somebody(e, "P") THEN 1 ELSE 0
        BY DEF RequestInv, OneInterrupt
    <3> QED BY <1>3, <3>1, <3>2, <3>3
  <2> QED BY <2>1, <2>2
<1>9. Busy'
  <2>1. CountOf(pending', d) = 0
      BY <1>5, <1>7
  <2> QED BY <2>1 DEF RequestInv, Busy, Interrupts
<1>10. Chars'
  <2>1. sem'["in"] = sem["in"] /\ CountOf(pending', "in") = CountOf(pending, "in")
      BY <1>2 DEF Device, Interrupts
  <2> QED BY <1>3, <2>1 DEF RequestInv, Chars
<1>11. SleepAtZero'
    BY <1>2 DEF RequestInv, SleepAtZero
<1>12. DeviceTypes'
    BY DEF RequestInv, DeviceTypes
<1> QED BY <1>2, <1>8, <1>9, <1>10, <1>11, <1>12 DEF RequestInv

\* A character comes when the last one was taken.
LEMMA CharKeeps ==
    ASSUME ThreadInv, RequestInv, V("in"), TimeTypes',
           \A z \in Interrupts : CountOf(pending', z) = CountOf(pending, z),
           UNCHANGED <<current, waking, pc, work, lock, active, putBusy>>,
           incoming = EOF, incoming' \in Char,
           mode' \in {"tick", "drain"}, mode' = "tick" <=> mode = "tick", mode # "run"
    PROVE  ThreadInv' /\ RequestInv'
<1>1. "in" \in Device /\ "in" \in Interrupts /\ "disk" \in Interrupts /\ "out" \in Interrupts
    BY DEF Device, Interrupts
<1>2. /\ ThreadInv' /\ sem'["in"].value = sem["in"].value + 1 /\ sem'["in"].waiting = <<>>
      /\ \A e \in Device \ {"in"} : sem'[e] = sem[e]
    BY <1>1, WakeOne
<1>3. \A e, l : Somebody(e, l)' = Somebody(e, l)
    BY DEF Somebody
<1>4. PICK v \in Nat : v = sem["in"].value
    BY <1>1 DEF ThreadInv, ObjectTypes
<1>5. v + (IF Somebody("in", "get") THEN 1 ELSE 0) = 0
    BY <1>4 DEF RequestInv, Chars
<1>6. v = 0 /\ ~Somebody("in", "get")
    BY <1>5
<1>7. incoming' # EOF
    BY DEF Char, EOF
<1>8. Chars'
  <2>1. sem'["in"].value = 1
      BY <1>2, <1>4, <1>6
  <2>2. sem'["in"].value + (IF Somebody("in", "get")' THEN 1 ELSE 0)
            = IF incoming' = EOF THEN 0 ELSE 1
      BY <1>3, <1>6, <1>7, <2>1
  <2> QED BY <1>1, <2>2 DEF RequestInv, Chars
<1>9. OneInterrupt'
    BY <1>1, <1>2, <1>3 DEF RequestInv, OneInterrupt, Device
<1>10. Busy'
    BY <1>1 DEF RequestInv, Busy
<1>11. SleepAtZero'
    BY <1>2 DEF RequestInv, SleepAtZero
<1>12. DeviceTypes'
    BY DEF RequestInv, DeviceTypes
<1> QED BY <1>2, <1>8, <1>9, <1>10, <1>11, <1>12 DEF RequestInv

\* The first pending interrupt is taken off the list and handled.
LEMMA HandlerKeeps ==
    ASSUME ThreadInv, RequestInv, NEW y \in Interrupts, NEW rest \in Seq(Interrupt),
           \A z : CountOf(pending, z) = CountOf(rest, z) + (IF y = z THEN 1 ELSE 0),
           Handler(y, rest), clock' \in Nat, bufferAge' \in Int,
           UNCHANGED <<lastTrack, bufferSector, current, waking, pc, work, lock>>,
           mode' \in {"tick", "drain"}, mode' = "tick" <=> mode = "tick", mode # "run"
    PROVE  ThreadInv' /\ RequestInv'
<1>1. ASSUME NEW k \in Int, pending' = SortedInsert(rest, y, k)
      PROVE  TimeTypes' /\ \A z : CountOf(pending', z) = CountOf(pending, z)
  <2>1. /\ SortedInsert(rest, y, k) \in Seq(Interrupt)
        /\ \A z : CountOf(SortedInsert(rest, y, k), z)
                    = CountOf(rest, z) + (IF y = z THEN 1 ELSE 0)
      BY InsertCount
  <2> QED BY <1>1, <2>1 DEF RequestInv, TimeTypes
<1>2. ASSUME pending' = rest
      PROVE  /\ TimeTypes' /\ CountOf(pending, y) = CountOf(pending', y) + 1
             /\ \A z \in Interrupts \ {y} : CountOf(pending', z) = CountOf(pending, z)
  <2>1. \A z : CountOf(rest, z) \in Nat
      BY CountType
  <2>2. \A z \in Interrupts \ {y} : CountOf(rest, z) = CountOf(pending, z)
      BY <2>1
  <2> QED BY <1>2, <2>2 DEF RequestInv, TimeTypes
<1>3. CASE y = "timer" /\ TimerExpired(rest)
  <2>1. PICK k \in Intervals : pending' = SortedInsert(rest, "timer", k)
      BY <1>3 DEF TimerExpired
  <2>2. k \in Int
      BY Constants
  <2>3. TimeTypes' /\ \A z : CountOf(pending', z) = CountOf(pending, z)
      BY <1>1, <1>3, <2>1, <2>2
  <2>4. UNCHANGED <<ready, sem, active, putBusy, incoming>>
      BY <1>3 DEF TimerExpired, consoleVars
  <2> QED BY <2>3, <2>4, NobodyWoken, QuietTime
<1>4. CASE y = "disk" /\ DiskDone(rest)
  <2>1. pending' = rest /\ active' = FALSE /\ V("disk") /\ UNCHANGED <<putBusy, incoming>>
      BY <1>4 DEF DiskDone, consoleVars
  <2> QED BY <1>2, <1>4, <2>1, DoneKeeps
<1>5. CASE y = "out" /\ WriteDone(rest)
  <2>1. pending' = rest /\ putBusy' = FALSE /\ V("out") /\ UNCHANGED <<active, incoming>>
      BY <1>5 DEF WriteDone
  <2> QED BY <1>2, <1>5, <2>1, DoneKeeps
<1>6. CASE y = "in" /\ CheckCharAvail(rest)
  <2>1. pending' = SortedInsert(rest, "in", ConsoleTime) /\ UNCHANGED <<active, putBusy>>
      BY <1>6 DEF CheckCharAvail
  <2>2. ConsoleTime \in Int
      BY Constants
  <2>3. TimeTypes' /\ \A z : CountOf(pending', z) = CountOf(pending, z)
      BY <1>1, <1>6, <2>1, <2>2
  <2>4. CASE UNCHANGED <<incoming, ready, sem>>
      BY <2>1, <2>3, <2>4, NobodyWoken, QuietTime
  <2>5. CASE incoming = EOF /\ incoming' \in Char /\ V("in")
      BY <2>1, <2>3, <2>5, CharKeeps
  <2> QED BY <1>6, <2>4, <2>5 DEF CheckCharAvail
<1> QED BY <1>3, <1>4, <1>5, <1>6 DEF Handler

\* Interrupts that are due, in OneTick and in Idle.
LEMMA InterruptsKeep ==
    ASSUME ThreadInv, RequestInv, CheckIfDue \/ Idle
    PROVE  ThreadInv' /\ RequestInv'
<1>1. PICK p \in Seq(Interrupt) : p = pending
    BY DEF RequestInv, TimeTypes
<1>2. p # <<>>
    BY <1>1 DEF CheckIfDue, Idle, Due
<1>3. PICK h \in Interrupt : h = Head(p)
    BY <1>2, TailCount, Zenon
<1>4. PICK r \in Seq(Interrupt) : r = Tail(p)
    BY <1>2, TailCount, Zenon
<1>5. \A z : CountOf(p, z) = CountOf(r, z) + (IF h.type = z THEN 1 ELSE 0)
    BY <1>2, <1>3, <1>4, TailCount
<1>6. PICK y \in Interrupts : y = h.type
    BY DEF Interrupt
<1>7. \A z : CountOf(pending, z) = CountOf(r, z) + (IF y = z THEN 1 ELSE 0)
    BY <1>1, <1>5, <1>6
<1>8. CASE CheckIfDue
  <2>1. /\ Handler(y, r)
        /\ UNCHANGED <<mode, current, waking, pc, work, clock, bufferAge, lastTrack,
                       bufferSector, lock>>
      BY <1>1, <1>3, <1>4, <1>6, <1>8 DEF CheckIfDue
  <2>2. mode \in {"tick", "drain"}
      BY <1>8 DEF CheckIfDue
  <2>3. clock' \in Nat /\ bufferAge' \in Int
      BY <2>1 DEF RequestInv, TimeTypes
  <2> QED BY <1>7, <2>1, <2>2, <2>3, HandlerKeeps
<1>9. CASE Idle
  <2>1. PICK d : d = IF h.ticks > 0 THEN h.ticks ELSE 0
      OBVIOUS
  <2>2. d \in Nat
      BY <2>1 DEF Interrupt
  <2>3. /\ mode = "idle" /\ mode' = "drain" /\ Elapse(d) /\ Handler(y, Later(r, d))
        /\ UNCHANGED <<current, waking, pc, work, lastTrack, bufferSector, lock>>
      BY <1>1, <1>3, <1>4, <1>6, <1>9, <2>1 DEF Idle
  <2>4. Later(r, d) \in Seq(Interrupt) /\ \A z : CountOf(Later(r, d), z) = CountOf(r, z)
      BY <2>2, LaterCount
  <2>5. PICK s \in Seq(Interrupt) : s = Later(r, d)
      BY <2>4, Zenon
  <2>6. \A z : CountOf(pending, z) = CountOf(s, z) + (IF y = z THEN 1 ELSE 0)
      BY <1>7, <2>4, <2>5
  <2>7. Handler(y, s)
      BY <2>3, <2>5
  <2>8. clock' \in Nat /\ bufferAge' \in Int
      BY <2>2, <2>3, ElapseTypes DEF RequestInv
  <2> QED BY <2>3, <2>6, <2>7, <2>8, HandlerKeeps
<1> QED BY <1>8, <1>9

\* Idle finds nothing to wait for only when every thread has finished.
LEMMA NobodyWaits ==
    ASSUME ThreadInv, RequestInv, mode = "idle", pending = <<>> \/ OnlyTimer
    PROVE  \A t \in Thread : pc[t] = "done"
<1>1. current \notin Thread /\ \A t \in Thread : ~Ready(t)
  <2>1. ready = <<>> /\ ready \in Seq(Thread)
      BY DEF ThreadInv, NobodyLost, CpuTypes
  <2>2. \A t \in Thread : ~InQ(ready, t)
      BY <2>1, EmptyQueue
  <2> QED BY <2>2 DEF ThreadInv, CpuTypes, Ready
<1>2. ASSUME NEW d \in Device PROVE CountOf(pending, d) = 0
  <2>1. PICK p \in Seq(Interrupt) : p = pending
      BY DEF RequestInv, TimeTypes
  <2>2. d # "timer"
      BY DEF Device
  <2>3. ~\E i \in DOMAIN p : p[i].type = d
    <3>1. CASE p = <<>>
        BY <3>1
    <3>2. CASE p # <<>>
      <4>1. Len(p) = 1 /\ Head(p).type = "timer"
          BY <2>1, <3>2 DEF OnlyTimer
      <4>2. DOMAIN p = 1 .. 1 /\ p[1].type = "timer"
          BY <4>1
      <4> QED BY <2>2, <4>2
    <3> QED BY <3>1, <3>2
  <2>4. CountOf(p, d) \in Nat /\ ~(CountOf(p, d) > 0)
      BY <2>3, CountType
  <2> QED BY <2>1, <2>4
<1>3. ASSUME NEW d \in Device, NEW t \in Thread PROVE ~SemQ(d, t)
  <2>1. SUFFICES ASSUME SemQ(d, t) PROVE FALSE
      OBVIOUS
  <2>2. pc[t] = "P" /\ work[t].dev = d
      BY <2>1 DEF ThreadInv, Apart
  <2>3. PICK q \in Seq(Thread) : q = sem[d].waiting
      BY DEF ThreadInv, ObjectTypes
  <2>4. q # <<>>
      BY <2>1, <2>3, EmptyQueue DEF SemQ
  <2>5. sem[d].value = 0
      BY <2>3, <2>4 DEF RequestInv, SleepAtZero
  <2>6. CASE d \in {"disk", "out"}
      BY <1>2, <2>2, <2>5, <2>6 DEF RequestInv, OneInterrupt, Somebody
  <2>7. CASE d = "in"
    <3>1. CountOf(pending, "in") > 0 /\ CountOf(pending, "in") = 0
        BY <1>2, <2>2, <2>7 DEF RequestInv, Chars
    <3> QED BY <3>1
  <2> QED BY <2>6, <2>7 DEF Device
<1>4. ASSUME NEW d \in Device, NEW t \in Thread PROVE ~LockQ(d, t)
  <2>1. SUFFICES ASSUME LockQ(d, t) PROVE FALSE
      OBVIOUS
  <2>2. PICK q \in Seq(Thread) : q = lock[d].waiting
      BY DEF ThreadInv, ObjectTypes
  <2>3. q # <<>>
      BY <2>1, <2>2, EmptyQueue DEF LockQ
  <2>4. PICK o \in Thread : lock[d].owner = o
      BY <2>2, <2>3 DEF ThreadInv, LocksRight, ObjectTypes
  <2>5. work[o].dev = d /\ pc[o] \in Within /\ ~LockQ(d, o)
      BY <2>4 DEF ThreadInv, LocksRight
  <2>6. pc[o] # "done"
      BY <2>5 DEF Within
  <2>7. PICK e \in Device : LockQ(e, o) \/ SemQ(e, o)
      BY <1>1, <2>6 DEF ThreadInv, NobodyLost
  <2>8. LockQ(e, o)
      BY <1>3, <2>7
  <2>9. e = d
      BY <2>5, <2>8 DEF ThreadInv, Apart
  <2> QED BY <2>5, <2>8, <2>9
<1> QED BY <1>1, <1>3, <1>4 DEF ThreadInv, NobodyLost

\* Halt stops nobody.
LEMMA HaltKeeps ==
    ASSUME ThreadInv, RequestInv, Halt
    PROVE  ThreadInv' /\ RequestInv'
<1>1. /\ mode = "idle" /\ mode' = "halted" /\ (pending = <<>> \/ OnlyTimer)
      /\ UNCHANGED <<current, ready, waking, pc, work, pending, clock, bufferAge, active,
                     lastTrack, bufferSector, incoming, putBusy, lock, sem>>
    BY DEF Halt, time, diskVars, consoleVars
<1>2. \A t \in Thread : pc[t] = "done"
    BY <1>1, NobodyWaits
<1>3. /\ \A x : Ready(x)' = Ready(x)
      /\ \A x, d : LockQ(d, x)' = LockQ(d, x) /\ SemQ(d, x)' = SemQ(d, x)
    BY <1>1 DEF Ready, LockQ, SemQ
<1>4. CpuTypes' /\ ObjectTypes' /\ NoneTwice'
    BY <1>1 DEF ThreadInv, CpuTypes, ObjectTypes, NoneTwice
<1>5. Apart' /\ LocksRight'
    BY <1>1, <1>3 DEF ThreadInv, Apart, LocksRight
<1>6. NobodyLost'
  <2>1. current' \notin Thread
      BY <1>1 DEF ThreadInv, CpuTypes
  <2> QED BY <1>1, <1>2, <2>1 DEF NobodyLost
<1>7. TimeTypes' /\ \A y : CountOf(pending', y) = CountOf(pending, y)
    BY <1>1, SameTimes DEF RequestInv
<1>8. RequestInv'
    BY <1>1, <1>7, QuietTime
<1> QED BY <1>4, <1>5, <1>6, <1>8 DEF ThreadInv

\* The interrupts that are pending stay so when the first one is put back.
LEMMA PutBackSame ==
    ASSUME TimeTypes
    PROVE  /\ PutBack \in Seq(Interrupt)
           /\ \A y : CountOf(PutBack, y) = CountOf(pending, y)
           /\ \A i \in DOMAIN pending : \E j \in DOMAIN PutBack : PutBack[j] = pending[i]
<1>1. PICK p \in Seq(Interrupt) : p = pending
    BY DEF TimeTypes
<1>2. CASE p = <<>>
    BY <1>1, <1>2 DEF PutBack
<1>3. CASE p # <<>>
  <2>1. PICK h \in Interrupt : h = Head(p)
      BY <1>3, TailCount, Zenon
  <2>2. PICK r \in Seq(Interrupt) : r = Tail(p)
      BY <1>3, TailCount, Zenon
  <2>3. PICK y \in Interrupts, k \in Int : y = h.type /\ k = h.ticks
      BY DEF Interrupt
  <2>4. h = [type |-> y, ticks |-> k]
      BY <2>3 DEF Interrupt
  <2>5. PICK q : q = SortedInsert(r, y, k)
      OBVIOUS
  <2>6. q = PutBack
      BY <1>1, <1>3, <2>1, <2>2, <2>3, <2>5 DEF PutBack
  <2>7. q \in Seq(Interrupt) /\ \A x : CountOf(q, x) = CountOf(r, x) + (IF y = x THEN 1 ELSE 0)
    <3>1. /\ SortedInsert(r, y, k) \in Seq(Interrupt)
          /\ \A x : CountOf(SortedInsert(r, y, k), x) = CountOf(r, x) + (IF y = x THEN 1 ELSE 0)
        BY InsertCount
    <3> QED BY <2>5, <3>1, Zenon
  <2>8. \A x : CountOf(p, x) = CountOf(r, x) + (IF y = x THEN 1 ELSE 0)
      BY <1>3, <2>1, <2>2, <2>3, TailCount
  <2>9. /\ \E j \in DOMAIN q : q[j] = h
        /\ \A i \in DOMAIN r : \E j \in DOMAIN q : q[j] = r[i]
      BY <2>4, <2>5, InsertKeeps
  <2>10. ASSUME NEW i \in DOMAIN p PROVE \E j \in DOMAIN q : q[j] = p[i]
    <3>1. i \in 1 .. Len(p) /\ Len(p) \in Nat
        OBVIOUS
    <3>2. CASE i = 1
        BY <1>3, <2>1, <2>9, <3>2
    <3>3. CASE i # 1
      <4>1. i - 1 \in DOMAIN r /\ r[i - 1] = p[i]
          BY <1>3, <2>2, <3>1, <3>3
      <4> QED BY <2>9, <4>1
    <3> QED BY <3>2, <3>3
  <2> QED BY <1>1, <2>6, <2>7, <2>8, <2>10
<1> QED BY <1>2, <1>3

\* The ends of OneTick and of Idle.
LEMMA EndsKeep ==
    ASSUME ThreadInv, RequestInv, EndTick \/ EndIdle
    PROVE  ThreadInv' /\ RequestInv'
<1>1. /\ pending' = PutBack
      /\ UNCHANGED <<pc, work, clock, bufferAge, active, lastTrack, bufferSector, incoming,
                     putBusy, lock, sem>>
    BY DEF EndTick, EndIdle, diskVars, consoleVars
<1>p. /\ pending' \in Seq(Interrupt)
      /\ \A y : CountOf(pending', y) = CountOf(pending, y)
    BY <1>1, PutBackSame DEF RequestInv
<1>2. TimeTypes' /\ \A y : CountOf(pending', y) = CountOf(pending, y)
    BY <1>1, <1>p DEF RequestInv, TimeTypes
<1>3. RequestInv'
    BY <1>1, <1>2, QuietTime
<1> QED BY <1>3, EndTickThreads, EndIdleThreads

-----------------------------------------------------------------------------
(***************************************************************************)
(* The theorems.                                                           *)
(***************************************************************************)

\* No interrupt is pending in an empty list.
LEMMA EmptyCount == \A y : CountOf(<<>>, y) = 0
<1>1. \A y : Of(<<>>, y) = {}
    BY DEF Of
<1> QED BY <1>1, FS_EmptySet DEF CountOf

\* The machine starts with the timer and the console at most.
LEMMA FirstPending ==
    ASSUME Init
    PROVE  pending \in Seq(Interrupt) /\ CountOf(pending, "disk") = 0 /\ CountOf(pending, "out") = 0
<1>1. PICK hasTimer \in BOOLEAN, hasConsole \in BOOLEAN, d \in Intervals :
          LET timer == IF hasTimer THEN SortedInsert(<<>>, "timer", d) ELSE <<>>
          IN  pending = IF hasConsole THEN SortedInsert(timer, "in", ConsoleTime) ELSE timer
    BY DEF Init
<1>2. PICK none \in Seq(Interrupt) : none = <<>>
  <2>1. <<>> \in Seq(Interrupt)
      OBVIOUS
  <2> QED BY <2>1, Zenon
<1>3. "timer" \in Interrupts /\ "in" \in Interrupts /\ d \in Int /\ ConsoleTime \in Int
    BY Constants DEF Interrupts
<1>4. PICK timer : timer = IF hasTimer THEN SortedInsert(none, "timer", d) ELSE none
    OBVIOUS
<1>5. timer \in Seq(Interrupt) /\ CountOf(timer, "disk") = 0 /\ CountOf(timer, "out") = 0
  <2>1. CountOf(none, "disk") = 0 /\ CountOf(none, "out") = 0
      BY <1>2, EmptyCount
  <2>2. CASE hasTimer
    <3>1. timer = SortedInsert(none, "timer", d)
        BY <1>4, <2>2
    <3>2. /\ SortedInsert(none, "timer", d) \in Seq(Interrupt)
          /\ \A y : CountOf(SortedInsert(none, "timer", d), y)
                      = CountOf(none, y) + (IF "timer" = y THEN 1 ELSE 0)
        BY <1>3, InsertCount, Zenon
    <3>3. /\ CountOf(timer, "disk") = CountOf(none, "disk") + 0
          /\ CountOf(timer, "out") = CountOf(none, "out") + 0
        BY <3>1, <3>2
    <3> QED BY <2>1, <3>1, <3>2, <3>3
  <2> QED BY <1>4, <2>1, <2>2
<1>6. pending = IF hasConsole THEN SortedInsert(timer, "in", ConsoleTime) ELSE timer
    BY <1>1, <1>2, <1>4
<1>7. CASE hasConsole
  <2>1. pending = SortedInsert(timer, "in", ConsoleTime)
      BY <1>6, <1>7
  <2>2. /\ SortedInsert(timer, "in", ConsoleTime) \in Seq(Interrupt)
        /\ \A y : CountOf(SortedInsert(timer, "in", ConsoleTime), y)
                    = CountOf(timer, y) + (IF "in" = y THEN 1 ELSE 0)
      BY <1>3, <1>5, InsertCount, Zenon
  <2>3. /\ CountOf(pending, "disk") = CountOf(timer, "disk") + 0
        /\ CountOf(pending, "out") = CountOf(timer, "out") + 0
      BY <2>1, <2>2
  <2> QED BY <1>5, <2>1, <2>2, <2>3
<1> QED BY <1>5, <1>6, <1>7

\* The invariants hold when the machine starts.
LEMMA InitRight == Init => ThreadInv /\ RequestInv
<1> SUFFICES ASSUME Init PROVE ThreadInv /\ RequestInv
    OBVIOUS
<1>1. /\ mode = "run" /\ current = 1 /\ ready = [i \in 1 .. (NumThreads - 1) |-> i + 1]
      /\ waking = Thread \ {1} /\ pc = [t \in Thread |-> "idle"]
      /\ work = [t \in Thread |-> NoWork]
      /\ lock = [d \in Device |-> [owner |-> None, waiting |-> <<>>]]
      /\ sem = [d \in Device |-> [value |-> 0, waiting |-> <<>>]]
      /\ clock = 0 /\ active = FALSE /\ lastTrack = 0 /\ bufferSector = 0 /\ bufferAge = 0
      /\ incoming = EOF /\ putBusy = FALSE
    BY DEF Init
<1>2. NumThreads \in Nat \ {0} /\ 1 \in Thread
    BY Constants DEF Thread
<1>3. ready \in Seq(Thread) /\ Len(ready) = NumThreads - 1
  <2>1. ready \in [1 .. (NumThreads - 1) -> Thread] /\ NumThreads - 1 \in Nat
      BY <1>1, <1>2 DEF Thread
  <2> QED BY <2>1
<1>4. NoRepeats(ready) /\ \A x \in Thread : Ready(x) <=> x # 1
  <2>1. \A k \in 1 .. Len(ready) : ready[k] = k + 1
      BY <1>1, <1>3
  <2>2. NoRepeats(ready)
      BY <2>1 DEF NoRepeats
  <2>3. ASSUME NEW x \in Thread, x # 1 PROVE InQ(ready, x)
    <3>1. x - 1 \in 1 .. Len(ready) /\ ready[x - 1] = x
        BY <1>2, <1>3, <2>1, <2>3 DEF Thread
    <3> QED BY <3>1 DEF InQ
  <2>4. ASSUME NEW x \in Thread, InQ(ready, x) PROVE x # 1
      BY <1>3, <2>1, <2>4 DEF InQ
  <2> QED BY <2>2, <2>3, <2>4 DEF Ready
<1>5. \A d \in Device : /\ lock[d].waiting = <<>> /\ sem[d].waiting = <<>>
                        /\ lock[d].owner = None /\ sem[d].value = 0
    BY <1>1
<1>6. \A d \in Device, x \in Thread : ~LockQ(d, x) /\ ~SemQ(d, x)
    BY <1>5 DEF LockQ, SemQ, InQ
<1>7. \A x \in Thread : pc[x] = "idle" /\ work[x].dev = "disk"
    BY <1>1 DEF NoWork
<1>8. CpuTypes
  <2>1. NoWork \in Work
      BY DEF NoWork, Work, Device
  <2>2. pc \in [Thread -> Place] /\ work \in [Thread -> Work]
      BY <1>1, <2>1 DEF Place
  <2> QED BY <1>1, <1>2, <1>3, <2>2 DEF CpuTypes
<1>9. ObjectTypes
  <2>1. <<>> \in Seq(Thread)
      OBVIOUS
  <2>2. /\ [owner |-> None, waiting |-> <<>>] \in [owner : Thread \cup {None}, waiting : Seq(Thread)]
        /\ [value |-> 0, waiting |-> <<>>] \in [value : Nat, waiting : Seq(Thread)]
      BY <2>1
  <2> QED BY <1>1, <2>2 DEF ObjectTypes
<1>10. NoneTwice
    BY <1>4, <1>5 DEF NoneTwice, NoRepeats
<1>11. Apart /\ NobodyLost
    BY <1>1, <1>2, <1>4, <1>6, <1>7 DEF Apart, NobodyLost
<1>12. LocksRight
    BY <1>5, <1>7, NoneIsNoThread DEF LocksRight, Within
<1>13. TimeTypes /\ DeviceTypes
  <2>1. TimeTypes
      BY <1>1, FirstPending DEF TimeTypes
  <2>2. DeviceTypes
      BY <1>1, Zenon DEF DeviceTypes
  <2> QED BY <2>1, <2>2
<1>14. \A d, l : l # "idle" => ~Somebody(d, l)
    BY <1>7 DEF Somebody
<1>15. OneInterrupt
    BY <1>5, <1>14, FirstPending DEF OneInterrupt, Device
<1>16. Busy
    BY <1>1, FirstPending DEF Busy
<1>17. Chars
    BY <1>1, <1>5, <1>7, <1>14 DEF Chars, Device
<1>18. SleepAtZero
    BY <1>5 DEF SleepAtZero
<1> QED BY <1>8, <1>9, <1>10, <1>11, <1>12, <1>13, <1>15, <1>16, <1>17, <1>18
        DEF ThreadInv, RequestInv

\* Every step keeps them.
LEMMA NextKeeps ==
    ASSUME ThreadInv, RequestInv, [Next]_vars
    PROVE  ThreadInv' /\ RequestInv'
<1>1. CASE \E t \in Thread : Step(t)
  <2>1. PICK t \in Thread : Step(t)
      BY <1>1
  <2>2. \/ Sectors(t) \/ WriteLine(t) \/ ReadLine(t)
        \/ Acquire(t) \/ Release(t) \/ Finish(t) \/ Resume(t) \/ UserInstruction(t)
        \/ P(t) \/ Request(t) \/ PutChar(t) \/ AwaitChar(t) \/ GetChar(t) \/ EndLine(t)
      BY <2>1 DEF Step
  <2> QED BY <2>2, CallsKeep, PlainKeep, PKeeps, RequestKeeps, LineKeeps
<1>2. CASE CheckIfDue \/ Idle
    BY <1>2, InterruptsKeep
<1>3. CASE EndTick \/ EndIdle
    BY <1>3, EndsKeep
<1>4. CASE Halt
    BY <1>4, HaltKeeps
<1>5. CASE UNCHANGED vars
  <2>1. UNCHANGED <<mode, current, ready, waking, pc, work, lock, sem, pending, clock, bufferAge,
                    active, lastTrack, bufferSector, incoming, putBusy>>
      BY <1>5 DEF vars, cpu, time, diskVars, consoleVars
  <2>2. ThreadInv'
      BY <2>1, SameThreads
  <2>3. TimeTypes' /\ \A y : CountOf(pending', y) = CountOf(pending, y)
      BY <2>1, SameTimes DEF RequestInv
  <2> QED BY <2>1, <2>2, <2>3, QuietTime
<1> QED BY <1>1, <1>2, <1>3, <1>4, <1>5 DEF Next

(***************************************************************************)
(* Every thread is on the CPU, ready, in one queue or done, the owner of a *)
(* lock is the one thread between Acquire and Release, and after a request *)
(* one interrupt is pending or has raised the semaphore of the device.     *)
(***************************************************************************)
THEOREM DevicesInvariance == Spec => [](ThreadInv /\ RequestInv)
<1>1. Init => ThreadInv /\ RequestInv
    BY InitRight
<1>2. (ThreadInv /\ RequestInv) /\ [Next]_vars => (ThreadInv /\ RequestInv)'
    BY NextKeeps
<1> QED BY <1>1, <1>2, PTL DEF Spec

\* There is one thread at such a place, or there is none.
LEMMA AtCount ==
    ASSUME ThreadInv, NEW d \in Device, NEW l \in {"P", "get"}
    PROVE  Cardinality(At(d, l)) = IF Somebody(d, l) THEN 1 ELSE 0
<1>1. CASE Somebody(d, l)
  <2>1. PICK x \in Thread : pc[x] = l /\ work[x].dev = d
      BY <1>1 DEF Somebody
  <2>2. \A y \in Thread : pc[y] = l /\ work[y].dev = d => y = x
      BY <2>1, AtMostOne
  <2>3. At(d, l) = {x}
      BY <2>1, <2>2 DEF At
  <2> QED BY <1>1, <2>3, FS_Singleton
<1>2. CASE ~Somebody(d, l)
  <2>1. At(d, l) = {}
      BY <1>2 DEF Somebody, At
  <2> QED BY <1>2, <2>1, FS_EmptySet
<1> QED BY <1>1, <1>2

\* The owner of a device that is about to ask finds it free.
LEMMA FreeToAsk ==
    ASSUME ThreadInv, RequestInv, NEW d \in {"disk", "out"}, At(d, "io") \ waking # {}
    PROVE  CountOf(pending, d) = 0
<1>1. PICK t \in Thread : pc[t] = "io" /\ work[t].dev = d /\ t \notin waking
    BY DEF At
<1>2. d \in Device
    BY DEF Device
<1>3. ~LockQ(d, t) /\ pc[t] \in Within
    BY <1>1, <1>2 DEF ThreadInv, Apart, Within
<1>4. ~Somebody(d, "P")
  <2>1. SUFFICES ASSUME NEW x \in Thread, pc[x] = "P", work[x].dev = d PROVE FALSE
      BY DEF Somebody
  <2>2. x = t
      BY <1>1, <1>2, <1>3, <2>1, Alone
  <2> QED BY <1>1, <2>1, <2>2
<1>5. CountOf(pending, d) + sem[d].value = 0
    BY <1>4 DEF RequestInv, OneInterrupt
<1>6. sem[d].value \in Nat
    BY <1>2 DEF ThreadInv, ObjectTypes
<1>7. CountOf(pending, d) \in Nat
  <2>1. PICK p \in Seq(Interrupt) : p = pending
      BY DEF RequestInv, TimeTypes
  <2> QED BY <2>1, CountType
<1> QED BY <1>5, <1>6, <1>7

(***************************************************************************)
(* The interrupt of a request answers it, the assertions of ReadRequest,   *)
(* WriteRequest and PutChar hold, and no character of the console is       *)
(* overwritten or taken twice.                                             *)
(***************************************************************************)
THEOREM RequestsAnswered == Spec => []Answered
<1>1. ThreadInv /\ RequestInv => Answered
  <2> SUFFICES ASSUME ThreadInv, RequestInv PROVE Answered
      OBVIOUS
  <2>1. \A type : Count(type) = CountOf(pending, type)
      BY DEF Count, CountOf, Of
  <2>2. "disk" \in Device /\ "out" \in Device /\ "in" \in Device
      BY DEF Device
  <2>3. /\ Cardinality(At("disk", "P")) = IF Somebody("disk", "P") THEN 1 ELSE 0
        /\ Cardinality(At("out", "P")) = IF Somebody("out", "P") THEN 1 ELSE 0
        /\ Cardinality(At("in", "get")) = IF Somebody("in", "get") THEN 1 ELSE 0
      BY <2>2, AtCount
  <2>4. /\ Count("disk") + sem["disk"].value = Cardinality(At("disk", "P"))
        /\ Count("out") + sem["out"].value = Cardinality(At("out", "P"))
      BY <2>1, <2>3 DEF RequestInv, OneInterrupt
  <2>5. (active <=> Count("disk") = 1) /\ (putBusy <=> Count("out") = 1)
      BY <2>1 DEF RequestInv, Busy
  <2>6. At("disk", "io") \ waking # {} => ~active
      BY <2>1, <2>5, FreeToAsk
  <2>7. At("out", "io") \ waking # {} => ~putBusy
      BY <2>1, <2>5, FreeToAsk
  <2>8. sem["in"].value + Cardinality(At("in", "get")) = IF incoming = EOF THEN 0 ELSE 1
      BY <2>3 DEF RequestInv, Chars
  <2> QED BY <2>4, <2>5, <2>6, <2>7, <2>8 DEF Answered
<1> QED BY <1>1, DevicesInvariance, PTL

(***************************************************************************)
(* Interrupt::Idle halts the machine only when every thread has finished.  *)
(***************************************************************************)
THEOREM HaltsAreDone == Spec => []HaltsWhenDone
<1>1. ThreadInv /\ RequestInv => HaltsWhenDone
    BY DEF ThreadInv, NobodyLost, HaltsWhenDone
<1> QED BY <1>1, DevicesInvariance, PTL

-----------------------------------------------------------------------------
(***************************************************************************)
(* The head of the disk.  OnTrack says that the sector bufferSector was    *)
(* under the head bufferAge ticks ago, unless a whole turn has passed      *)
(* since; Soon says that a head that is still on its way to a track        *)
(* arrives before the interrupt of the request that sent it there.         *)
(***************************************************************************)
Under(ticks, sector) ==
    \E k \in Int : ticks = RotationTime * (SectorsPerTrack * k + sector)

OnTrack ==
    /\ clock \in 0 .. Turn - 1 /\ bufferSector \in 0 .. SectorsPerTrack - 1 /\ bufferAge <= Turn
    /\ bufferAge = Turn \/ Under(clock - bufferAge, bufferSector)

SoonIn(list, age) ==
    age >= 0 \/ \E i \in DOMAIN list : list[i].type = "disk" /\ age + list[i].ticks >= 0

HeadInv == OnTrack /\ SoonIn(pending, bufferAge)

\* Ticks that differ by whole turns have the same sector under the head.
LEMMA UnderTurns ==
    ASSUME NEW a \in Int, NEW sector \in Int, NEW q \in Int, Under(a + Turn * q, sector)
    PROVE  Under(a, sector)
<1>1. RotationTime \in Int /\ SectorsPerTrack \in Int /\ Turn = RotationTime * SectorsPerTrack
    BY Constants DEF Turn
<1>2. PICK k \in Int : a + Turn * q = RotationTime * (SectorsPerTrack * k + sector)
    BY DEF Under
<1>3. PICK sk \in Int : sk = SectorsPerTrack * k
    BY <1>1, Ring
<1>4. PICK sq \in Int : sq = SectorsPerTrack * q
    BY <1>1, Ring
<1>5. Turn * q = RotationTime * sq
    BY <1>1, <1>4, Ring
<1>6. SectorsPerTrack * (k - q) = sk - sq
    BY <1>1, <1>3, <1>4, Ring
<1>7. a = RotationTime * (sk + sector) - RotationTime * sq
    BY <1>1, <1>2, <1>3, <1>5, Ring
<1>8. a = RotationTime * (sk + sector - sq)
    BY <1>1, <1>7, Ring
<1>9. a = RotationTime * (SectorsPerTrack * (k - q) + sector) /\ k - q \in Int
    BY <1>6, <1>8
<1> QED BY <1>9 DEF Under

\* PassesAt says that the sector is under the head.
LEMMA PassesUnder ==
    ASSUME clock \in Int, NEW s \in Int, NEW ticks \in Int
    PROVE  PassesAt(s, ticks) <=> Under(clock + ticks, s % SectorsPerTrack)
<1>1. /\ RotationTime \in Nat \ {0} /\ SectorsPerTrack \in Nat \ {0} /\ Turn \in Nat \ {0}
      /\ Turn = RotationTime * SectorsPerTrack
    BY Constants DEF Turn
<1>2. PICK x \in 0 .. SectorsPerTrack - 1 : x = s % SectorsPerTrack
    BY <1>1, DivMod
<1>3. PICK a \in Int : a = clock + ticks
    OBVIOUS
<1>4. PICK q \in Int, r \in 0 .. Turn - 1 : r = a % Turn /\ a = Turn * q + r
  <2>1. Turn \in Nat \ {0}
      BY Constants
  <2> QED BY <2>1, DivMod, Zenon
<1>5. PICK rx \in Int : rx = RotationTime * x /\ rx = x * RotationTime
    BY <1>1, Ring
<1>6. rx \in 0 .. Turn - 1
  <2>1. rx >= 0
      BY <1>1, <1>5, Multiple
  <2>2. RotationTime * (SectorsPerTrack - x) = Turn - rx
      BY <1>1, <1>5, Ring
  <2>3. RotationTime * (SectorsPerTrack - x) >= RotationTime
      BY <1>1, Multiple
  <2> QED BY <1>1, <2>1, <2>2, <2>3
<1>7. PassesAt(s, ticks) <=> r = rx
    BY <1>2, <1>3, <1>4, <1>5 DEF PassesAt
<1>8. \A k \in Int : RotationTime * (SectorsPerTrack * k + x) = Turn * k + rx
  <2> SUFFICES ASSUME NEW k \in Int
               PROVE  RotationTime * (SectorsPerTrack * k + x) = Turn * k + rx
      OBVIOUS
  <2>1. PICK sk \in Int : sk = SectorsPerTrack * k
      BY <1>1, Ring
  <2>2. Turn * k = RotationTime * sk
      BY <1>1, <2>1, Ring
  <2>3. RotationTime * (sk + x) = RotationTime * sk + RotationTime * x
      BY <1>1, Ring
  <2> QED BY <1>5, <2>1, <2>2, <2>3
<1>9. r = rx => Under(a, x)
    BY <1>4, <1>8 DEF Under
<1>10. Under(a, x) => r = rx
  <2> SUFFICES ASSUME NEW k \in Int, a = RotationTime * (SectorsPerTrack * k + x) PROVE r = rx
      BY DEF Under
  <2>1. Turn * q + r = Turn * k + rx
      BY <1>4, <1>8
  <2> QED BY <1>1, <1>6, <2>1, Unique, SMTT(60)
<1> QED BY <1>2, <1>3, <1>7, <1>9, <1>10

\* Time passes.
LEMMA ElapseTrack ==
    ASSUME TimeTypes, OnTrack, NEW d \in Nat, Elapse(d), bufferSector' = bufferSector
    PROVE  OnTrack'
<1>1. Turn \in Nat \ {0}
    BY Constants
<1>2. PICK q \in Int, r \in 0 .. Turn - 1 : r = (clock + d) % Turn /\ clock + d = Turn * q + r
  <2>1. clock + d \in Int
      BY DEF TimeTypes
  <2> QED BY <1>1, <2>1, DivMod, Zenon
<1>3. clock' = r /\ bufferAge' = IF bufferAge + d > Turn THEN Turn ELSE bufferAge + d
    BY <1>2 DEF Elapse
<1>4. clock' \in 0 .. Turn - 1 /\ bufferAge' <= Turn
    BY <1>1, <1>2, <1>3 DEF TimeTypes
<1>5. bufferAge' = Turn \/ Under(clock' - bufferAge', bufferSector)
  <2> SUFFICES ASSUME bufferAge' # Turn PROVE Under(clock' - bufferAge', bufferSector)
      OBVIOUS
  <2>1. bufferAge' = bufferAge + d /\ bufferAge # Turn
      BY <1>1, <1>3 DEF OnTrack, TimeTypes
  <2>2. Under(clock - bufferAge, bufferSector)
      BY <2>1 DEF OnTrack
  <2>3. PICK tq \in Int : tq = Turn * q
      BY <1>1, Ring
  <2>4. PICK a \in Int : a = r - (bufferAge + d)
      BY DEF TimeTypes
  <2>5. a + Turn * q = clock - bufferAge
    <3>1. clock + d = tq + r /\ clock \in Int /\ bufferAge \in Int
        BY <1>2, <2>3 DEF TimeTypes
    <3>2. a + tq = clock - bufferAge
        BY <2>4, <3>1
    <3> QED BY <2>3, <3>2
  <2>6. Under(a, bufferSector)
      BY <2>2, <2>5, UnderTurns DEF TimeTypes
  <2> QED BY <1>3, <2>1, <2>4, <2>6
<1> QED BY <1>4, <1>5 DEF OnTrack, Under

\* The head arrives no later when time passes, ...
LEMMA LaterSoon ==
    ASSUME NEW list \in Seq(Interrupt), NEW age \in Int, NEW d \in Nat, SoonIn(list, age),
           NEW new, new = IF age + d > Turn THEN Turn ELSE age + d
    PROVE  SoonIn(Later(list, d), new)
<1>1. Turn \in Nat
    BY Constants
<1>2. CASE age >= 0
    BY <1>1, <1>2 DEF SoonIn
<1>3. CASE age < 0
  <2>1. PICK i \in DOMAIN list : list[i].type = "disk" /\ age + list[i].ticks >= 0
      BY <1>3 DEF SoonIn
  <2>2. PICK e \in Interrupt : e = list[i]
      OBVIOUS
  <2>3. i \in DOMAIN Later(list, d) /\ Later(list, d)[i] = [e EXCEPT !.ticks = e.ticks - d]
      BY <2>2 DEF Later
  <2>4. Later(list, d)[i].type = "disk" /\ Later(list, d)[i].ticks = e.ticks - d /\ e.ticks \in Int
      BY <2>1, <2>2, <2>3 DEF Interrupt
  <2>5. new >= 0 \/ new + (e.ticks - d) >= 0
      BY <1>1, <2>1, <2>2, <2>4
  <2> QED BY <2>3, <2>4, <2>5 DEF SoonIn
<1> QED BY <1>2, <1>3

\* ... when another interrupt is scheduled, ...
LEMMA InsertSoon ==
    ASSUME NEW list \in Seq(Interrupt), NEW age \in Int, SoonIn(list, age),
           NEW type \in Interrupts, NEW ticks \in Int
    PROVE  SoonIn(SortedInsert(list, type, ticks), age)
<1>1. PICK r : r = SortedInsert(list, type, ticks)
    OBVIOUS
<1>2. \A i \in DOMAIN list : \E j \in DOMAIN r : r[j] = list[i]
    BY <1>1, InsertKeeps
<1>3. SoonIn(r, age)
    BY <1>2 DEF SoonIn
<1> QED BY <1>1, <1>3

\* ... or when one occurs.
LEMMA TailSoon ==
    ASSUME NEW list \in Seq(Interrupt), list # <<>>, NEW age \in Int, SoonIn(list, age)
    PROVE  SoonIn(Tail(list), age) \/ age + Head(list).ticks >= 0
<1>1. CASE age >= 0
    BY <1>1 DEF SoonIn
<1>2. CASE age < 0
  <2>1. PICK i \in DOMAIN list : list[i].type = "disk" /\ age + list[i].ticks >= 0
      BY <1>2 DEF SoonIn
  <2>2. CASE i = 1
      BY <2>1, <2>2
  <2>3. CASE i # 1
    <3>1. i - 1 \in DOMAIN Tail(list) /\ Tail(list)[i - 1] = list[i]
        BY <2>3
    <3> QED BY <2>1, <3>1 DEF SoonIn
  <2> QED BY <2>2, <2>3
<1> QED BY <1>1, <1>2

\* TimeToSeek: after the seek, the head waits for the next boundary of sectors.
LEMMA RotationRight ==
    ASSUME TimeTypes, NEW s \in Nat
    PROVE  /\ Seek(s) \in Nat /\ Rotation(s) \in 0 .. RotationTime - 1
           /\ \E m \in Nat :
                 /\ clock + Seek(s) + Rotation(s) = RotationTime * m
                 /\ (clock + Seek(s) + Rotation(s)) \div RotationTime = m
                 /\ \A j \in Int : RotationTime * j >= clock + Seek(s) => j >= m
<1>1. RotationTime \in Nat \ {0}
    BY Constants
<1>2. Seek(s) \in Nat
    BY LatencyTypes
<1>3. PICK a \in Nat : a = clock + Seek(s)
    BY <1>2 DEF TimeTypes
<1>4. PICK wait : wait = Rotation(s)
    OBVIOUS
<1>5. wait = IF a % RotationTime > 0 THEN RotationTime - (a % RotationTime) ELSE 0
    BY <1>3, <1>4 DEF Rotation
<1>6. /\ wait \in 0 .. RotationTime - 1
      /\ \E m \in Nat : /\ a + wait = RotationTime * m /\ (a + wait) \div RotationTime = m
                        /\ \A j \in Int : RotationTime * j >= a => j >= m
    BY <1>1, <1>5, NextMultiple, Zenon
<1> QED BY <1>2, <1>3, <1>4, <1>6, Zenon

\* ModuloDiff: the sectors from one to the next time that another passes.
LEMMA ModuloDiffRight ==
    ASSUME NEW s \in Int, NEW y \in Int
    PROVE  /\ s % SectorsPerTrack \in 0 .. SectorsPerTrack - 1
           /\ ModuloDiff(s, y) \in 0 .. SectorsPerTrack - 1
           /\ \E k \in Int : y + ModuloDiff(s, y) = SectorsPerTrack * k + (s % SectorsPerTrack)
           /\ \A k \in Int :
                 SectorsPerTrack * k + (s % SectorsPerTrack) >= y
                   => SectorsPerTrack * k + (s % SectorsPerTrack) >= y + ModuloDiff(s, y)
<1>1. SectorsPerTrack \in Nat \ {0}
    BY Constants
<1>2. PICK d : d = ModuloDiff(s, y)
    OBVIOUS
<1>3. d = ((s % SectorsPerTrack) - (y % SectorsPerTrack) + SectorsPerTrack) % SectorsPerTrack
    BY <1>2 DEF ModuloDiff
<1>4. s % SectorsPerTrack \in 0 .. SectorsPerTrack - 1
    BY <1>1, DivMod
<1>5. PICK e \in 0 .. SectorsPerTrack - 1 :
          /\ e = ((s % SectorsPerTrack) - (y % SectorsPerTrack) + SectorsPerTrack) % SectorsPerTrack
          /\ \E k \in Int : y + e = SectorsPerTrack * k + (s % SectorsPerTrack)
          /\ \A k \in Int : SectorsPerTrack * k + (s % SectorsPerTrack) >= y
                              => SectorsPerTrack * k + (s % SectorsPerTrack) >= y + e
    BY <1>1, NextCongruent, Zenon
<1>6. e = ModuloDiff(s, y)
    BY <1>2, <1>3, <1>5
<1> QED BY <1>4, <1>5, <1>6, Zenon

\* A request that moves the head is answered after the head has arrived.
LEMMA SeekFirst ==
    ASSUME TimeTypes, NEW s \in Nat, NEW w, Seek(s) # 0
    PROVE  ComputeLatency(s, w) >= Seek(s) + Rotation(s)
<1>1. RotationTime \in Nat \ {0} /\ SectorsPerTrack \in Nat \ {0}
    BY Constants
<1>2. PICK m \in Nat : (clock + Seek(s) + Rotation(s)) \div RotationTime = m
    BY RotationRight
<1>3. PICK d \in 0 .. SectorsPerTrack - 1 : d = ModuloDiff(s, m)
  <2>1. s \in Int /\ m \in Int
      OBVIOUS
  <2> QED BY <2>1, ModuloDiffRight, Zenon
<1>4. PICK rd \in Int : rd = d * RotationTime /\ rd = RotationTime * d
    BY <1>1, Ring
<1>5. rd >= 0
    BY <1>1, <1>4, Multiple
<1>6. ~InTrackBuffer(s)
    BY DEF InTrackBuffer
<1>7. ComputeLatency(s, w) = Seek(s) + Rotation(s) + rd + RotationTime
    BY <1>2, <1>3, <1>4, <1>6 DEF ComputeLatency
<1>8. Seek(s) \in Int /\ Rotation(s) \in Int
    BY LatencyTypes
<1> QED BY <1>1, <1>5, <1>7, <1>8

\* A request for the disk.
LEMMA RequestTrack ==
    ASSUME ThreadInv, TimeTypes, HeadInv, NEW t \in Thread, Request(t)
    PROVE  HeadInv'
<1>1. PICK u \in Work : u = work[t]
    BY DEF ThreadInv, CpuTypes
<1>2. PICK s \in Nat : s = u.sector
    BY DEF Work
<1>3. PICK p \in Seq(Interrupt) : p = pending
    BY DEF TimeTypes
<1>4. PICK n \in Int : n = ComputeLatency(s, u.writing)
    BY LatencyTypes
<1>5. pending' = SortedInsert(p, "disk", n) /\ UpdateLast(s) /\ clock' = clock
    BY <1>1, <1>2, <1>3, <1>4 DEF Request
<1>6. "disk" \in Interrupts
    BY DEF Interrupts
<1>7. CASE Seek(s) = 0
  <2>1. UNCHANGED <<bufferAge, bufferSector>>
      BY <1>5, <1>7 DEF UpdateLast
  <2>2. SoonIn(p, bufferAge) /\ bufferAge \in Int
      BY <1>3 DEF HeadInv, TimeTypes
  <2>3. SoonIn(SortedInsert(p, "disk", n), bufferAge)
      BY <1>6, <2>2, InsertSoon
  <2> QED BY <1>5, <2>1, <2>3 DEF HeadInv, OnTrack, Under
<1>8. CASE Seek(s) # 0
  <2>1. RotationTime \in Nat \ {0} /\ SectorsPerTrack \in Nat \ {0} /\ Turn \in Nat \ {0}
      BY Constants
  <2>2. PICK a \in Nat : a = Seek(s) + Rotation(s)
      BY LatencyTypes
  <2>3. PICK m \in Nat : clock + a = RotationTime * m /\ (clock + a) \div RotationTime = m
    <3>1. Seek(s) \in Int /\ Rotation(s) \in Int /\ clock \in Int
      <4>1. Seek(s) \in Nat /\ Rotation(s) \in Nat
          BY LatencyTypes
      <4>2. clock \in Nat
          BY DEF TimeTypes
      <4> QED BY <4>1, <4>2
    <3>2. clock + a = clock + Seek(s) + Rotation(s)
        BY <2>2, <3>1
    <3> QED BY <3>2, RotationRight
  <2>4. bufferAge' = -a /\ bufferSector' = m % SectorsPerTrack
      BY <1>5, <1>8, <2>2, <2>3 DEF UpdateLast
  <2>5. PICK q \in Int, r \in 0 .. SectorsPerTrack - 1 :
            r = m % SectorsPerTrack /\ m = SectorsPerTrack * q + r
    <3>1. m \in Int /\ SectorsPerTrack \in Nat \ {0}
        BY <2>1
    <3> QED BY <3>1, DivMod, Zenon
  <2>6. clock' - bufferAge' = RotationTime * (SectorsPerTrack * q + r)
    <3>1. clock' - bufferAge' = clock + a
        BY <1>5, <2>4 DEF TimeTypes
    <3> QED BY <2>3, <2>5, <3>1
  <2>7. Under(clock' - bufferAge', r) /\ bufferSector' = r
      BY <2>4, <2>5, <2>6 DEF Under
  <2>8. bufferAge' <= Turn
      BY <2>1, <2>4
  <2>9. OnTrack'
      BY <1>5, <2>7, <2>8 DEF HeadInv, OnTrack, Under
  <2>10. n >= a
      BY <1>4, <1>8, <2>2, SeekFirst
  <2>11. PICK r2 : r2 = SortedInsert(p, "disk", n)
      OBVIOUS
  <2>12. PICK j \in DOMAIN r2 : r2[j] = [type |-> "disk", ticks |-> n]
      BY <1>6, <2>11, InsertKeeps
  <2>13. r2[j].type = "disk" /\ r2[j].ticks = n
      BY <2>12
  <2>14. -a + r2[j].ticks >= 0
      BY <2>10, <2>13
  <2>15. SoonIn(r2, -a)
      BY <2>13, <2>14 DEF SoonIn
  <2> QED BY <1>5, <2>4, <2>9, <2>11, <2>15 DEF HeadInv
<1> QED BY <1>7, <1>8

\* An interrupt occurs, with the rest of the list behind it.
LEMMA HandlerSoon ==
    ASSUME NEW y \in Interrupts, NEW rest \in Seq(Interrupt), Handler(y, rest),
           bufferAge' \in Int, SoonIn(rest, bufferAge')
    PROVE  SoonIn(pending', bufferAge')
<1>1. /\ "timer" \in Interrupts /\ "in" \in Interrupts
      /\ ConsoleTime \in Int /\ \A k \in Intervals : k \in Int
    BY Constants DEF Interrupts
<1>2. PICK age \in Int : age = bufferAge'
    OBVIOUS
<1>3. CASE TimerExpired(rest)
  <2>1. PICK k \in Intervals : pending' = SortedInsert(rest, "timer", k)
      BY <1>3 DEF TimerExpired
  <2> QED BY <1>1, <1>2, <2>1, InsertSoon
<1>4. CASE DiskDone(rest) \/ WriteDone(rest)
    BY <1>4 DEF DiskDone, WriteDone
<1>5. CASE CheckCharAvail(rest)
    BY <1>1, <1>2, <1>5, InsertSoon DEF CheckCharAvail
<1> QED BY <1>3, <1>4, <1>5 DEF Handler

\* Interrupts that are due, in OneTick and in Idle.
LEMMA InterruptsTrack ==
    ASSUME TimeTypes, HeadInv, CheckIfDue \/ Idle
    PROVE  HeadInv'
<1>1. PICK p \in Seq(Interrupt) : p = pending
    BY DEF TimeTypes
<1>2. p # <<>>
    BY <1>1 DEF CheckIfDue, Idle, Due
<1>3. PICK h \in Interrupt : h = Head(p)
    BY <1>2, TailCount, Zenon
<1>4. PICK r \in Seq(Interrupt) : r = Tail(p)
    BY <1>2, TailCount, Zenon
<1>5. PICK y \in Interrupts : y = h.type
    BY DEF Interrupt
<1>6. bufferAge \in Int /\ h.ticks \in Int
    BY DEF TimeTypes, Interrupt
<1>7. SoonIn(r, bufferAge) \/ bufferAge + h.ticks >= 0
    BY <1>1, <1>2, <1>3, <1>4, <1>6, TailSoon DEF HeadInv
<1>8. CASE CheckIfDue
  <2>1. Handler(y, r) /\ h.ticks <= 0 /\ UNCHANGED <<clock, bufferAge, bufferSector>>
      BY <1>1, <1>3, <1>4, <1>5, <1>8 DEF CheckIfDue, Due
  <2>2. SoonIn(r, bufferAge)
      BY <1>6, <1>7, <2>1 DEF SoonIn
  <2>3. SoonIn(pending', bufferAge')
      BY <1>6, <2>1, <2>2, HandlerSoon
  <2> QED BY <2>1, <2>3 DEF HeadInv, OnTrack, Under
<1>9. CASE Idle
  <2>1. PICK d \in Nat : d = IF h.ticks > 0 THEN h.ticks ELSE 0
      BY <1>6
  <2>2. Elapse(d) /\ Handler(y, Later(r, d)) /\ bufferSector' = bufferSector
      BY <1>1, <1>3, <1>4, <1>5, <1>9, <2>1 DEF Idle
  <2>3. PICK l \in Seq(Interrupt) : l = Later(r, d)
    <3>1. d \in Int
        OBVIOUS
    <3>2. Later(r, d) \in Seq(Interrupt)
        BY <3>1, LaterCount
    <3> QED BY <3>2, Zenon
  <2>4. OnTrack'
      BY <2>2, ElapseTrack DEF HeadInv
  <2>5. Turn \in Nat
      BY Constants
  <2>6. PICK age \in Int : age = bufferAge' /\ age = IF bufferAge + d > Turn THEN Turn ELSE bufferAge + d
      BY <1>6, <2>2, <2>5 DEF Elapse
  <2>7. SoonIn(l, age)
    <3>1. CASE SoonIn(r, bufferAge)
        BY <1>6, <2>3, <2>6, <3>1, LaterSoon
    <3>2. CASE bufferAge + h.ticks >= 0
      <4>1. age >= 0
          BY <1>6, <2>1, <2>5, <2>6, <3>2
      <4> QED BY <4>1 DEF SoonIn
    <3> QED BY <1>7, <3>1, <3>2
  <2>8. SoonIn(pending', bufferAge')
      BY <2>2, <2>3, <2>6, <2>7, HandlerSoon
  <2> QED BY <2>4, <2>8 DEF HeadInv
<1> QED BY <1>8, <1>9

\* The clock advances while a thread runs.
LEMMA TickTrack ==
    ASSUME TimeTypes, HeadInv, NEW d \in Nat, Elapse(d), pending' = Later(pending, d),
           bufferSector' = bufferSector
    PROVE  HeadInv'
<1>1. PICK p \in Seq(Interrupt) : p = pending
    BY DEF TimeTypes
<1>2. PICK age : age = bufferAge'
    OBVIOUS
<1>3. age = IF bufferAge + d > Turn THEN Turn ELSE bufferAge + d
    BY <1>2 DEF Elapse
<1>4. SoonIn(p, bufferAge) /\ bufferAge \in Int
    BY <1>1 DEF HeadInv, TimeTypes
<1>5. SoonIn(Later(p, d), age)
    BY <1>3, <1>4, LaterSoon
<1>6. OnTrack'
    BY ElapseTrack DEF HeadInv
<1> QED BY <1>1, <1>2, <1>5, <1>6 DEF HeadInv

\* The order in which interrupts are pending does not matter to the head.
LEMMA EndsTrack ==
    ASSUME TimeTypes, HeadInv, EndTick \/ EndIdle
    PROVE  HeadInv'
<1>1. pending' = PutBack /\ UNCHANGED <<clock, bufferAge, bufferSector>>
    BY DEF EndTick, EndIdle, diskVars
<1>2. PICK q : q = pending'
    OBVIOUS
<1>3. \A i \in DOMAIN pending : \E j \in DOMAIN q : q[j] = pending[i]
    BY <1>1, <1>2, PutBackSame
<1>4. SoonIn(q, bufferAge)
    BY <1>3 DEF HeadInv, SoonIn
<1> QED BY <1>1, <1>2, <1>4 DEF HeadInv, OnTrack, Under

\* Every step keeps HeadInv.
LEMMA HeadKeeps ==
    ASSUME ThreadInv, RequestInv, HeadInv, [Next]_vars
    PROVE  HeadInv'
<1>1. TimeTypes /\ SystemTick \in Nat /\ UserTick \in Nat
    BY Constants DEF RequestInv
<1>2. ASSUME UNCHANGED <<pending, clock, bufferAge, bufferSector>> PROVE HeadInv'
    BY <1>2 DEF HeadInv, OnTrack, Under
<1>3. ASSUME Enable, bufferSector' = bufferSector PROVE HeadInv'
    BY <1>1, <1>3, TickTrack DEF Enable
<1>4. CASE \E t \in Thread : Step(t)
  <2>1. PICK t \in Thread : Step(t)
      BY <1>4
  <2>2. CASE Resume(t) \/ Release(t)
      BY <1>3, <2>2 DEF Resume, Release, diskVars
  <2>3. CASE UserInstruction(t)
      BY <1>1, <2>3, TickTrack DEF UserInstruction, diskVars
  <2>4. CASE Acquire(t)
      BY <1>2, <1>3, <2>4 DEF Acquire, time, diskVars
  <2>5. CASE P(t)
      BY <1>2, <1>3, <2>5 DEF P, time, diskVars
  <2>6. CASE Finish(t) \/ AwaitChar(t) \/ GetChar(t) \/ EndLine(t)
      BY <1>2, <2>6 DEF Finish, AwaitChar, GetChar, EndLine, time, diskVars
  <2>7. CASE Sectors(t) \/ WriteLine(t) \/ ReadLine(t)
      BY <1>2, <2>7 DEF Sectors, WriteLine, ReadLine, Begin, time, diskVars
  <2>8. CASE Request(t)
      BY <1>1, <2>8, RequestTrack
  <2>9. CASE PutChar(t)
    <3>1. PICK p \in Seq(Interrupt) : p = pending
        BY <1>1 DEF TimeTypes
    <3>2. /\ pending' = SortedInsert(p, "out", ConsoleTime)
          /\ UNCHANGED <<clock, bufferAge, bufferSector>>
        BY <2>9, <3>1 DEF PutChar, diskVars
    <3>3. "out" \in Interrupts /\ ConsoleTime \in Int
        BY Constants DEF Interrupts
    <3>4. SoonIn(p, bufferAge) /\ bufferAge \in Int
        BY <1>1, <3>1 DEF HeadInv, TimeTypes
    <3>5. SoonIn(SortedInsert(p, "out", ConsoleTime), bufferAge)
        BY <3>3, <3>4, InsertSoon
    <3> QED BY <3>2, <3>5 DEF HeadInv, OnTrack, Under
  <2> QED BY <2>1, <2>2, <2>3, <2>4, <2>5, <2>6, <2>7, <2>8, <2>9 DEF Step
<1>5. CASE CheckIfDue \/ Idle
    BY <1>1, <1>5, InterruptsTrack
<1>6. CASE EndTick \/ EndIdle
    BY <1>1, <1>6, EndsTrack
<1>h. CASE Halt
    BY <1>2, <1>h DEF Halt, time, diskVars
<1>7. CASE UNCHANGED vars
    BY <1>2, <1>7 DEF vars, time, diskVars
<1> QED BY <1>4, <1>5, <1>6, <1>h, <1>7 DEF Next

\* The head is at sector 0 when the machine starts.
LEMMA HeadAtStart == Init => HeadInv
<1> SUFFICES ASSUME Init PROVE HeadInv
    OBVIOUS
<1>1. clock = 0 /\ bufferSector = 0 /\ bufferAge = 0
    BY DEF Init
<1>2. /\ RotationTime \in Nat \ {0} /\ SectorsPerTrack \in Nat \ {0} /\ Turn \in Nat \ {0}
    BY Constants
<1>3. 0 = RotationTime * (SectorsPerTrack * 0 + 0)
    BY <1>2
<1>4. Under(clock - bufferAge, bufferSector)
    BY <1>1, <1>3 DEF Under
<1>5. OnTrack
    BY <1>1, <1>2, <1>4 DEF OnTrack
<1> QED BY <1>1, <1>5 DEF HeadInv, SoonIn

(***************************************************************************)
(* The track buffer tells the truth: bufferSector was under the head when  *)
(* Disk::UpdateLast says that the head came to the track, and it has come  *)
(* there when the interrupt of the request that sent it occurs.            *)
(***************************************************************************)
THEOREM HeadInvariance == Spec => []HeadInv
<1>1. Init => HeadInv
    BY HeadAtStart
<1>2. (ThreadInv /\ RequestInv) /\ HeadInv /\ [Next]_vars => HeadInv'
    BY HeadKeeps
<1> QED BY <1>1, <1>2, DevicesInvariance, PTL DEF Spec

\* When the disk is free, the head has arrived.
LEMMA HeadArrived ==
    ASSUME ThreadInv, RequestInv, HeadInv, ~active
    PROVE  bufferAge \in 0 .. Turn
<1>1. PICK p \in Seq(Interrupt) : p = pending
    BY DEF RequestInv, TimeTypes
<1>2. CountOf(p, "disk") \in Nat /\ IsFiniteSet(Of(p, "disk"))
    BY CountType
<1>3. sem["disk"].value \in Nat
    BY DEF ThreadInv, ObjectTypes, Device
<1>4. CountOf(p, "disk") + sem["disk"].value =< 1 /\ CountOf(p, "disk") # 1
    BY <1>1 DEF RequestInv, Busy, OneInterrupt
<1>5. CountOf(p, "disk") = 0
    BY <1>2, <1>3, <1>4
<1>6. Of(p, "disk") = {}
    BY <1>2, <1>5, FS_EmptySet DEF CountOf
<1>7. bufferAge >= 0
    BY <1>1, <1>6 DEF HeadInv, SoonIn, Of
<1>8. bufferAge \in Int /\ Turn \in Nat /\ bufferAge =< Turn
    BY Constants DEF RequestInv, TimeTypes, HeadInv, OnTrack
<1> QED BY <1>7, <1>8

\* The place of a sector on its track passes every time that many sectors do.
LEMMA UnderAt ==
    ASSUME NEW ticks \in Int, NEW x \in Int
    PROVE  Under(ticks, x) <=>
             \E j \in Int : /\ ticks = RotationTime * j
                            /\ \E k \in Int : j = SectorsPerTrack * k + x
<1>1. SectorsPerTrack \in Int
    BY Constants
<1>2. \A k \in Int : SectorsPerTrack * k + x \in Int
    BY <1>1
<1> QED BY <1>2 DEF Under

\* A write is answered when the sector has passed for the first time.
LEMMA WriteRight ==
    ASSUME TimeTypes, NEW s \in Nat, NEW writing, writing \/ ~InTrackBuffer(s),
           NEW w, w = ComputeLatency(s, writing) - RotationTime
    PROVE  /\ w \in Int /\ w >= Seek(s) /\ PassesAt(s, w)
           /\ \A b \in Int : b >= Seek(s) /\ PassesAt(s, b) => b >= w
<1>1. RotationTime \in Nat \ {0} /\ SectorsPerTrack \in Nat \ {0}
    BY Constants
<1>2. Seek(s) \in Nat /\ Rotation(s) \in 0 .. RotationTime - 1
    BY RotationRight
<1>3. PICK a \in Nat : a = Seek(s) + Rotation(s)
    BY <1>2
<1>4. clock \in Nat /\ clock + Seek(s) + Rotation(s) = clock + a
    BY <1>2, <1>3 DEF TimeTypes
<1>5. PICK m \in Nat : /\ clock + a = RotationTime * m /\ (clock + a) \div RotationTime = m
                       /\ \A j \in Int : RotationTime * j >= clock + Seek(s) => j >= m
    BY <1>4, RotationRight
<1>6. s \in Int /\ m \in Int
    OBVIOUS
<1>7. PICK x : x = s % SectorsPerTrack
    OBVIOUS
<1>8. PICK d : d = ModuloDiff(s, m)
    OBVIOUS
<1>9. /\ x \in 0 .. SectorsPerTrack - 1 /\ d \in 0 .. SectorsPerTrack - 1
      /\ \E k \in Int : m + d = SectorsPerTrack * k + x
      /\ \A k \in Int : SectorsPerTrack * k + x >= m => SectorsPerTrack * k + x >= m + d
    BY <1>6, <1>7, <1>8, ModuloDiffRight, Zenon
<1>10. PICK rd \in Int : rd = d * RotationTime /\ rd = RotationTime * d
    BY <1>1, <1>9, Ring
<1>11. w = a + rd
  <2>1. ComputeLatency(s, writing) = Seek(s) + Rotation(s) + rd + RotationTime
      BY <1>4, <1>5, <1>8, <1>10 DEF ComputeLatency
  <2> QED BY <1>1, <1>2, <1>3, <2>1
<1>12. rd >= 0
    BY <1>1, <1>9, <1>10, Multiple
<1>13. w \in Int /\ w >= Seek(s)
    BY <1>2, <1>3, <1>11, <1>12
<1>14. clock + w = RotationTime * (m + d)
  <2>1. RotationTime * (m + d) = RotationTime * m + rd
      BY <1>1, <1>9, <1>10, Ring
  <2> QED BY <1>4, <1>5, <1>11, <2>1
<1>15. Under(clock + w, x)
  <2>1. m + d \in Int /\ clock + w \in Int /\ x \in Int
      BY <1>4, <1>9, <1>13
  <2> QED BY <1>9, <1>14, <2>1, UnderAt
<1>16. PassesAt(s, w)
    BY <1>4, <1>7, <1>13, <1>15, PassesUnder
<1>17. ASSUME NEW b \in Int, b >= Seek(s), PassesAt(s, b) PROVE b >= w
  <2>1. x \in Int /\ clock + b \in Int /\ clock \in Int
      BY <1>4, <1>9
  <2>2. Under(clock + b, x)
      BY <1>6, <1>7, <1>17, <2>1, PassesUnder
  <2>3. PICK j \in Int : clock + b = RotationTime * j /\ \E k \in Int : j = SectorsPerTrack * k + x
      BY <2>1, <2>2, UnderAt
  <2>4. j >= m
      BY <1>2, <1>4, <1>5, <1>17, <2>3
  <2>5. j >= m + d
      BY <1>9, <2>3, <2>4
  <2>6. RotationTime * (j - (m + d)) >= 0
      BY <1>1, <1>9, <2>5, Multiple
  <2>7. RotationTime * (j - (m + d)) = RotationTime * j - RotationTime * (m + d)
      BY <1>1, <1>9, Ring
  <2>8. PICK e \in Int : e = RotationTime * j
      BY <1>1, Ring
  <2>9. clock + b >= clock + w
      BY <1>13, <1>14, <2>1, <2>3, <2>6, <2>7, <2>8
  <2> QED BY <1>13, <2>1, <2>9
<1> QED BY <1>13, <1>16, <1>17

\* A sector that InTrackBuffer finds has passed since the head came to the track.
LEMMA BufferRight ==
    ASSUME TimeTypes, OnTrack, bufferAge \in 0 .. Turn, NEW s \in Nat, InTrackBuffer(s)
    PROVE  \E b \in -bufferAge .. 0 : PassesAt(s, b)
<1>1. /\ RotationTime \in Nat \ {0} /\ SectorsPerTrack \in Nat \ {0} /\ s \in Int
      /\ clock \in Int /\ bufferAge \in Int /\ bufferSector \in Int
    BY Constants DEF TimeTypes
<1>2. PICK x : x = s % SectorsPerTrack
    OBVIOUS
<1>3. x \in 0 .. SectorsPerTrack - 1
    BY <1>1, <1>2, ModuloDiffRight
<1>4. CASE bufferAge = Turn
  <2>1. PICK y \in Int : y = RotationTime * x
      BY <1>1, <1>3, Ring
  <2>2. Turn \in Nat \ {0}
      BY Constants
  <2>3. PICK z \in Int : z = clock - y
      BY <1>1
  <2>4. PICK q \in Int, r \in 0 .. Turn - 1 : z = Turn * q + r
      BY <2>2, DivMod, Zenon
  <2>5. PICK b \in Int : b = -r
      OBVIOUS
  <2>6. Under(clock + b, x)
    <3>1. PICK tq \in Int : tq = Turn * q
        BY <2>2, Ring
    <3>2. clock + b = y + tq
        BY <1>1, <2>3, <2>4, <2>5, <3>1
    <3>3. tq = RotationTime * (SectorsPerTrack * q) /\ SectorsPerTrack * q \in Int
        BY <1>1, <3>1, Ring DEF Turn
    <3>4. PICK sq \in Int : sq = SectorsPerTrack * q
        BY <3>3
    <3>5. RotationTime * (sq + x) = RotationTime * sq + RotationTime * x
        BY <1>1, <1>3, <3>4, Ring
    <3>6. clock + b = RotationTime * (SectorsPerTrack * q + x)
        BY <2>1, <3>2, <3>3, <3>4, <3>5
    <3> QED BY <3>6 DEF Under
  <2>7. b \in -bufferAge .. 0
      BY <1>4, <2>2, <2>4, <2>5
  <2>8. PassesAt(s, b)
      BY <1>1, <1>2, <2>5, <2>6, PassesUnder
  <2> QED BY <2>7, <2>8
<1>5. CASE bufferAge # Turn
  <2>1. PICK k \in Int : clock - bufferAge = RotationTime * (SectorsPerTrack * k + bufferSector)
      BY <1>5 DEF OnTrack, Under
  <2>2. PICK c \in Int : c = SectorsPerTrack * k + bufferSector
      BY <1>1
  <2>3. PICK d : d = ModuloDiff(s, bufferSector)
      OBVIOUS
  <2>4. /\ d \in 0 .. SectorsPerTrack - 1
        /\ \E i \in Int : bufferSector + d = SectorsPerTrack * i + x
      BY <1>1, <1>2, <2>3, ModuloDiffRight, Zenon
  <2>5. PICK i \in Int : bufferSector + d = SectorsPerTrack * i + x
      BY <2>4
  <2>6. c + d = SectorsPerTrack * (k + i) + x
    <3>1. SectorsPerTrack * (k + i) = SectorsPerTrack * k + SectorsPerTrack * i
        BY <1>1, Ring
    <3>2. PICK sk \in Int, si \in Int : sk = SectorsPerTrack * k /\ si = SectorsPerTrack * i
        BY <1>1, Ring
    <3> QED BY <1>1, <1>3, <2>2, <2>4, <2>5, <3>1, <3>2
  <2>7. PICK rd \in Int : rd = RotationTime * d
      BY <1>1, <2>4, Ring
  <2>8. PICK b \in Int : b = rd - bufferAge
      BY <1>1
  <2>9. Under(clock + b, x)
    <3>1. RotationTime * (c + d) = RotationTime * c + rd
        BY <1>1, <2>4, <2>7, Ring
    <3>2. clock + b = RotationTime * (c + d)
        BY <1>1, <2>1, <2>2, <2>8, <3>1
    <3>3. k + i \in Int /\ clock + b = RotationTime * (SectorsPerTrack * (k + i) + x)
        BY <2>6, <3>2
    <3> QED BY <3>3 DEF Under
  <2>10. b >= -bufferAge
    <3>1. rd >= 0
        BY <1>1, <2>4, <2>7, Multiple
    <3> QED BY <1>1, <2>8, <3>1
  <2>11. b =< 0
    <3>1. PICK wait \in 0 .. RotationTime - 1 : wait = Rotation(s)
        BY RotationRight
    <3>2. PICK a \in Int : a = bufferAge + wait
        BY <1>1, <3>1
    <3>3. PICK q \in Int, r \in 0 .. RotationTime - 1 :
              q = a \div RotationTime /\ r = a % RotationTime /\ a = RotationTime * q + r
      <4>1. RotationTime \in Nat \ {0}
          BY <1>1
      <4> QED BY <4>1, DivMod, Zenon
    <3>4. q > d
        BY <2>3, <3>1, <3>2, <3>3 DEF InTrackBuffer
    <3>5. RotationTime * (q - d) >= RotationTime
        BY <1>1, <2>4, <3>3, <3>4, Multiple
    <3>6. RotationTime * (q - d) = RotationTime * q - rd
        BY <1>1, <2>4, <2>7, Ring
    <3>7. PICK rq \in Int : rq = RotationTime * q
        BY <1>1, Ring
    <3>8. rq - rd >= RotationTime
        BY <3>5, <3>6, <3>7
    <3> QED BY <1>1, <2>8, <3>1, <3>2, <3>3, <3>7, <3>8
  <2>12. PassesAt(s, b)
      BY <1>1, <1>2, <2>9, PassesUnder
  <2> QED BY <1>1, <2>10, <2>11, <2>12
<1> QED BY <1>4, <1>5

(***************************************************************************)
(* Disk::ComputeLatency: a request is answered no earlier than the sector  *)
(* has passed under the head, a write when it has passed for the first     *)
(* time, and what InTrackBuffer finds in the track buffer has passed since *)
(* the head came to the track.                                             *)
(***************************************************************************)
THEOREM LatenciesRight == Spec => []LatencyRight
<1>1. ThreadInv /\ RequestInv /\ HeadInv => LatencyRight
  <2> SUFFICES ASSUME ThreadInv, RequestInv, HeadInv, mode = "run", ~active, NEW s \in Sector,
                      NEW no \in BOOLEAN, ~no, NEW read, read = ComputeLatency(s, no),
                      NEW yes \in BOOLEAN, yes, NEW write, write = ComputeLatency(s, yes),
                      NEW first, first = IF Seek(s) = 0 THEN -bufferAge ELSE Seek(s)
               PROVE  /\ \E b \in first .. (read - RotationTime) : PassesAt(s, b)
                      /\ PassesAt(s, write - RotationTime)
                      /\ write - RotationTime >= Seek(s)
                      /\ \A b \in Seek(s) .. (write - RotationTime - 1) : ~PassesAt(s, b)
      BY Zenon DEF LatencyRight
  <2>1. TimeTypes /\ OnTrack /\ bufferAge \in 0 .. Turn
      BY HeadArrived DEF RequestInv, HeadInv
  <2>2. s \in Nat
    <3>1. SectorsPerTrack * NumTracks \in Int
        BY DevicesAssumption
    <3> QED BY <3>1 DEF Sector
  <2>3. Seek(s) \in Nat /\ RotationTime \in Nat \ {0} /\ Turn \in Nat
      BY <2>1, <2>2, LatencyTypes, Constants
  <2>4. PICK w : w = write - RotationTime
      OBVIOUS
  <2>5. /\ w \in Int /\ w >= Seek(s) /\ PassesAt(s, w)
        /\ \A b \in Int : b >= Seek(s) /\ PassesAt(s, b) => b >= w
      BY <2>1, <2>2, <2>4, WriteRight
  <2>6. \A b \in Seek(s) .. (w - 1) : ~PassesAt(s, b)
      BY <2>3, <2>5
  <2>7. \E b \in first .. (read - RotationTime) : PassesAt(s, b)
    <3>1. CASE InTrackBuffer(s)
      <4>1. read = RotationTime /\ first = -bufferAge
          BY <3>1 DEF ComputeLatency, InTrackBuffer
      <4>2. read - RotationTime = 0
          BY <2>3, <4>1
      <4> QED BY <2>1, <2>2, <3>1, <4>1, <4>2, BufferRight
    <3>2. CASE ~InTrackBuffer(s)
      <4>1. read = write
          BY <3>2 DEF ComputeLatency
      <4>2. first \in Int /\ first =< Seek(s)
          BY <2>1, <2>3
      <4>3. w = read - RotationTime
          BY <2>4, <4>1
      <4>4. w \in first .. w
          BY <2>3, <2>5, <4>2
      <4> QED BY <2>5, <4>3, <4>4
    <3> QED BY <3>1, <3>2
  <2> QED BY <2>4, <2>5, <2>6, <2>7
<1> QED BY <1>1, DevicesInvariance, HeadInvariance, PTL

=============================================================================
