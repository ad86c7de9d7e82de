--------------------------- MODULE ProcessesProofs ---------------------------
(***************************************************************************)
(* Proofs about Processes, for any number of threads and address spaces    *)
(* and for executables and stacks of any size.                             *)
(***************************************************************************)
EXTENDS Processes, FiniteSetTheorems, TLAPS

-----------------------------------------------------------------------------
(***************************************************************************)
(* The counts of threads.                                                  *)
(***************************************************************************)
Places == CallPC \cup {"none", "new", "startExec", "startFork", "user", "finished"}

Types ==
    /\ DOMAIN processTable \subseteq Space
    /\ processTable \in [DOMAIN processTable -> Process]
    /\ numPages \in [Space -> Nat]
    /\ numPageQueue \in [Space -> Seq(Nat)]
    /\ owner \in Thread \cup {None}
    /\ pc \in [Thread -> Places]
    /\ space \in [Thread -> Space \cup {None}]
    /\ stack \in [Thread -> Nat]
    /\ child \in [Thread -> Thread \cup {None}]
    /\ halted \in BOOLEAN

LiveThreads == {t \in Thread : Live(t)}

\* Finitely many threads and processes have been made.
FewLive == IsFiniteSet(LiveThreads) /\ IsFiniteSet(DOMAIN processTable)

Placed == \A t \in Thread : Live(t) => space[t] \in DOMAIN processTable

Counted ==
    \A s \in DOMAIN processTable : processTable[s].numThreads = Cardinality(LiveIn(s))

HaltedAlone == halted => Cardinality(LiveThreads) = 1

\* A thread in the middle of Exec or Fork has a child that does not run yet.
Forking(t) == pc[t] \in {"named", "pair", "forking"}

ChildrenNew ==
    \A t \in Thread : Forking(t) => child[t] \in Thread /\ pc[child[t]] = "new"

ChildrenDiffer ==
    \A t, u \in Thread : Forking(t) /\ Forking(u) /\ child[t] = child[u] => t = u

CountInv == Types /\ FewLive /\ Placed /\ Counted /\ HaltedAlone /\ ChildrenNew
            /\ ChildrenDiffer

\* The invariant gives ThreadsCounted.
LEMMA CountInvImplies ==
    CountInv => ThreadsCounted
BY DEF CountInv, Placed, Counted, HaltedAlone, LiveThreads, ThreadsCounted

\* A thread that is somewhere in a call is alive.
LEMMA LivePlaces ==
    ASSUME Types, NEW t \in Thread
    PROVE  Live(t) <=> pc[t] \in CallPC \cup {"new", "startExec", "startFork", "user"}
BY DEF Types, Places, Live, CallPC

\* The threads of a process are finitely many.
LEMMA LiveInFinite ==
    ASSUME FewLive, NEW s
    PROVE  IsFiniteSet(LiveIn(s)) /\ Cardinality(LiveIn(s)) \in Nat
<1>1. LiveIn(s) \subseteq LiveThreads
    BY DEF LiveIn, LiveThreads
<1>2. IsFiniteSet(LiveIn(s))
    BY <1>1, FS_Subset DEF FewLive
<1> QED BY <1>2, FS_CardinalityType

\* A step that makes no thread and ends none.
LEMMA SameLive ==
    ASSUME CountInv, ~halted, \A t \in Thread : Live(t)' <=> Live(t), space' = space,
           DOMAIN processTable' = DOMAIN processTable,
           \A s \in DOMAIN processTable : processTable'[s].numThreads = processTable[s].numThreads,
           halted' => Cardinality(LiveThreads) = 1
    PROVE  FewLive' /\ Placed' /\ Counted' /\ HaltedAlone'
<1> USE DEF CountInv
<1>1. LiveThreads' = LiveThreads
    BY DEF LiveThreads
<1>2. \A s : LiveIn(s)' = LiveIn(s)
    BY DEF LiveIn
<1>3. FewLive' /\ HaltedAlone'
    BY <1>1 DEF FewLive, HaltedAlone
<1>4. Placed'
    BY DEF Placed
<1>5. Counted'
    BY <1>2 DEF Counted
<1> QED BY <1>3, <1>4, <1>5

\* A step that makes thread c in space s.
LEMMA Born ==
    ASSUME CountInv, ~halted, halted' = halted, NEW c \in Thread, ~Live(c), Live(c)',
           \A t \in Thread \ {c} : Live(t)' <=> Live(t),
           NEW s \in Space, space' = [space EXCEPT ![c] = s],
           DOMAIN processTable' = DOMAIN processTable \cup {s},
           \A r \in DOMAIN processTable \ {s} :
               processTable'[r].numThreads = processTable[r].numThreads,
           processTable'[s].numThreads = Cardinality(LiveIn(s)) + 1
    PROVE  FewLive' /\ Placed' /\ Counted' /\ HaltedAlone'
<1> USE DEF CountInv
<1>1. space'[c] = s /\ \A t \in Thread \ {c} : space'[t] = space[t]
    BY DEF Types
<1>2. LiveThreads' = LiveThreads \cup {c} /\ c \notin LiveThreads
    BY DEF LiveThreads
<1>3. IsFiniteSet(LiveThreads \cup {c}) /\ IsFiniteSet(DOMAIN processTable \cup {s})
    BY FS_AddElement DEF FewLive
<1>4. FewLive' /\ HaltedAlone'
    BY <1>2, <1>3 DEF FewLive, HaltedAlone
<1>5. Placed'
    BY <1>1 DEF Placed
<1>6. LiveIn(s)' = LiveIn(s) \cup {c} /\ c \notin LiveIn(s)
    BY <1>1 DEF LiveIn
<1>7. PICK L : L = LiveIn(s)
    OBVIOUS
<1>8. IsFiniteSet(L) /\ Cardinality(L) \in Nat
    BY <1>7, LiveInFinite
<1>9. Cardinality(L \cup {c}) = Cardinality(L) + 1
    BY <1>6, <1>7, <1>8, FS_AddElement
<1>10. \A r : r # s => LiveIn(r)' = LiveIn(r)
    BY <1>1 DEF LiveIn
<1>11. Counted'
    BY <1>6, <1>7, <1>9, <1>10 DEF Counted
<1> QED BY <1>4, <1>5, <1>11

\* A step that ends thread c and counts it out.
LEMMA Died ==
    ASSUME CountInv, ~halted, halted' = halted, NEW c \in Thread, Live(c), ~Live(c)',
           \A t \in Thread \ {c} : Live(t)' <=> Live(t), space' = space,
           \/ /\ DOMAIN processTable' = DOMAIN processTable
              /\ processTable'[space[c]].numThreads = processTable[space[c]].numThreads - 1
           \/ /\ DOMAIN processTable' = DOMAIN processTable \ {space[c]}
              /\ processTable[space[c]].numThreads = 1,
           \A r \in DOMAIN processTable \ {space[c]} :
               processTable'[r].numThreads = processTable[r].numThreads
    PROVE  FewLive' /\ Placed' /\ Counted' /\ HaltedAlone'
<1> USE DEF CountInv
<1>1. PICK s \in DOMAIN processTable : s = space[c]
    BY DEF Placed
<1>2. LiveThreads' \subseteq LiveThreads
    BY DEF LiveThreads
<1>d. DOMAIN processTable' \subseteq DOMAIN processTable
    OBVIOUS
<1>3. FewLive' /\ HaltedAlone'
    BY <1>2, <1>d, FS_Subset DEF FewLive, HaltedAlone
<1>4. LiveIn(s)' = LiveIn(s) \ {c} /\ c \in LiveIn(s)
    BY <1>1 DEF LiveIn
<1>5. PICK L : L = LiveIn(s)
    OBVIOUS
<1>6. IsFiniteSet(L) /\ Cardinality(L) \in Nat
    BY <1>5, LiveInFinite
<1>7. Cardinality(L \ {c}) = Cardinality(L) - 1 /\ IsFiniteSet(L \ {c})
    BY <1>4, <1>5, <1>6, FS_RemoveElement
<1>8. \A r : r # s => LiveIn(r)' = LiveIn(r)
    BY <1>1 DEF LiveIn
<1>9. CASE /\ DOMAIN processTable' = DOMAIN processTable
           /\ processTable'[s].numThreads = processTable[s].numThreads - 1
  <2>1. Placed'
      BY <1>9 DEF Placed
  <2>2. Counted'
      BY <1>1, <1>4, <1>5, <1>7, <1>8, <1>9 DEF Counted
  <2> QED BY <1>3, <2>1, <2>2
<1>10. CASE /\ DOMAIN processTable' = DOMAIN processTable \ {s}
            /\ processTable[s].numThreads = 1
  <2>1. Cardinality(L) = 1
      BY <1>5, <1>10 DEF Counted
  <2>2. Cardinality(L \ {c}) = 0
      BY <1>7, <2>1
  <2>3. L \ {c} = {}
      BY <1>7, <2>2, FS_EmptySet
  <2>4. Placed'
      BY <1>1, <1>4, <1>5, <1>10, <2>3 DEF Placed, LiveIn
  <2>5. Counted'
      BY <1>1, <1>8, <1>10 DEF Counted
  <2> QED BY <1>3, <2>4, <2>5
<1> QED BY <1>1, <1>9, <1>10

\* The entry of one process changes.
LEMMA SetProcess ==
    ASSUME Types, NEW s \in DOMAIN processTable, NEW p \in Process,
           processTable' = [processTable EXCEPT ![s] = p]
    PROVE  /\ DOMAIN processTable' = DOMAIN processTable
           /\ processTable' \in [DOMAIN processTable -> Process]
           /\ processTable'[s] = p
           /\ \A r \in DOMAIN processTable \ {s} : processTable'[r] = processTable[r]
BY DEF Types

\* A step in which no thread begins an Exec or a Fork.
LEMMA SameChildren ==
    ASSUME CountInv,
           \A u \in Thread : Forking(u)' =>
               Forking(u) /\ child'[u] = child[u] /\ pc'[child[u]] = "new"
    PROVE  ChildrenNew' /\ ChildrenDiffer'
<1>1. ChildrenNew'
    BY DEF CountInv, ChildrenNew
<1>2. ChildrenDiffer'
    BY DEF CountInv, ChildrenDiffer
<1> QED BY <1>1, <1>2

\* A step in which thread t makes thread c.
LEMMA NewChild ==
    ASSUME CountInv, NEW t \in Thread, NEW c \in Thread, pc[c] = "none", c # t,
           pc[t] # "new", child' = [child EXCEPT ![t] = c], pc'[c] = "new",
           \A u \in Thread \ {t, c} : pc'[u] = pc[u]
    PROVE  ChildrenNew' /\ ChildrenDiffer'
<1> USE DEF CountInv
<1>1. child'[t] = c /\ \A u \in Thread \ {t} : child'[u] = child[u]
    BY DEF Types
<1>2. ASSUME NEW u \in Thread, u # t, Forking(u)'
      PROVE  Forking(u) /\ child'[u] = child[u] /\ child[u] \in Thread /\ pc[child[u]] = "new"
    BY <1>1, <1>2 DEF Forking, ChildrenNew
<1>3. ASSUME NEW u \in Thread, u # t, Forking(u)'
      PROVE  child'[u] \in Thread /\ pc'[child'[u]] = "new" /\ child'[u] # c
  <2>1. PICK d \in Thread : d = child[u] /\ pc[d] = "new" /\ child'[u] = d
      BY <1>2, <1>3
  <2>2. d # c /\ (d = t \/ pc'[d] = pc[d])
      BY <2>1
  <2>3. d # t
      BY <2>1
  <2> QED BY <2>1, <2>2, <2>3
<1>4. ChildrenNew'
    BY <1>1, <1>3 DEF ChildrenNew
<1>5. ChildrenDiffer'
    BY <1>1, <1>2, <1>3 DEF ChildrenDiffer
<1> QED BY <1>4, <1>5

(***************************************************************************)
(* A step that moves thread t from one place in the kernel to another and  *)
(* lets go of none of its children.                                        *)
(***************************************************************************)
LEMMA Moved ==
    ASSUME CountInv, NEW t \in Thread, Live(t), ~Forking(t), pc[t] # "new",
           NEW l \in Places \ {"none", "finished", "named", "pair", "forking", "new"},
           pc' = [pc EXCEPT ![t] = l], child' = child
    PROVE  /\ pc' \in [Thread -> Places]
           /\ \A u \in Thread : Live(u)' <=> Live(u)
           /\ ChildrenNew' /\ ChildrenDiffer'
<1> USE DEF CountInv
<1>1. pc' \in [Thread -> Places] /\ pc'[t] = l /\ \A u \in Thread \ {t} : pc'[u] = pc[u]
    BY DEF Types
<1>2. \A u \in Thread : Live(u)' <=> Live(u)
    BY <1>1 DEF Live
<1>3. \A u \in Thread : Forking(u)' => u # t /\ Forking(u)
    BY <1>1 DEF Forking
<1>4. \A u \in Thread : Forking(u)' => child[u] \in Thread /\ pc[child[u]] = "new"
    BY <1>3 DEF ChildrenNew
<1>5. \A u \in Thread : Forking(u)' =>
          Forking(u) /\ child'[u] = child[u] /\ pc'[child[u]] = "new"
    BY <1>1, <1>3, <1>4
<1> QED BY <1>1, <1>2, <1>5, SameChildren

\* Exec and Exit begin, and Exec fails.
LEMMA CallCounts ==
    ASSUME CountInv, ~halted, NEW t \in Thread, Exec(t) \/ Exit(t) \/ ExecFails(t)
    PROVE  CountInv'
<1> USE DEF CountInv
<1>1. /\ UNCHANGED <<processTable, numPages, numPageQueue, space, stack, child, halted>>
      /\ owner' \in Thread \cup {None}
      /\ pc[t] \in {"user", "exec"}
      /\ \E l \in {"user", "exec", "exit"} : pc' = [pc EXCEPT ![t] = l]
    BY DEF Exec, Exit, ExecFails, Goes, Types
<1>2. PICK l \in {"user", "exec", "exit"} : pc' = [pc EXCEPT ![t] = l]
    BY <1>1
<1>3. Live(t) /\ ~Forking(t) /\ pc[t] # "new"
      /\ l \in Places \ {"none", "finished", "named", "pair", "forking", "new"}
    BY <1>1 DEF Live, Forking, Places, CallPC
<1>4. /\ pc' \in [Thread -> Places]
      /\ \A u \in Thread : Live(u)' <=> Live(u)
      /\ ChildrenNew' /\ ChildrenDiffer'
    BY <1>1, <1>2, <1>3, Moved
<1>5. FewLive' /\ Placed' /\ Counted' /\ HaltedAlone'
    BY <1>1, <1>4, SameLive
<1>6. Types'
    BY <1>1, <1>4 DEF Types
<1> QED BY <1>4, <1>5, <1>6

\* What Exec makes.
LEMMA Creation ==
    ASSUME CountInv, NEW t \in Thread, ExecCreates(t)
    PROVE  \E s \in Space, c \in Thread, n \in CodePages :
              /\ s \notin DOMAIN processTable /\ \A u \in Thread : space[u] # s
              /\ pc[c] = "none" /\ c # t /\ pc[t] = "exec"
              /\ DOMAIN processTable' = DOMAIN processTable \cup {s}
              /\ processTable' \in [DOMAIN processTable \cup {s} -> Process]
              /\ processTable'[s] = NewProcess
              /\ \A r \in DOMAIN processTable : processTable'[r] = processTable[r]
              /\ numPages' = [numPages EXCEPT ![s] = n + StackPages]
              /\ numPageQueue' = [numPageQueue EXCEPT ![s] = <<n + StackPages>>]
              /\ space' = [space EXCEPT ![c] = s]
              /\ child' = [child EXCEPT ![t] = c]
              /\ pc' \in [Thread -> Places]
              /\ pc'[t] = "named" /\ pc'[c] = "new"
              /\ \A u \in Thread \ {t, c} : pc'[u] = pc[u]
<1> USE DEF CountInv
<1>1. PICK s \in Space \ (DOMAIN processTable \cup Range(space)), c \in Thread, n \in CodePages :
           /\ pc[c] = "none"
           /\ processTable' = [r \in DOMAIN processTable \cup {s} |->
                                  IF r = s THEN NewProcess ELSE processTable[r]]
           /\ numPages' = [numPages EXCEPT ![s] = n + StackPages]
           /\ numPageQueue' = [numPageQueue EXCEPT ![s] = <<n + StackPages>>]
           /\ space' = [space EXCEPT ![c] = s]
           /\ child' = [child EXCEPT ![t] = c]
           /\ pc' = [pc EXCEPT ![t] = "named", ![c] = "new"]
    BY DEF ExecCreates
<1>2. pc[t] = "exec"
    BY DEF ExecCreates
<1>3. NewProcess \in Process
    BY DEF NewProcess, Process, NoStacks
<1>4. PICK P : P = NewProcess
    OBVIOUS
<1>5. processTable' = [r \in DOMAIN processTable \cup {s} |->
                          IF r = s THEN P ELSE processTable[r]]
    BY <1>1, <1>4
<1>6. /\ DOMAIN processTable' = DOMAIN processTable \cup {s}
      /\ processTable' \in [DOMAIN processTable \cup {s} -> Process]
      /\ processTable'[s] = P
      /\ \A r \in DOMAIN processTable : processTable'[r] = processTable[r]
    BY <1>1, <1>3, <1>4, <1>5 DEF Types
<1>7. \A u \in Thread : space[u] # s
    BY <1>1 DEF Range, Types
<1>8. c # t /\ pc' \in [Thread -> Places] /\ pc'[t] = "named" /\ pc'[c] = "new"
      /\ \A u \in Thread \ {t, c} : pc'[u] = pc[u]
    BY <1>1, <1>2 DEF Types, Places, CallPC
<1> QED BY <1>1, <1>2, <1>4, <1>6, <1>7, <1>8

\* Exec makes a process with one thread.
LEMMA CreationCounts ==
    ASSUME CountInv, ~halted, NEW t \in Thread, ExecCreates(t)
    PROVE  CountInv'
<1> USE DEF CountInv
<1>1. PICK s \in Space, c \in Thread, n \in CodePages :
              /\ s \notin DOMAIN processTable /\ \A u \in Thread : space[u] # s
              /\ pc[c] = "none" /\ c # t /\ pc[t] = "exec"
              /\ DOMAIN processTable' = DOMAIN processTable \cup {s}
              /\ processTable' \in [DOMAIN processTable \cup {s} -> Process]
              /\ processTable'[s] = NewProcess
              /\ \A r \in DOMAIN processTable : processTable'[r] = processTable[r]
              /\ numPages' = [numPages EXCEPT ![s] = n + StackPages]
              /\ numPageQueue' = [numPageQueue EXCEPT ![s] = <<n + StackPages>>]
              /\ space' = [space EXCEPT ![c] = s]
              /\ child' = [child EXCEPT ![t] = c]
              /\ pc' \in [Thread -> Places]
              /\ pc'[t] = "named" /\ pc'[c] = "new"
              /\ \A u \in Thread \ {t, c} : pc'[u] = pc[u]
    BY Creation
<1>2. owner' = None /\ UNCHANGED <<stack, halted>>
    BY DEF ExecCreates
<1>3. ~Live(c) /\ Live(c)' /\ \A u \in Thread \ {c} : Live(u)' <=> Live(u)
    BY <1>1 DEF Live
<1>4. LiveIn(s) = {}
    BY <1>1 DEF LiveIn
<1>5. processTable'[s].numThreads = Cardinality(LiveIn(s)) + 1
    BY <1>1, <1>4, FS_EmptySet DEF NewProcess
<1>6. FewLive' /\ Placed' /\ Counted' /\ HaltedAlone'
    BY <1>1, <1>2, <1>3, <1>5, Born
<1>7. ChildrenNew' /\ ChildrenDiffer'
    BY <1>1, NewChild
<1>8. n + StackPages \in Nat /\ <<n + StackPages>> \in Seq(Nat)
    BY ProcessesAssumption
<1>9. Types'
    BY <1>1, <1>2, <1>8 DEF Types
<1> QED BY <1>6, <1>7, <1>9

\* The stack of thread c in the table of process s is set to n.
LEMMA SetStack ==
    ASSUME Types, NEW s \in DOMAIN processTable, NEW c \in Thread, NEW n \in Nat,
           processTable' = [processTable EXCEPT ![s].threadStacks[c] = n]
    PROVE  /\ DOMAIN processTable' = DOMAIN processTable
           /\ processTable' \in [DOMAIN processTable -> Process]
           /\ processTable'[s].numThreads = processTable[s].numThreads
           /\ processTable'[s].threadStacks[c] = n
           /\ \A u \in Thread \ {c} :
                 processTable'[s].threadStacks[u] = processTable[s].threadStacks[u]
           /\ \A r \in DOMAIN processTable \ {s} : processTable'[r] = processTable[r]
<1>1. PICK p \in Process : p = processTable[s]
    BY DEF Types
<1>2. PICK q : q = [p EXCEPT !.threadStacks[c] = n]
    OBVIOUS
<1>3. /\ q \in Process /\ q.numThreads = p.numThreads
      /\ q.threadStacks[c] = n
      /\ \A u \in Thread \ {c} : q.threadStacks[u] = p.threadStacks[u]
    BY <1>2 DEF Process
<1>4. processTable' = [processTable EXCEPT ![s] = q]
    BY <1>1, <1>2
<1>5. /\ DOMAIN processTable' = DOMAIN processTable
      /\ processTable' \in [DOMAIN processTable -> Process]
      /\ processTable'[s] = q
      /\ \A r \in DOMAIN processTable \ {s} : processTable'[r] = processTable[r]
    BY <1>3, <1>4, SetProcess
<1> QED BY <1>1, <1>3, <1>5

\* The oldest size of a space is taken.
LEMMA QueuePopped ==
    ASSUME Types, NEW s \in Space, numPageQueue[s] # <<>>, GetNumPages(s)
    PROVE  /\ numPageQueue' \in [Space -> Seq(Nat)]
           /\ Head(numPageQueue[s]) \in Nat
           /\ numPageQueue'[s] = Tail(numPageQueue[s])
           /\ \A r \in Space \ {s} : numPageQueue'[r] = numPageQueue[r]
<1>1. PICK q \in Seq(Nat) : q = numPageQueue[s] /\ q # <<>>
    BY DEF Types
<1>2. Head(q) \in Nat /\ Tail(q) \in Seq(Nat)
    BY <1>1
<1>3. numPageQueue' = [numPageQueue EXCEPT ![s] = Tail(q)]
    BY <1>1 DEF GetNumPages
<1> QED BY <1>1, <1>2, <1>3 DEF Types

\* Exec records the stack of its child.
LEMMA PairCounts ==
    ASSUME CountInv, ~halted, NEW t \in Thread, ExecPair(t),
           numPageQueue[space[child[t]]] # <<>>
    PROVE  CountInv'
<1> USE DEF CountInv
<1>1. pc[t] = "named"
    BY DEF ExecPair
<1>2. PICK c \in Thread : c = child[t] /\ pc[c] = "new"
    BY <1>1 DEF ChildrenNew, Forking
<1>3. PICK s \in DOMAIN processTable : s = space[c]
    BY <1>2 DEF Placed, Live
<1>4. /\ GetNumPages(s) /\ numPageQueue[s] # <<>>
      /\ processTable' = [processTable EXCEPT ![s].threadStacks[c] = Head(numPageQueue[s])]
      /\ owner' = None /\ pc' = [pc EXCEPT ![t] = "pair"]
      /\ UNCHANGED <<numPages, space, stack, child, halted>>
    BY <1>2, <1>3 DEF ExecPair, Goes
<1>5. s \in Space
    BY <1>3 DEF Types
<1>6. numPageQueue' \in [Space -> Seq(Nat)] /\ Head(numPageQueue[s]) \in Nat
    BY <1>4, <1>5, QueuePopped
<1>7. PICK n \in Nat : n = Head(numPageQueue[s])
    BY <1>6
<1>8. processTable' = [processTable EXCEPT ![s].threadStacks[c] = n]
    BY <1>4, <1>7
<1>9. /\ DOMAIN processTable' = DOMAIN processTable
      /\ processTable' \in [DOMAIN processTable -> Process]
      /\ processTable'[s].numThreads = processTable[s].numThreads
      /\ \A r \in DOMAIN processTable \ {s} : processTable'[r] = processTable[r]
    BY <1>8, SetStack
<1>10. pc' \in [Thread -> Places] /\ pc'[t] = "pair" /\ \A u \in Thread \ {t} : pc'[u] = pc[u]
    BY <1>4 DEF Types, Places, CallPC
<1>11. \A u \in Thread : Live(u)' <=> Live(u)
    BY <1>1, <1>10 DEF Live
<1>12. \A u \in Thread : Forking(u)' => Forking(u) /\ child[u] \in Thread /\ pc[child[u]] = "new"
    BY <1>1, <1>10 DEF Forking, ChildrenNew
<1>13. \A u \in Thread : Forking(u)' =>
          Forking(u) /\ child'[u] = child[u] /\ pc'[child[u]] = "new"
    BY <1>1, <1>4, <1>10, <1>12
<1>14. ChildrenNew' /\ ChildrenDiffer'
    BY <1>13, SameChildren
<1>15. FewLive' /\ Placed' /\ Counted' /\ HaltedAlone'
    BY <1>4, <1>9, <1>11, SameLive
<1>16. Types'
    BY <1>4, <1>6, <1>9, <1>10 DEF Types
<1> QED BY <1>14, <1>15, <1>16

\* Exec or Fork lets its child go.
LEMMA ReturnCounts ==
    ASSUME CountInv, ~halted, NEW t \in Thread, ExecForks(t) \/ ForkReturns(t)
    PROVE  CountInv'
<1> USE DEF CountInv
<1>1. /\ pc[t] \in {"pair", "forking"}
      /\ child' = [child EXCEPT ![t] = None]
      /\ \E l \in {"startExec", "startFork"} :
            pc' = [pc EXCEPT ![t] = "user", ![child[t]] = l]
      /\ UNCHANGED <<processTable, numPages, numPageQueue, owner, space, stack, halted>>
    BY DEF ExecForks, ForkReturns
<1>2. PICK c \in Thread : c = child[t] /\ pc[c] = "new"
    BY <1>1 DEF ChildrenNew, Forking
<1>3. PICK l \in {"startExec", "startFork"} : pc' = [pc EXCEPT ![t] = "user", ![c] = l]
    BY <1>1, <1>2
<1>4. /\ c # t /\ pc' \in [Thread -> Places] /\ pc'[t] = "user" /\ pc'[c] = l
      /\ \A u \in Thread \ {t, c} : pc'[u] = pc[u]
    BY <1>1, <1>2, <1>3 DEF Types, Places, CallPC
<1>5. \A u \in Thread : Live(u)' <=> Live(u)
    BY <1>1, <1>2, <1>4 DEF Live
<1>6. \A u \in Thread : Forking(u)' => u # t /\ u # c /\ Forking(u)
    BY <1>4 DEF Forking
<1>7. \A u \in Thread : Forking(u)' =>
         child'[u] = child[u] /\ child[u] \in Thread /\ pc[child[u]] = "new"
    BY <1>1, <1>6 DEF ChildrenNew, Types
<1>8. Forking(t)
    BY <1>1 DEF Forking
<1>9. \A u \in Thread : Forking(u)' => child[u] # c /\ child[u] # t
    BY <1>1, <1>2, <1>6, <1>7, <1>8 DEF ChildrenDiffer
<1>10. \A u \in Thread : Forking(u)' =>
          Forking(u) /\ child'[u] = child[u] /\ pc'[child[u]] = "new"
    BY <1>4, <1>6, <1>7, <1>9
<1>11. ChildrenNew' /\ ChildrenDiffer'
    BY <1>10, SameChildren
<1>12. FewLive' /\ Placed' /\ Counted' /\ HaltedAlone'
    BY <1>1, <1>5, SameLive
<1>13. child' \in [Thread -> Thread \cup {None}]
    BY <1>1 DEF Types
<1>14. Types'
    BY <1>1, <1>4, <1>13 DEF Types
<1> QED BY <1>11, <1>12, <1>14

\* A thread that Exec made begins.
LEMMA ExecThreadCounts ==
    ASSUME CountInv, ~halted, NEW t \in Thread, ExecThread(t)
    PROVE  CountInv'
<1> USE DEF CountInv
<1>1. /\ pc[t] = "startExec" /\ pc' = [pc EXCEPT ![t] = "user"]
      /\ stack' = [stack EXCEPT ![t] = numPages[space[t]]]
      /\ UNCHANGED <<processTable, numPages, numPageQueue, owner, space, child, halted>>
    BY DEF ExecThread, Goes
<1>2. Live(t) /\ ~Forking(t) /\ pc[t] # "new"
      /\ "user" \in Places \ {"none", "finished", "named", "pair", "forking", "new"}
    BY <1>1 DEF Live, Forking, Places, CallPC
<1>3. /\ pc' \in [Thread -> Places]
      /\ \A u \in Thread : Live(u)' <=> Live(u)
      /\ ChildrenNew' /\ ChildrenDiffer'
    BY <1>1, <1>2, Moved
<1>4. FewLive' /\ Placed' /\ Counted' /\ HaltedAlone'
    BY <1>1, <1>3, SameLive
<1>5. space[t] \in Space
    BY <1>2 DEF Placed, Types
<1>6. Types'
    BY <1>1, <1>3, <1>5 DEF Types
<1> QED BY <1>3, <1>4, <1>6

\* What Fork makes.
LEMMA Forked ==
    ASSUME CountInv, NEW t \in Thread, Fork(t)
    PROVE  \E s \in DOMAIN processTable, c \in Thread :
              /\ s \in Space /\ s = space[t] /\ pc[t] = "user" /\ pc[c] = "none" /\ c # t
              /\ DOMAIN processTable' = DOMAIN processTable
              /\ processTable' \in [DOMAIN processTable -> Process]
              /\ processTable'[s].numThreads = processTable[s].numThreads + 1
              /\ processTable'[s].threadStacks = processTable[s].threadStacks
              /\ \A r \in DOMAIN processTable \ {s} : processTable'[r] = processTable[r]
              /\ numPages' = [numPages EXCEPT ![s] = numPages[s] + StackPages]
              /\ numPageQueue' = [numPageQueue EXCEPT ![s] =
                                     Append(numPageQueue[s], numPages[s] + StackPages)]
              /\ space' = [space EXCEPT ![c] = s]
              /\ child' = [child EXCEPT ![t] = c]
              /\ pc' \in [Thread -> Places]
              /\ pc'[t] = "forking" /\ pc'[c] = "new"
              /\ \A u \in Thread \ {t, c} : pc'[u] = pc[u]
<1> USE DEF CountInv
<1>1. pc[t] = "user"
    BY DEF Fork
<1>2. PICK s \in DOMAIN processTable : s = space[t]
    BY <1>1 DEF Placed, Live
<1>3. s \in Space
    BY <1>2 DEF Types
<1>4. PICK c \in Thread :
          /\ pc[c] = "none"
          /\ space' = [space EXCEPT ![c] = space[t]]
          /\ child' = [child EXCEPT ![t] = c]
          /\ pc' = [pc EXCEPT ![t] = "forking", ![c] = "new"]
    BY DEF Fork
<1>5. c # t /\ pc' \in [Thread -> Places] /\ pc'[t] = "forking" /\ pc'[c] = "new"
      /\ \A u \in Thread \ {t, c} : pc'[u] = pc[u]
    BY <1>1, <1>4 DEF Types, Places, CallPC
<1>6. PICK p \in Process : p = processTable[s]
    BY DEF Types
<1>7. PICK q : q = [p EXCEPT !.numThreads = p.numThreads + 1]
    OBVIOUS
<1>8. q \in Process /\ q.numThreads = p.numThreads + 1 /\ q.threadStacks = p.threadStacks
    BY <1>7 DEF Process
<1>9. processTable' = [processTable EXCEPT ![s] = q]
    BY <1>2, <1>6, <1>7 DEF Fork, CountThread
<1>10. /\ DOMAIN processTable' = DOMAIN processTable
       /\ processTable' \in [DOMAIN processTable -> Process]
       /\ processTable'[s] = q
       /\ \A r \in DOMAIN processTable \ {s} : processTable'[r] = processTable[r]
    BY <1>8, <1>9, SetProcess
<1>11. numPages' = [numPages EXCEPT ![s] = numPages[s] + StackPages]
    BY <1>2 DEF Fork, AllocateStack
<1>12. numPages'[s] = numPages[s] + StackPages
    BY <1>3, <1>11 DEF Types
<1>13. numPageQueue' = [numPageQueue EXCEPT ![s] =
                           Append(numPageQueue[s], numPages[s] + StackPages)]
    BY <1>2, <1>12 DEF Fork, AllocateStack
<1> QED BY <1>1, <1>2, <1>3, <1>4, <1>5, <1>6, <1>8, <1>10, <1>11, <1>13

\* Fork makes a thread.
LEMMA ForkCounts ==
    ASSUME CountInv, ~halted, NEW t \in Thread, Fork(t)
    PROVE  CountInv'
<1> USE DEF CountInv
<1>1. PICK s \in DOMAIN processTable, c \in Thread :
              /\ s \in Space /\ s = space[t] /\ pc[t] = "user" /\ pc[c] = "none" /\ c # t
              /\ DOMAIN processTable' = DOMAIN processTable
              /\ processTable' \in [DOMAIN processTable -> Process]
              /\ processTable'[s].numThreads = processTable[s].numThreads + 1
              /\ processTable'[s].threadStacks = processTable[s].threadStacks
              /\ \A r \in DOMAIN processTable \ {s} : processTable'[r] = processTable[r]
              /\ numPages' = [numPages EXCEPT ![s] = numPages[s] + StackPages]
              /\ numPageQueue' = [numPageQueue EXCEPT ![s] =
                                     Append(numPageQueue[s], numPages[s] + StackPages)]
              /\ space' = [space EXCEPT ![c] = s]
              /\ child' = [child EXCEPT ![t] = c]
              /\ pc' \in [Thread -> Places]
              /\ pc'[t] = "forking" /\ pc'[c] = "new"
              /\ \A u \in Thread \ {t, c} : pc'[u] = pc[u]
    BY Forked
<1>2. owner' = None /\ UNCHANGED <<stack, halted>>
    BY DEF Fork
<1>3. ~Live(c) /\ Live(c)' /\ \A u \in Thread \ {c} : Live(u)' <=> Live(u)
    BY <1>1 DEF Live
<1>4. processTable'[s].numThreads = Cardinality(LiveIn(s)) + 1
    BY <1>1 DEF Counted
<1>5. DOMAIN processTable' = DOMAIN processTable \cup {s}
    BY <1>1
<1>6. FewLive' /\ Placed' /\ Counted' /\ HaltedAlone'
    BY <1>1, <1>2, <1>3, <1>4, <1>5, Born
<1>7. ChildrenNew' /\ ChildrenDiffer'
    BY <1>1, NewChild
<1>8. numPages' \in [Space -> Nat] /\ numPageQueue' \in [Space -> Seq(Nat)]
  <2>1. PICK n \in Nat : n = numPages[s] + StackPages
      BY <1>1, ProcessesAssumption DEF Types
  <2>2. Append(numPageQueue[s], n) \in Seq(Nat)
      BY <1>1 DEF Types
  <2> QED BY <1>1, <2>1, <2>2 DEF Types
<1>9. space' \in [Thread -> Space \cup {None}] /\ child' \in [Thread -> Thread \cup {None}]
    BY <1>1 DEF Types
<1>10. Types'
    BY <1>1, <1>2, <1>8, <1>9 DEF Types
<1> QED BY <1>6, <1>7, <1>10

\* A forked thread takes its stack.
LEMMA ForkThreadCounts ==
    ASSUME CountInv, ~halted, NEW t \in Thread, ForkThread(t), numPageQueue[space[t]] # <<>>
    PROVE  CountInv'
<1> USE DEF CountInv
<1>1. PICK s \in DOMAIN processTable : s = space[t]
    BY DEF ForkThread, Placed, Live
<1>2. s \in Space
    BY <1>1 DEF Types
<1>3. /\ GetNumPages(s) /\ numPageQueue[s] # <<>>
      /\ stack' = [stack EXCEPT ![t] = Head(numPageQueue[s])]
      /\ UNCHANGED <<processTable, numPages, owner, pc, space, child, halted>>
    BY <1>1 DEF ForkThread
<1>4. numPageQueue' \in [Space -> Seq(Nat)] /\ Head(numPageQueue[s]) \in Nat
    BY <1>2, <1>3, QueuePopped
<1>5. Types'
    BY <1>3, <1>4 DEF Types
<1>6. \A u \in Thread : Live(u)' <=> Live(u)
    BY <1>3 DEF Live
<1>7. FewLive' /\ Placed' /\ Counted' /\ HaltedAlone'
    BY <1>3, <1>6, SameLive
<1>8. ChildrenNew' /\ ChildrenDiffer'
    BY <1>3 DEF ChildrenNew, ChildrenDiffer, Forking
<1> QED BY <1>5, <1>7, <1>8

\* A forked thread records its stack.
LEMMA ForkRunsCounts ==
    ASSUME CountInv, ~halted, NEW t \in Thread, ForkThreadRuns(t)
    PROVE  CountInv'
<1> USE DEF CountInv
<1>1. pc[t] = "startFork"
    BY DEF ForkThreadRuns
<1>2. PICK s \in DOMAIN processTable : s = space[t]
    BY <1>1 DEF Placed, Live
<1>3. PICK n \in Nat : n = stack[t]
    BY DEF Types
<1>4. /\ processTable' = [processTable EXCEPT ![s].threadStacks[t] = n]
      /\ owner' = None /\ pc' = [pc EXCEPT ![t] = "user"]
      /\ UNCHANGED <<numPages, numPageQueue, space, stack, child, halted>>
    BY <1>2, <1>3 DEF ForkThreadRuns, Goes
<1>5. /\ DOMAIN processTable' = DOMAIN processTable
      /\ processTable' \in [DOMAIN processTable -> Process]
      /\ processTable'[s].numThreads = processTable[s].numThreads
      /\ \A r \in DOMAIN processTable \ {s} : processTable'[r] = processTable[r]
    BY <1>4, SetStack
<1>6. Live(t) /\ ~Forking(t) /\ pc[t] # "new"
      /\ "user" \in Places \ {"none", "finished", "named", "pair", "forking", "new"}
    BY <1>1 DEF Live, Forking, Places, CallPC
<1>7. /\ pc' \in [Thread -> Places]
      /\ \A u \in Thread : Live(u)' <=> Live(u)
      /\ ChildrenNew' /\ ChildrenDiffer'
    BY <1>4, <1>6, Moved
<1>8. FewLive' /\ Placed' /\ Counted' /\ HaltedAlone'
    BY <1>4, <1>5, <1>7, SameLive
<1>9. Types'
    BY <1>4, <1>5, <1>7 DEF Types
<1> QED BY <1>7, <1>8, <1>9

\* A thread is finished.
LEMMA Finished ==
    ASSUME CountInv, NEW t \in Thread, pc[t] = "exit", Finish(t)
    PROVE  /\ pc' \in [Thread -> Places] /\ pc'[t] = "finished"
           /\ \A u \in Thread \ {t} : pc'[u] = pc[u]
           /\ Live(t) /\ ~Live(t)' /\ \A u \in Thread \ {t} : Live(u)' <=> Live(u)
           /\ owner' = None /\ UNCHANGED <<numPages, numPageQueue, space, stack, child, halted>>
           /\ ChildrenNew' /\ ChildrenDiffer'
<1> USE DEF CountInv
<1>1. /\ owner' = None /\ pc' = [pc EXCEPT ![t] = "finished"]
      /\ UNCHANGED <<numPages, numPageQueue, space, stack, child, halted>>
    BY DEF Finish, Goes
<1>2. pc' \in [Thread -> Places] /\ pc'[t] = "finished" /\ \A u \in Thread \ {t} : pc'[u] = pc[u]
    BY <1>1 DEF Types, Places
<1>3. Live(t) /\ ~Live(t)' /\ \A u \in Thread \ {t} : Live(u)' <=> Live(u)
    BY <1>2 DEF Live
<1>4. \A u \in Thread : Forking(u)' => Forking(u) /\ child[u] \in Thread /\ pc[child[u]] = "new"
    BY <1>2 DEF Forking, ChildrenNew
<1>5. \A u \in Thread : Forking(u)' =>
          Forking(u) /\ child'[u] = child[u] /\ pc'[child[u]] = "new"
    BY <1>1, <1>2, <1>4
<1> QED BY <1>1, <1>2, <1>3, <1>5, SameChildren

\* What the Exit of a thread that is not the last of its process does to the table.
LEMMA ThreadExited ==
    ASSUME CountInv, NEW t \in Thread, ExitThread(t)
    PROVE  \E s \in DOMAIN processTable :
              /\ s = space[t]
              /\ DOMAIN processTable' = DOMAIN processTable
              /\ processTable' \in [DOMAIN processTable -> Process]
              /\ processTable'[s].numThreads = processTable[s].numThreads - 1
              /\ processTable'[s].threadStacks[t] = 0
              /\ \A u \in Thread \ {t} :
                    processTable'[s].threadStacks[u] = processTable[s].threadStacks[u]
              /\ \A r \in DOMAIN processTable \ {s} : processTable'[r] = processTable[r]
<1> USE DEF CountInv
<1>1. pc[t] = "exit" /\ NotLastThread(space[t])
    BY DEF ExitThread
<1>2. PICK s \in DOMAIN processTable : s = space[t]
    BY <1>1 DEF Placed, Live
<1>3. PICK p \in Process : p = processTable[s]
    BY DEF Types
<1>4. p.numThreads > 1 /\ p.numThreads \in Nat
    BY <1>1, <1>2, <1>3 DEF NotLastThread, Process
<1>5. PICK q : q = [p EXCEPT !.numThreads = p.numThreads - 1, !.threadStacks[t] = 0]
    OBVIOUS
<1>s. PICK st : st = [p.threadStacks EXCEPT ![t] = 0]
    OBVIOUS
<1>a. st \in [Thread -> Nat] /\ st[t] = 0 /\ \A u \in Thread \ {t} : st[u] = p.threadStacks[u]
    BY <1>s DEF Process
<1>n. p.numThreads - 1 \in Nat
    BY <1>4
<1>q. q = [numThreads |-> p.numThreads - 1, threadStacks |-> st]
    BY <1>5, <1>s DEF Process
<1>6. /\ q \in Process /\ q.numThreads = p.numThreads - 1 /\ q.threadStacks[t] = 0
      /\ \A u \in Thread \ {t} : q.threadStacks[u] = p.threadStacks[u]
    BY <1>a, <1>n, <1>q DEF Process
<1>7. processTable' = [processTable EXCEPT ![s] = q]
    BY <1>2, <1>3, <1>5 DEF ExitThread, Types, Process
<1>8. /\ DOMAIN processTable' = DOMAIN processTable
      /\ processTable' \in [DOMAIN processTable -> Process]
      /\ processTable'[s] = q
      /\ \A r \in DOMAIN processTable \ {s} : processTable'[r] = processTable[r]
    BY <1>6, <1>7, SetProcess
<1> QED BY <1>2, <1>3, <1>6, <1>8

\* A thread that is not the last of its process exits.
LEMMA ExitThreadCounts ==
    ASSUME CountInv, ~halted, NEW t \in Thread, ExitThread(t)
    PROVE  CountInv'
<1> USE DEF CountInv
<1>1. PICK s \in DOMAIN processTable :
              /\ s = space[t]
              /\ DOMAIN processTable' = DOMAIN processTable
              /\ processTable' \in [DOMAIN processTable -> Process]
              /\ processTable'[s].numThreads = processTable[s].numThreads - 1
              /\ \A r \in DOMAIN processTable \ {s} : processTable'[r] = processTable[r]
    BY ThreadExited
<1>2. pc[t] = "exit" /\ Finish(t)
    BY DEF ExitThread
<1>3. /\ pc' \in [Thread -> Places]
      /\ Live(t) /\ ~Live(t)' /\ \A u \in Thread \ {t} : Live(u)' <=> Live(u)
      /\ owner' = None /\ UNCHANGED <<numPages, numPageQueue, space, stack, child, halted>>
      /\ ChildrenNew' /\ ChildrenDiffer'
    BY <1>2, Finished
<1>4. FewLive' /\ Placed' /\ Counted' /\ HaltedAlone'
    BY <1>1, <1>3, Died
<1>5. Types'
    BY <1>1, <1>3 DEF Types
<1> QED BY <1>3, <1>4, <1>5

\* The process of a thread that exits as its last one has no other thread.
LEMMA LastAlone ==
    ASSUME CountInv, NEW t \in Thread, pc[t] = "exit", ~NotLastThread(space[t])
    PROVE  /\ space[t] \in DOMAIN processTable
           /\ processTable[space[t]].numThreads = 1
           /\ LiveIn(space[t]) = {t}
<1> USE DEF CountInv
<1>1. PICK s \in DOMAIN processTable : s = space[t] /\ t \in LiveIn(s)
    BY DEF Placed, Live, LiveIn
<1>2. PICK L : L = LiveIn(s)
    OBVIOUS
<1>3. IsFiniteSet(L) /\ Cardinality(L) \in Nat /\ t \in L
    BY <1>1, <1>2, LiveInFinite
<1>4. Cardinality(L) <= 1
    BY <1>1, <1>2, <1>3 DEF Counted, NotLastThread
<1>5. Cardinality(L \ {t}) = Cardinality(L) - 1 /\ IsFiniteSet(L \ {t})
    BY <1>3, FS_RemoveElement
<1>6. Cardinality(L \ {t}) \in Nat
    BY <1>5, FS_CardinalityType
<1>7. Cardinality(L) = 1 /\ Cardinality(L \ {t}) = 0
    BY <1>3, <1>4, <1>5, <1>6
<1>8. L \ {t} = {}
    BY <1>5, <1>7, FS_EmptySet
<1> QED BY <1>1, <1>2, <1>3, <1>7, <1>8 DEF Counted

\* The last thread of a process exits.
LEMMA ExitProcessCounts ==
    ASSUME CountInv, ~halted, NEW t \in Thread, ExitProcess(t)
    PROVE  CountInv'
<1> USE DEF CountInv
<1>1. pc[t] = "exit" /\ ~NotLastThread(space[t]) /\ Finish(t)
      /\ processTable' = Restrict(processTable, DOMAIN processTable \ {space[t]})
    BY DEF ExitProcess
<1>2. PICK s \in DOMAIN processTable : s = space[t] /\ processTable[s].numThreads = 1
    BY <1>1, LastAlone
<1>3. /\ DOMAIN processTable' = DOMAIN processTable \ {s}
      /\ processTable' \in [DOMAIN processTable' -> Process]
      /\ \A r \in DOMAIN processTable \ {s} : processTable'[r] = processTable[r]
    BY <1>1, <1>2 DEF Restrict, Types
<1>4. /\ pc' \in [Thread -> Places]
      /\ Live(t) /\ ~Live(t)' /\ \A u \in Thread \ {t} : Live(u)' <=> Live(u)
      /\ owner' = None /\ UNCHANGED <<numPages, numPageQueue, space, stack, child, halted>>
      /\ ChildrenNew' /\ ChildrenDiffer'
    BY <1>1, Finished
<1>5. FewLive' /\ Placed' /\ Counted' /\ HaltedAlone'
    BY <1>2, <1>3, <1>4, Died
<1>6. Types'
    BY <1>3, <1>4 DEF Types
<1> QED BY <1>4, <1>5, <1>6

\* The last thread of the last process exits: nobody else is alive.
LEMMA ExitMachineCounts ==
    ASSUME CountInv, ~halted, NEW t \in Thread, ExitMachine(t)
    PROVE  CountInv'
<1> USE DEF CountInv
<1>1. pc[t] = "exit" /\ ~NotLastThread(space[t]) /\ LastProcess /\ halted' = TRUE
      /\ UNCHANGED <<processTable, numPages, numPageQueue, owner, pc, space, stack, child>>
    BY DEF ExitMachine
<1>2. PICK s \in DOMAIN processTable : s = space[t] /\ LiveIn(s) = {t}
    BY <1>1, LastAlone
<1>3. PICK D : D = DOMAIN processTable
    OBVIOUS
<1>4. Cardinality(D) = 1
    BY <1>1, <1>3 DEF LastProcess
<1>5. D = {s}
  <2>1. IsFiniteSet(D)
      BY <1>3 DEF FewLive
  <2>2. \E x : D = {x}
      BY <1>4, <2>1, FS_Singleton
  <2> QED BY <1>2, <1>3, <2>2
<1>6. LiveThreads = {t}
    BY <1>2, <1>3, <1>5 DEF LiveThreads, LiveIn, Placed
<1>7. Cardinality(LiveThreads) = 1
    BY <1>6, FS_Singleton
<1>8. FewLive' /\ Placed' /\ Counted' /\ HaltedAlone'
    BY <1>1, <1>7, SameLive DEF Live
<1>9. ChildrenNew' /\ ChildrenDiffer'
    BY <1>1 DEF ChildrenNew, ChildrenDiffer, Forking
<1>10. Types'
    BY <1>1 DEF Types
<1> QED BY <1>8, <1>9, <1>10

-----------------------------------------------------------------------------
(***************************************************************************)
(* The stacks.  A size in the queue of a space is the stack of one thread  *)
(* that has not taken it yet; sizes are taken in the order in which they   *)
(* were made, so a stack that is taken lies below those in the queue.      *)
(***************************************************************************)
Pair(t) == processTable[space[t]].threadStacks[t]

Waiting(t) == pc[t] \in {"new", "startFork"} /\ stack[t] = 0 /\ Pair(t) = 0
WaitingIn(s) == {t \in LiveIn(s) : Waiting(t)}

Queued ==
    \A s \in DOMAIN processTable : Len(numPageQueue[s]) = Cardinality(WaitingIn(s))

Unborn ==
    \A t \in Thread : pc[t] = "none" =>
        /\ stack[t] = 0
        /\ \A s \in DOMAIN processTable : processTable[s].threadStacks[t] = 0

SizesRight ==
    \A s \in DOMAIN processTable :
        LET q == numPageQueue[s]
        IN  /\ StackPages < numPages[s]
            /\ \A i \in 1 .. Len(q) : StackPages < q[i] /\ q[i] <= numPages[s]
            /\ \A i, j \in 1 .. Len(q) : i < j => q[i] + StackPages <= q[j]

StacksRight ==
    \A t \in Thread, s \in DOMAIN processTable :
        Live(t) /\ space[t] = s /\ stack[t] # 0 =>
            /\ StackPages < stack[t] /\ stack[t] <= numPages[s]
            /\ \A i \in 1 .. Len(numPageQueue[s]) : stack[t] + StackPages <= numPageQueue[s][i]

StacksApart ==
    \A t, u \in Thread :
        t # u /\ Live(t) /\ Live(u) /\ space[t] = space[u] /\ stack[t] # 0 /\ stack[u] # 0 =>
            stack[t] + StackPages <= stack[u] \/ stack[u] + StackPages <= stack[t]

\* What the places that threads are in say about their stacks.
RunningRight == \A t \in Thread : Running(t) => stack[t] # 0 /\ Pair(t) = stack[t]

StartingRight ==
    \A t \in Thread :
        /\ pc[t] \in {"new", "startExec"} => stack[t] = 0
        /\ pc[t] = "startFork" => Pair(t) = 0

FirstRight ==
    \A t \in Thread, s \in DOMAIN processTable : pc[t] = "startExec" /\ space[t] = s =>
        Pair(t) = numPages[s] /\ LiveIn(s) = {t}

ChildRight(t, c, s) ==
    /\ pc[t] = "forking" => Pair(c) = 0
    /\ pc[t] \in {"named", "pair"} => LiveIn(s) = {c}
    /\ pc[t] = "named" => Pair(c) = 0 /\ numPageQueue[s] = <<numPages[s]>>
    /\ pc[t] = "pair" => Pair(c) = numPages[s]

ParentsRight ==
    \A t, c \in Thread, s \in DOMAIN processTable :
        Forking(t) /\ child[t] = c /\ space[c] = s => ChildRight(t, c, s)

StackInv ==
    Queued /\ Unborn /\ SizesRight /\ StacksRight /\ StacksApart /\ RunningRight
    /\ StartingRight /\ FirstRight /\ ParentsRight

\* The invariant gives StacksDisjoint.
LEMMA StackInvImplies ==
    CountInv /\ StackInv => StacksDisjoint
<1> SUFFICES ASSUME CountInv, StackInv, NEW t \in Thread, Running(t)
             PROVE  /\ processTable[space[t]].threadStacks[t] = stack[t]
                    /\ StackPages < stack[t] /\ stack[t] <= numPages[space[t]]
                    /\ \A u \in LiveIn(space[t]) \ {t} :
                          stack[u] \notin stack[t] - StackPages + 1 .. stack[t] + StackPages - 1
    BY DEF StacksDisjoint
<1>1. stack[t] # 0 /\ Pair(t) = stack[t]
    BY DEF StackInv, RunningRight
<1>2. Live(t)
    BY DEF Running, Live, CallPC
<1>3. StackPages < stack[t] /\ stack[t] <= numPages[space[t]]
    BY <1>1, <1>2 DEF CountInv, Placed, StackInv, StacksRight
<1>4. ASSUME NEW u \in LiveIn(space[t]) \ {t}
      PROVE  stack[u] \notin stack[t] - StackPages + 1 .. stack[t] + StackPages - 1
  <2>1. u \in Thread /\ u # t /\ Live(u) /\ space[u] = space[t]
      BY <1>4 DEF LiveIn
  <2>2. stack[u] \in Nat /\ stack[t] \in Nat /\ StackPages \in Nat
      BY <2>1, ProcessesAssumption DEF CountInv, Types
  <2>3. stack[u] = 0 \/ stack[t] + StackPages <= stack[u] \/ stack[u] + StackPages <= stack[t]
      BY <1>1, <1>2, <2>1 DEF StackInv, StacksApart
  <2> QED BY <1>3, <2>2, <2>3
<1> QED BY <1>1, <1>3, <1>4 DEF Pair

\* A thread that waits for a size finds one.
LEMMA SizeThere ==
    ASSUME CountInv, StackInv, NEW t \in Thread, Waiting(t)
    PROVE  /\ space[t] \in DOMAIN processTable /\ space[t] \in Space
           /\ t \in WaitingIn(space[t])
           /\ Len(numPageQueue[space[t]]) \in Nat \ {0}
           /\ numPageQueue[space[t]] # <<>>
<1> USE DEF CountInv, StackInv
<1>1. Live(t)
    BY DEF Waiting, Live
<1>2. PICK s \in DOMAIN processTable : s = space[t]
    BY <1>1 DEF Placed
<1>3. PICK W : W = WaitingIn(s)
    OBVIOUS
<1>4. t \in W /\ W \subseteq LiveIn(s)
    BY <1>1, <1>2, <1>3 DEF WaitingIn, LiveIn
<1>5. IsFiniteSet(W)
    BY <1>4, LiveInFinite, FS_Subset
<1>6. Cardinality(W) # 0 /\ Cardinality(W) \in Nat
    BY <1>4, <1>5, FS_EmptySet, FS_CardinalityType
<1>7. s \in Space /\ numPageQueue[s] \in Seq(Nat)
    BY <1>2 DEF Types
<1>8. Len(numPageQueue[s]) = Cardinality(W)
    BY <1>3 DEF Queued
<1> QED BY <1>2, <1>3, <1>4, <1>6, <1>7, <1>8

(***************************************************************************)
(* A step that makes no thread, ends none, and leaves the stacks, the      *)
(* sizes and the recorded stacks alone.                                    *)
(***************************************************************************)
LEMMA Quiet ==
    ASSUME CountInv, StackInv, \A t \in Thread : Live(t)' <=> Live(t),
           UNCHANGED <<processTable, numPages, numPageQueue, space, stack>>,
           \A t \in Thread : pc'[t] \in {"new", "startFork"} <=> pc[t] \in {"new", "startFork"},
           \A t \in Thread : pc'[t] = "none" => pc[t] = "none"
    PROVE  /\ Queued' /\ Unborn' /\ SizesRight' /\ StacksRight' /\ StacksApart'
           /\ \A s : LiveIn(s)' = LiveIn(s)
           /\ \A t : Pair(t)' = Pair(t)
<1> USE DEF StackInv
<1>1. \A s : LiveIn(s)' = LiveIn(s)
    BY DEF LiveIn
<1>2. \A t : Pair(t)' = Pair(t)
    BY DEF Pair
<1>3. \A t \in Thread : Waiting(t)' <=> Waiting(t)
    BY <1>2 DEF Waiting
<1>4. \A s : WaitingIn(s)' = WaitingIn(s)
    BY <1>1, <1>3 DEF WaitingIn, LiveIn
<1>5. Queued'
    BY <1>4 DEF Queued
<1>6. Unborn'
    BY DEF Unborn
<1>7. SizesRight'
    BY DEF SizesRight
<1>8. StacksRight'
    BY DEF StacksRight
<1>9. StacksApart'
    BY DEF StacksApart
<1> QED BY <1>1, <1>2, <1>5, <1>6, <1>7, <1>8, <1>9

\* Exec and Exit begin, and Exec fails.
LEMMA CallStacks ==
    ASSUME CountInv, StackInv, NEW t \in Thread, Exec(t) \/ Exit(t) \/ ExecFails(t)
    PROVE  StackInv'
<1>1. /\ UNCHANGED <<processTable, numPages, numPageQueue, space, stack, child, halted>>
      /\ pc[t] \in {"user", "exec"}
      /\ \E l \in {"user", "exec", "exit"} : pc' = [pc EXCEPT ![t] = l]
    BY DEF Exec, Exit, ExecFails, Goes
<1>2. PICK l \in {"user", "exec", "exit"} : pc' = [pc EXCEPT ![t] = l]
    BY <1>1
<1>3. pc'[t] = l /\ \A u \in Thread \ {t} : pc'[u] = pc[u]
    BY <1>2 DEF CountInv, Types
<1>4. /\ Queued' /\ Unborn' /\ SizesRight' /\ StacksRight' /\ StacksApart'
      /\ \A s : LiveIn(s)' = LiveIn(s)
      /\ \A u : Pair(u)' = Pair(u)
    BY <1>1, <1>3, Quiet DEF Live
<1>5. RunningRight'
    BY <1>1, <1>3, <1>4 DEF StackInv, RunningRight, Running, CallPC
<1>6. StartingRight' /\ FirstRight'
    BY <1>1, <1>3, <1>4 DEF StackInv, StartingRight, FirstRight
<1>7. ParentsRight'
    BY <1>1, <1>3, <1>4 DEF StackInv, ParentsRight, ChildRight, Forking
<1> QED BY <1>4, <1>5, <1>6, <1>7 DEF StackInv

\* Exec or Fork lets its child go.
LEMMA ReturnStacks ==
    ASSUME CountInv, StackInv, NEW t \in Thread, ExecForks(t) \/ ForkReturns(t)
    PROVE  StackInv'
<1> USE DEF CountInv, StackInv
<1>1. /\ pc[t] \in {"pair", "forking"}
      /\ child' = [child EXCEPT ![t] = None]
      /\ UNCHANGED <<processTable, numPages, numPageQueue, space, stack>>
    BY DEF ExecForks, ForkReturns
<1>2. PICK c \in Thread : c = child[t] /\ pc[c] = "new"
    BY <1>1 DEF ChildrenNew, Forking
<1>3. PICK l \in {"startExec", "startFork"} :
          /\ pc' = [pc EXCEPT ![t] = "user", ![c] = l]
          /\ l = "startExec" <=> pc[t] = "pair"
    BY <1>2 DEF ExecForks, ForkReturns
<1>4. /\ c # t /\ pc'[t] = "user" /\ pc'[c] = l
      /\ \A u \in Thread \ {t, c} : pc'[u] = pc[u]
      /\ \A u \in Thread \ {t} : child'[u] = child[u]
    BY <1>1, <1>2, <1>3 DEF Types
<1>5. PICK s \in DOMAIN processTable : s = space[c] /\ s \in Space
    BY <1>2 DEF Placed, Live, Types
<1>6. \A r : LiveIn(r)' = LiveIn(r)
    BY <1>1, <1>2, <1>4 DEF LiveIn, Live
<1>7. \A u : Pair(u)' = Pair(u)
    BY <1>1 DEF Pair
<1>8. pc[t] = "pair" => /\ Pair(c) = numPages[s] /\ LiveIn(s) = {c} /\ Pair(c) # 0
  <2>1. StackPages < numPages[s] /\ StackPages \in Nat /\ numPages[s] \in Nat
      BY <1>5, ProcessesAssumption DEF SizesRight, Types
  <2> QED BY <1>2, <1>5, <2>1 DEF ParentsRight, ChildRight, Forking
<1>9. \A u \in Thread : Waiting(u)' <=> Waiting(u)
    BY <1>1, <1>2, <1>3, <1>4, <1>7, <1>8 DEF Waiting
<1>10. \A r : WaitingIn(r)' = WaitingIn(r)
    BY <1>6, <1>9 DEF WaitingIn, LiveIn
<1>11. Queued'
    BY <1>1, <1>10 DEF Queued
<1>12. Unborn' /\ SizesRight'
    BY <1>1, <1>4 DEF Unborn, SizesRight
<1>13. \A u \in Thread : Live(u)' <=> Live(u)
    BY <1>1, <1>2, <1>4 DEF Live
<1>14. StacksRight'
    BY <1>1, <1>13 DEF StacksRight
<1>15. StacksApart'
    BY <1>1, <1>13 DEF StacksApart
<1>16. RunningRight'
    BY <1>1, <1>4, <1>7 DEF RunningRight, Running, CallPC
<1>17. StartingRight' /\ FirstRight'
  <2>1. StartingRight'
      BY <1>1, <1>2, <1>3, <1>4, <1>5, <1>7 DEF StartingRight, ParentsRight, ChildRight, Forking
  <2>2. FirstRight'
      BY <1>1, <1>3, <1>4, <1>5, <1>6, <1>7, <1>8 DEF FirstRight
  <2> QED BY <2>1, <2>2
<1>18. ParentsRight'
    BY <1>1, <1>4, <1>6, <1>7 DEF ParentsRight, ChildRight, Forking
<1> QED BY <1>11, <1>12, <1>14, <1>15, <1>16, <1>17, <1>18

\* The process of a thread that is alive.
LEMMA AtHome ==
    ASSUME CountInv, NEW t \in Thread, Live(t)
    PROVE  space[t] \in DOMAIN processTable /\ space[t] \in Space
BY DEF CountInv, Placed, Types

\* The child of a thread in Exec or Fork, and its process.
LEMMA ChildAtHome ==
    ASSUME CountInv, NEW t \in Thread, Forking(t)
    PROVE  /\ child[t] \in Thread /\ pc[child[t]] = "new" /\ Live(child[t])
           /\ space[child[t]] \in DOMAIN processTable /\ space[child[t]] \in Space
<1>1. child[t] \in Thread /\ pc[child[t]] = "new"
    BY DEF CountInv, ChildrenNew
<1>2. Live(child[t])
    BY <1>1 DEF Live
<1> QED BY <1>1, <1>2, AtHome

\* Exec makes a process whose only thread waits for its stack.
LEMMA CreationStacks ==
    ASSUME CountInv, StackInv, NEW t \in Thread, ExecCreates(t)
    PROVE  StackInv'
<1> USE DEF CountInv, StackInv
<1>1. PICK s \in Space, c \in Thread, n \in CodePages :
              /\ s \notin DOMAIN processTable /\ \A u \in Thread : space[u] # s
              /\ pc[c] = "none" /\ c # t /\ pc[t] = "exec"
              /\ DOMAIN processTable' = DOMAIN processTable \cup {s}
              /\ processTable' \in [DOMAIN processTable \cup {s} -> Process]
              /\ processTable'[s] = NewProcess
              /\ \A r \in DOMAIN processTable : processTable'[r] = processTable[r]
              /\ numPages' = [numPages EXCEPT ![s] = n + StackPages]
              /\ numPageQueue' = [numPageQueue EXCEPT ![s] = <<n + StackPages>>]
              /\ space' = [space EXCEPT ![c] = s]
              /\ child' = [child EXCEPT ![t] = c]
              /\ pc' \in [Thread -> Places]
              /\ pc'[t] = "named" /\ pc'[c] = "new"
              /\ \A u \in Thread \ {t, c} : pc'[u] = pc[u]
    BY Creation
<1>2. stack' = stack
    BY DEF ExecCreates
<1>3. PICK m \in Nat : m = n + StackPages /\ StackPages < m /\ StackPages \in Nat
    BY ProcessesAssumption
<1>4. /\ numPages'[s] = m /\ numPageQueue'[s] = <<m>>
      /\ \A r \in Space \ {s} : numPages'[r] = numPages[r] /\ numPageQueue'[r] = numPageQueue[r]
      /\ space'[c] = s /\ \A u \in Thread \ {c} : space'[u] = space[u]
      /\ child'[t] = c /\ \A u \in Thread \ {t} : child'[u] = child[u]
    BY <1>1, <1>3 DEF Types
<1>5. ~Live(c) /\ Live(c)' /\ \A u \in Thread \ {c} : Live(u)' <=> Live(u)
    BY <1>1 DEF Live
<1>6. LiveIn(s)' = {c} /\ \A r : r # s => LiveIn(r)' = LiveIn(r)
    BY <1>1, <1>4, <1>5 DEF LiveIn
<1>7. stack[c] = 0 /\ Pair(c)' = 0
    BY <1>1, <1>4 DEF Unborn, Pair, NewProcess, NoStacks
<1>8. \A u \in Thread \ {c} : Live(u) => /\ Pair(u)' = Pair(u)
                                         /\ space[u] \in DOMAIN processTable
                                         /\ space[u] # s /\ space[u] \in Space
    BY <1>1, <1>4 DEF Pair, Placed, Types
<1>9. \A u \in Thread \ {c} : Live(u) => (Waiting(u)' <=> Waiting(u))
    BY <1>1, <1>2, <1>8 DEF Waiting
<1>10. \A r : r # s => WaitingIn(r)' = WaitingIn(r)
    BY <1>1, <1>5, <1>6, <1>9 DEF WaitingIn, LiveIn
<1>11. Waiting(c)'
    BY <1>1, <1>2, <1>7 DEF Waiting
<1>12. WaitingIn(s)' = {c}
    BY <1>6, <1>11 DEF WaitingIn
<1>13. Queued'
  <2>1. Len(numPageQueue'[s]) = Cardinality(WaitingIn(s)')
      BY <1>4, <1>12, FS_Singleton
  <2>2. \A r \in DOMAIN processTable : r \in Space \ {s}
      BY <1>1 DEF Types
  <2>3. \A r \in DOMAIN processTable : Len(numPageQueue'[r]) = Cardinality(WaitingIn(r)')
      BY <1>4, <1>10, <2>2 DEF Queued
  <2> QED BY <1>1, <2>1, <2>3 DEF Queued
<1>14. Unborn'
    BY <1>1, <1>2 DEF Unborn, NewProcess, NoStacks
<1>15. SizesRight'
  <2>1. \A r \in DOMAIN processTable : numPages'[r] = numPages[r] /\ numPageQueue'[r] = numPageQueue[r]
      BY <1>1, <1>4 DEF Types
  <2>2. /\ StackPages < numPages'[s]
        /\ \A i \in 1 .. Len(numPageQueue'[s]) :
              StackPages < numPageQueue'[s][i] /\ numPageQueue'[s][i] <= numPages'[s]
        /\ \A i, j \in 1 .. Len(numPageQueue'[s]) :
              i < j => numPageQueue'[s][i] + StackPages <= numPageQueue'[s][j]
      BY <1>3, <1>4
  <2> QED BY <1>1, <2>1, <2>2 DEF SizesRight
<1>16. StacksRight'
    BY <1>2, <1>4, <1>5, <1>7, <1>8 DEF StacksRight
<1>17. StacksApart'
    BY <1>2, <1>4, <1>5, <1>7 DEF StacksApart
<1>18. RunningRight'
  <2>1. \A u \in Thread : Running(u)' => u # c /\ Running(u) /\ Live(u)
      BY <1>1 DEF Running, CallPC, Live
  <2> QED BY <1>2, <1>8, <2>1 DEF RunningRight
<1>r. \A r \in DOMAIN processTable : r # s /\ r \in Space
    BY <1>1 DEF Types
<1>19. StartingRight' /\ FirstRight'
  <2>1. \A u \in Thread \ {c} : pc'[u] \in {"new", "startExec", "startFork"} =>
            pc'[u] = pc[u] /\ Live(u)
      BY <1>1 DEF Live
  <2>2. StartingRight'
      BY <1>1, <1>2, <1>7, <1>8, <2>1 DEF StartingRight
  <2>3. ASSUME NEW u \in Thread, NEW r \in DOMAIN processTable', pc'[u] = "startExec",
               space'[u] = r
        PROVE  Pair(u)' = numPages'[r] /\ LiveIn(r)' = {u}
    <3>1. u # c /\ pc[u] = "startExec" /\ Live(u) /\ space[u] = r
        BY <1>1, <1>4, <2>1, <2>3
    <3>2. r \in DOMAIN processTable
        BY <3>1, AtHome
    <3>3. Pair(u) = numPages[r] /\ LiveIn(r) = {u}
        BY <3>1, <3>2 DEF FirstRight
    <3> QED BY <1>4, <1>6, <1>8, <1>r, <3>1, <3>2, <3>3
  <2> QED BY <2>2, <2>3 DEF FirstRight
<1>20. ParentsRight'
  <2> SUFFICES ASSUME NEW u \in Thread, NEW d \in Thread, NEW r \in DOMAIN processTable',
                      child'[u] = d, space'[d] = r, Forking(u)'
               PROVE  ChildRight(u, d, r)'
      BY DEF ParentsRight
  <2>1. CASE u = t
    <3>1. d = c /\ r = s /\ pc'[u] = "named"
        BY <1>1, <1>4, <2>1
    <3> QED BY <1>4, <1>6, <1>7, <3>1 DEF ChildRight
  <2>2. CASE u # t
    <3>1. u # c /\ pc'[u] = pc[u] /\ Forking(u) /\ child[u] = d
        BY <1>1, <1>4, <2>2 DEF Forking
    <3>2. d # c /\ Live(d)
        BY <1>5, <3>1, ChildAtHome
    <3>3. space[d] = r /\ r \in DOMAIN processTable /\ Pair(d)' = Pair(d)
        BY <1>4, <1>8, <3>2
    <3>4. /\ LiveIn(r)' = LiveIn(r) /\ numPages'[r] = numPages[r]
          /\ numPageQueue'[r] = numPageQueue[r]
        BY <1>4, <1>6, <1>r, <3>3
    <3> QED BY <3>1, <3>3, <3>4 DEF ParentsRight, ChildRight
  <2> QED BY <2>1, <2>2
<1> QED BY <1>13, <1>14, <1>15, <1>16, <1>17, <1>18, <1>19, <1>20

\* The threads of a process that wait for a size are finitely many.
LEMMA WaitingFinite ==
    ASSUME FewLive, NEW s
    PROVE  IsFiniteSet(WaitingIn(s)) /\ Cardinality(WaitingIn(s)) \in Nat
<1>1. WaitingIn(s) \subseteq LiveIn(s)
    BY DEF WaitingIn
<1>2. IsFiniteSet(WaitingIn(s))
    BY <1>1, LiveInFinite, FS_Subset
<1> QED BY <1>2, FS_CardinalityType

(***************************************************************************)
(* A step that changes the sizes of one process s, in which some thread is *)
(* neither starting nor a child, and leaves the other processes alone.     *)
(***************************************************************************)
LEMMA Shared ==
    ASSUME CountInv, StackInv, NEW s \in DOMAIN processTable, NEW t \in LiveIn(s),
           pc[t] \notin {"new", "startExec"}
    PROVE  /\ \A u \in Thread : pc[u] = "startExec" => space[u] # s
           /\ \A u \in Thread : pc[u] \in {"named", "pair"} => space[child[u]] # s
<1> USE DEF CountInv, StackInv
<1>1. ASSUME NEW u \in Thread, pc[u] = "startExec", space[u] = s
      PROVE  FALSE
    BY <1>1 DEF FirstRight
<1>2. ASSUME NEW u \in Thread, pc[u] \in {"named", "pair"}, space[child[u]] = s
      PROVE  FALSE
  <2>1. PICK d \in Thread : d = child[u] /\ pc[d] = "new"
      BY <1>2, ChildAtHome DEF Forking
  <2>2. LiveIn(s) = {d}
      BY <1>2, <2>1 DEF ParentsRight, ChildRight, Forking
  <2> QED BY <2>1, <2>2
<1> QED BY <1>1, <1>2

\* Fork makes a thread and puts its size behind the others.
LEMMA ForkStacks ==
    ASSUME CountInv, StackInv, NEW t \in Thread, Fork(t)
    PROVE  StackInv'
<1> USE DEF CountInv, StackInv
<1>1. PICK s \in DOMAIN processTable, c \in Thread :
              /\ s \in Space /\ s = space[t] /\ pc[t] = "user" /\ pc[c] = "none" /\ c # t
              /\ DOMAIN processTable' = DOMAIN processTable
              /\ processTable' \in [DOMAIN processTable -> Process]
              /\ processTable'[s].numThreads = processTable[s].numThreads + 1
              /\ processTable'[s].threadStacks = processTable[s].threadStacks
              /\ \A r \in DOMAIN processTable \ {s} : processTable'[r] = processTable[r]
              /\ numPages' = [numPages EXCEPT ![s] = numPages[s] + StackPages]
              /\ numPageQueue' = [numPageQueue EXCEPT ![s] =
                                     Append(numPageQueue[s], numPages[s] + StackPages)]
              /\ space' = [space EXCEPT ![c] = s]
              /\ child' = [child EXCEPT ![t] = c]
              /\ pc' \in [Thread -> Places]
              /\ pc'[t] = "forking" /\ pc'[c] = "new"
              /\ \A u \in Thread \ {t, c} : pc'[u] = pc[u]
    BY Forked
<1>2. stack' = stack
    BY DEF Fork
<1>3. PICK k \in Nat, q \in Seq(Nat) : k = numPages[s] /\ q = numPageQueue[s]
    BY <1>1 DEF Types
<1>4. PICK m \in Nat : m = k + StackPages /\ StackPages \in Nat \ {0}
    BY ProcessesAssumption
<1>5. /\ numPages'[s] = m /\ numPageQueue'[s] = Append(q, m)
      /\ \A r \in Space \ {s} : numPages'[r] = numPages[r] /\ numPageQueue'[r] = numPageQueue[r]
      /\ space'[c] = s /\ \A u \in Thread \ {c} : space'[u] = space[u]
      /\ child'[t] = c /\ \A u \in Thread \ {t} : child'[u] = child[u]
    BY <1>1, <1>3, <1>4 DEF Types
<1>6. ~Live(c) /\ Live(c)' /\ \A u \in Thread \ {c} : Live(u)' <=> Live(u)
    BY <1>1 DEF Live
<1>7. LiveIn(s)' = LiveIn(s) \cup {c} /\ \A r : r # s => LiveIn(r)' = LiveIn(r)
    BY <1>1, <1>5, <1>6 DEF LiveIn
<1>8. stack[c] = 0 /\ Pair(c)' = 0
    BY <1>1, <1>5 DEF Unborn, Pair
<1>9. \A u \in Thread \ {c} : Live(u) => Pair(u)' = Pair(u) /\ space[u] \in DOMAIN processTable
  <2> SUFFICES ASSUME NEW u \in Thread \ {c}, Live(u)
               PROVE  Pair(u)' = Pair(u) /\ space[u] \in DOMAIN processTable
      OBVIOUS
  <2>1. PICK r \in DOMAIN processTable : r = space[u]
      BY AtHome
  <2>2. processTable'[r].threadStacks = processTable[r].threadStacks
      BY <1>1
  <2> QED BY <1>5, <2>1, <2>2 DEF Pair
<1>10. \A u \in Thread \ {c} : Live(u) => (Waiting(u)' <=> Waiting(u))
    BY <1>1, <1>2, <1>9 DEF Waiting
<1>11. \A r : r # s => WaitingIn(r)' = WaitingIn(r)
    BY <1>1, <1>6, <1>7, <1>10 DEF WaitingIn, LiveIn
<1>12. Waiting(c)'
    BY <1>1, <1>2, <1>8 DEF Waiting
<1>13. WaitingIn(s)' = WaitingIn(s) \cup {c} /\ c \notin WaitingIn(s)
  <2>1. \A u \in LiveIn(s) : u # c /\ u \in Thread /\ Live(u)
      BY <1>6 DEF LiveIn
  <2> QED BY <1>7, <1>10, <1>12, <2>1 DEF WaitingIn
<1>r. \A r \in DOMAIN processTable : r \in Space
    BY DEF Types
<1>14. Queued'
  <2>1. PICK W : W = WaitingIn(s)
      OBVIOUS
  <2>2. IsFiniteSet(W) /\ Cardinality(W) \in Nat
      BY <2>1, WaitingFinite
  <2>3. Cardinality(W \cup {c}) = Cardinality(W) + 1
      BY <1>13, <2>1, <2>2, FS_AddElement
  <2>4. Len(q) = Cardinality(W)
      BY <1>3, <2>1 DEF Queued
  <2>5. Len(Append(q, m)) = Len(q) + 1
      OBVIOUS
  <2>6. Len(numPageQueue'[s]) = Cardinality(WaitingIn(s)')
      BY <1>5, <1>13, <2>1, <2>3, <2>4, <2>5
  <2>7. \A r \in DOMAIN processTable \ {s} : Len(numPageQueue'[r]) = Cardinality(WaitingIn(r)')
      BY <1>5, <1>11, <1>r DEF Queued
  <2> QED BY <1>1, <2>6, <2>7 DEF Queued
<1>15. Unborn'
  <2> SUFFICES ASSUME NEW u \in Thread, pc'[u] = "none"
               PROVE  /\ stack'[u] = 0
                      /\ \A r \in DOMAIN processTable' : processTable'[r].threadStacks[u] = 0
      BY DEF Unborn
  <2>1. pc[u] = "none"
      BY <1>1
  <2> QED BY <1>1, <1>2, <2>1 DEF Unborn
<1>16. \A i \in 1 .. Len(q) : StackPages < q[i] /\ q[i] <= k /\ q[i] \in Nat
    BY <1>3 DEF SizesRight
<1>17. \A i, j \in 1 .. Len(q) : i < j => q[i] + StackPages <= q[j]
    BY <1>3 DEF SizesRight
<1>18. StackPages < k
    BY <1>3 DEF SizesRight
<1>a. Append(q, m) \in Seq(Nat)
    BY <1>3, <1>4
<1>19. PICK z \in Seq(Nat) : z = Append(q, m)
    BY <1>a
<1>20. /\ Len(z) = Len(q) + 1 /\ Len(q) \in Nat /\ z[Len(q) + 1] = m
       /\ \A i \in 1 .. Len(q) : z[i] = q[i]
    BY <1>19
<1>21. \A i \in 1 .. Len(z) : i \in 1 .. Len(q) \/ i = Len(q) + 1
    BY <1>20
<1>22. SizesRight'
  <2>1. \A i \in 1 .. Len(z) : StackPages < z[i] /\ z[i] <= m
      BY <1>4, <1>16, <1>18, <1>20, <1>21
  <2>2. ASSUME NEW i \in 1 .. Len(z), NEW j \in 1 .. Len(z), i < j
        PROVE  z[i] + StackPages <= z[j]
    <3>1. i \in 1 .. Len(q)
        BY <1>20, <2>2
    <3>2. CASE j \in 1 .. Len(q)
        BY <1>17, <1>20, <2>2, <3>1, <3>2
    <3>3. CASE j = Len(q) + 1
      <4>1. PICK x \in Nat : x = z[i] /\ x <= k
          BY <1>16, <1>20, <3>1
      <4>2. x + StackPages <= k + StackPages
          BY <1>4, <4>1
      <4> QED BY <1>4, <1>20, <3>3, <4>1, <4>2
    <3> QED BY <1>21, <3>2, <3>3
  <2>3. StackPages < m
      BY <1>4, <1>18
  <2>4. \A r \in DOMAIN processTable \ {s} :
           numPages'[r] = numPages[r] /\ numPageQueue'[r] = numPageQueue[r]
      BY <1>5, <1>r
  <2>5. numPages'[s] = m /\ numPageQueue'[s] = z
      BY <1>5, <1>19
  <2>6. ASSUME NEW r \in DOMAIN processTable'
        PROVE  /\ StackPages < numPages'[r]
               /\ \A i \in 1 .. Len(numPageQueue'[r]) :
                     StackPages < numPageQueue'[r][i] /\ numPageQueue'[r][i] <= numPages'[r]
               /\ \A i, j \in 1 .. Len(numPageQueue'[r]) :
                     i < j => numPageQueue'[r][i] + StackPages <= numPageQueue'[r][j]
    <3>1. CASE r = s
        BY <2>1, <2>2, <2>3, <2>5, <3>1
    <3>2. CASE r \in DOMAIN processTable \ {s}
        BY <2>4, <3>2 DEF SizesRight
    <3> QED BY <1>1, <3>1, <3>2
  <2> QED BY <2>6 DEF SizesRight
<1>23. StacksRight'
  <2> SUFFICES ASSUME NEW u \in Thread, NEW r \in DOMAIN processTable', Live(u)', space'[u] = r,
                      stack'[u] # 0
               PROVE  /\ StackPages < stack'[u] /\ stack'[u] <= numPages'[r]
                      /\ \A i \in 1 .. Len(numPageQueue'[r]) :
                            stack'[u] + StackPages <= numPageQueue'[r][i]
      BY DEF StacksRight
  <2>1. u # c /\ Live(u) /\ space[u] = r /\ r \in DOMAIN processTable /\ stack'[u] = stack[u]
      BY <1>1, <1>2, <1>5, <1>6, <1>8
  <2>2. CASE r # s
      BY <1>5, <1>r, <2>1, <2>2 DEF StacksRight
  <2>3. CASE r = s
    <3>1. PICK x \in Nat : x = stack[u]
        BY DEF Types
    <3>2. StackPages < x /\ x <= k /\ \A i \in 1 .. Len(q) : x + StackPages <= q[i]
        BY <1>3, <2>1, <2>3, <3>1 DEF StacksRight
    <3>3. \A i \in 1 .. Len(z) : x + StackPages <= z[i]
        BY <1>4, <1>20, <1>21, <3>2
    <3>4. x <= m
        BY <1>4, <3>2
    <3> QED BY <1>5, <1>19, <2>1, <2>3, <3>1, <3>2, <3>3, <3>4
  <2> QED BY <2>2, <2>3
<1>24. StacksApart'
    BY <1>2, <1>5, <1>6, <1>8 DEF StacksApart
<1>25. RunningRight'
  <2>1. \A u \in Thread : Running(u)' => u # c /\ Running(u) /\ Live(u)
      BY <1>1 DEF Running, CallPC, Live
  <2> QED BY <1>2, <1>9, <2>1 DEF RunningRight
<1>26. t \in LiveIn(s)
    BY <1>1 DEF LiveIn, Live
<1>27. /\ \A u \in Thread : pc[u] = "startExec" => space[u] # s
       /\ \A u \in Thread : pc[u] \in {"named", "pair"} => space[child[u]] # s
    BY <1>1, <1>26, Shared
<1>28. StartingRight' /\ FirstRight'
  <2>1. \A u \in Thread \ {c} : pc'[u] \in {"new", "startExec", "startFork"} =>
            pc'[u] = pc[u] /\ Live(u)
      BY <1>1 DEF Live
  <2>2. StartingRight'
      BY <1>1, <1>2, <1>8, <1>9, <2>1 DEF StartingRight
  <2>3. ASSUME NEW u \in Thread, NEW r \in DOMAIN processTable', pc'[u] = "startExec",
               space'[u] = r
        PROVE  Pair(u)' = numPages'[r] /\ LiveIn(r)' = {u}
    <3>1. u # c /\ pc[u] = "startExec" /\ Live(u) /\ space[u] = r /\ r \in DOMAIN processTable
        BY <1>1, <1>5, <2>1, <2>3
    <3>2. r # s
        BY <1>27, <3>1
    <3>3. Pair(u) = numPages[r] /\ LiveIn(r) = {u}
        BY <3>1 DEF FirstRight
    <3> QED BY <1>5, <1>7, <1>9, <1>r, <3>1, <3>2, <3>3
  <2> QED BY <2>2, <2>3 DEF FirstRight
<1>29. ParentsRight'
  <2> SUFFICES ASSUME NEW u \in Thread, NEW d \in Thread, NEW r \in DOMAIN processTable',
                      child'[u] = d, space'[d] = r, Forking(u)'
               PROVE  ChildRight(u, d, r)'
      BY DEF ParentsRight
  <2>1. CASE u = t
    <3>1. d = c /\ pc'[u] = "forking"
        BY <1>1, <1>5, <2>1
    <3> QED BY <1>8, <3>1 DEF ChildRight
  <2>2. CASE u # t
    <3>1. u # c /\ pc'[u] = pc[u] /\ Forking(u) /\ child[u] = d
        BY <1>1, <1>5, <2>2 DEF Forking
    <3>2. d # c /\ Live(d)
        BY <1>6, <3>1, ChildAtHome
    <3>3. space[d] = r /\ r \in DOMAIN processTable /\ Pair(d)' = Pair(d)
        BY <1>1, <1>5, <1>9, <3>2
    <3>4. CASE r = s
      <4>1. pc[u] \notin {"named", "pair"}
          BY <1>27, <3>1, <3>3, <3>4
      <4> QED BY <3>1, <3>3, <4>1 DEF ParentsRight, ChildRight
    <3>5. CASE r # s
      <4>1. /\ LiveIn(r)' = LiveIn(r) /\ numPages'[r] = numPages[r]
            /\ numPageQueue'[r] = numPageQueue[r]
          BY <1>5, <1>7, <1>r, <3>3, <3>5
      <4>2. ChildRight(u, d, r)
          BY <3>1, <3>3 DEF ParentsRight
      <4> QED BY <3>1, <3>3, <4>1, <4>2 DEF ChildRight
    <3> QED BY <3>4, <3>5
  <2> QED BY <2>1, <2>2
<1> QED BY <1>14, <1>15, <1>22, <1>23, <1>24, <1>25, <1>28, <1>29

(***************************************************************************)
(* A step that changes process s only, where no Exec is under way, says    *)
(* nothing new about the threads that Exec and Fork have just made.        *)
(***************************************************************************)
LEMMA BeginnersKeep ==
    ASSUME CountInv, StackInv, NEW s, space' = space,
           DOMAIN processTable' \subseteq DOMAIN processTable,
           \A r \in DOMAIN processTable' \ {s} :
               /\ LiveIn(r)' = LiveIn(r) /\ numPages'[r] = numPages[r]
               /\ numPageQueue'[r] = numPageQueue[r],
           \A u \in Thread : pc'[u] = "startExec" => pc[u] = "startExec" /\ space[u] # s,
           \A u \in Thread : Forking(u)' =>
               /\ Forking(u) /\ pc'[u] = pc[u] /\ child'[u] = child[u]
               /\ pc[u] = "forking" \/ space[child[u]] # s,
           \A u \in Thread : pc[u] \in {"new", "startExec"} => Pair(u)' = Pair(u)
    PROVE  FirstRight' /\ ParentsRight'
<1> USE DEF CountInv, StackInv
<1>1. ASSUME NEW u \in Thread, NEW r \in DOMAIN processTable', pc'[u] = "startExec",
             space'[u] = r
      PROVE  Pair(u)' = numPages'[r] /\ LiveIn(r)' = {u}
  <2>1. pc[u] = "startExec" /\ space[u] = r /\ r # s /\ r \in DOMAIN processTable
      BY <1>1
  <2>2. Pair(u) = numPages[r] /\ LiveIn(r) = {u} /\ Pair(u)' = Pair(u)
      BY <2>1 DEF FirstRight
  <2> QED BY <2>1, <2>2
<1>2. ASSUME NEW u \in Thread, NEW d \in Thread, NEW r \in DOMAIN processTable',
             Forking(u)', child'[u] = d, space'[d] = r
      PROVE  ChildRight(u, d, r)'
  <2>1. /\ Forking(u) /\ pc'[u] = pc[u] /\ child[u] = d /\ space[d] = r
        /\ r \in DOMAIN processTable /\ (pc[u] = "forking" \/ r # s)
      BY <1>2
  <2>2. ChildRight(u, d, r)
      BY <2>1 DEF ParentsRight
  <2>3. Pair(d)' = Pair(d)
      BY <2>1, ChildAtHome
  <2>4. CASE pc[u] = "forking"
      BY <2>1, <2>2, <2>3, <2>4 DEF ChildRight
  <2>5. CASE r # s
    <3>1. /\ LiveIn(r)' = LiveIn(r) /\ numPages'[r] = numPages[r]
          /\ numPageQueue'[r] = numPageQueue[r]
        BY <2>5
    <3> QED BY <2>1, <2>2, <2>3, <3>1 DEF ChildRight
  <2> QED BY <2>1, <2>4, <2>5
<1> QED BY <1>1, <1>2 DEF FirstRight, ParentsRight

\* Exec takes the only size of the new process for its child.
LEMMA PairStacks ==
    ASSUME CountInv, StackInv, NEW t \in Thread, ExecPair(t)
    PROVE  StackInv' /\ numPageQueue[space[child[t]]] # <<>>
<1> USE DEF CountInv, StackInv
<1>1. pc[t] = "named" /\ Forking(t)
    BY DEF ExecPair, Forking
<1>2. PICK c \in Thread : c = child[t] /\ pc[c] = "new" /\ Live(c)
    BY <1>1, ChildAtHome
<1>3. PICK s \in DOMAIN processTable : s = space[c] /\ s \in Space
    BY <1>2, AtHome
<1>4. LiveIn(s) = {c} /\ Pair(c) = 0 /\ numPageQueue[s] = <<numPages[s]>>
    BY <1>1, <1>2, <1>3 DEF ParentsRight, ChildRight
<1>5. PICK k \in Nat : k = numPages[s] /\ k # 0
  <2>1. StackPages < numPages[s] /\ StackPages \in Nat /\ numPages[s] \in Nat
      BY <1>3, ProcessesAssumption DEF SizesRight, Types
  <2> QED BY <2>1
<1>6. numPageQueue[s] = <<k>> /\ Head(numPageQueue[s]) = k /\ Tail(numPageQueue[s]) = <<>>
      /\ numPageQueue[s] # <<>>
    BY <1>4, <1>5
<1>7. /\ GetNumPages(s) /\ processTable' = [processTable EXCEPT ![s].threadStacks[c] = k]
      /\ pc' = [pc EXCEPT ![t] = "pair"]
      /\ UNCHANGED <<numPages, space, stack, child>>
    BY <1>2, <1>3, <1>6 DEF ExecPair, Goes
<1>p. processTable' = [processTable EXCEPT ![s].threadStacks[c] = k]
    BY <1>7
<1>t. Types
    OBVIOUS
<1>8. /\ DOMAIN processTable' = DOMAIN processTable
      /\ processTable' \in [DOMAIN processTable -> Process]
      /\ processTable'[s].numThreads = processTable[s].numThreads
      /\ processTable'[s].threadStacks[c] = k
      /\ \A u \in Thread \ {c} :
            processTable'[s].threadStacks[u] = processTable[s].threadStacks[u]
      /\ \A r \in DOMAIN processTable \ {s} : processTable'[r] = processTable[r]
    BY <1>t, <1>p, SetStack
<1>9. /\ numPageQueue'[s] = <<>>
      /\ \A r \in Space \ {s} : numPageQueue'[r] = numPageQueue[r]
    BY <1>3, <1>6, <1>7, QueuePopped
<1>10. pc'[t] = "pair" /\ (\A u \in Thread \ {t} : pc'[u] = pc[u]) /\ c # t
    BY <1>1, <1>2, <1>7 DEF Types
<1>11. \A u \in Thread : Live(u)' <=> Live(u)
    BY <1>1, <1>10 DEF Live
<1>12. \A r : LiveIn(r)' = LiveIn(r)
    BY <1>7, <1>11 DEF LiveIn
<1>13. Pair(c)' = k
    BY <1>3, <1>7, <1>8 DEF Pair
<1>14. \A u \in Thread \ {c} : Live(u) => Pair(u)' = Pair(u)
  <2> SUFFICES ASSUME NEW u \in Thread \ {c}, Live(u) PROVE Pair(u)' = Pair(u)
      OBVIOUS
  <2>1. PICK r \in DOMAIN processTable : r = space[u]
      BY AtHome
  <2>2. processTable'[r].threadStacks[u] = processTable[r].threadStacks[u]
      BY <1>8
  <2> QED BY <1>7, <2>1, <2>2 DEF Pair
<1>15. \A u \in Thread \ {c} : Live(u) => (Waiting(u)' <=> Waiting(u))
    BY <1>1, <1>7, <1>10, <1>14 DEF Waiting
<1>16. \A r : r # s => WaitingIn(r)' = WaitingIn(r)
    BY <1>3, <1>12, <1>15 DEF WaitingIn, LiveIn
<1>17. WaitingIn(s)' = {}
    BY <1>4, <1>5, <1>12, <1>13 DEF WaitingIn, Waiting
<1>r. \A r \in DOMAIN processTable : r \in Space
    BY DEF Types
<1>18. Queued'
  <2>1. Len(numPageQueue'[s]) = Cardinality(WaitingIn(s)')
      BY <1>9, <1>17, FS_EmptySet
  <2>2. \A r \in DOMAIN processTable \ {s} : Len(numPageQueue'[r]) = Cardinality(WaitingIn(r)')
      BY <1>9, <1>16, <1>r DEF Queued
  <2> QED BY <1>8, <2>1, <2>2 DEF Queued
<1>19. Unborn'
  <2> SUFFICES ASSUME NEW u \in Thread, pc'[u] = "none"
               PROVE  /\ stack'[u] = 0
                      /\ \A r \in DOMAIN processTable' : processTable'[r].threadStacks[u] = 0
      BY DEF Unborn
  <2>1. pc[u] = "none" /\ u # c
      BY <1>2, <1>10
  <2> QED BY <1>7, <1>8, <2>1 DEF Unborn
<1>20. \A r \in DOMAIN processTable : numPageQueue'[r] = <<>> \/ numPageQueue'[r] = numPageQueue[r]
    BY <1>9, <1>r
<1>21. SizesRight'
    BY <1>7, <1>8, <1>20 DEF SizesRight
<1>22. StacksRight'
    BY <1>7, <1>8, <1>11, <1>20 DEF StacksRight
<1>23. StacksApart'
    BY <1>7, <1>11 DEF StacksApart
<1>24. RunningRight'
  <2>1. \A u \in Thread : Running(u)' => u # c /\ Running(u) /\ Live(u)
      BY <1>1, <1>2, <1>10 DEF Running, CallPC, Live
  <2> QED BY <1>7, <1>14, <2>1 DEF RunningRight
<1>25. StartingRight'
  <2>1. \A u \in Thread : pc'[u] \in {"new", "startExec", "startFork"} => pc[u] = pc'[u] /\ Live(u)
      BY <1>10 DEF Live
  <2>2. pc'[c] = "new"
      BY <1>2, <1>10
  <2> QED BY <1>7, <1>14, <2>1, <2>2 DEF StartingRight
<1>26. FirstRight'
  <2> SUFFICES ASSUME NEW u \in Thread, NEW r \in DOMAIN processTable', pc'[u] = "startExec",
                      space'[u] = r
               PROVE  Pair(u)' = numPages'[r] /\ LiveIn(r)' = {u}
      BY DEF FirstRight
  <2>1. pc[u] = "startExec" /\ u # c /\ Live(u) /\ space[u] = r
      BY <1>2, <1>7, <1>10 DEF Live
  <2>2. Pair(u) = numPages[r] /\ LiveIn(r) = {u}
      BY <1>8, <2>1 DEF FirstRight
  <2> QED BY <1>7, <1>12, <1>14, <2>1, <2>2
<1>27. ParentsRight'
  <2> SUFFICES ASSUME NEW u \in Thread, NEW d \in Thread, NEW r \in DOMAIN processTable',
                      child'[u] = d, space'[d] = r, Forking(u)'
               PROVE  ChildRight(u, d, r)'
      BY DEF ParentsRight
  <2>1. CASE u = t
    <3>1. d = c /\ r = s /\ pc'[u] = "pair"
        BY <1>2, <1>3, <1>7, <1>10, <2>1
    <3> QED BY <1>4, <1>5, <1>7, <1>12, <1>13, <3>1 DEF ChildRight
  <2>2. CASE u # t
    <3>1. pc'[u] = pc[u] /\ Forking(u) /\ child[u] = d /\ space[d] = r
        BY <1>7, <1>10, <2>2 DEF Forking
    <3>2. d # c
        BY <1>1, <1>2, <2>2, <3>1 DEF ChildrenDiffer
    <3>3. Live(d) /\ r \in DOMAIN processTable /\ Pair(d)' = Pair(d)
        BY <1>14, <3>1, <3>2, ChildAtHome
    <3>4. r # s
        BY <1>4, <3>1, <3>2, <3>3 DEF LiveIn
    <3>5. LiveIn(r)' = LiveIn(r) /\ numPages'[r] = numPages[r] /\ numPageQueue'[r] = numPageQueue[r]
        BY <1>7, <1>9, <1>12, <1>r, <3>3, <3>4
    <3>6. ChildRight(u, d, r)
        BY <3>1, <3>3 DEF ParentsRight
    <3> QED BY <3>1, <3>3, <3>5, <3>6 DEF ChildRight
  <2> QED BY <2>1, <2>2
<1>28. numPageQueue[space[child[t]]] # <<>>
    BY <1>2, <1>3, <1>6
<1> QED BY <1>18, <1>19, <1>21, <1>22, <1>23, <1>24, <1>25, <1>26, <1>27, <1>28

\* The first thread of a process gets the stack at the end of its space.
LEMMA ExecThreadStacks ==
    ASSUME CountInv, StackInv, NEW t \in Thread, ExecThread(t)
    PROVE  StackInv'
<1> USE DEF CountInv, StackInv
<1>1. /\ pc[t] = "startExec" /\ pc' = [pc EXCEPT ![t] = "user"]
      /\ stack' = [stack EXCEPT ![t] = numPages[space[t]]]
      /\ UNCHANGED <<processTable, numPages, numPageQueue, space, child>>
    BY DEF ExecThread, Goes
<1>2. Live(t)
    BY <1>1 DEF Live
<1>3. PICK s \in DOMAIN processTable : s = space[t] /\ s \in Space
    BY <1>2, AtHome
<1>4. Pair(t) = numPages[s] /\ LiveIn(s) = {t}
    BY <1>1, <1>3 DEF FirstRight
<1>5. PICK k \in Nat : k = numPages[s] /\ StackPages < k /\ k # 0 /\ StackPages \in Nat
  <2>1. StackPages < numPages[s] /\ StackPages \in Nat /\ numPages[s] \in Nat
      BY <1>3, ProcessesAssumption DEF SizesRight, Types
  <2> QED BY <2>1
<1>6. pc'[t] = "user" /\ (\A u \in Thread \ {t} : pc'[u] = pc[u])
      /\ stack'[t] = k /\ (\A u \in Thread \ {t} : stack'[u] = stack[u])
    BY <1>1, <1>3, <1>5 DEF Types
<1>7. \A u \in Thread : Live(u)' <=> Live(u)
    BY <1>1, <1>6 DEF Live
<1>8. \A r : LiveIn(r)' = LiveIn(r)
    BY <1>1, <1>7 DEF LiveIn
<1>9. \A u : Pair(u)' = Pair(u)
    BY <1>1 DEF Pair
<1>10. \A u \in Thread : Waiting(u)' <=> Waiting(u)
    BY <1>1, <1>6, <1>9 DEF Waiting
<1>11. \A r : WaitingIn(r)' = WaitingIn(r)
    BY <1>8, <1>10 DEF WaitingIn, LiveIn
<1>12. WaitingIn(s) = {}
    BY <1>1, <1>4 DEF WaitingIn, Waiting
<1>13. Len(numPageQueue[s]) = 0
    BY <1>12, FS_EmptySet DEF Queued
<1>14. Queued'
    BY <1>1, <1>11 DEF Queued
<1>15. Unborn' /\ SizesRight'
    BY <1>1, <1>6 DEF Unborn, SizesRight
<1>16. StacksRight'
  <2> SUFFICES ASSUME NEW u \in Thread, NEW r \in DOMAIN processTable', Live(u)', space'[u] = r,
                      stack'[u] # 0
               PROVE  /\ StackPages < stack'[u] /\ stack'[u] <= numPages'[r]
                      /\ \A i \in 1 .. Len(numPageQueue'[r]) :
                            stack'[u] + StackPages <= numPageQueue'[r][i]
      BY DEF StacksRight
  <2>1. CASE u = t
    <3>1. r = s
        BY <1>1, <1>3, <2>1
    <3>2. \A i \in 1 .. 0 : FALSE
        OBVIOUS
    <3> QED BY <1>1, <1>5, <1>6, <1>13, <2>1, <3>1, <3>2
  <2>2. CASE u # t
      BY <1>1, <1>6, <1>7, <2>2 DEF StacksRight
  <2> QED BY <2>1, <2>2
<1>17. StacksApart'
  <2>1. \A u \in Thread \ {t} : Live(u) => space[u] # s
      BY <1>4 DEF LiveIn
  <2> QED BY <1>1, <1>3, <1>6, <1>7, <2>1 DEF StacksApart
<1>18. RunningRight'
    BY <1>4, <1>5, <1>6, <1>9 DEF RunningRight, Running, CallPC
<1>19. StartingRight'
    BY <1>6, <1>9 DEF StartingRight
<1>20. \A u \in Thread : pc'[u] = "startExec" => pc[u] = "startExec" /\ space[u] # s
    BY <1>4, <1>6 DEF LiveIn, Live
<1>21. \A u \in Thread : Forking(u)' =>
               /\ Forking(u) /\ pc'[u] = pc[u] /\ child'[u] = child[u]
               /\ pc[u] = "forking" \/ space[child[u]] # s
  <2> SUFFICES ASSUME NEW u \in Thread, Forking(u)'
               PROVE  /\ Forking(u) /\ pc'[u] = pc[u] /\ child'[u] = child[u]
                      /\ pc[u] = "forking" \/ space[child[u]] # s
      OBVIOUS
  <2>1. Forking(u) /\ pc'[u] = pc[u] /\ child'[u] = child[u]
      BY <1>1, <1>6 DEF Forking
  <2>2. child[u] \in Thread /\ pc[child[u]] = "new" /\ Live(child[u])
      BY <2>1, ChildAtHome
  <2>3. space[child[u]] # s
      BY <1>1, <1>4, <2>2 DEF LiveIn
  <2> QED BY <2>1, <2>3
<1>22. FirstRight' /\ ParentsRight'
    BY <1>1, <1>8, <1>9, <1>20, <1>21, BeginnersKeep
<1> QED BY <1>14, <1>15, <1>16, <1>17, <1>18, <1>19, <1>22

\* A forked thread takes the oldest size.
LEMMA ForkThreadStacks ==
    ASSUME CountInv, StackInv, NEW t \in Thread, ForkThread(t)
    PROVE  StackInv' /\ numPageQueue[space[t]] # <<>>
<1> USE DEF CountInv, StackInv
<1>1. /\ pc[t] = "startFork" /\ stack[t] = 0
      /\ stack' = [stack EXCEPT ![t] = Head(numPageQueue[space[t]])]
      /\ GetNumPages(space[t])
      /\ UNCHANGED <<processTable, numPages, pc, space, child>>
    BY DEF ForkThread
<1>2. Waiting(t)
    BY <1>1 DEF Waiting, StartingRight
<1>3. PICK s \in DOMAIN processTable :
          /\ s = space[t] /\ s \in Space /\ t \in WaitingIn(s)
          /\ Len(numPageQueue[s]) \in Nat \ {0} /\ numPageQueue[s] # <<>>
    BY <1>2, SizeThere
<1>4. PICK q \in Seq(Nat) : q = numPageQueue[s] /\ q # <<>> /\ Len(q) \in Nat \ {0}
    BY <1>3 DEF Types
<1>5. PICK h \in Nat : h = q[1] /\ h = Head(q)
    BY <1>4
<1>z. Tail(q) \in Seq(Nat)
    BY <1>4
<1>6. PICK z \in Seq(Nat) : z = Tail(q)
    BY <1>z, Zenon
<1>7. Len(z) = Len(q) - 1 /\ \A i \in 1 .. Len(z) : z[i] = q[i + 1] /\ i + 1 \in 1 .. Len(q)
    BY <1>4, <1>6
<1>8. /\ numPageQueue'[s] = z
      /\ \A r \in Space \ {s} : numPageQueue'[r] = numPageQueue[r]
  <2>1. GetNumPages(s)
      BY <1>1, <1>3
  <2> QED BY <1>3, <1>4, <1>6, <2>1, QueuePopped
<1>9. stack'[t] = h /\ \A u \in Thread \ {t} : stack'[u] = stack[u]
    BY <1>1, <1>3, <1>4, <1>5 DEF Types
<1>10. PICK k \in Nat : k = numPages[s] /\ StackPages \in Nat
    BY <1>3, ProcessesAssumption DEF Types
<1>11. /\ StackPages < k /\ \A i \in 1 .. Len(q) : StackPages < q[i] /\ q[i] <= k
       /\ \A i, j \in 1 .. Len(q) : i < j => q[i] + StackPages <= q[j]
    BY <1>4, <1>10 DEF SizesRight
<1>12. 1 \in 1 .. Len(q) /\ StackPages < h /\ h <= k /\ h # 0
    BY <1>4, <1>5, <1>10, <1>11
<1>13. \A i \in 1 .. Len(z) : h + StackPages <= z[i]
  <2> SUFFICES ASSUME NEW i \in 1 .. Len(z) PROVE h + StackPages <= z[i]
      OBVIOUS
  <2>1. i + 1 \in 1 .. Len(q) /\ z[i] = q[i + 1] /\ 1 < i + 1
      BY <1>7
  <2>2. q[1] + StackPages <= q[i + 1]
      BY <1>11, <1>12, <2>1
  <2> QED BY <1>5, <2>1, <2>2
<1>14. \A u : (Live(u)' <=> Live(u)) /\ Pair(u)' = Pair(u)
    BY <1>1 DEF Live, Pair
<1>15. \A r : LiveIn(r)' = LiveIn(r)
    BY <1>1 DEF LiveIn, Live
<1>16. ~Waiting(t)' /\ \A u \in Thread \ {t} : Waiting(u)' <=> Waiting(u)
    BY <1>1, <1>9, <1>12, <1>14 DEF Waiting
<1>17. WaitingIn(s)' = WaitingIn(s) \ {t} /\ \A r : r # s => WaitingIn(r)' = WaitingIn(r)
  <2>1. \A r : t \in LiveIn(r) => r = s
      BY <1>3 DEF LiveIn
  <2>2. \A r : LiveIn(r) \subseteq Thread
      BY DEF LiveIn
  <2> QED BY <1>15, <1>16, <2>1, <2>2 DEF WaitingIn
<1>r. \A r \in DOMAIN processTable : r \in Space
    BY DEF Types
<1>18. Queued'
  <2>1. PICK W : W = WaitingIn(s)
      OBVIOUS
  <2>2. IsFiniteSet(W) /\ t \in W
      BY <1>3, <2>1, WaitingFinite
  <2>3. Cardinality(W \ {t}) = Cardinality(W) - 1
      BY <2>2, FS_RemoveElement
  <2>4. Len(q) = Cardinality(W)
      BY <1>4, <2>1 DEF Queued
  <2>5. Len(numPageQueue'[s]) = Cardinality(WaitingIn(s)')
      BY <1>7, <1>8, <1>17, <2>1, <2>3, <2>4
  <2>6. \A r \in DOMAIN processTable \ {s} : Len(numPageQueue'[r]) = Cardinality(WaitingIn(r)')
      BY <1>8, <1>17, <1>r DEF Queued
  <2> QED BY <1>1, <2>5, <2>6 DEF Queued
<1>19. Unborn'
    BY <1>1, <1>9 DEF Unborn
<1>20. SizesRight'
  <2> SUFFICES ASSUME NEW r \in DOMAIN processTable'
               PROVE  /\ StackPages < numPages'[r]
                      /\ \A i \in 1 .. Len(numPageQueue'[r]) :
                            StackPages < numPageQueue'[r][i] /\ numPageQueue'[r][i] <= numPages'[r]
                      /\ \A i, j \in 1 .. Len(numPageQueue'[r]) :
                            i < j => numPageQueue'[r][i] + StackPages <= numPageQueue'[r][j]
      BY DEF SizesRight
  <2>1. CASE r = s
    <3>1. \A i \in 1 .. Len(z) : StackPages < z[i] /\ z[i] <= k
        BY <1>7, <1>11
    <3>2. ASSUME NEW i \in 1 .. Len(z), NEW j \in 1 .. Len(z), i < j
          PROVE  z[i] + StackPages <= z[j]
      <4>1. /\ i + 1 \in 1 .. Len(q) /\ j + 1 \in 1 .. Len(q)
            /\ z[i] = q[i + 1] /\ z[j] = q[j + 1]
          BY <1>7
      <4>2. i + 1 < j + 1
          BY <3>2
      <4> QED BY <1>11, <4>1, <4>2
    <3> QED BY <1>1, <1>8, <1>10, <1>11, <2>1, <3>1, <3>2
  <2>2. CASE r \in DOMAIN processTable \ {s}
      BY <1>1, <1>8, <1>r, <2>2 DEF SizesRight
  <2> QED BY <1>1, <2>1, <2>2
<1>21. \A u \in Thread \ {t} : Live(u) /\ space[u] = s /\ stack[u] # 0 =>
           /\ StackPages < stack[u] /\ stack[u] <= k
           /\ \A i \in 1 .. Len(q) : stack[u] + StackPages <= q[i]
    BY <1>4, <1>10 DEF StacksRight
<1>22. StacksRight'
  <2> SUFFICES ASSUME NEW u \in Thread, NEW r \in DOMAIN processTable', Live(u)', space'[u] = r,
                      stack'[u] # 0
               PROVE  /\ StackPages < stack'[u] /\ stack'[u] <= numPages'[r]
                      /\ \A i \in 1 .. Len(numPageQueue'[r]) :
                            stack'[u] + StackPages <= numPageQueue'[r][i]
      BY DEF StacksRight
  <2>1. CASE u = t
      BY <1>1, <1>3, <1>8, <1>9, <1>10, <1>12, <1>13, <2>1
  <2>2. CASE u # t /\ r = s
    <3>1. /\ StackPages < stack[u] /\ stack[u] <= k
          /\ \A i \in 1 .. Len(q) : stack[u] + StackPages <= q[i]
        BY <1>1, <1>9, <1>14, <1>21, <2>2
    <3>2. \A i \in 1 .. Len(z) : stack[u] + StackPages <= z[i]
        BY <1>7, <3>1
    <3> QED BY <1>1, <1>8, <1>9, <1>10, <2>2, <3>1, <3>2
  <2>3. CASE u # t /\ r # s
      BY <1>1, <1>8, <1>9, <1>14, <1>r, <2>3 DEF StacksRight
  <2> QED BY <2>1, <2>2, <2>3
<1>23. StacksApart'
  <2>1. \A u \in Thread \ {t} : Live(u) /\ space[u] = s /\ stack[u] # 0 =>
            stack[u] + StackPages <= h
      BY <1>5, <1>12, <1>21
  <2> QED BY <1>1, <1>3, <1>9, <1>14, <2>1 DEF StacksApart
<1>24. RunningRight'
    BY <1>1, <1>9, <1>14 DEF RunningRight, Running, CallPC
<1>25. StartingRight'
    BY <1>1, <1>9, <1>14 DEF StartingRight
<1>26. t \in LiveIn(s)
    BY <1>3 DEF WaitingIn
<1>27. /\ \A u \in Thread : pc[u] = "startExec" => space[u] # s
       /\ \A u \in Thread : pc[u] \in {"named", "pair"} => space[child[u]] # s
    BY <1>1, <1>26, Shared
<1>28. \A r \in DOMAIN processTable' \ {s} :
               /\ LiveIn(r)' = LiveIn(r) /\ numPages'[r] = numPages[r]
               /\ numPageQueue'[r] = numPageQueue[r]
    BY <1>1, <1>8, <1>15, <1>r
<1>29. \A u \in Thread : Forking(u)' =>
               /\ Forking(u) /\ pc'[u] = pc[u] /\ child'[u] = child[u]
               /\ pc[u] = "forking" \/ space[child[u]] # s
    BY <1>1, <1>27 DEF Forking
<1>30. FirstRight' /\ ParentsRight'
    BY <1>1, <1>14, <1>27, <1>28, <1>29, BeginnersKeep
<1>31. numPageQueue[space[t]] # <<>>
    BY <1>3
<1> QED BY <1>18, <1>19, <1>20, <1>22, <1>23, <1>24, <1>25, <1>30, <1>31

\* A forked thread records its stack and runs.
LEMMA ForkRunsStacks ==
    ASSUME CountInv, StackInv, NEW t \in Thread, ForkThreadRuns(t)
    PROVE  StackInv'
<1> USE DEF CountInv, StackInv
<1>1. pc[t] = "startFork" /\ stack[t] # 0 /\ Live(t)
    BY DEF ForkThreadRuns, Live
<1>2. PICK s \in DOMAIN processTable : s = space[t] /\ s \in Space
    BY <1>1, AtHome
<1>3. PICK n \in Nat : n = stack[t]
    BY DEF Types
<1>4. processTable' = [processTable EXCEPT ![s].threadStacks[t] = n]
    BY <1>2, <1>3 DEF ForkThreadRuns
<1>5. /\ pc' = [pc EXCEPT ![t] = "user"]
      /\ UNCHANGED <<numPages, numPageQueue, space, stack, child>>
    BY DEF ForkThreadRuns, Goes
<1>t. Types
    OBVIOUS
<1>6. /\ DOMAIN processTable' = DOMAIN processTable
      /\ processTable' \in [DOMAIN processTable -> Process]
      /\ processTable'[s].numThreads = processTable[s].numThreads
      /\ processTable'[s].threadStacks[t] = n
      /\ \A u \in Thread \ {t} :
            processTable'[s].threadStacks[u] = processTable[s].threadStacks[u]
      /\ \A r \in DOMAIN processTable \ {s} : processTable'[r] = processTable[r]
    BY <1>t, <1>4, SetStack
<1>7. pc'[t] = "user" /\ \A u \in Thread \ {t} : pc'[u] = pc[u]
    BY <1>5 DEF Types
<1>8. \A u \in Thread : Live(u)' <=> Live(u)
    BY <1>1, <1>7 DEF Live
<1>9. \A r : LiveIn(r)' = LiveIn(r)
    BY <1>5, <1>8 DEF LiveIn
<1>10. Pair(t)' = n
    BY <1>2, <1>5, <1>6 DEF Pair
<1>11. \A u \in Thread \ {t} : Live(u) => Pair(u)' = Pair(u)
  <2> SUFFICES ASSUME NEW u \in Thread \ {t}, Live(u) PROVE Pair(u)' = Pair(u)
      OBVIOUS
  <2>1. PICK r \in DOMAIN processTable : r = space[u]
      BY AtHome
  <2>2. processTable'[r].threadStacks[u] = processTable[r].threadStacks[u]
      BY <1>6
  <2> QED BY <1>5, <2>1, <2>2 DEF Pair
<1>12. \A u \in Thread : Live(u) => (Waiting(u)' <=> Waiting(u))
    BY <1>1, <1>5, <1>7, <1>11 DEF Waiting
<1>13. \A r : WaitingIn(r)' = WaitingIn(r)
    BY <1>9, <1>12 DEF WaitingIn, LiveIn
<1>14. Queued' /\ SizesRight'
    BY <1>5, <1>6, <1>13 DEF Queued, SizesRight
<1>15. Unborn'
  <2> SUFFICES ASSUME NEW u \in Thread, pc'[u] = "none"
               PROVE  /\ stack'[u] = 0
                      /\ \A r \in DOMAIN processTable' : processTable'[r].threadStacks[u] = 0
      BY DEF Unborn
  <2>1. pc[u] = "none" /\ u # t
      BY <1>7
  <2> QED BY <1>5, <1>6, <2>1 DEF Unborn
<1>16. StacksRight'
    BY <1>5, <1>6, <1>8 DEF StacksRight
<1>17. StacksApart'
    BY <1>5, <1>8 DEF StacksApart
<1>18. RunningRight'
  <2>1. \A u \in Thread \ {t} : Running(u)' => Running(u) /\ Live(u)
      BY <1>7 DEF Running, CallPC, Live
  <2> QED BY <1>1, <1>3, <1>5, <1>10, <1>11, <2>1 DEF RunningRight
<1>19. StartingRight'
  <2>1. \A u \in Thread : pc'[u] \in {"new", "startExec", "startFork"} =>
            u # t /\ pc'[u] = pc[u] /\ Live(u)
      BY <1>7 DEF Live
  <2> QED BY <1>5, <1>11, <2>1 DEF StartingRight
<1>20. t \in LiveIn(s)
    BY <1>1, <1>2 DEF LiveIn
<1>21. /\ \A u \in Thread : pc[u] = "startExec" => space[u] # s
       /\ \A u \in Thread : pc[u] \in {"named", "pair"} => space[child[u]] # s
    BY <1>1, <1>20, Shared
<1>22. \A u \in Thread : pc'[u] = "startExec" => pc[u] = "startExec" /\ space[u] # s
    BY <1>7, <1>21
<1>23. \A u \in Thread : Forking(u)' =>
               /\ Forking(u) /\ pc'[u] = pc[u] /\ child'[u] = child[u]
               /\ pc[u] = "forking" \/ space[child[u]] # s
    BY <1>5, <1>7, <1>21 DEF Forking
<1>24. \A u \in Thread : pc[u] \in {"new", "startExec"} => Pair(u)' = Pair(u)
    BY <1>1, <1>11 DEF Live
<1>25. FirstRight' /\ ParentsRight'
    BY <1>5, <1>6, <1>9, <1>22, <1>23, <1>24, BeginnersKeep
<1> QED BY <1>14, <1>15, <1>16, <1>17, <1>18, <1>19, <1>25

\* A thread that is not the last of its process gives its stack up.
LEMMA ExitThreadStacks ==
    ASSUME CountInv, StackInv, NEW t \in Thread, ExitThread(t)
    PROVE  StackInv'
<1> USE DEF CountInv, StackInv
<1>1. pc[t] = "exit" /\ Finish(t)
    BY DEF ExitThread
<1>2. PICK s \in DOMAIN processTable :
              /\ s = space[t]
              /\ DOMAIN processTable' = DOMAIN processTable
              /\ processTable' \in [DOMAIN processTable -> Process]
              /\ processTable'[s].numThreads = processTable[s].numThreads - 1
              /\ processTable'[s].threadStacks[t] = 0
              /\ \A u \in Thread \ {t} :
                    processTable'[s].threadStacks[u] = processTable[s].threadStacks[u]
              /\ \A r \in DOMAIN processTable \ {s} : processTable'[r] = processTable[r]
    BY ThreadExited
<1>3. /\ pc'[t] = "finished" /\ \A u \in Thread \ {t} : pc'[u] = pc[u]
      /\ Live(t) /\ ~Live(t)' /\ \A u \in Thread \ {t} : Live(u)' <=> Live(u)
      /\ UNCHANGED <<numPages, numPageQueue, space, stack, child>>
    BY <1>1, Finished
<1>4. LiveIn(s)' = LiveIn(s) \ {t} /\ \A r : r # s => LiveIn(r)' = LiveIn(r)
    BY <1>2, <1>3 DEF LiveIn
<1>5. \A u \in Thread \ {t} : Live(u) => Pair(u)' = Pair(u)
  <2> SUFFICES ASSUME NEW u \in Thread \ {t}, Live(u) PROVE Pair(u)' = Pair(u)
      OBVIOUS
  <2>1. PICK r \in DOMAIN processTable : r = space[u]
      BY AtHome
  <2>2. processTable'[r].threadStacks[u] = processTable[r].threadStacks[u]
      BY <1>2
  <2> QED BY <1>3, <2>1, <2>2 DEF Pair
<1>6. ~Waiting(t) /\ \A u \in Thread \ {t} : Live(u) => (Waiting(u)' <=> Waiting(u))
    BY <1>1, <1>3, <1>5 DEF Waiting
<1>7. \A r : WaitingIn(r)' = WaitingIn(r)
  <2>1. \A r : LiveIn(r)' = LiveIn(r) \ {t}
      BY <1>2, <1>4 DEF LiveIn
  <2> QED BY <1>6, <2>1 DEF WaitingIn, LiveIn
<1>8. Queued' /\ SizesRight'
    BY <1>2, <1>3, <1>7 DEF Queued, SizesRight
<1>9. Unborn'
  <2> SUFFICES ASSUME NEW u \in Thread, pc'[u] = "none"
               PROVE  /\ stack'[u] = 0
                      /\ \A r \in DOMAIN processTable' : processTable'[r].threadStacks[u] = 0
      BY DEF Unborn
  <2>1. pc[u] = "none" /\ u # t
      BY <1>3
  <2> QED BY <1>2, <1>3, <2>1 DEF Unborn
<1>10. StacksRight'
    BY <1>2, <1>3 DEF StacksRight
<1>11. StacksApart'
    BY <1>3 DEF StacksApart
<1>12. RunningRight'
  <2>1. \A u \in Thread : Running(u)' => u # t /\ Running(u) /\ Live(u)
      BY <1>3 DEF Running, CallPC, Live
  <2> QED BY <1>3, <1>5, <2>1 DEF RunningRight
<1>13. StartingRight'
  <2>1. \A u \in Thread : pc'[u] \in {"new", "startExec", "startFork"} =>
            u # t /\ pc'[u] = pc[u] /\ Live(u)
      BY <1>3 DEF Live
  <2> QED BY <1>3, <1>5, <2>1 DEF StartingRight
<1>14. t \in LiveIn(s)
    BY <1>2, <1>3 DEF LiveIn
<1>15. /\ \A u \in Thread : pc[u] = "startExec" => space[u] # s
       /\ \A u \in Thread : pc[u] \in {"named", "pair"} => space[child[u]] # s
    BY <1>1, <1>14, Shared
<1>16. \A u \in Thread : pc'[u] = "startExec" => pc[u] = "startExec" /\ space[u] # s
    BY <1>3, <1>15
<1>17. \A u \in Thread : Forking(u)' =>
               /\ Forking(u) /\ pc'[u] = pc[u] /\ child'[u] = child[u]
               /\ pc[u] = "forking" \/ space[child[u]] # s
    BY <1>3, <1>15 DEF Forking
<1>18. \A u \in Thread : pc[u] \in {"new", "startExec"} => Pair(u)' = Pair(u)
    BY <1>1, <1>5 DEF Live
<1>19. FirstRight' /\ ParentsRight'
    BY <1>2, <1>3, <1>4, <1>16, <1>17, <1>18, BeginnersKeep
<1> QED BY <1>8, <1>9, <1>10, <1>11, <1>12, <1>13, <1>19

\* The last thread of a process takes the process away.
LEMMA ExitProcessStacks ==
    ASSUME CountInv, StackInv, NEW t \in Thread, ExitProcess(t)
    PROVE  StackInv'
<1> USE DEF CountInv, StackInv
<1>1. pc[t] = "exit" /\ ~NotLastThread(space[t]) /\ Finish(t)
      /\ processTable' = Restrict(processTable, DOMAIN processTable \ {space[t]})
    BY DEF ExitProcess
<1>2. PICK s \in DOMAIN processTable : s = space[t] /\ LiveIn(s) = {t}
    BY <1>1, LastAlone
<1>3. /\ pc'[t] = "finished" /\ \A u \in Thread \ {t} : pc'[u] = pc[u]
      /\ Live(t) /\ ~Live(t)' /\ \A u \in Thread \ {t} : Live(u)' <=> Live(u)
      /\ UNCHANGED <<numPages, numPageQueue, space, stack, child>>
    BY <1>1, Finished
<1>4. /\ DOMAIN processTable' = DOMAIN processTable \ {s}
      /\ \A r \in DOMAIN processTable' : processTable'[r] = processTable[r]
    BY <1>1, <1>2 DEF Restrict, Types
<1>5. \A r \in DOMAIN processTable' : LiveIn(r)' = LiveIn(r)
    BY <1>2, <1>3, <1>4 DEF LiveIn
<1>6. \A u \in Thread \ {t} : Live(u) => Pair(u)' = Pair(u) /\ space[u] # s
    BY <1>2, <1>3, <1>4, AtHome DEF Pair, LiveIn
<1>7. \A u \in Thread \ {t} : Live(u) => (Waiting(u)' <=> Waiting(u))
    BY <1>3, <1>6 DEF Waiting
<1>8. \A r \in DOMAIN processTable' : WaitingIn(r)' = WaitingIn(r)
  <2> SUFFICES ASSUME NEW r \in DOMAIN processTable' PROVE WaitingIn(r)' = WaitingIn(r)
      OBVIOUS
  <2>1. \A u \in LiveIn(r) : u \in Thread \ {t} /\ Live(u)
      BY <1>2, <1>4 DEF LiveIn
  <2> QED BY <1>5, <1>7, <2>1 DEF WaitingIn
<1>9. Queued' /\ SizesRight'
    BY <1>3, <1>4, <1>8 DEF Queued, SizesRight
<1>10. Unborn'
    BY <1>3, <1>4 DEF Unborn
<1>11. StacksRight'
    BY <1>3, <1>4 DEF StacksRight
<1>12. StacksApart'
    BY <1>3 DEF StacksApart
<1>13. RunningRight'
  <2>1. \A u \in Thread : Running(u)' => u # t /\ Running(u) /\ Live(u)
      BY <1>3 DEF Running, CallPC, Live
  <2> QED BY <1>3, <1>6, <2>1 DEF RunningRight
<1>14. StartingRight'
  <2>1. \A u \in Thread : pc'[u] \in {"new", "startExec", "startFork"} =>
            u # t /\ pc'[u] = pc[u] /\ Live(u)
      BY <1>3 DEF Live
  <2> QED BY <1>3, <1>6, <2>1 DEF StartingRight
<1>15. t \in LiveIn(s)
    BY <1>2
<1>16. /\ \A u \in Thread : pc[u] = "startExec" => space[u] # s
       /\ \A u \in Thread : pc[u] \in {"named", "pair"} => space[child[u]] # s
    BY <1>1, <1>15, Shared
<1>17. \A u \in Thread : pc'[u] = "startExec" => pc[u] = "startExec" /\ space[u] # s
    BY <1>3, <1>16
<1>18. \A u \in Thread : Forking(u)' =>
               /\ Forking(u) /\ pc'[u] = pc[u] /\ child'[u] = child[u]
               /\ pc[u] = "forking" \/ space[child[u]] # s
    BY <1>3, <1>16 DEF Forking
<1>19. \A u \in Thread : pc[u] \in {"new", "startExec"} => Pair(u)' = Pair(u)
    BY <1>1, <1>6 DEF Live
<1>20. FirstRight' /\ ParentsRight'
    BY <1>3, <1>4, <1>5, <1>17, <1>18, <1>19, BeginnersKeep
<1> QED BY <1>9, <1>10, <1>11, <1>12, <1>13, <1>14, <1>20

\* The last thread of all stops the machine.
LEMMA ExitMachineStacks ==
    ASSUME CountInv, StackInv, NEW t \in Thread, ExitMachine(t)
    PROVE  StackInv'
<1>1. UNCHANGED <<processTable, numPages, numPageQueue, pc, space, stack, child>>
    BY DEF ExitMachine
<1>2. \A u \in Thread : Live(u)' <=> Live(u)
    BY <1>1 DEF Live
<1>3. /\ Queued' /\ Unborn' /\ SizesRight' /\ StacksRight' /\ StacksApart'
      /\ \A r : LiveIn(r)' = LiveIn(r)
      /\ \A u : Pair(u)' = Pair(u)
    BY <1>1, <1>2, Quiet
<1>4. RunningRight' /\ StartingRight' /\ FirstRight'
    BY <1>1, <1>3 DEF StackInv, RunningRight, Running, StartingRight, FirstRight
<1>5. ParentsRight'
    BY <1>1, <1>3 DEF StackInv, ParentsRight, ChildRight, Forking
<1> QED BY <1>3, <1>4, <1>5 DEF StackInv

-----------------------------------------------------------------------------
(***************************************************************************)
(* The theorems.                                                           *)
(***************************************************************************)
ProcessesInv == CountInv /\ StackInv

\* One process with one thread, which runs.
LEMMA InitInv ==
    Init => ProcessesInv
<1> SUFFICES ASSUME Init PROVE ProcessesInv
    OBVIOUS
<1>1. PICK s \in Space, n \in CodePages :
        /\ processTable = [r \in {s} |-> [NewProcess EXCEPT !.threadStacks[Main] = n + StackPages]]
        /\ numPages = [r \in Space |-> IF r = s THEN n + StackPages ELSE 0]
        /\ numPageQueue = [r \in Space |-> <<>>]
        /\ owner = None
        /\ pc = [t \in Thread |-> IF t = Main THEN "user" ELSE "none"]
        /\ space = [t \in Thread |-> IF t = Main THEN s ELSE None]
        /\ stack = [t \in Thread |-> IF t = Main THEN n + StackPages ELSE 0]
        /\ child = [t \in Thread |-> None]
        /\ halted = FALSE
    BY DEF Init
<1>2. PICK m \in Nat : m = n + StackPages /\ StackPages < m /\ m # 0 /\ StackPages \in Nat
    BY ProcessesAssumption
<1>3. Main \in Thread
    BY ProcessesAssumption
<1>4. PICK p : p = [NewProcess EXCEPT !.threadStacks[Main] = m]
    OBVIOUS
<1>5. /\ p \in Process /\ p.numThreads = 1 /\ p.threadStacks[Main] = m
      /\ \A u \in Thread \ {Main} : p.threadStacks[u] = 0
    BY <1>3, <1>4 DEF NewProcess, NoStacks, Process
<1>6. processTable = [r \in {s} |-> p]
    BY <1>1, <1>2, <1>4
<1>7. DOMAIN processTable = {s} /\ processTable[s] = p /\ processTable \in [{s} -> Process]
    BY <1>5, <1>6
<1>8. /\ pc[Main] = "user" /\ \A u \in Thread \ {Main} : pc[u] = "none"
      /\ space[Main] = s /\ stack[Main] = m /\ \A u \in Thread \ {Main} : stack[u] = 0
      /\ numPages[s] = m /\ numPageQueue[s] = <<>>
    BY <1>1, <1>2, <1>3
<1>9. \A u \in Thread : Live(u) <=> u = Main
    BY <1>8 DEF Live
<1>10. LiveThreads = {Main} /\ LiveIn(s) = {Main}
    BY <1>3, <1>8, <1>9 DEF LiveThreads, LiveIn
<1>11. Types
  <2>1. <<>> \in Seq(Nat)
      OBVIOUS
  <2>2. pc \in [Thread -> Places]
      BY <1>1 DEF Places
  <2>3. /\ numPages \in [Space -> Nat] /\ numPageQueue \in [Space -> Seq(Nat)]
        /\ stack \in [Thread -> Nat] /\ space \in [Thread -> Space \cup {None}]
        /\ child \in [Thread -> Thread \cup {None}]
      BY <1>1, <1>2, <2>1
  <2> QED BY <1>1, <1>7, <2>2, <2>3 DEF Types
<1>12. Cardinality({Main}) = 1 /\ IsFiniteSet({Main}) /\ IsFiniteSet({s})
    BY FS_Singleton
<1>13. FewLive /\ Placed /\ Counted /\ HaltedAlone
    BY <1>1, <1>5, <1>7, <1>8, <1>9, <1>10, <1>12 DEF FewLive, Placed, Counted, HaltedAlone
<1>14. \A u \in Thread : ~Forking(u)
    BY <1>8 DEF Forking
<1>15. CountInv
    BY <1>11, <1>13, <1>14 DEF CountInv, ChildrenNew, ChildrenDiffer
<1>16. WaitingIn(s) = {}
    BY <1>8, <1>10 DEF WaitingIn, Waiting
<1>17. Queued
  <2>1. Len(numPageQueue[s]) = 0 /\ Cardinality(WaitingIn(s)) = 0
      BY <1>8, <1>16, FS_EmptySet
  <2> QED BY <1>7, <2>1 DEF Queued
<1>18. Unborn
    BY <1>5, <1>7, <1>8 DEF Unborn
<1>19. SizesRight /\ StacksRight
    BY <1>2, <1>7, <1>8, <1>9 DEF SizesRight, StacksRight
<1>20. StacksApart
    BY <1>9 DEF StacksApart
<1>21. RunningRight
    BY <1>2, <1>3, <1>5, <1>7, <1>8 DEF RunningRight, Running, CallPC, Pair
<1>22. StartingRight /\ FirstRight
    BY <1>8 DEF StartingRight, FirstRight
<1>23. ParentsRight
    BY <1>14 DEF ParentsRight
<1> QED BY <1>15, <1>17, <1>18, <1>19, <1>20, <1>21, <1>22, <1>23 DEF ProcessesInv, StackInv

\* Every step keeps the invariant.
LEMMA StepInv ==
    ASSUME ProcessesInv, ~halted, NEW t \in Thread, KernelStep(t) \/ Call(t)
    PROVE  ProcessesInv'
<1> USE DEF ProcessesInv
<1>1. CASE Exec(t) \/ Exit(t) \/ ExecFails(t)
    BY <1>1, CallCounts, CallStacks
<1>2. CASE ExecCreates(t)
    BY <1>2, CreationCounts, CreationStacks
<1>3. CASE ExecPair(t)
    BY <1>3, PairCounts, PairStacks
<1>4. CASE ExecForks(t) \/ ForkReturns(t)
    BY <1>4, ReturnCounts, ReturnStacks
<1>5. CASE ExecThread(t)
    BY <1>5, ExecThreadCounts, ExecThreadStacks
<1>6. CASE Fork(t)
    BY <1>6, ForkCounts, ForkStacks
<1>7. CASE ForkThread(t)
    BY <1>7, ForkThreadCounts, ForkThreadStacks
<1>8. CASE ForkThreadRuns(t)
    BY <1>8, ForkRunsCounts, ForkRunsStacks
<1>9. CASE ExitThread(t)
    BY <1>9, ExitThreadCounts, ExitThreadStacks
<1>10. CASE ExitProcess(t)
    BY <1>10, ExitProcessCounts, ExitProcessStacks
<1>11. CASE ExitMachine(t)
    BY <1>11, ExitMachineCounts, ExitMachineStacks
<1> QED BY <1>1, <1>2, <1>3, <1>4, <1>5, <1>6, <1>7, <1>8, <1>9, <1>10, <1>11
        DEF KernelStep, Call

\* A step that changes nothing keeps it.
LEMMA StutterInv ==
    ASSUME ProcessesInv, UNCHANGED vars
    PROVE  ProcessesInv'
<1>1. UNCHANGED <<processTable, numPages, numPageQueue, owner, pc, space, stack, child, halted>>
    BY DEF vars
<1>2. Types' /\ FewLive' /\ Placed' /\ Counted' /\ HaltedAlone'
    BY <1>1 DEF ProcessesInv, CountInv, Types, FewLive, LiveThreads, Live, Placed, Counted, LiveIn,
                HaltedAlone
<1>3. ChildrenNew' /\ ChildrenDiffer'
    BY <1>1 DEF ProcessesInv, CountInv, ChildrenNew, ChildrenDiffer, Forking
<1>4. \A u \in Thread : Live(u)' <=> Live(u)
    BY <1>1 DEF Live
<1>5. /\ Queued' /\ Unborn' /\ SizesRight' /\ StacksRight' /\ StacksApart'
      /\ \A r : LiveIn(r)' = LiveIn(r)
      /\ \A u : Pair(u)' = Pair(u)
    BY <1>1, <1>4, Quiet DEF ProcessesInv
<1>6. RunningRight' /\ StartingRight' /\ FirstRight'
    BY <1>1, <1>5 DEF ProcessesInv, StackInv, RunningRight, Running, StartingRight, FirstRight
<1>7. ParentsRight'
    BY <1>1, <1>5 DEF ProcessesInv, StackInv, ParentsRight, ChildRight, Forking
<1> QED BY <1>2, <1>3, <1>5, <1>6, <1>7 DEF ProcessesInv, CountInv, StackInv

(***************************************************************************)
(* The invariant holds throughout every run: the process table counts the  *)
(* threads, and as many sizes wait in a space as threads that will take    *)
(* one (Exec_Syscall, Fork_Syscall, Exit_Syscall, exception.cc).           *)
(***************************************************************************)
THEOREM ProcessesInvariance == Spec => []ProcessesInv
<1>1. Init => ProcessesInv
    BY InitInv
<1>2. ProcessesInv /\ [Next]_vars => ProcessesInv'
  <2> SUFFICES ASSUME ProcessesInv, [Next]_vars PROVE ProcessesInv'
      OBVIOUS
  <2>1. CASE Next
    <3>1. ~halted /\ \E t \in Thread : KernelStep(t) \/ Call(t)
        BY <2>1 DEF Next
    <3>2. PICK t \in Thread : KernelStep(t) \/ Call(t)
        BY <3>1
    <3> QED BY <3>1, <3>2, StepInv
  <2>2. CASE UNCHANGED vars
      BY <2>2, StutterInv
  <2> QED BY <2>1, <2>2
<1> QED BY <1>1, <1>2, PTL DEF Spec

(***************************************************************************)
(* No thread lives in a process that Exit has deleted, numThreads counts   *)
(* the threads of a process exactly, and the machine stops only with the   *)
(* last thread (Exit_Syscall, exception.cc).                               *)
(***************************************************************************)
THEOREM ThreadsAreCounted == Spec => []ThreadsCounted
<1>1. ProcessesInv => ThreadsCounted
    BY CountInvImplies DEF ProcessesInv
<1> QED BY <1>1, ProcessesInvariance, PTL

(***************************************************************************)
(* A thread that runs has the stack its process has recorded for it, and   *)
(* no two threads of a process share a page of their stacks, although they *)
(* take their sizes in whatever order they start (AddrSpace::getNumPages,  *)
(* addrspace.cc; Fork_Thread, exception.cc).                               *)
(***************************************************************************)
THEOREM StacksAreDisjoint == Spec => []StacksDisjoint
<1>1. ProcessesInv => StacksDisjoint
    BY StackInvImplies DEF ProcessesInv
<1> QED BY <1>1, ProcessesInvariance, PTL

=============================================================================
