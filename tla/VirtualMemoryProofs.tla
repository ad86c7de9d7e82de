------------------------ MODULE VirtualMemoryProofs ------------------------
(***************************************************************************)
(* Proofs about VirtualMemory, for any number of address spaces, pages,    *)
(* frames and TLB entries.                                                 *)
(***************************************************************************)
EXTENDS VirtualMemory, FiniteSetTheorems, WellFoundedInduction, TLAPS

-----------------------------------------------------------------------------
(***************************************************************************)
(* The least element, functions of functions, and intervals.               *)
(***************************************************************************)

\* An element that is minimal for < is a least element.
LEMMA MinimalIsLeast ==
    ASSUME NEW T \in SUBSET Nat, NEW R,
           \E x \in T : \A y \in T : ~(<<y, x>> \in R),
           \A x, y \in Nat : <<y, x>> \in R <=> y < x
    PROVE  \E x \in T : \A y \in T : x =< y
<1>1. PICK x \in T : \A y \in T : ~(<<y, x>> \in R)
    OBVIOUS
<1>2. \A y \in T : ~(y < x)
    BY <1>1, Zenon
<1>3. \A y \in T : x =< y
    BY <1>2
<1> QED BY <1>3

\* A search from the first entry up finds the least entry that fits.
LEMMA MinIn ==
    ASSUME NEW T \in SUBSET Nat, T # {}
    PROVE  Min(T) \in T
<1>1. PICK R : R = OpToRel(<, Nat)
    OBVIOUS
<1>2. \E x \in T : \A y \in T : ~(<<y, x>> \in R)
    BY <1>1, WFMin, NatLessThanWellFounded, Zenon
<1>3. \A x, y \in Nat : <<y, x>> \in R <=> y < x
    BY <1>1 DEF OpToRel
<1>4. \E x \in T : \A y \in T : x =< y
    BY <1>2, <1>3, MinimalIsLeast, Zenon
<1> QED BY <1>4 DEF Min

\* The frames and the entries of the TLB.
LEMMA Numbers ==
    /\ NumPhysPages \in Nat \ {0} /\ TLBSize \in Nat \ {0}
    /\ Frame \subseteq Nat /\ Slot \subseteq Nat
    /\ 0 \in Frame /\ 0 \in Slot
    /\ \A k \in Slot : (k + 1) % TLBSize \in Slot
    /\ \A f \in Frame : (f + 1) % NumPhysPages \in Frame
<1>1. NumPhysPages \in Nat \ {0} /\ TLBSize \in Nat \ {0}
    BY VirtualMemoryAssumption
<1>2. \A k \in Slot : (k + 1) % TLBSize \in Slot
    BY <1>1 DEF Slot
<1>3. \A f \in Frame : (f + 1) % NumPhysPages \in Frame
    BY <1>1 DEF Frame
<1> QED BY <1>1, <1>2, <1>3 DEF Frame, Slot

\* Page tables: the pages of an address space are numbered from 0.
Tables == UNION {[0 .. n - 1 -> PageEntry] : n \in Nat}
Contents == UNION {[0 .. n - 1 -> Nat \cup {Unknown}] : n \in Nat}

\* Changing the entry of one page.
LEMMA SetPage ==
    ASSUME NEW pt \in [Space -> Tables], NEW s \in Space, NEW v \in DOMAIN pt[s],
           NEW e \in PageEntry, NEW q, q = [pt EXCEPT ![s][v] = e]
    PROVE  /\ q \in [Space -> Tables]
           /\ \A r \in Space : DOMAIN q[r] = DOMAIN pt[r]
           /\ q[s][v] = e
           /\ \A r \in Space : \A w \in DOMAIN pt[r] :
                 r # s \/ w # v => q[r][w] = pt[r][w]
<1>1. q = [pt EXCEPT ![s] = [pt[s] EXCEPT ![v] = e]]
    OBVIOUS
<1>t. pt[s] \in Tables
    OBVIOUS
<1>2. PICK n \in Nat : pt[s] \in [0 .. n - 1 -> PageEntry]
    BY <1>t, Zenon DEF Tables
<1>3. [pt[s] EXCEPT ![v] = e] \in [0 .. n - 1 -> PageEntry]
    BY <1>2
<1>4. [pt[s] EXCEPT ![v] = e] \in Tables
    BY <1>3 DEF Tables
<1>5. q \in [Space -> Tables]
    BY <1>1, <1>4
<1>6. /\ q[s] = [pt[s] EXCEPT ![v] = e]
      /\ \A r \in Space : r # s => q[r] = pt[r]
    BY <1>1
<1>7. DOMAIN q[s] = DOMAIN pt[s] /\ q[s][v] = e
      /\ \A w \in DOMAIN pt[s] : w # v => q[s][w] = pt[s][w]
    BY <1>2, <1>6
<1> QED BY <1>5, <1>6, <1>7

\* Adding pages at the end of a table, and of what is written in its pages.
LEMMA ExtendTable ==
    ASSUME NEW X, NEW g \in UNION {[0 .. n - 1 -> X] : n \in Nat}, NEW m \in Nat, NEW x \in X
    PROVE  /\ Extended(g, m, x) \in UNION {[0 .. n - 1 -> X] : n \in Nat}
           /\ DOMAIN g \subseteq DOMAIN Extended(g, m, x)
           /\ \A v \in DOMAIN Extended(g, m, x) :
                 Extended(g, m, x)[v] = IF v \in DOMAIN g THEN g[v] ELSE x
           /\ \A h : DOMAIN h = DOMAIN g => DOMAIN Extended(h, m, x) = DOMAIN Extended(g, m, x)
<1>1. PICK n \in Nat : g \in [0 .. n - 1 -> X]
    OBVIOUS
<1>i. 0 \in Int /\ n - 1 \in Int
    OBVIOUS
<1>j. Cardinality(0 .. n - 1) = IF 0 > n - 1 THEN 0 ELSE (n - 1) - 0 + 1
    BY <1>i, FS_Interval, Zenon
<1>2. Cardinality(0 .. n - 1) = n
    BY <1>j
<1>3. Cardinality(DOMAIN g) = n /\ DOMAIN g = 0 .. n - 1
    BY <1>1, <1>2
<1>4. Extended(g, m, x) = [v \in 0 .. n + m - 1 |-> IF v \in DOMAIN g THEN g[v] ELSE x]
    BY <1>3 DEF Extended
<1>5. Extended(g, m, x) \in [0 .. (n + m) - 1 -> X]
    BY <1>1, <1>4
<1>6. n + m \in Nat
    OBVIOUS
<1>7. Extended(g, m, x) \in UNION {[0 .. k - 1 -> X] : k \in Nat}
    BY <1>5, <1>6
<1>8. \A h : DOMAIN h = DOMAIN g => DOMAIN Extended(h, m, x) = 0 .. n + m - 1
    BY <1>3 DEF Extended
<1> QED BY <1>3, <1>4, <1>7, <1>8

-----------------------------------------------------------------------------
(***************************************************************************)
(* The inductive invariant.                                                *)
(***************************************************************************)
Types ==
    /\ processTable \subseteq Space /\ currentSpace \in processTable
    /\ tlb \in [Slot -> TLBEntry] /\ currentTLB \in Slot
    /\ IPT \in [Frame -> IPTEntry] /\ currentIPT \in Frame
    /\ mainMemoryBitMap \subseteq Frame
    /\ mainMemory \in [Frame -> Nat]
    /\ swapFile \in Seq(Nat) /\ Len(swapFile) <= MaxSwap
    /\ halted \in BOOLEAN
    /\ pageTable \in [Space -> Tables] /\ written \in [Space -> Contents]
    /\ \A s \in Space : DOMAIN written[s] = Pages(s)

\* The three parts of FramesAgree.
BitMapRight == mainMemoryBitMap = {f \in Frame : IPT[f].valid}

\* Page v of space s is in frame f, according to the page tables pt.
Lies(pt, s, v, f) == v \in DOMAIN pt[s] /\ pt[s][v].valid /\ pt[s][v].physicalPage = f

\* Page v of space s is in frame f, according to the IPT.
Keeps(f, s, v) == IPT[f].valid /\ IPT[f].owner = s /\ IPT[f].virtualPage = v

OwnersKnow ==
    \A f \in Frame : IPT[f].valid =>
        IPT[f].owner \in processTable /\ Lies(pageTable, IPT[f].owner, IPT[f].virtualPage, f)

PagesKnown ==
    \A s \in Space : \A v \in Pages(s) :
        pageTable[s][v].valid => Keeps(pageTable[s][v].physicalPage, s, v)

\* The two parts of TLBAgrees.
EntriesRight ==
    \A i \in Slot : tlb[i].valid =>
        Lies(pageTable, currentSpace, tlb[i].virtualPage, tlb[i].physicalPage)

EntriesDiffer ==
    \A i, j \in Slot :
        tlb[i].valid /\ tlb[j].valid /\ tlb[i].virtualPage = tlb[j].virtualPage => i = j

VMInv ==
    Types /\ BitMapRight /\ OwnersKnow /\ PagesKnown /\ EntriesRight
    /\ EntriesDiffer

\* The invariant gives the properties of VirtualMemory.
LEMMA VMInvImplies ==
    VMInv => TypeOK /\ FramesAgree /\ TLBAgrees
<1> SUFFICES ASSUME VMInv PROVE TypeOK /\ FramesAgree /\ TLBAgrees
    OBVIOUS
<1> USE DEF VMInv
<1>1. FramesAgree
    BY DEF FramesAgree, BitMapRight, OwnersKnow, PagesKnown, Lies, Keeps, Pages
<1>2. TLBAgrees
    BY DEF TLBAgrees, EntriesRight, EntriesDiffer, Lies, Pages
<1>3. \A s \in Space : pageTable[s] \in [Pages(s) -> PageEntry] /\ written[s] \in [Pages(s) -> Nat \cup {Unknown}]
  <2> SUFFICES ASSUME NEW s \in Space
               PROVE  pageTable[s] \in [Pages(s) -> PageEntry] /\ written[s] \in [Pages(s) -> Nat \cup {Unknown}]
      OBVIOUS
  <2>1. pageTable[s] \in Tables /\ written[s] \in Contents /\ DOMAIN written[s] = Pages(s)
      BY DEF Types
  <2>2. PICK n \in Nat : pageTable[s] \in [0 .. n - 1 -> PageEntry]
      BY <2>1, Zenon DEF Tables
  <2>3. PICK m \in Nat : written[s] \in [0 .. m - 1 -> Nat \cup {Unknown}]
      BY <2>1, Zenon DEF Contents
  <2> QED BY <2>1, <2>2, <2>3 DEF Pages
<1> QED BY <1>1, <1>2, <1>3 DEF TypeOK, Types

\* A page table entry is one.
LEMMA EntryTyped ==
    ASSUME NEW pt \in [Space -> Tables], NEW s \in Space, NEW v \in DOMAIN pt[s]
    PROVE  pt[s][v] \in PageEntry
<1>1. pt[s] \in Tables
    OBVIOUS
<1>2. PICK n \in Nat : pt[s] \in [0 .. n - 1 -> PageEntry]
    BY <1>1, Zenon DEF Tables
<1> QED BY <1>2

-----------------------------------------------------------------------------
(***************************************************************************)
(* The steps of a page fault.                                              *)
(***************************************************************************)

(***************************************************************************)
(* updateTLB overwrites one entry of the TLB, and changes nothing in the   *)
(* IPT but the dirty bit of the frame of the overwritten entry.            *)
(***************************************************************************)
LEMMA UpdateStep ==
    ASSUME NEW t \in [Slot -> TLBEntry], NEW p \in [Frame -> IPTEntry], NEW f \in Frame,
           currentTLB \in Slot, updateTLB(t, p, f)
    PROVE  /\ IPT' \in [Frame -> IPTEntry]
           /\ \A g \in Frame : /\ IPT'[g].owner = p[g].owner
                               /\ IPT'[g].virtualPage = p[g].virtualPage
                               /\ IPT'[g].valid = p[g].valid
                               /\ p[g].dirty => IPT'[g].dirty
           /\ t[currentTLB].dirty => IPT'[t[currentTLB].physicalPage].dirty
           /\ tlb' \in [Slot -> TLBEntry]
           /\ tlb'[currentTLB].virtualPage = p[f].virtualPage
           /\ tlb'[currentTLB].physicalPage = f
           /\ tlb'[currentTLB].valid = p[f].valid
           /\ tlb'[currentTLB].dirty = IPT'[f].dirty
           /\ \A i \in Slot : i # currentTLB => tlb'[i] = t[i]
           /\ currentTLB' = NextEntry /\ currentTLB' \in Slot
<1>1. PICK c \in Slot : c = currentTLB
    OBVIOUS
<1>2. PICK h \in Frame : h = t[c].physicalPage
    BY DEF TLBEntry
<1>3. PICK l : l = [p[h] EXCEPT !.dirty = TRUE]
    OBVIOUS
<1>4. /\ l \in IPTEntry /\ l.owner = p[h].owner /\ l.virtualPage = p[h].virtualPage
      /\ l.valid = p[h].valid /\ l.dirty
    BY <1>3 DEF IPTEntry
<1>5. IPT' = IF t[c].dirty THEN [p EXCEPT ![h] = l] ELSE p
    BY <1>1, <1>2, <1>3 DEF updateTLB, Propagate
<1>6. /\ IPT' \in [Frame -> IPTEntry]
      /\ \A g \in Frame : /\ IPT'[g].owner = p[g].owner
                          /\ IPT'[g].virtualPage = p[g].virtualPage
                          /\ IPT'[g].valid = p[g].valid
                          /\ p[g].dirty => IPT'[g].dirty
      /\ t[c].dirty => IPT'[h].dirty
    BY <1>4, <1>5
<1>7. PICK d : d = [virtualPage |-> p[f].virtualPage, physicalPage |-> f,
                    valid |-> p[f].valid, dirty |-> IPT'[f].dirty]
    OBVIOUS
<1>8. /\ d \in TLBEntry /\ d.virtualPage = p[f].virtualPage /\ d.physicalPage = f
      /\ d.valid = p[f].valid /\ d.dirty = IPT'[f].dirty
    BY <1>6, <1>7 DEF TLBEntry, IPTEntry
<1>9. tlb' = [t EXCEPT ![c] = d]
    BY <1>1, <1>7 DEF updateTLB
<1>10. tlb' \in [Slot -> TLBEntry] /\ tlb'[c] = d /\ \A i \in Slot : i # c => tlb'[i] = t[i]
    BY <1>8, <1>9
<1>11. currentTLB' = NextEntry /\ currentTLB' \in Slot
    BY Numbers DEF updateTLB, NextEntry
<1> QED BY <1>1, <1>2, <1>6, <1>8, <1>10, <1>11

\* What a page fault reads into a frame is a datum.
LEMMA FetchedTyped ==
    ASSUME NEW e \in PageEntry, NEW file \in Seq(Nat)
    PROVE  Fetched(e, file) \in Nat
<1>1. e.location \in Location
    BY DEF PageEntry
<1>2. FromSwap(file, e.swapLocation) \in Nat
    BY DEF FromSwap, Zero
<1>3. CASE e.location = "executable"
    BY <1>3 DEF Fetched, Image
<1>4. CASE e.location = "neither"
    BY <1>4 DEF Fetched, Zero
<1>5. CASE e.location = "swapfile"
    BY <1>2, <1>5 DEF Fetched
<1> QED BY <1>1, <1>3, <1>4, <1>5 DEF Location

(***************************************************************************)
(* No page is in frame f, and the TLB t, the page tables pt and the rest   *)
(* of the IPT agree.                                                       *)
(***************************************************************************)
Vacated(f, t, pt) ==
    /\ t \in [Slot -> TLBEntry]
    /\ pt \in [Space -> Tables]
    /\ \A s \in Space : DOMAIN pt[s] = Pages(s)
    /\ \A g \in Frame \ {f} : IPT[g].valid =>
          IPT[g].owner \in processTable /\ Lies(pt, IPT[g].owner, IPT[g].virtualPage, g)
    /\ \A s \in Space : \A w \in Pages(s) : pt[s][w].valid =>
          pt[s][w].physicalPage # f /\ Keeps(pt[s][w].physicalPage, s, w)
    /\ \A i \in Slot : t[i].valid =>
          Lies(pt, currentSpace, t[i].virtualPage, t[i].physicalPage)
    /\ \A i, j \in Slot :
          t[i].valid /\ t[j].valid /\ t[i].virtualPage = t[j].virtualPage => i = j

(***************************************************************************)
(* IPTMiss brings a page that is not in the TLB into a vacated frame.      *)
(***************************************************************************)
LEMMA Fill ==
    ASSUME Types, NEW v \in 0 .. MaxPages - 1, v \in Pages(currentSpace),
           NEW f \in Frame, NEW t, NEW pt, NEW file \in Seq(Nat), Vacated(f, t, pt),
           ~pt[currentSpace][v].valid,
           \A i \in Slot : t[i].valid => t[i].virtualPage # v,
           IPTMiss(v, f, t, pt, file),
           currentSpace' = currentSpace, processTable' = processTable
    PROVE  /\ IPT' \in [Frame -> IPTEntry] /\ tlb' \in [Slot -> TLBEntry]
           /\ currentTLB' \in Slot /\ mainMemory' \in [Frame -> Nat]
           /\ pageTable' \in [Space -> Tables]
           /\ \A s \in Space : Pages(s)' = Pages(s)
           /\ \A g \in Frame : IPT'[g].valid <=> g = f \/ IPT[g].valid
           /\ OwnersKnow' /\ PagesKnown' /\ EntriesRight' /\ EntriesDiffer'
<1>1. PICK c \in Space : c = currentSpace
    BY DEF Types
<1>2. v \in DOMAIN pt[c] /\ pt \in [Space -> Tables] /\ t \in [Slot -> TLBEntry]
    BY <1>1 DEF Vacated
<1>3. pt[c][v] \in PageEntry
    BY <1>2, EntryTyped
<1>4. PICK e : e = [pt[c][v] EXCEPT !.valid = TRUE, !.physicalPage = f]
    OBVIOUS
<1>5. /\ e \in PageEntry /\ e.valid /\ e.physicalPage = f
      /\ e.location = pt[c][v].location /\ e.swapLocation = pt[c][v].swapLocation
    BY <1>3, <1>4 DEF PageEntry
<1>6. pageTable' = [pt EXCEPT ![c][v] = e]
    BY <1>1, <1>2, <1>3, <1>4 DEF IPTMiss, PageEntry
<1>7. PICK q : q = pageTable'
    OBVIOUS
<1>8. /\ q \in [Space -> Tables]
      /\ \A s \in Space : DOMAIN q[s] = DOMAIN pt[s]
      /\ q[c][v] = e
      /\ \A s \in Space : \A w \in DOMAIN pt[s] : s # c \/ w # v => q[s][w] = pt[s][w]
    BY <1>2, <1>5, <1>6, <1>7, SetPage
<1>9. \A s \in Space : DOMAIN pt[s] = Pages(s) /\ DOMAIN q[s] = Pages(s)
    BY <1>8 DEF Vacated
<1>10. PICK n : n = [owner |-> c, virtualPage |-> v, valid |-> TRUE, dirty |-> FALSE]
    OBVIOUS
<1>11. n \in IPTEntry /\ n.owner = c /\ n.virtualPage = v /\ n.valid
    BY <1>10, VirtualMemoryAssumption DEF IPTEntry
<1>12. PICK p : p = [IPT EXCEPT ![f] = n]
    OBVIOUS
<1>13. p \in [Frame -> IPTEntry] /\ p[f] = n /\ \A g \in Frame \ {f} : p[g] = IPT[g]
    BY <1>11, <1>12 DEF Types
<1>14. updateTLB(t, p, f)
    BY <1>1, <1>10, <1>12 DEF IPTMiss
<1>15. PICK k \in Slot : k = currentTLB
    BY DEF Types
<1>16. /\ IPT' \in [Frame -> IPTEntry]
       /\ \A g \in Frame : /\ IPT'[g].owner = p[g].owner
                           /\ IPT'[g].virtualPage = p[g].virtualPage
                           /\ IPT'[g].valid = p[g].valid
       /\ tlb' \in [Slot -> TLBEntry]
       /\ tlb'[k].virtualPage = p[f].virtualPage
       /\ tlb'[k].physicalPage = f
       /\ tlb'[k].valid = p[f].valid
       /\ \A i \in Slot : i # k => tlb'[i] = t[i]
       /\ currentTLB' \in Slot
    BY <1>2, <1>13, <1>14, <1>15, UpdateStep
<1>17. /\ tlb'[k].virtualPage = v /\ tlb'[k].physicalPage = f /\ tlb'[k].valid
       /\ IPT'[f].owner = c /\ IPT'[f].virtualPage = v /\ IPT'[f].valid
       /\ \A g \in Frame \ {f} : /\ IPT'[g].owner = IPT[g].owner
                                 /\ IPT'[g].virtualPage = IPT[g].virtualPage
                                 /\ IPT'[g].valid = IPT[g].valid
    BY <1>11, <1>13, <1>16
<1>18. \A g \in Frame : IPT[g].valid \in BOOLEAN
    BY DEF Types, IPTEntry
<1>19. \A g \in Frame : IPT'[g].valid <=> g = f \/ IPT[g].valid
    BY <1>17, <1>18
<1>20. PICK x \in Nat : x = Fetched(pageTable[c][v], file)
    BY <1>1, EntryTyped, FetchedTyped DEF Types, Pages
<1>21. mainMemory' \in [Frame -> Nat]
    BY <1>1, <1>20 DEF IPTMiss, Types
<1>22. OwnersKnow'
  <2> SUFFICES ASSUME NEW g \in Frame, IPT'[g].valid
               PROVE  IPT'[g].owner \in processTable
                      /\ Lies(q, IPT'[g].owner, IPT'[g].virtualPage, g)
      BY <1>7 DEF OwnersKnow, Lies
  <2>1. CASE g = f
      BY <2>1, <1>1, <1>2, <1>5, <1>8, <1>17 DEF Lies, Types
  <2>2. CASE g # f
    <3>1. IPT[g].valid /\ IPT'[g].owner = IPT[g].owner /\ IPT'[g].virtualPage = IPT[g].virtualPage
        BY <1>17, <2>2
    <3>2. IPT[g].owner \in processTable /\ Lies(pt, IPT[g].owner, IPT[g].virtualPage, g)
        BY <2>2, <3>1 DEF Vacated
    <3>3. PICK s \in Space : s = IPT[g].owner
        BY <3>2 DEF Types
    <3>4. PICK w \in DOMAIN pt[s] : w = IPT[g].virtualPage
        BY <3>2, <3>3 DEF Lies
    <3>5. pt[s][w].valid /\ pt[s][w].physicalPage = g
        BY <3>2, <3>3, <3>4 DEF Lies
    <3>6. s # c \/ w # v
        BY <3>5, <1>1
    <3>7. q[s][w] = pt[s][w] /\ w \in DOMAIN q[s]
        BY <1>8, <3>6
    <3> QED BY <3>1, <3>2, <3>3, <3>4, <3>5, <3>7 DEF Lies
  <2> QED BY <2>1, <2>2
<1>23. PagesKnown'
  <2> SUFFICES ASSUME NEW s \in Space, NEW w \in DOMAIN pt[s], q[s][w].valid
               PROVE  /\ IPT'[q[s][w].physicalPage].valid
                      /\ IPT'[q[s][w].physicalPage].owner = s
                      /\ IPT'[q[s][w].physicalPage].virtualPage = w
      BY <1>7, <1>8 DEF PagesKnown, Keeps, Pages
  <2>1. CASE s = c /\ w = v
      BY <2>1, <1>5, <1>8, <1>17
  <2>2. CASE s # c \/ w # v
    <3>1. q[s][w] = pt[s][w] /\ pt[s][w].valid /\ pt[s][w] \in PageEntry
        BY <1>2, <1>8, <2>2, EntryTyped
    <3>2. PICK g \in Frame : g = pt[s][w].physicalPage
        BY <3>1 DEF PageEntry
    <3>3. g # f /\ Keeps(g, s, w)
        BY <1>9, <3>1, <3>2 DEF Vacated
    <3> QED BY <1>17, <3>1, <3>2, <3>3 DEF Keeps
  <2> QED BY <2>1, <2>2
<1>24. EntriesRight'
  <2> SUFFICES ASSUME NEW i \in Slot, tlb'[i].valid
               PROVE  Lies(q, c, tlb'[i].virtualPage, tlb'[i].physicalPage)
      BY <1>1, <1>7 DEF EntriesRight, Lies
  <2>1. CASE i = k
      BY <2>1, <1>2, <1>5, <1>8, <1>17 DEF Lies
  <2>2. CASE i # k
    <3>1. tlb'[i] = t[i] /\ t[i].valid
        BY <1>16, <2>2
    <3>2. Lies(pt, c, t[i].virtualPage, t[i].physicalPage)
        BY <1>1, <3>1 DEF Vacated
    <3>3. PICK w \in DOMAIN pt[c] : w = t[i].virtualPage
        BY <3>2 DEF Lies
    <3>4. w # v
        BY <3>1, <3>3
    <3>5. q[c][w] = pt[c][w] /\ w \in DOMAIN q[c]
        BY <1>8, <3>4
    <3> QED BY <3>1, <3>2, <3>3, <3>5 DEF Lies
  <2> QED BY <2>1, <2>2
<1>25. EntriesDiffer'
  <2> SUFFICES ASSUME NEW i \in Slot, NEW j \in Slot, tlb'[i].valid, tlb'[j].valid,
                      tlb'[i].virtualPage = tlb'[j].virtualPage
               PROVE  i = j
      BY DEF EntriesDiffer
  <2>1. \A h \in Slot : h # k => tlb'[h] = t[h]
      BY <1>16
  <2>2. \A h \in Slot : h # k /\ tlb'[h].valid => tlb'[h].virtualPage # v
      BY <2>1
  <2>3. CASE i = k \/ j = k
      BY <2>2, <2>3, <1>17
  <2>4. CASE i # k /\ j # k
      BY <2>1, <2>4 DEF Vacated
  <2> QED BY <2>3, <2>4
<1>26. \A s \in Space : Pages(s)' = Pages(s)
    BY <1>7, <1>9 DEF Pages
<1> QED BY <1>7, <1>8, <1>16, <1>19, <1>20, <1>21, <1>22, <1>23, <1>24, <1>25, <1>26

(***************************************************************************)
(* HandleMemoryFull vacates the frame that it evicts: the page table of    *)
(* the owner of the page and the TLB forget the frame.                     *)
(***************************************************************************)
LEMMA EvictVacates ==
    ASSUME VMInv, NEW f \in Frame, IPT[f].valid, NEW s \in Space, s = IPT[f].owner,
           NEW v, v = IPT[f].virtualPage,
           DirtyAtEviction(f) => Len(swapFile) < MaxSwap
    PROVE  /\ v \in Pages(s) /\ pageTable[s][v].valid /\ pageTable[s][v].physicalPage = f
           /\ Vacated(f, WithoutFrame(f), Evicted(f))
           /\ \A i \in Slot : /\ WithoutFrame(f)[i].valid <=> tlb[i].valid /\ tlb[i].physicalPage # f
                              /\ WithoutFrame(f)[i].virtualPage = tlb[i].virtualPage
                              /\ WithoutFrame(f)[i].physicalPage = tlb[i].physicalPage
                              /\ WithoutFrame(f)[i].dirty = tlb[i].dirty
           /\ \A r \in Space : \A w \in Pages(r) :
                 r # s \/ w # v => Evicted(f)[r][w] = pageTable[r][w]
           /\ ~Evicted(f)[s][v].valid
           /\ DirtyAtEviction(f) => /\ Evicted(f)[s][v].location = "swapfile"
                                    /\ Evicted(f)[s][v].swapLocation = Len(swapFile) + 1
           /\ ~DirtyAtEviction(f) =>
                 /\ Evicted(f)[s][v].location = pageTable[s][v].location
                 /\ Evicted(f)[s][v].swapLocation = pageTable[s][v].swapLocation
<1> USE DEF VMInv
<1>1. s \in processTable /\ Lies(pageTable, s, v, f)
    BY DEF OwnersKnow
<1>2. v \in DOMAIN pageTable[s] /\ pageTable[s][v].valid /\ pageTable[s][v].physicalPage = f
    BY <1>1 DEF Lies
<1>3. pageTable[s][v] \in PageEntry /\ pageTable \in [Space -> Tables]
    BY <1>2, EntryTyped DEF Types
<1>4. PICK e : e = IF DirtyAtEviction(f)
                   THEN [pageTable[s][v] EXCEPT !.valid = FALSE, !.location = "swapfile",
                                                !.swapLocation = Len(swapFile) + 1]
                   ELSE [pageTable[s][v] EXCEPT !.valid = FALSE]
    OBVIOUS
<1>5. /\ e \in PageEntry /\ ~e.valid
      /\ DirtyAtEviction(f) => e.location = "swapfile" /\ e.swapLocation = Len(swapFile) + 1
      /\ ~DirtyAtEviction(f) => /\ e.location = pageTable[s][v].location
                                /\ e.swapLocation = pageTable[s][v].swapLocation
  <2>1. Len(swapFile) \in Nat /\ MaxSwap \in Nat
      BY VirtualMemoryAssumption DEF Types
  <2>2. CASE DirtyAtEviction(f)
    <3>1. Len(swapFile) + 1 \in SwapSlot
        BY <2>1, <2>2 DEF SwapSlot
    <3> QED BY <1>3, <1>4, <2>2, <3>1 DEF PageEntry, Location
  <2>3. CASE ~DirtyAtEviction(f)
      BY <1>3, <1>4, <2>3 DEF PageEntry
  <2> QED BY <2>2, <2>3
<1>6. PICK q : q = Evicted(f)
    OBVIOUS
<1>7. q = [pageTable EXCEPT ![s][v] = e]
    BY <1>2, <1>3, <1>4, <1>6 DEF Evicted
<1>8. /\ q \in [Space -> Tables]
      /\ \A r \in Space : DOMAIN q[r] = DOMAIN pageTable[r]
      /\ q[s][v] = e
      /\ \A r \in Space : \A w \in DOMAIN pageTable[r] : r # s \/ w # v => q[r][w] = pageTable[r][w]
    BY <1>2, <1>3, <1>5, <1>7, SetPage
<1>9. PICK t : t = WithoutFrame(f)
    OBVIOUS
<1>10. \A i \in Slot : tlb[i] \in TLBEntry
    BY DEF Types
<1>11. \A i \in Slot : /\ t[i].valid <=> tlb[i].valid /\ tlb[i].physicalPage # f
                       /\ t[i].virtualPage = tlb[i].virtualPage
                       /\ t[i].physicalPage = tlb[i].physicalPage
                       /\ t[i].dirty = tlb[i].dirty
                       /\ t[i] \in TLBEntry
  <2> SUFFICES ASSUME NEW i \in Slot
               PROVE  /\ t[i].valid <=> tlb[i].valid /\ tlb[i].physicalPage # f
                      /\ t[i].virtualPage = tlb[i].virtualPage
                      /\ t[i].physicalPage = tlb[i].physicalPage
                      /\ t[i].dirty = tlb[i].dirty
                      /\ t[i] \in TLBEntry
      OBVIOUS
  <2>1. PICK l \in TLBEntry : l = tlb[i]
      BY <1>10
  <2>2. PICK b \in BOOLEAN : b = (l.valid /\ i \notin Entries(f))
      OBVIOUS
  <2>3. t[i] = [l EXCEPT !.valid = b]
      BY <1>9, <2>1, <2>2 DEF WithoutFrame
  <2>4. t[i] \in TLBEntry /\ t[i].valid = b /\ t[i].virtualPage = l.virtualPage
        /\ t[i].physicalPage = l.physicalPage /\ t[i].dirty = l.dirty
      BY <2>3 DEF TLBEntry
  <2>5. i \notin Entries(f) <=> tlb[i].physicalPage # f
      BY DEF Entries
  <2> QED BY <2>1, <2>2, <2>4, <2>5
<1>12. t \in [Slot -> TLBEntry]
    BY <1>9, <1>11 DEF WithoutFrame
<1>13. \A g \in Frame \ {f} : IPT[g].valid =>
          IPT[g].owner \in processTable /\ Lies(q, IPT[g].owner, IPT[g].virtualPage, g)
  <2> SUFFICES ASSUME NEW g \in Frame, g # f, IPT[g].valid
               PROVE  IPT[g].owner \in processTable /\ Lies(q, IPT[g].owner, IPT[g].virtualPage, g)
      OBVIOUS
  <2>1. IPT[g].owner \in processTable /\ Lies(pageTable, IPT[g].owner, IPT[g].virtualPage, g)
      BY DEF OwnersKnow
  <2>2. PICK r \in Space : r = IPT[g].owner
      BY <2>1 DEF Types
  <2>3. PICK w \in DOMAIN pageTable[r] : w = IPT[g].virtualPage
      BY <2>1, <2>2 DEF Lies
  <2>4. pageTable[r][w].valid /\ pageTable[r][w].physicalPage = g
      BY <2>1, <2>2, <2>3 DEF Lies
  <2>5. r # s \/ w # v
      BY <1>2, <2>4
  <2>6. q[r][w] = pageTable[r][w] /\ w \in DOMAIN q[r]
      BY <1>8, <2>5
  <2> QED BY <2>1, <2>2, <2>3, <2>4, <2>6 DEF Lies
<1>14. \A r \in Space : \A w \in Pages(r) : q[r][w].valid =>
          q[r][w].physicalPage # f /\ Keeps(q[r][w].physicalPage, r, w)
  <2> SUFFICES ASSUME NEW r \in Space, NEW w \in DOMAIN pageTable[r], q[r][w].valid
               PROVE  q[r][w].physicalPage # f /\ Keeps(q[r][w].physicalPage, r, w)
      BY DEF Pages
  <2>1. r # s \/ w # v
      BY <1>5, <1>8
  <2>2. q[r][w] = pageTable[r][w]
      BY <1>8, <2>1
  <2>3. Keeps(pageTable[r][w].physicalPage, r, w)
      BY <2>2 DEF PagesKnown, Pages
  <2> QED BY <2>1, <2>2, <2>3 DEF Keeps
<1>15. \A i \in Slot : t[i].valid => Lies(q, currentSpace, t[i].virtualPage, t[i].physicalPage)
  <2> SUFFICES ASSUME NEW i \in Slot, t[i].valid
               PROVE  Lies(q, currentSpace, t[i].virtualPage, t[i].physicalPage)
      OBVIOUS
  <2>1. tlb[i].valid /\ tlb[i].physicalPage # f
      BY <1>11
  <2>2. Lies(pageTable, currentSpace, tlb[i].virtualPage, tlb[i].physicalPage)
      BY <2>1 DEF EntriesRight
  <2>3. PICK c \in Space : c = currentSpace
      BY DEF Types
  <2>4. PICK w \in DOMAIN pageTable[c] : w = tlb[i].virtualPage
      BY <2>2, <2>3 DEF Lies
  <2>5. pageTable[c][w].valid /\ pageTable[c][w].physicalPage = tlb[i].physicalPage
      BY <2>2, <2>3, <2>4 DEF Lies
  <2>6. c # s \/ w # v
      BY <1>2, <2>1, <2>5
  <2>7. q[c][w] = pageTable[c][w] /\ w \in DOMAIN q[c]
      BY <1>8, <2>6
  <2> QED BY <1>11, <2>3, <2>4, <2>5, <2>7 DEF Lies
<1>16. \A i, j \in Slot :
          t[i].valid /\ t[j].valid /\ t[i].virtualPage = t[j].virtualPage => i = j
    BY <1>11 DEF EntriesDiffer
<1>17. Vacated(f, t, q)
    BY <1>8, <1>12, <1>13, <1>14, <1>15, <1>16 DEF Vacated, Pages
<1> QED BY <1>2, <1>5, <1>6, <1>8, <1>9, <1>11, <1>17 DEF Pages

-----------------------------------------------------------------------------
(***************************************************************************)
(* One step per action.                                                    *)
(***************************************************************************)

\* An instruction writes into the frame of its page.
LEMMA WriteKeeps ==
    ASSUME VMInv, NEW v \in 0 .. MaxPages - 1, NEW x \in Data, WriteMem(v, x)
    PROVE  VMInv'
<1> USE DEF VMInv
<1>1. PICK k \in Slot : k = Min(Hits(v)) /\ tlb[k].valid /\ tlb[k].virtualPage = v
  <2>1. Hits(v) \in SUBSET Nat /\ Hits(v) # {}
      BY Numbers DEF Hits, WriteMem
  <2>2. Min(Hits(v)) \in Hits(v)
      BY <2>1, MinIn
  <2> QED BY <2>2 DEF Hits
<1>2. PICK l : l = [tlb[k] EXCEPT !.dirty = TRUE]
    OBVIOUS
<1>3. l \in TLBEntry /\ l.valid = tlb[k].valid /\ l.virtualPage = tlb[k].virtualPage
      /\ l.physicalPage = tlb[k].physicalPage
    BY <1>2 DEF TLBEntry, Types
<1>4. tlb' = [tlb EXCEPT ![k] = l]
    BY <1>1, <1>2 DEF WriteMem
<1>5. /\ tlb' \in [Slot -> TLBEntry]
      /\ \A i \in Slot : /\ tlb'[i].valid = tlb[i].valid
                         /\ tlb'[i].virtualPage = tlb[i].virtualPage
                         /\ tlb'[i].physicalPage = tlb[i].physicalPage
    BY <1>3, <1>4 DEF Types
<1>6. PICK f \in Frame : f = tlb[k].physicalPage
    BY DEF Types, TLBEntry
<1>7. mainMemory' \in [Frame -> Nat]
    BY <1>1, <1>6, VirtualMemoryAssumption DEF WriteMem, Types
<1>8. written' \in [Space -> Contents] /\ \A s \in Space : DOMAIN written'[s] = DOMAIN written[s]
  <2>1. PICK c \in Space : c = currentSpace
      BY DEF Types
  <2>2. written[c] \in Contents
      BY DEF Types
  <2>3. PICK n \in Nat : written[c] \in [0 .. n - 1 -> Nat \cup {Unknown}]
      BY <2>2, Zenon DEF Contents
  <2>4. PICK g : g = [written[c] EXCEPT ![v] = x]
      OBVIOUS
  <2>5. g \in [0 .. n - 1 -> Nat \cup {Unknown}] /\ DOMAIN g = DOMAIN written[c]
      BY <2>3, <2>4, VirtualMemoryAssumption
  <2>6. g \in Contents
      BY <2>5, Zenon DEF Contents
  <2>7. written' = [written EXCEPT ![c] = g]
      BY <2>1, <2>4 DEF WriteMem
  <2> QED BY <2>5, <2>6, <2>7 DEF Types
<1>9. /\ UNCHANGED <<processTable, currentSpace, currentTLB, IPT, currentIPT,
                     mainMemoryBitMap, pageTable, swapFile, halted>>
    BY DEF WriteMem
<1>10. Types'
    BY <1>5, <1>7, <1>8, <1>9 DEF Types, Pages
<1>11. BitMapRight'
    BY <1>9 DEF BitMapRight, Pages
<1>12. OwnersKnow' /\ PagesKnown'
    BY <1>9 DEF OwnersKnow, PagesKnown, Lies, Keeps, Pages
<1>13. EntriesRight' /\ EntriesDiffer'
    BY <1>5, <1>9 DEF EntriesRight, EntriesDiffer, Lies
<1> QED BY <1>10, <1>11, <1>12, <1>13

\* A page fault for a page that is in memory.
LEMMA HitKeeps ==
    ASSUME VMInv, NEW v \in 0 .. MaxPages - 1, PageFaultHit(v)
    PROVE  VMInv'
<1> USE DEF VMInv
<1>1. PICK f \in Frame : f = Min(InMemory(v)) /\ Holds(f, v)
  <2>1. InMemory(v) \in SUBSET Nat /\ InMemory(v) # {}
      BY Numbers DEF InMemory, PageFaultHit
  <2>2. Min(InMemory(v)) \in InMemory(v)
      BY <2>1, MinIn
  <2> QED BY <2>2 DEF InMemory
<1>2. updateTLB(tlb, IPT, f)
    BY <1>1 DEF PageFaultHit
<1>3. PICK k \in Slot : k = currentTLB
    BY DEF Types
<1>4. PICK t \in [Slot -> TLBEntry] : t = tlb
    BY DEF Types
<1>5. PICK p \in [Frame -> IPTEntry] : p = IPT
    BY DEF Types
<1>6. /\ IPT' \in [Frame -> IPTEntry]
      /\ \A g \in Frame : /\ IPT'[g].owner = p[g].owner
                          /\ IPT'[g].virtualPage = p[g].virtualPage
                          /\ IPT'[g].valid = p[g].valid
      /\ tlb' \in [Slot -> TLBEntry]
      /\ tlb'[k].virtualPage = p[f].virtualPage
      /\ tlb'[k].physicalPage = f
      /\ tlb'[k].valid = p[f].valid
      /\ \A i \in Slot : i # k => tlb'[i] = t[i]
      /\ currentTLB' \in Slot
    BY <1>2, <1>3, <1>4, <1>5, UpdateStep
<1>7. UNCHANGED <<processTable, currentSpace, currentIPT, mainMemoryBitMap,
                  mainMemory, pageTable, swapFile, halted, written>>
    BY DEF PageFaultHit
<1>8. Types'
    BY <1>6, <1>7 DEF Types, Pages
<1>9. BitMapRight'
    BY <1>5, <1>6, <1>7 DEF BitMapRight, Pages
<1>10. OwnersKnow'
    BY <1>5, <1>6, <1>7 DEF OwnersKnow, Lies
<1>11. PagesKnown'
  <2> SUFFICES ASSUME NEW s \in Space, NEW w \in DOMAIN pageTable[s], pageTable[s][w].valid
               PROVE  /\ IPT'[pageTable[s][w].physicalPage].valid
                      /\ IPT'[pageTable[s][w].physicalPage].owner = s
                      /\ IPT'[pageTable[s][w].physicalPage].virtualPage = w
      BY <1>7 DEF PagesKnown, Keeps, Pages
  <2>1. pageTable[s][w] \in PageEntry
      BY EntryTyped DEF Types
  <2>2. PICK g \in Frame : g = pageTable[s][w].physicalPage
      BY <2>1 DEF PageEntry
  <2>3. Keeps(g, s, w)
      BY <2>2 DEF PagesKnown, Pages
  <2> QED BY <1>5, <1>6, <2>2, <2>3 DEF Keeps
<1>12. tlb'[k].virtualPage = v /\ tlb'[k].physicalPage = f /\ tlb'[k].valid
    BY <1>1, <1>5, <1>6 DEF Holds
<1>13. Lies(pageTable, currentSpace, v, f)
    BY <1>1 DEF Holds, OwnersKnow
<1>14. EntriesRight'
  <2> SUFFICES ASSUME NEW i \in Slot, tlb'[i].valid
               PROVE  Lies(pageTable, currentSpace, tlb'[i].virtualPage, tlb'[i].physicalPage)
      BY <1>7 DEF EntriesRight, Lies
  <2>1. CASE i = k
      BY <2>1, <1>12, <1>13
  <2>2. CASE i # k
      BY <2>2, <1>4, <1>6 DEF EntriesRight
  <2> QED BY <2>1, <2>2
<1>15. EntriesDiffer'
  <2> SUFFICES ASSUME NEW i \in Slot, NEW j \in Slot, tlb'[i].valid, tlb'[j].valid,
                      tlb'[i].virtualPage = tlb'[j].virtualPage
               PROVE  i = j
      BY DEF EntriesDiffer
  <2>1. \A h \in Slot : h # k => tlb'[h] = tlb[h]
      BY <1>4, <1>6
  <2>2. \A h \in Slot : h # k /\ tlb'[h].valid => tlb'[h].virtualPage # v
      BY <2>1 DEF PageFaultHit, Faults, Hits
  <2>3. CASE i = k \/ j = k
      BY <2>2, <2>3, <1>12
  <2>4. CASE i # k /\ j # k
      BY <2>1, <2>4 DEF EntriesDiffer
  <2> QED BY <2>3, <2>4
<1> QED BY <1>8, <1>9, <1>10, <1>11, <1>14, <1>15

\* A page that is in no frame is not valid.
LEMMA MissingInvalid ==
    ASSUME VMInv, NEW v, v \in Pages(currentSpace), InMemory(v) = {}
    PROVE  ~pageTable[currentSpace][v].valid
<1> USE DEF VMInv
<1>1. PICK c \in Space : c = currentSpace
    BY DEF Types
<1>2. SUFFICES ASSUME pageTable[c][v].valid PROVE FALSE
    BY <1>1
<1>3. pageTable[c][v] \in PageEntry
    BY <1>1, EntryTyped DEF Types, Pages
<1>4. PICK g \in Frame : g = pageTable[c][v].physicalPage
    BY <1>3 DEF PageEntry
<1>5. Keeps(g, c, v)
    BY <1>1, <1>2, <1>4 DEF PagesKnown
<1> QED BY <1>1, <1>4, <1>5 DEF Keeps, InMemory, Holds

\* A free frame is vacated.
LEMMA FreeVacated ==
    ASSUME VMInv, NEW f \in Frame, ~IPT[f].valid
    PROVE  Vacated(f, tlb, pageTable)
<1> USE DEF VMInv
<1>1. \A s \in Space : \A w \in Pages(s) : pageTable[s][w].valid =>
          pageTable[s][w].physicalPage # f /\ Keeps(pageTable[s][w].physicalPage, s, w)
    BY DEF PagesKnown, Keeps
<1> QED BY <1>1 DEF Vacated, Types, Pages, OwnersKnow, EntriesRight, EntriesDiffer

\* A page fault takes a free frame.
LEMMA FreeKeeps ==
    ASSUME VMInv, NEW v \in 0 .. MaxPages - 1, PageFaultFree(v)
    PROVE  VMInv'
<1> USE DEF VMInv
<1>1. PICK f \in Frame : f = Min(Frame \ mainMemoryBitMap) /\ f \notin mainMemoryBitMap
  <2>1. Frame \ mainMemoryBitMap \in SUBSET Nat /\ Frame \ mainMemoryBitMap # {}
      BY Numbers DEF PageFaultFree, Types
  <2>2. Min(Frame \ mainMemoryBitMap) \in Frame \ mainMemoryBitMap
      BY <2>1, MinIn
  <2> QED BY <2>2
<1>2. mainMemoryBitMap' = mainMemoryBitMap \cup {f} /\ IPTMiss(v, f, tlb, pageTable, swapFile)
    BY <1>1 DEF PageFaultFree
<1>3. UNCHANGED <<processTable, currentSpace, currentIPT, swapFile, halted, written>>
    BY DEF PageFaultFree
<1>4. ~IPT[f].valid
    BY <1>1 DEF BitMapRight
<1>5. v \in Pages(currentSpace) /\ InMemory(v) = {}
      /\ \A i \in Slot : tlb[i].valid => tlb[i].virtualPage # v
    BY DEF PageFaultFree, Faults, Hits, Pages
<1>6. ~pageTable[currentSpace][v].valid
    BY <1>5, MissingInvalid
<1>7. Vacated(f, tlb, pageTable)
    BY <1>4, FreeVacated
<1>8. PICK t : t = tlb
    OBVIOUS
<1>9. PICK pt : pt = pageTable
    OBVIOUS
<1>10. /\ Vacated(f, t, pt) /\ IPTMiss(v, f, t, pt, swapFile) /\ ~pt[currentSpace][v].valid
       /\ \A i \in Slot : t[i].valid => t[i].virtualPage # v
    BY <1>2, <1>5, <1>6, <1>7, <1>8, <1>9
<1>11. /\ IPT' \in [Frame -> IPTEntry] /\ tlb' \in [Slot -> TLBEntry]
       /\ currentTLB' \in Slot /\ mainMemory' \in [Frame -> Nat]
       /\ pageTable' \in [Space -> Tables]
       /\ \A s \in Space : Pages(s)' = Pages(s)
       /\ \A g \in Frame : IPT'[g].valid <=> g = f \/ IPT[g].valid
       /\ OwnersKnow' /\ PagesKnown' /\ EntriesRight' /\ EntriesDiffer'
  <2>1. swapFile \in Seq(Nat)
      BY DEF Types
  <2> QED BY <1>3, <1>5, <1>10, <2>1, Fill
<1>12. Types'
    BY <1>2, <1>3, <1>11 DEF Types, Pages
<1>14. BitMapRight'
    BY <1>2, <1>11 DEF BitMapRight
<1> QED BY <1>11, <1>12, <1>14

\* A page fault takes the frame of another page.
LEMMA EvictKeeps ==
    ASSUME VMInv, NEW v \in 0 .. MaxPages - 1, NEW f \in Frame, PageFaultEvict(v, f)
    PROVE  VMInv'
<1> USE DEF VMInv
<1>1. /\ mainMemoryBitMap = Frame
      /\ currentIPT' = IF PRand THEN currentIPT ELSE (currentIPT + 1) % NumPhysPages
      /\ swapFile' = IF DirtyAtEviction(f) THEN Append(swapFile, mainMemory[f]) ELSE swapFile
      /\ IPTMiss(v, f, WithoutFrame(f), Evicted(f), swapFile')
      /\ DirtyAtEviction(f) => Len(swapFile) < MaxSwap
      /\ UNCHANGED <<processTable, currentSpace, mainMemoryBitMap, halted, written>>
    BY DEF PageFaultEvict, SwapFileAfter
<1>2. IPT[f].valid
    BY <1>1 DEF BitMapRight
<1>3. v \in Pages(currentSpace) /\ InMemory(v) = {}
      /\ \A i \in Slot : tlb[i].valid => tlb[i].virtualPage # v
    BY DEF PageFaultEvict, Faults, Hits, Pages
<1>4. ~pageTable[currentSpace][v].valid
    BY <1>3, MissingInvalid
<1>5. PICK s \in Space : s = IPT[f].owner
    BY <1>2 DEF OwnersKnow, Types
<1>6. PICK u : u = IPT[f].virtualPage
    OBVIOUS
<1>7. PICK t : t = WithoutFrame(f)
    OBVIOUS
<1>8. PICK pt : pt = Evicted(f)
    OBVIOUS
<1>9. /\ u \in Pages(s) /\ pageTable[s][u].valid
      /\ Vacated(f, t, pt)
      /\ \A i \in Slot : /\ t[i].valid <=> tlb[i].valid /\ tlb[i].physicalPage # f
                         /\ t[i].virtualPage = tlb[i].virtualPage
      /\ \A r \in Space : \A w \in Pages(r) :
            r # s \/ w # u => pt[r][w] = pageTable[r][w]
      /\ DirtyAtEviction(f) => /\ pt[s][u].location = "swapfile"
                               /\ pt[s][u].swapLocation = Len(swapFile) + 1
      /\ ~DirtyAtEviction(f) =>
            /\ pt[s][u].location = pageTable[s][u].location
            /\ pt[s][u].swapLocation = pageTable[s][u].swapLocation
    BY <1>1, <1>2, <1>5, <1>6, <1>7, <1>8, EvictVacates
<1>10. PICK c \in Space : c = currentSpace
    BY DEF Types
<1>11. ~pt[currentSpace][v].valid
  <2>1. v \in Pages(c) /\ ~pageTable[c][v].valid
      BY <1>3, <1>4, <1>10
  <2>2. c # s \/ v # u
      BY <2>1, <1>9
  <2> QED BY <1>9, <1>10, <2>1, <2>2
<1>12. PICK file \in Seq(Nat) : file = swapFile' /\ Len(file) <= MaxSwap
  <2>1. swapFile \in Seq(Nat) /\ mainMemory[f] \in Nat /\ Len(swapFile) \in Nat
        /\ Len(swapFile) <= MaxSwap /\ MaxSwap \in Nat
      BY VirtualMemoryAssumption DEF Types
  <2>2. CASE DirtyAtEviction(f)
      BY <1>1, <2>1, <2>2
  <2>3. CASE ~DirtyAtEviction(f)
      BY <1>1, <2>1, <2>3
  <2> QED BY <2>2, <2>3
<1>13. /\ IPTMiss(v, f, t, pt, file)
       /\ \A i \in Slot : t[i].valid => t[i].virtualPage # v
    BY <1>1, <1>3, <1>7, <1>8, <1>9, <1>12
<1>14. /\ IPT' \in [Frame -> IPTEntry] /\ tlb' \in [Slot -> TLBEntry]
       /\ currentTLB' \in Slot /\ mainMemory' \in [Frame -> Nat]
       /\ pageTable' \in [Space -> Tables]
       /\ \A r \in Space : Pages(r)' = Pages(r)
       /\ \A g \in Frame : IPT'[g].valid <=> g = f \/ IPT[g].valid
       /\ OwnersKnow' /\ PagesKnown' /\ EntriesRight' /\ EntriesDiffer'
    BY <1>1, <1>3, <1>9, <1>11, <1>13, Fill
<1>15. currentIPT' \in Frame
    BY <1>1, Numbers DEF Types
<1>16. Types'
    BY <1>1, <1>12, <1>14, <1>15 DEF Types, Pages
<1>18. BitMapRight'
    BY <1>1, <1>14 DEF BitMapRight
<1> QED BY <1>14, <1>16, <1>18

\* AddrSpace::SaveState leaves no valid entry in the TLB.
LEMMA Saved ==
    ASSUME Types, tlb' = SaveState
    PROVE  tlb' \in [Slot -> TLBEntry] /\ \A i \in Slot : ~tlb'[i].valid
<1>1. \A i \in Slot : [tlb[i] EXCEPT !.valid = FALSE] \in TLBEntry
                      /\ ~[tlb[i] EXCEPT !.valid = FALSE].valid
  <2> SUFFICES ASSUME NEW i \in Slot
               PROVE  [tlb[i] EXCEPT !.valid = FALSE] \in TLBEntry
                      /\ ~[tlb[i] EXCEPT !.valid = FALSE].valid
      OBVIOUS
  <2>1. PICK l \in TLBEntry : l = tlb[i]
      BY DEF Types
  <2> QED BY <2>1 DEF TLBEntry
<1> QED BY <1>1 DEF SaveState

\* The CPU goes to another thread.
LEMMA RunKeeps ==
    ASSUME VMInv, NEW s \in Space, Run(s)
    PROVE  VMInv'
<1> USE DEF VMInv
<1>1. tlb' \in [Slot -> TLBEntry] /\ \A i \in Slot : ~tlb'[i].valid
    BY Saved DEF Run
<1>2. /\ currentSpace' \in processTable
      /\ UNCHANGED <<processTable, currentTLB, IPT, currentIPT, mainMemoryBitMap, mainMemory,
                     pageTable, swapFile, halted, written>>
    BY DEF Run, memoryVars
<1>3. Types' /\ BitMapRight'
    BY <1>1, <1>2 DEF Types, BitMapRight, Pages
<1>4. OwnersKnow' /\ PagesKnown'
    BY <1>2 DEF OwnersKnow, PagesKnown, Lies, Keeps, Pages
<1>5. EntriesRight' /\ EntriesDiffer'
    BY <1>1 DEF EntriesRight, EntriesDiffer
<1> QED BY <1>3, <1>4, <1>5

\* The tables of a new address space, and of one that has gone.
LEMMA NewTables ==
    /\ ProgramTable \in Tables /\ ProgramImage \in Contents
    /\ DOMAIN ProgramTable = DOMAIN ProgramImage
    /\ \A v \in DOMAIN ProgramTable : /\ ~ProgramTable[v].valid
                                      /\ ProgramTable[v].location = "executable"
                                      /\ ProgramImage[v] = Image
    /\ NoPages \in Tables /\ NoPages \in Contents /\ DOMAIN NoPages = {}
    /\ NewPage("neither") \in PageEntry /\ ~NewPage("neither").valid
    /\ NewPage("neither").location = "neither"
<1>1. ProgramPages \in Nat /\ MaxSwap \in Nat
    BY VirtualMemoryAssumption
<1>2. /\ NewPage("executable") \in PageEntry /\ ~NewPage("executable").valid
      /\ NewPage("executable").location = "executable"
      /\ NewPage("neither") \in PageEntry /\ ~NewPage("neither").valid
      /\ NewPage("neither").location = "neither"
    BY <1>1, Numbers DEF NewPage, PageEntry, Location, SwapSlot
<1>3. ProgramTable \in [0 .. ProgramPages - 1 -> PageEntry]
    BY <1>2 DEF ProgramTable
<1>4. ProgramTable \in Tables
    BY <1>1, <1>3, Zenon DEF Tables
<1>5. ProgramImage \in [0 .. ProgramPages - 1 -> Nat \cup {Unknown}]
    BY DEF ProgramImage, Image
<1>6. ProgramImage \in Contents
    BY <1>1, <1>5, Zenon DEF Contents
<1>7. 0 \in Nat /\ 0 .. 0 - 1 = {}
    OBVIOUS
<1>8. NoPages \in [0 .. 0 - 1 -> PageEntry] /\ NoPages \in [0 .. 0 - 1 -> Nat \cup {Unknown}]
    BY <1>7 DEF NoPages
<1>9. NoPages \in Tables /\ NoPages \in Contents
    BY <1>7, <1>8, Zenon DEF Tables, Contents
<1>10. DOMAIN NoPages = {}
    BY DEF NoPages
<1>11. \A v \in DOMAIN ProgramTable : ProgramTable[v] = NewPage("executable")
    BY DEF ProgramTable
<1>12. DOMAIN ProgramTable = DOMAIN ProgramImage
       /\ \A v \in DOMAIN ProgramTable : ProgramImage[v] = Image
    BY DEF ProgramTable, ProgramImage
<1> QED BY <1>2, <1>4, <1>6, <1>9, <1>10, <1>11, <1>12

\* The page tables change for one space, which has no page in memory before and after.
LEMMA TableChanged ==
    ASSUME VMInv, NEW s \in Space, NEW g \in Tables, NEW h \in Contents,
           DOMAIN g = DOMAIN h,
           pageTable' = [pageTable EXCEPT ![s] = g], written' = [written EXCEPT ![s] = h]
    PROVE  /\ pageTable' \in [Space -> Tables] /\ written' \in [Space -> Contents]
           /\ \A r \in Space : DOMAIN written'[r] = Pages(r)'
           /\ pageTable'[s] = g /\ written'[s] = h
           /\ \A r \in Space : r # s => pageTable'[r] = pageTable[r] /\ written'[r] = written[r]
<1>1. pageTable \in [Space -> Tables] /\ written \in [Space -> Contents]
      /\ \A r \in Space : DOMAIN written[r] = DOMAIN pageTable[r]
    BY DEF VMInv, Types, Pages
<1>2. /\ pageTable' \in [Space -> Tables] /\ written' \in [Space -> Contents]
      /\ pageTable'[s] = g /\ written'[s] = h
      /\ \A r \in Space : r # s => pageTable'[r] = pageTable[r] /\ written'[r] = written[r]
    BY <1>1
<1> QED BY <1>1, <1>2 DEF Pages

\* A new process.
LEMMA ExecKeeps ==
    ASSUME VMInv, NEW s \in Space, Exec(s)
    PROVE  VMInv'
<1> USE DEF VMInv
<1>1. /\ s \notin processTable /\ processTable' = processTable \cup {s}
      /\ pageTable' = [pageTable EXCEPT ![s] = ProgramTable]
      /\ written' = [written EXCEPT ![s] = ProgramImage]
      /\ UNCHANGED <<currentSpace, tlb, currentTLB, IPT, currentIPT, mainMemoryBitMap,
                     mainMemory, swapFile, halted>>
    BY DEF Exec, tlbVars, memoryVars
<1>2. PICK g \in Tables : g = ProgramTable
    BY NewTables
<1>3. PICK h \in Contents : h = ProgramImage
    BY NewTables
<1>4. /\ DOMAIN g = DOMAIN h
      /\ \A v \in DOMAIN g : ~g[v].valid /\ g[v].location = "executable"
    BY <1>2, <1>3, NewTables
<1>5. /\ pageTable' \in [Space -> Tables] /\ written' \in [Space -> Contents]
      /\ \A r \in Space : DOMAIN written'[r] = Pages(r)'
      /\ pageTable'[s] = g
      /\ \A r \in Space : r # s => pageTable'[r] = pageTable[r]
    BY <1>1, <1>2, <1>3, <1>4, TableChanged
<1>6. Types'
    BY <1>1, <1>5 DEF Types
<1>8. BitMapRight'
    BY <1>1 DEF BitMapRight
<1>9. OwnersKnow'
  <2> SUFFICES ASSUME NEW f \in Frame, IPT[f].valid
               PROVE  IPT[f].owner \in processTable
                      /\ Lies(pageTable', IPT[f].owner, IPT[f].virtualPage, f)
      BY <1>1 DEF OwnersKnow, Lies
  <2>1. IPT[f].owner \in processTable /\ Lies(pageTable, IPT[f].owner, IPT[f].virtualPage, f)
      BY DEF OwnersKnow
  <2>2. pageTable'[IPT[f].owner] = pageTable[IPT[f].owner]
      BY <1>1, <1>5, <2>1 DEF Types
  <2> QED BY <2>1, <2>2 DEF Lies
<1>10. PagesKnown'
    BY <1>1, <1>4, <1>5 DEF PagesKnown, Keeps, Pages
<1>11. pageTable'[currentSpace] = pageTable[currentSpace]
    BY <1>1, <1>5 DEF Types
<1>12. EntriesRight' /\ EntriesDiffer'
    BY <1>1, <1>11 DEF EntriesRight, EntriesDiffer, Lies
<1> QED BY <1>6, <1>8, <1>9, <1>10, <1>12

(***************************************************************************)
(* allocateStack: every page that was there is where it was, but the slot  *)
(* of a swapped page and with it what the program wrote may be lost.       *)
(***************************************************************************)
LEMMA StackStep ==
    ASSUME VMInv, allocateStack
    PROVE  /\ pageTable' \in [Space -> Tables] /\ written' \in [Space -> Contents]
           /\ \A r \in Space : DOMAIN written'[r] = Pages(r)'
           /\ UNCHANGED <<processTable, currentSpace, tlb, currentTLB, IPT, currentIPT,
                          mainMemoryBitMap, mainMemory, swapFile, halted>>
           /\ \A r \in Space : \A w \in DOMAIN pageTable[r] :
                 /\ w \in DOMAIN pageTable'[r]
                 /\ pageTable'[r][w].valid = pageTable[r][w].valid
                 /\ pageTable'[r][w].physicalPage = pageTable[r][w].physicalPage
                 /\ \/ pageTable'[r][w] = pageTable[r][w] /\ written'[r][w] = written[r][w]
                    \/ written'[r][w] = Unknown
           /\ \A r \in Space : \A w \in DOMAIN pageTable'[r] :
                 \/ w \in DOMAIN pageTable[r]
                 \/ /\ ~pageTable'[r][w].valid /\ pageTable'[r][w].location = "neither"
                    /\ written'[r][w] = Zero
<1>t. Types
    BY DEF VMInv
<1>1. PICK c \in Space : c = currentSpace
    BY <1>t DEF Types
<1>2. PICK g0 \in Tables : g0 = pageTable[c]
    BY <1>t DEF Types
<1>3. PICK h0 \in Contents : h0 = written[c]
    BY <1>t DEF Types
<1>4. PICK e \in PageEntry : e = NewPage("neither") /\ ~e.valid /\ e.location = "neither"
    BY NewTables
<1>5. PICK z \in Nat \cup {Unknown} : z = Zero
    BY DEF Zero
<1>6. PICK m \in Nat : m = StackPages
    BY VirtualMemoryAssumption
<1>7. DOMAIN g0 = DOMAIN h0
    BY <1>2, <1>3, <1>t DEF Types, Pages
<1>8. PICK slot \in [Swapped(c) -> SwapSlot] :
          pageTable' = [pageTable EXCEPT ![c] = Extended(Copied(slot), m, e)]
    BY <1>1, <1>4, <1>6 DEF allocateStack
<1>9. PICK g1 : g1 = Copied(slot)
    OBVIOUS
<1>10. PICK h1 : h1 = Kept
    OBVIOUS
<1>11. g1 \in Tables /\ DOMAIN g1 = DOMAIN g0
       /\ \A v \in DOMAIN g0 : /\ g1[v].valid = g0[v].valid
                               /\ g1[v].physicalPage = g0[v].physicalPage
                               /\ v \notin Swapped(c) => g1[v] = g0[v]
  <2>1. PICK n \in Nat : g0 \in [0 .. n - 1 -> PageEntry]
      BY Zenon DEF Tables
  <2>2. g1 = [v \in 0 .. n - 1 |-> IF v \in Swapped(c)
                                   THEN [g0[v] EXCEPT !.swapLocation = slot[v]] ELSE g0[v]]
      BY <1>1, <1>2, <1>9, <2>1 DEF Copied
  <2>3. ASSUME NEW v \in 0 .. n - 1
        PROVE  /\ g1[v] \in PageEntry
               /\ g1[v].valid = g0[v].valid /\ g1[v].physicalPage = g0[v].physicalPage
               /\ v \notin Swapped(c) => g1[v] = g0[v]
    <3>1. CASE v \in Swapped(c)
      <4>1. PICK k \in SwapSlot : k = slot[v]
          BY <3>1
      <4>2. PICK d \in PageEntry : d = g0[v]
          BY <2>1
      <4>3. g1[v] = [d EXCEPT !.swapLocation = k]
          BY <2>2, <3>1, <4>1, <4>2
      <4> QED BY <3>1, <4>2, <4>3 DEF PageEntry
    <3>2. CASE v \notin Swapped(c)
        BY <2>1, <2>2, <3>2
    <3> QED BY <3>1, <3>2
  <2>4. g1 \in [0 .. n - 1 -> PageEntry]
      BY <2>2, <2>3
  <2>5. g1 \in Tables
      BY <2>4, Zenon DEF Tables
  <2> QED BY <2>1, <2>3, <2>4, <2>5
<1>12. h1 \in Contents /\ DOMAIN h1 = DOMAIN h0
       /\ \A v \in DOMAIN h0 : h1[v] = IF v \in Swapped(c) THEN Unknown ELSE h0[v]
  <2>1. PICK n \in Nat : h0 \in [0 .. n - 1 -> Nat \cup {Unknown}]
      BY Zenon DEF Contents
  <2>2. h1 = [v \in 0 .. n - 1 |-> IF v \in Swapped(c) THEN Unknown ELSE h0[v]]
      BY <1>1, <1>3, <1>10, <2>1 DEF Kept
  <2>3. h1 \in [0 .. n - 1 -> Nat \cup {Unknown}]
      BY <2>1, <2>2
  <2>4. h1 \in Contents
      BY <2>3, Zenon DEF Contents
  <2> QED BY <2>1, <2>2, <2>4
<1>13. PICK g : g = Extended(g1, m, e)
    OBVIOUS
<1>14. PICK h : h = Extended(h1, m, z)
    OBVIOUS
<1>15. g1 \in UNION {[0 .. n - 1 -> PageEntry] : n \in Nat}
       /\ h1 \in UNION {[0 .. n - 1 -> Nat \cup {Unknown}] : n \in Nat}
    BY <1>11, <1>12 DEF Tables, Contents
<1>16. /\ g \in Tables
       /\ DOMAIN g1 \subseteq DOMAIN g
       /\ \A v \in DOMAIN g : g[v] = IF v \in DOMAIN g1 THEN g1[v] ELSE e
    BY <1>13, <1>15, ExtendTable, Zenon DEF Tables
<1>17. h \in Contents /\ \A v \in DOMAIN h : h[v] = IF v \in DOMAIN h1 THEN h1[v] ELSE z
    BY <1>14, <1>15, ExtendTable, Zenon DEF Contents
<1>18. DOMAIN g = DOMAIN h
    BY <1>7, <1>11, <1>12, <1>13, <1>14 DEF Extended
<1>19. /\ pageTable' = [pageTable EXCEPT ![c] = g] /\ written' = [written EXCEPT ![c] = h]
       /\ UNCHANGED <<processTable, currentSpace, tlb, currentTLB, IPT, currentIPT,
                      mainMemoryBitMap, mainMemory, swapFile, halted>>
    BY <1>1, <1>5, <1>6, <1>8, <1>9, <1>10, <1>13, <1>14 DEF allocateStack, tlbVars, memoryVars
<1>20. /\ pageTable' \in [Space -> Tables] /\ written' \in [Space -> Contents]
       /\ \A r \in Space : DOMAIN written'[r] = Pages(r)'
       /\ pageTable'[c] = g /\ written'[c] = h
       /\ \A r \in Space : r # c => pageTable'[r] = pageTable[r] /\ written'[r] = written[r]
    BY <1>16, <1>17, <1>18, <1>19, TableChanged
<1>21. ASSUME NEW r \in Space, NEW w \in DOMAIN pageTable[r]
       PROVE  /\ w \in DOMAIN pageTable'[r]
              /\ pageTable'[r][w].valid = pageTable[r][w].valid
              /\ pageTable'[r][w].physicalPage = pageTable[r][w].physicalPage
              /\ \/ pageTable'[r][w] = pageTable[r][w] /\ written'[r][w] = written[r][w]
                 \/ written'[r][w] = Unknown
  <2>1. CASE r # c
      BY <1>20, <2>1
  <2>2. CASE r = c
    <3>1. w \in DOMAIN g0 /\ w \in DOMAIN g1 /\ w \in DOMAIN g /\ w \in DOMAIN h1 /\ w \in DOMAIN h
        BY <1>2, <1>7, <1>11, <1>12, <1>16, <1>18, <2>2
    <3>2. g[w] = g1[w] /\ h[w] = h1[w]
        BY <1>16, <1>17, <3>1
    <3>3. g1[w].valid = g0[w].valid /\ g1[w].physicalPage = g0[w].physicalPage
          /\ ((g1[w] = g0[w] /\ h1[w] = h0[w]) \/ h1[w] = Unknown)
        BY <1>7, <1>11, <1>12, <3>1
    <3> QED BY <1>2, <1>3, <1>20, <2>2, <3>1, <3>2, <3>3
  <2> QED BY <2>1, <2>2
<1>22. ASSUME NEW r \in Space, NEW w \in DOMAIN pageTable'[r], w \notin DOMAIN pageTable[r]
       PROVE  /\ ~pageTable'[r][w].valid /\ pageTable'[r][w].location = "neither"
              /\ written'[r][w] = Zero
  <2>1. r = c
      BY <1>20, <1>22
  <2>2. w \in DOMAIN g /\ w \in DOMAIN h /\ w \notin DOMAIN g1 /\ w \notin DOMAIN h1
      BY <1>2, <1>7, <1>11, <1>12, <1>18, <1>20, <1>22, <2>1
  <2>3. g[w] = e /\ h[w] = z
      BY <1>16, <1>17, <2>2
  <2> QED BY <1>4, <1>5, <1>20, <2>1, <2>3
<1> QED BY <1>19, <1>20, <1>21, <1>22

\* A new stack in the current address space.
LEMMA StackKeeps ==
    ASSUME VMInv, allocateStack
    PROVE  VMInv'
<1>1. /\ pageTable' \in [Space -> Tables] /\ written' \in [Space -> Contents]
      /\ \A r \in Space : DOMAIN written'[r] = Pages(r)'
      /\ UNCHANGED <<processTable, currentSpace, tlb, currentTLB, IPT, currentIPT,
                     mainMemoryBitMap, mainMemory, swapFile, halted>>
    BY StackStep
<1>2. \A r \in Space : \A w \in DOMAIN pageTable[r] :
         /\ w \in DOMAIN pageTable'[r]
         /\ pageTable'[r][w].valid = pageTable[r][w].valid
         /\ pageTable'[r][w].physicalPage = pageTable[r][w].physicalPage
    BY StackStep
<1>3. \A r \in Space : \A w \in DOMAIN pageTable'[r] :
         w \in DOMAIN pageTable[r] \/ ~pageTable'[r][w].valid
    BY StackStep
<1> USE DEF VMInv
<1>4. Types'
    BY <1>1 DEF Types
<1>5. BitMapRight'
    BY <1>1 DEF BitMapRight
<1>6. OwnersKnow'
  <2> SUFFICES ASSUME NEW f \in Frame, IPT[f].valid
               PROVE  IPT[f].owner \in processTable
                      /\ Lies(pageTable', IPT[f].owner, IPT[f].virtualPage, f)
      BY <1>1 DEF OwnersKnow, Lies
  <2>1. IPT[f].owner \in processTable /\ Lies(pageTable, IPT[f].owner, IPT[f].virtualPage, f)
      BY DEF OwnersKnow
  <2>2. PICK s \in Space : s = IPT[f].owner
      BY <2>1 DEF Types
  <2> QED BY <1>2, <2>1, <2>2 DEF Lies
<1>7. PagesKnown'
    BY <1>1, <1>2, <1>3 DEF PagesKnown, Keeps, Pages
<1>8. EntriesRight' /\ EntriesDiffer'
  <2>1. currentSpace \in Space
      BY DEF Types
  <2> QED BY <1>1, <1>2, <2>1 DEF EntriesRight, EntriesDiffer, Lies
<1> QED BY <1>4, <1>5, <1>6, <1>7, <1>8

\* The last thread of a process exits: its frames and its pages go.
LEMMA ExitKeeps ==
    ASSUME VMInv, NEW s \in Space, Exit(s)
    PROVE  VMInv'
<1> USE DEF VMInv
<1>1. PICK c \in Space : c = currentSpace
    BY DEF Types
<1>2. /\ s \in processTable /\ s # c /\ processTable' = processTable \ {c}
      /\ pageTable' = [pageTable EXCEPT ![c] = NoPages]
      /\ written' = [written EXCEPT ![c] = NoPages]
      /\ currentSpace' = s /\ tlb' = SaveState
      /\ UNCHANGED <<currentTLB, currentIPT, swapFile, halted>>
      /\ clearMem
    BY <1>1 DEF Exit
<1>3. PICK F : F = FramesOf(c)
    OBVIOUS
<1>4. /\ mainMemoryBitMap' = mainMemoryBitMap \ F
      /\ mainMemory' = [f \in Frame |-> IF f \in F THEN Zero ELSE mainMemory[f]]
      /\ IPT' = [f \in Frame |-> IF f \in F THEN [IPT[f] EXCEPT !.valid = FALSE] ELSE IPT[f]]
    BY <1>1, <1>2, <1>3 DEF clearMem
<1>5. \A f \in Frame : IPT[f].valid => (f \in F <=> IPT[f].owner = c)
  <2> SUFFICES ASSUME NEW f \in Frame, IPT[f].valid
               PROVE  f \in F <=> IPT[f].owner = c
      OBVIOUS
  <2>1. IPT[f].owner \in processTable /\ Lies(pageTable, IPT[f].owner, IPT[f].virtualPage, f)
      BY DEF OwnersKnow
  <2>2. ASSUME IPT[f].owner = c PROVE f \in F
      BY <1>3, <2>1, <2>2 DEF Lies, FramesOf
  <2>3. ASSUME f \in F PROVE IPT[f].owner = c
    <3>1. PICK w \in DOMAIN pageTable[c] : pageTable[c][w].valid /\ f = pageTable[c][w].physicalPage
        BY <1>3, <2>3 DEF FramesOf
    <3>2. Keeps(f, c, w)
        BY <3>1 DEF PagesKnown, Pages
    <3> QED BY <3>2 DEF Keeps
  <2> QED BY <2>2, <2>3
<1>6. \A f \in Frame : IPT[f] \in IPTEntry
    BY DEF Types
<1>7. \A f \in Frame : /\ IPT'[f] \in IPTEntry
                       /\ IPT'[f].valid <=> IPT[f].valid /\ f \notin F
                       /\ IPT'[f].owner = IPT[f].owner
                       /\ IPT'[f].virtualPage = IPT[f].virtualPage
  <2> SUFFICES ASSUME NEW f \in Frame
               PROVE  /\ IPT'[f] \in IPTEntry
                      /\ IPT'[f].valid <=> IPT[f].valid /\ f \notin F
                      /\ IPT'[f].owner = IPT[f].owner
                      /\ IPT'[f].virtualPage = IPT[f].virtualPage
      OBVIOUS
  <2>1. PICK l \in IPTEntry : l = IPT[f]
      BY <1>6
  <2>2. CASE f \in F
    <3>1. IPT'[f] = [l EXCEPT !.valid = FALSE]
        BY <1>4, <2>1, <2>2
    <3> QED BY <2>1, <2>2, <3>1 DEF IPTEntry
  <2>3. CASE f \notin F
    <3>1. IPT'[f] = l
        BY <1>4, <2>1, <2>3
    <3> QED BY <2>1, <2>3, <3>1
  <2> QED BY <2>2, <2>3
<1>8. IPT' \in [Frame -> IPTEntry]
    BY <1>4, <1>7
<1>9. PICK g \in Tables : g = NoPages /\ g \in Contents /\ DOMAIN g = {}
    BY NewTables
<1>10. /\ pageTable' \in [Space -> Tables] /\ written' \in [Space -> Contents]
       /\ \A r \in Space : DOMAIN written'[r] = Pages(r)'
       /\ pageTable'[c] = g
       /\ \A r \in Space : r # c => pageTable'[r] = pageTable[r]
    BY <1>2, <1>9, TableChanged
<1>11. tlb' \in [Slot -> TLBEntry] /\ \A i \in Slot : ~tlb'[i].valid
    BY <1>2, Saved
<1>12. mainMemory' \in [Frame -> Nat]
    BY <1>4 DEF Types, Zero
<1>13. Types'
    BY <1>2, <1>4, <1>8, <1>10, <1>11, <1>12 DEF Types
<1>15. BitMapRight'
    BY <1>4, <1>7 DEF BitMapRight
<1>16. OwnersKnow'
  <2> SUFFICES ASSUME NEW f \in Frame, IPT'[f].valid
               PROVE  IPT[f].owner \in processTable'
                      /\ Lies(pageTable', IPT[f].owner, IPT[f].virtualPage, f)
      BY <1>7 DEF OwnersKnow, Lies
  <2>1. IPT[f].valid /\ IPT[f].owner # c
      BY <1>5, <1>7
  <2>2. IPT[f].owner \in processTable /\ Lies(pageTable, IPT[f].owner, IPT[f].virtualPage, f)
      BY <2>1 DEF OwnersKnow
  <2>3. pageTable'[IPT[f].owner] = pageTable[IPT[f].owner]
      BY <1>10, <2>1, <2>2 DEF Types
  <2> QED BY <1>2, <2>1, <2>2, <2>3 DEF Lies
<1>17. PagesKnown'
  <2> SUFFICES ASSUME NEW r \in Space, NEW w \in DOMAIN pageTable'[r], pageTable'[r][w].valid
               PROVE  /\ IPT'[pageTable'[r][w].physicalPage].valid
                      /\ IPT'[pageTable'[r][w].physicalPage].owner = r
                      /\ IPT'[pageTable'[r][w].physicalPage].virtualPage = w
      BY DEF PagesKnown, Keeps, Pages
  <2>1. r # c /\ pageTable'[r] = pageTable[r]
      BY <1>9, <1>10
  <2>2. pageTable[r][w] \in PageEntry
      BY <2>1, EntryTyped DEF Types
  <2>3. PICK f \in Frame : f = pageTable[r][w].physicalPage
      BY <2>2 DEF PageEntry
  <2>4. Keeps(f, r, w)
      BY <2>1, <2>3 DEF PagesKnown, Pages
  <2>5. f \notin F
      BY <1>5, <2>1, <2>4 DEF Keeps
  <2> QED BY <1>7, <2>1, <2>3, <2>4, <2>5 DEF Keeps
<1>18. EntriesRight' /\ EntriesDiffer'
    BY <1>11 DEF EntriesRight, EntriesDiffer
<1> QED BY <1>13, <1>15, <1>16, <1>17, <1>18

\* Nothing but the flag of Interrupt::Halt changes.
LEMMA HaltKeeps ==
    ASSUME VMInv, halted' \in BOOLEAN,
           UNCHANGED <<processTable, currentSpace, tlb, currentTLB, IPT, currentIPT,
                       mainMemoryBitMap, mainMemory, pageTable, swapFile, written>>
    PROVE  VMInv'
<1> USE DEF VMInv
<1>1. Types' /\ BitMapRight'
    BY DEF Types, BitMapRight, Pages
<1>2. OwnersKnow' /\ PagesKnown'
    BY DEF OwnersKnow, PagesKnown, Lies, Keeps, Pages
<1>3. EntriesRight' /\ EntriesDiffer'
    BY DEF EntriesRight, EntriesDiffer, Lies
<1> QED BY <1>1, <1>2, <1>3

\* At first no page is in memory.
LEMMA InitVMInv ==
    Init => VMInv
<1> SUFFICES ASSUME Init PROVE VMInv
    OBVIOUS
<1>1. \A f \in Frame : IPT[f] \in IPTEntry /\ ~IPT[f].valid
    BY VirtualMemoryAssumption DEF Init, IPTEntry
<1>2. tlb \in [Slot -> TLBEntry] /\ \A i \in Slot : ~tlb[i].valid
    BY DEF Init
<1>3. pageTable \in [Space -> Tables] /\ written \in [Space -> Contents]
    BY NewTables DEF Init
<1>4. \A s \in Space : /\ DOMAIN written[s] = Pages(s)
                       /\ \A v \in Pages(s) : ~pageTable[s][v].valid
                                              /\ pageTable[s][v].location = "executable"
    BY NewTables DEF Init, Pages
<1>5. IPT \in [Frame -> IPTEntry]
    BY <1>1 DEF Init
<1>6. Types
  <2>1. processTable \subseteq Space /\ currentSpace \in processTable
      BY VirtualMemoryAssumption DEF Init
  <2>2. currentTLB \in Slot /\ currentIPT \in Frame /\ mainMemoryBitMap \subseteq Frame
        /\ mainMemory \in [Frame -> Nat] /\ halted \in BOOLEAN
      BY Numbers DEF Init, Zero
  <2>3. swapFile \in Seq(Nat) /\ Len(swapFile) <= MaxSwap
      BY VirtualMemoryAssumption DEF Init
  <2> QED BY <1>2, <1>3, <1>4, <1>5, <2>1, <2>2, <2>3 DEF Types
<1>7. PagesKnown
    BY <1>4 DEF PagesKnown
<1>8. BitMapRight /\ OwnersKnow
    BY <1>1 DEF Init, BitMapRight, OwnersKnow
<1>9. EntriesRight /\ EntriesDiffer
    BY <1>2 DEF EntriesRight, EntriesDiffer
<1> QED BY <1>6, <1>7, <1>8, <1>9 DEF VMInv

\* Every step keeps the invariant.
LEMMA NextVMInv ==
    VMInv /\ [Next]_vars => VMInv'
<1> SUFFICES ASSUME VMInv, [Next]_vars PROVE VMInv'
    OBVIOUS
<1>1. CASE \E v \in 0 .. MaxPages - 1 : \E x \in Data : WriteMem(v, x)
    BY <1>1, WriteKeeps
<1>2. CASE \E v \in 0 .. MaxPages - 1 : PageFaultHit(v)
    BY <1>2, HitKeeps
<1>3. CASE \E v \in 0 .. MaxPages - 1 : PageFaultFree(v)
    BY <1>3, FreeKeeps
<1>4. CASE \E v \in 0 .. MaxPages - 1 : \E f \in Frame : PageFaultEvict(v, f)
    BY <1>4, EvictKeeps
<1>5. CASE \E v \in 0 .. MaxPages - 1 : \E f \in Frame : SwapFileFull(v, f)
    BY <1>5, HaltKeeps DEF SwapFileFull, tlbVars, memoryVars
<1>l. CASE \E v \in 0 .. MaxPages - 1 : LseekFails(v)
    BY <1>l, HaltKeeps DEF LseekFails, tlbVars, memoryVars
<1>6. CASE \E s \in Space : Run(s)
    BY <1>6, RunKeeps
<1>7. CASE \E s \in Space : Exec(s)
    BY <1>7, ExecKeeps
<1>8. CASE \E s \in Space : Exit(s)
    BY <1>8, ExitKeeps
<1>9. CASE allocateStack
    BY <1>9, StackKeeps
<1>10. CASE ExitLast
    BY <1>10, HaltKeeps DEF ExitLast, tlbVars, memoryVars
<1>11. CASE UNCHANGED vars
  <2>1. halted' \in BOOLEAN
      BY <1>11 DEF VMInv, Types, vars
  <2> QED BY <1>11, <2>1, HaltKeeps DEF vars
<1> QED BY <1>1, <1>2, <1>3, <1>4, <1>5, <1>l, <1>6, <1>7, <1>8, <1>9, <1>10, <1>11, Zenon DEF Next

\* The invariant holds of every state of every behaviour.
THEOREM VMInvariance == Spec => []VMInv
<1> QED BY InitVMInv, NextVMInv, PTL DEF Spec

(***************************************************************************)
(* FramesAgree, with any number of processes, frames and TLB entries, with *)
(* FIFO and with random replacement: the bitmap, the IPT and the page      *)
(* tables name the same pages in the same frames, through page faults,     *)
(* evictions for other processes, Exec, Fork and Exit.                     *)
(***************************************************************************)
THEOREM FramesAccounted == Spec => []FramesAgree
<1> QED BY VMInvariance, VMInvImplies, PTL

(***************************************************************************)
(* TLBAgrees: a valid entry of the TLB is the only one for its page and    *)
(* leads to the frame of that page of the current process.                 *)
(***************************************************************************)
THEOREM TLBRight == Spec => []TLBAgrees
<1> QED BY VMInvariance, VMInvImplies, PTL

\* TypeOK: the tables, the TLB and the memory keep their types.
THEOREM VMTypeCorrect == Spec => []TypeOK
<1> QED BY VMInvariance, VMInvImplies, PTL

-----------------------------------------------------------------------------
(***************************************************************************)
(* No modified page is lost.                                               *)
(*                                                                         *)
(* HandleMemoryFull takes the dirty bit from the last TLB entry that names *)
(* the frame, valid or not.  A stale entry would hide the dirty bit of the *)
(* IPT.  With FIFO replacement, with no switch of the CPU between threads  *)
(* and with no more TLB entries than frames, both pointers go round, and a *)
(* stale entry has been overwritten before its frame is evicted again.     *)
(***************************************************************************)
FifoOneThread == ~PRand /\ ~Switches /\ TLBSize <= NumPhysPages

\* How many steps pointer a is away from k, in a round of n.
Distance(a, k, n) == IF k >= a THEN k - a ELSE k - a + n

\* How many frames are free.
FreeFrames == Cardinality(Frame \ mainMemoryBitMap)

\* The TLB overwrites a stale entry before its frame is evicted.
StaleSoonGone ==
    \A i \in Slot : ~tlb[i].valid =>
        Distance(currentTLB, i, TLBSize)
            < FreeFrames + Distance(currentIPT, tlb[i].physicalPage, NumPhysPages)

\* x is what the program wrote, w, if that is known.
Same(x, w) == w # Unknown => x = w

\* What the program wrote, w, is where the entry e says it is; sf is the swap file.
Stored(e, sf, w) ==
    \/ w = Unknown
    \/ e.location = "executable" /\ w = Image
    \/ e.location = "neither" /\ w = Zero
    \/ e.location = "swapfile" /\ e.swapLocation \in 1 .. Len(sf) /\ sf[e.swapLocation] = w

\* Frame f is not known to be dirty to the TLB t and the IPT p.
CleanIn(t, p, f) ==
    /\ \A i \in Slot : t[i].valid /\ t[i].physicalPage = f => ~t[i].dirty
    /\ (\A i \in Slot : t[i].valid => t[i].physicalPage # f) => ~p[f].dirty

\* Pages in memory, pages elsewhere, and pages whose frame is clean.
MemoryRight ==
    \A s \in Space : \A v \in Pages(s) : pageTable[s][v].valid =>
        Same(mainMemory[pageTable[s][v].physicalPage], written[s][v])

StoredRight ==
    \A s \in Space : \A v \in Pages(s) : ~pageTable[s][v].valid =>
        Stored(pageTable[s][v], swapFile, written[s][v])

CleanRight ==
    \A s \in Space : \A v \in Pages(s) :
        pageTable[s][v].valid /\ CleanIn(tlb, IPT, pageTable[s][v].physicalPage) =>
            Stored(pageTable[s][v], swapFile, written[s][v])

ReadInv == VMInv /\ MemoryRight /\ StoredRight /\ CleanRight /\ StaleSoonGone

\* What is stored is what a page fault fetches.
LEMMA StoredFetched ==
    ASSUME NEW e, NEW sf, NEW w, Stored(e, sf, w)
    PROVE  Same(Fetched(e, sf), w)
<1>1. CASE w = Unknown
    BY <1>1 DEF Same
<1>2. CASE e.location = "executable" /\ w = Image
    BY <1>2 DEF Same, Fetched
<1>3. CASE e.location = "neither" /\ w = Zero
    BY <1>3 DEF Same, Fetched
<1>4. CASE e.location = "swapfile" /\ e.swapLocation \in 1 .. Len(sf) /\ sf[e.swapLocation] = w
    BY <1>4 DEF Same, Fetched, FromSwap
<1> QED BY <1>1, <1>2, <1>3, <1>4 DEF Stored

\* The invariant gives ReadsLastWrite.
LEMMA ReadInvImplies ==
    ReadInv => ReadsLastWrite
<1> SUFFICES ASSUME ReadInv, NEW s \in processTable, NEW v \in Pages(s)
             PROVE  Same(Reads(s, v), written[s][v])
    BY DEF ReadsLastWrite, Same
<1>1. s \in Space
    BY DEF ReadInv, VMInv, Types
<1>2. CASE pageTable[s][v].valid
    BY <1>1, <1>2 DEF ReadInv, MemoryRight, Reads
<1>3. CASE ~pageTable[s][v].valid
  <2>1. Stored(pageTable[s][v], swapFile, written[s][v])
      BY <1>1, <1>3 DEF ReadInv, StoredRight
  <2> QED BY <1>3, <2>1, StoredFetched DEF Reads
<1> QED BY <1>2, <1>3

\* A pointer that goes round comes one step closer to all but the place it leaves.
LEMMA Turn ==
    ASSUME NEW n \in Nat \ {0}, NEW a \in 0 .. n - 1, NEW k \in 0 .. n - 1
    PROVE  /\ Distance(a, k, n) \in 0 .. n - 1
           /\ k # a => Distance((a + 1) % n, k, n) = Distance(a, k, n) - 1
           /\ k = a => Distance(a, k, n) = 0 /\ Distance((a + 1) % n, k, n) = n - 1
<1>1. (a + 1) % n = IF a = n - 1 THEN 0 ELSE a + 1
    OBVIOUS
<1> QED BY <1>1 DEF Distance

\* What is stored stays stored when the swap file grows.
LEMMA StoredKept ==
    ASSUME NEW d, NEW e, NEW w, NEW sf \in Seq(Nat), NEW sg \in Seq(Nat),
           e.location = d.location, e.swapLocation = d.swapLocation,
           Len(sf) <= Len(sg), \A j \in 1 .. Len(sf) : sg[j] = sf[j],
           Stored(d, sf, w)
    PROVE  Stored(e, sg, w)
<1>1. d.swapLocation \in 1 .. Len(sf) => d.swapLocation \in 1 .. Len(sg)
    OBVIOUS
<1> QED BY <1>1 DEF Stored

\* No frame has two valid entries in the TLB.
LEMMA OneEntry ==
    ASSUME Types, NEW f \in Frame, NEW t, NEW pt, Vacated(f, t, pt)
    PROVE  /\ \A i, j \in Slot :
                 t[i].valid /\ t[j].valid /\ t[i].physicalPage = t[j].physicalPage => i = j
           /\ \A i \in Slot : t[i].valid => t[i].physicalPage # f
<1>1. PICK c \in Space : c = currentSpace
    BY DEF Types
<1>2. \A i \in Slot : t[i].valid =>
          t[i].physicalPage # f /\ Keeps(t[i].physicalPage, c, t[i].virtualPage)
  <2> SUFFICES ASSUME NEW i \in Slot, t[i].valid
               PROVE  t[i].physicalPage # f /\ Keeps(t[i].physicalPage, c, t[i].virtualPage)
      OBVIOUS
  <2>1. Lies(pt, c, t[i].virtualPage, t[i].physicalPage)
      BY <1>1 DEF Vacated
  <2>2. PICK w \in DOMAIN pt[c] : w = t[i].virtualPage
      BY <2>1 DEF Lies
  <2>3. pt[c][w].valid /\ pt[c][w].physicalPage = t[i].physicalPage
      BY <2>1, <2>2 DEF Lies
  <2>4. w \in Pages(c)
      BY <2>2 DEF Vacated
  <2> QED BY <2>2, <2>3, <2>4 DEF Vacated
<1>3. ASSUME NEW i \in Slot, NEW j \in Slot, t[i].valid, t[j].valid,
             t[i].physicalPage = t[j].physicalPage
      PROVE  i = j
  <2>1. t[i].virtualPage = t[j].virtualPage
      BY <1>2, <1>3 DEF Keeps
  <2> QED BY <1>3, <2>1 DEF Vacated
<1> QED BY <1>2, <1>3

(***************************************************************************)
(* updateTLB hides no dirty bit: a frame that is clean after it was clean  *)
(* before it.                                                              *)
(***************************************************************************)
LEMMA UpdateClean ==
    ASSUME NEW t \in [Slot -> TLBEntry], NEW p \in [Frame -> IPTEntry], NEW f \in Frame,
           currentTLB \in Slot, updateTLB(t, p, f), p[f].valid,
           \A i, j \in Slot :
               t[i].valid /\ t[j].valid /\ t[i].physicalPage = t[j].physicalPage => i = j,
           \A i \in Slot : t[i].valid => t[i].physicalPage # f,
           NEW g \in Frame, CleanIn(tlb', IPT', g)
    PROVE  CleanIn(t, p, g)
<1>1. PICK k \in Slot : k = currentTLB
    OBVIOUS
<1>2. /\ p[g].dirty => IPT'[g].dirty
      /\ t[k].dirty => IPT'[t[k].physicalPage].dirty
      /\ tlb'[k].physicalPage = f /\ tlb'[k].valid
      /\ tlb'[k].dirty = IPT'[f].dirty
      /\ \A i \in Slot : i # k => tlb'[i] = t[i]
    BY <1>1, UpdateStep
<1>3. CASE g = f
  <2>1. ~tlb'[k].dirty
      BY <1>2, <1>3 DEF CleanIn
  <2> QED BY <1>2, <1>3, <2>1 DEF CleanIn
<1>4. CASE g # f
  <2>1. ASSUME NEW i \in Slot, t[i].valid, t[i].physicalPage = g PROVE ~t[i].dirty
    <3>1. CASE i # k
        BY <1>2, <2>1, <3>1 DEF CleanIn
    <3>2. CASE i = k
      <4>1. \A j \in Slot : tlb'[j].valid => tlb'[j].physicalPage # g
          BY <1>2, <1>4, <2>1, <3>2
      <4>2. ~IPT'[g].dirty
          BY <4>1 DEF CleanIn
      <4> QED BY <1>2, <2>1, <3>2, <4>2
    <3> QED BY <3>1, <3>2
  <2>2. ASSUME \A i \in Slot : t[i].valid => t[i].physicalPage # g PROVE ~p[g].dirty
    <3>1. \A j \in Slot : tlb'[j].valid => tlb'[j].physicalPage # g
        BY <1>2, <1>4, <2>2
    <3>2. ~IPT'[g].dirty
        BY <3>1 DEF CleanIn
    <3> QED BY <1>2, <3>2
  <2> QED BY <2>1, <2>2 DEF CleanIn
<1> QED BY <1>3, <1>4

(***************************************************************************)
(* IPTMiss fetches what the program last wrote into the page, and leaves   *)
(* the other pages as they were; sf is the swap file after the eviction.   *)
(***************************************************************************)
LEMMA FillReads ==
    ASSUME Types, NEW v \in 0 .. MaxPages - 1, v \in Pages(currentSpace),
           NEW f \in Frame, NEW t, NEW pt, Vacated(f, t, pt),
           ~pt[currentSpace][v].valid,
           IPTMiss(v, f, t, pt, swapFile'), written' = written,
           \A s \in Space : \A w \in Pages(s) : pt[s][w].valid =>
               Same(mainMemory[pt[s][w].physicalPage], written[s][w]),
           \A s \in Space : \A w \in Pages(s) : ~pt[s][w].valid =>
               Stored(pt[s][w], swapFile', written[s][w]),
           \A s \in Space : \A w \in Pages(s) :
               pt[s][w].valid /\ CleanIn(t, IPT, pt[s][w].physicalPage) =>
                   Stored(pt[s][w], swapFile', written[s][w]),
           Same(Fetched(pageTable[currentSpace][v], swapFile'), written[currentSpace][v])
    PROVE  MemoryRight' /\ StoredRight' /\ CleanRight'
<1>1. PICK c \in Space : c = currentSpace
    BY DEF Types
<1>2. v \in DOMAIN pt[c] /\ pt \in [Space -> Tables] /\ t \in [Slot -> TLBEntry]
      /\ \A s \in Space : DOMAIN pt[s] = Pages(s)
    BY <1>1 DEF Vacated
<1>3. pt[c][v] \in PageEntry
    BY <1>2, EntryTyped
<1>4. PICK e : e = [pt[c][v] EXCEPT !.valid = TRUE, !.physicalPage = f]
    OBVIOUS
<1>5. /\ e \in PageEntry /\ e.valid /\ e.physicalPage = f
      /\ e.location = pt[c][v].location /\ e.swapLocation = pt[c][v].swapLocation
    BY <1>3, <1>4 DEF PageEntry
<1>6. pageTable' = [pt EXCEPT ![c][v] = e]
    BY <1>1, <1>2, <1>3, <1>4 DEF IPTMiss, PageEntry
<1>7. PICK q : q = pageTable'
    OBVIOUS
<1>8. /\ q \in [Space -> Tables]
      /\ \A s \in Space : DOMAIN q[s] = DOMAIN pt[s]
      /\ q[c][v] = e
      /\ \A s \in Space : \A w \in DOMAIN pt[s] : s # c \/ w # v => q[s][w] = pt[s][w]
    BY <1>2, <1>5, <1>6, <1>7, SetPage
<1>9. PICK n : n = [owner |-> c, virtualPage |-> v, valid |-> TRUE, dirty |-> FALSE]
    OBVIOUS
<1>10. n \in IPTEntry /\ n.valid /\ ~n.dirty
    BY <1>9, VirtualMemoryAssumption DEF IPTEntry
<1>11. PICK p : p = [IPT EXCEPT ![f] = n]
    OBVIOUS
<1>12. p \in [Frame -> IPTEntry] /\ p[f] = n /\ \A g \in Frame \ {f} : p[g] = IPT[g]
    BY <1>10, <1>11 DEF Types
<1>13. updateTLB(t, p, f)
    BY <1>1, <1>9, <1>11 DEF IPTMiss
<1>14. /\ \A i, j \in Slot :
             t[i].valid /\ t[j].valid /\ t[i].physicalPage = t[j].physicalPage => i = j
       /\ \A i \in Slot : t[i].valid => t[i].physicalPage # f
    BY OneEntry
<1>15. p[f].valid /\ currentTLB \in Slot
    BY <1>10, <1>12 DEF Types
<1>16. ASSUME NEW g \in Frame, g # f, CleanIn(tlb', IPT', g) PROVE CleanIn(t, IPT, g)
  <2>1. CleanIn(t, p, g)
      BY <1>2, <1>12, <1>13, <1>14, <1>15, <1>16, UpdateClean
  <2> QED BY <1>12, <1>16, <2>1 DEF CleanIn
<1>17. Same(mainMemory'[f], written[c][v]) /\ \A g \in Frame \ {f} : mainMemory'[g] = mainMemory[g]
    BY <1>1 DEF IPTMiss, Types
<1>18. \A x : Stored(pt[c][v], swapFile', x) => Stored(e, swapFile', x)
    BY <1>5 DEF Stored
<1>19. ASSUME NEW s \in Space, NEW w \in DOMAIN pt[s]
       PROVE  /\ q[s][w].valid => Same(mainMemory'[q[s][w].physicalPage], written[s][w])
              /\ ~q[s][w].valid => Stored(q[s][w], swapFile', written[s][w])
              /\ q[s][w].valid /\ CleanIn(tlb', IPT', q[s][w].physicalPage) =>
                     Stored(q[s][w], swapFile', written[s][w])
  <2>1. CASE s = c /\ w = v
      BY <1>1, <1>2, <1>5, <1>8, <1>17, <1>18, <2>1
  <2>2. CASE s # c \/ w # v
    <3>1. q[s][w] = pt[s][w] /\ w \in Pages(s) /\ pt[s][w] \in PageEntry
        BY <1>2, <1>8, <1>19, <2>2, EntryTyped
    <3>2. PICK g \in Frame : g = pt[s][w].physicalPage
        BY <3>1 DEF PageEntry
    <3>3. pt[s][w].valid => g # f
        BY <3>1, <3>2 DEF Vacated
    <3>4. pt[s][w].valid => Same(mainMemory'[g], written[s][w])
        BY <1>17, <3>1, <3>2, <3>3
    <3>5. pt[s][w].valid /\ CleanIn(tlb', IPT', g) => Stored(pt[s][w], swapFile', written[s][w])
        BY <1>16, <3>1, <3>2, <3>3
    <3> QED BY <3>1, <3>2, <3>4, <3>5
  <2> QED BY <2>1, <2>2
<1>20. MemoryRight'
    BY <1>7, <1>8, <1>19 DEF MemoryRight, Pages
<1>21. StoredRight'
    BY <1>7, <1>8, <1>19 DEF StoredRight, Pages
<1>22. CleanRight'
    BY <1>7, <1>8, <1>19 DEF CleanRight, Pages
<1> QED BY <1>20, <1>21, <1>22

\* The free frames are finitely many; taking one leaves one less.
LEMMA FramesCounted ==
    ASSUME NEW B \in SUBSET Frame
    PROVE  /\ Cardinality(Frame \ B) \in Nat
           /\ \A f \in Frame \ B : Cardinality(Frame \ (B \cup {f})) = Cardinality(Frame \ B) - 1
           /\ B = Frame => Cardinality(Frame \ B) = 0
           /\ B = {} => Cardinality(Frame \ B) = NumPhysPages
<1>1. NumPhysPages \in Nat \ {0} /\ 0 \in Int /\ NumPhysPages - 1 \in Int
    BY Numbers
<1>2. IsFiniteSet(0 .. NumPhysPages - 1)
      /\ Cardinality(0 .. NumPhysPages - 1) = IF 0 > NumPhysPages - 1 THEN 0
                                              ELSE (NumPhysPages - 1) - 0 + 1
    BY <1>1, FS_Interval, Zenon
<1>3. IsFiniteSet(Frame) /\ Cardinality(Frame) = NumPhysPages
    BY <1>1, <1>2 DEF Frame
<1>4. IsFiniteSet(Frame \ B)
    BY <1>3, FS_Subset
<1>5. \A f \in Frame \ B : Cardinality(Frame \ (B \cup {f})) = Cardinality(Frame \ B) - 1
  <2> SUFFICES ASSUME NEW f \in Frame \ B
               PROVE  Cardinality(Frame \ (B \cup {f})) = Cardinality(Frame \ B) - 1
      OBVIOUS
  <2>1. PICK G : G = Frame \ B
      OBVIOUS
  <2>2. Frame \ (B \cup {f}) = G \ {f}
      BY <2>1
  <2>3. IsFiniteSet(G) /\ f \in G
      BY <1>4, <2>1
  <2>4. Cardinality(G \ {f}) = Cardinality(G) - 1
      BY <2>3, FS_RemoveElement
  <2> QED BY <2>1, <2>2, <2>4
<1>6. Cardinality(Frame \ B) \in Nat
    BY <1>4, FS_CardinalityType
<1>7. B = Frame => Frame \ B = {}
    OBVIOUS
<1>8. B = {} => Frame \ B = Frame
    OBVIOUS
<1>9. Cardinality({}) = 0
    BY FS_EmptySet
<1> QED BY <1>3, <1>5, <1>6, <1>7, <1>8, <1>9

\* The distances of the TLB pointer and of the FIFO pointer.
LEMMA Distances ==
    ASSUME Types
    PROVE  /\ \A i \in Slot : /\ Distance(currentTLB, i, TLBSize) \in 0 .. TLBSize - 1
                              /\ i # currentTLB => Distance(NextEntry, i, TLBSize)
                                                   = Distance(currentTLB, i, TLBSize) - 1
           /\ \A f \in Frame :
                 LET next == (currentIPT + 1) % NumPhysPages
                 IN  /\ Distance(currentIPT, f, NumPhysPages) \in 0 .. NumPhysPages - 1
                     /\ f # currentIPT => Distance(next, f, NumPhysPages)
                                          = Distance(currentIPT, f, NumPhysPages) - 1
                     /\ f = currentIPT => /\ Distance(currentIPT, f, NumPhysPages) = 0
                                          /\ Distance(next, f, NumPhysPages) = NumPhysPages - 1
           /\ \A i \in Slot : tlb[i].physicalPage \in Frame
<1>1. currentTLB \in 0 .. TLBSize - 1 /\ currentIPT \in 0 .. NumPhysPages - 1
      /\ TLBSize \in Nat \ {0} /\ NumPhysPages \in Nat \ {0}
    BY Numbers DEF Types, Slot, Frame
<1>2. \A i \in Slot : /\ Distance(currentTLB, i, TLBSize) \in 0 .. TLBSize - 1
                      /\ i # currentTLB => Distance(NextEntry, i, TLBSize)
                                           = Distance(currentTLB, i, TLBSize) - 1
    BY <1>1, Turn DEF Slot, NextEntry
<1>3. \A i \in Slot : tlb[i].physicalPage \in Frame
    BY DEF Types, TLBEntry
<1>4. \A f \in Frame :
         LET next == (currentIPT + 1) % NumPhysPages
         IN  /\ Distance(currentIPT, f, NumPhysPages) \in 0 .. NumPhysPages - 1
             /\ f # currentIPT => Distance(next, f, NumPhysPages)
                                  = Distance(currentIPT, f, NumPhysPages) - 1
             /\ f = currentIPT => /\ Distance(currentIPT, f, NumPhysPages) = 0
                                  /\ Distance(next, f, NumPhysPages) = NumPhysPages - 1
    BY <1>1, Turn DEF Frame
<1> QED BY <1>2, <1>3, <1>4

\* At first the frames outnumber the entries of the TLB.
LEMMA InitReadInv ==
    ASSUME FifoOneThread, Init
    PROVE  ReadInv
<1>1. VMInv
    BY InitVMInv
<1>2. \A s \in Space : \A v \in Pages(s) : /\ ~pageTable[s][v].valid
                                           /\ pageTable[s][v].location = "executable"
                                           /\ written[s][v] = Image
    BY NewTables DEF Init, Pages
<1>3. MemoryRight /\ CleanRight
    BY <1>2 DEF MemoryRight, CleanRight
<1>4. StoredRight
    BY <1>2 DEF StoredRight, Stored
<1>5. FreeFrames = NumPhysPages
    BY FramesCounted DEF Init, FreeFrames
<1>6. StaleSoonGone
  <2> SUFFICES ASSUME NEW i \in Slot
               PROVE  Distance(currentTLB, i, TLBSize)
                      < FreeFrames + Distance(currentIPT, tlb[i].physicalPage, NumPhysPages)
      BY DEF StaleSoonGone
  <2>1. PICK x \in 0 .. TLBSize - 1 : x = Distance(currentTLB, i, TLBSize)
      BY <1>1, Distances DEF VMInv
  <2>2. PICK y \in 0 .. NumPhysPages - 1 :
            y = Distance(currentIPT, tlb[i].physicalPage, NumPhysPages)
      BY <1>1, Distances DEF VMInv
  <2>3. x < NumPhysPages + y
      BY Numbers DEF FifoOneThread
  <2> QED BY <1>5, <2>1, <2>2, <2>3
<1> QED BY <1>1, <1>3, <1>4, <1>6 DEF ReadInv

\* An instruction makes its page dirty in the TLB.
LEMMA WriteReads ==
    ASSUME ReadInv, NEW v \in 0 .. MaxPages - 1, NEW x \in Data, WriteMem(v, x)
    PROVE  MemoryRight' /\ StoredRight' /\ CleanRight' /\ StaleSoonGone'
<1> USE DEF ReadInv, VMInv
<1>1. PICK k \in Slot : k = Min(Hits(v)) /\ tlb[k].valid /\ tlb[k].virtualPage = v
  <2>1. Hits(v) \in SUBSET Nat /\ Hits(v) # {}
      BY Numbers DEF Hits, WriteMem
  <2>2. Min(Hits(v)) \in Hits(v)
      BY <2>1, MinIn
  <2> QED BY <2>2 DEF Hits
<1>2. PICK l : l = [tlb[k] EXCEPT !.dirty = TRUE]
    OBVIOUS
<1>3. l \in TLBEntry /\ l.valid = tlb[k].valid /\ l.virtualPage = tlb[k].virtualPage
      /\ l.physicalPage = tlb[k].physicalPage /\ l.dirty
    BY <1>2 DEF TLBEntry, Types
<1>4. tlb' = [tlb EXCEPT ![k] = l]
    BY <1>1, <1>2 DEF WriteMem
<1>5. /\ \A i \in Slot : /\ tlb'[i].valid = tlb[i].valid
                         /\ tlb'[i].physicalPage = tlb[i].physicalPage
                         /\ i # k => tlb'[i] = tlb[i]
      /\ tlb'[k].dirty
    BY <1>3, <1>4 DEF Types
<1>6. PICK f \in Frame : f = tlb[k].physicalPage
    BY DEF Types, TLBEntry
<1>7. PICK c \in Space : c = currentSpace
    BY DEF Types
<1>8. v \in DOMAIN pageTable[c] /\ pageTable[c][v].valid /\ pageTable[c][v].physicalPage = f
    BY <1>1, <1>6, <1>7 DEF EntriesRight, Lies
<1>9. \A g \in Frame : mainMemory'[g] = IF g = f THEN x ELSE mainMemory[g]
    BY <1>1, <1>6 DEF WriteMem, Types
<1>10. written' = [written EXCEPT ![c] = [written[c] EXCEPT ![v] = x]]
    BY <1>7 DEF WriteMem
<1>11. \A s \in Space : \A w \in DOMAIN pageTable[s] :
          written'[s][w] = IF s = c /\ w = v THEN x ELSE written[s][w]
  <2>1. DOMAIN written[c] = DOMAIN pageTable[c] /\ written \in [Space -> Contents]
      BY DEF Types, Pages
  <2> QED BY <1>10, <2>1
<1>12. UNCHANGED <<processTable, currentSpace, currentTLB, IPT, currentIPT,
                   mainMemoryBitMap, pageTable, swapFile, halted>>
    BY DEF WriteMem
<1>13. ASSUME NEW s \in Space, NEW w \in DOMAIN pageTable[s]
       PROVE  /\ pageTable[s][w].valid =>
                     Same(mainMemory'[pageTable[s][w].physicalPage], written'[s][w])
              /\ ~pageTable[s][w].valid => Stored(pageTable[s][w], swapFile, written'[s][w])
              /\ pageTable[s][w].valid /\ CleanIn(tlb', IPT', pageTable[s][w].physicalPage) =>
                     Stored(pageTable[s][w], swapFile, written'[s][w])
  <2>1. CASE s = c /\ w = v
    <3>1. ~CleanIn(tlb', IPT', f)
        BY <1>1, <1>5, <1>6 DEF CleanIn
    <3>2. mainMemory'[f] = x /\ written'[s][w] = x
        BY <1>8, <1>9, <1>11, <2>1
    <3> QED BY <1>8, <2>1, <3>1, <3>2 DEF Same
  <2>2. CASE ~(s = c /\ w = v)
    <3>1. written'[s][w] = written[s][w] /\ w \in Pages(s) /\ pageTable[s][w] \in PageEntry
        BY <1>11, <1>13, <2>2, EntryTyped DEF Types, Pages
    <3>2. PICK g \in Frame : g = pageTable[s][w].physicalPage
        BY <3>1 DEF PageEntry
    <3>3. pageTable[s][w].valid => g # f
      <4>1. Keeps(f, c, v)
          BY <1>8 DEF PagesKnown, Pages
      <4>2. pageTable[s][w].valid => Keeps(g, s, w)
          BY <3>1, <3>2 DEF PagesKnown
      <4> QED BY <2>2, <4>1, <4>2 DEF Keeps
    <3>4. g # f /\ CleanIn(tlb', IPT', g) => CleanIn(tlb, IPT, g)
        BY <1>5, <1>6, <1>12 DEF CleanIn
    <3>5. pageTable[s][w].valid => Same(mainMemory'[g], written[s][w])
        BY <1>9, <3>1, <3>2, <3>3 DEF MemoryRight
    <3>6. ~pageTable[s][w].valid => Stored(pageTable[s][w], swapFile, written[s][w])
        BY <3>1 DEF StoredRight
    <3>7. pageTable[s][w].valid /\ CleanIn(tlb', IPT', g) =>
              Stored(pageTable[s][w], swapFile, written[s][w])
        BY <3>1, <3>2, <3>3, <3>4 DEF CleanRight
    <3> QED BY <3>1, <3>2, <3>5, <3>6, <3>7
  <2> QED BY <2>1, <2>2
<1>14. MemoryRight'
    BY <1>12, <1>13 DEF MemoryRight, Pages
<1>15. StoredRight'
    BY <1>12, <1>13 DEF StoredRight, Pages
<1>16. CleanRight'
    BY <1>12, <1>13 DEF CleanRight, Pages
<1>17. StaleSoonGone'
    BY <1>5, <1>12 DEF StaleSoonGone, FreeFrames
<1> QED BY <1>14, <1>15, <1>16, <1>17

\* A page fault for a page in memory passes the dirty bit on.
LEMMA HitReads ==
    ASSUME ReadInv, NEW v \in 0 .. MaxPages - 1, PageFaultHit(v)
    PROVE  MemoryRight' /\ StoredRight' /\ CleanRight' /\ StaleSoonGone'
<1> USE DEF ReadInv, VMInv
<1>1. PICK f \in Frame : f = Min(InMemory(v)) /\ Holds(f, v)
  <2>1. InMemory(v) \in SUBSET Nat /\ InMemory(v) # {}
      BY Numbers DEF InMemory, PageFaultHit
  <2>2. Min(InMemory(v)) \in InMemory(v)
      BY <2>1, MinIn
  <2> QED BY <2>2 DEF InMemory
<1>2. updateTLB(tlb, IPT, f)
    BY <1>1 DEF PageFaultHit
<1>3. UNCHANGED <<processTable, currentSpace, currentIPT, mainMemoryBitMap,
                  mainMemory, pageTable, swapFile, halted, written>>
    BY DEF PageFaultHit
<1>4. PICK c \in Space : c = currentSpace
    BY DEF Types
<1>5. \A i \in Slot : tlb[i].valid => Keeps(tlb[i].physicalPage, c, tlb[i].virtualPage)
  <2> SUFFICES ASSUME NEW i \in Slot, tlb[i].valid
               PROVE  Keeps(tlb[i].physicalPage, c, tlb[i].virtualPage)
      OBVIOUS
  <2>1. Lies(pageTable, c, tlb[i].virtualPage, tlb[i].physicalPage)
      BY <1>4 DEF EntriesRight
  <2> QED BY <2>1 DEF Lies, PagesKnown, Pages
<1>6. \A i, j \in Slot : tlb[i].valid /\ tlb[j].valid
                         /\ tlb[i].physicalPage = tlb[j].physicalPage => i = j
    BY <1>5 DEF Keeps, EntriesDiffer
<1>7. \A i \in Slot : tlb[i].valid => tlb[i].physicalPage # f
    BY <1>1, <1>5 DEF Keeps, Holds, PageFaultHit, Faults, Hits
<1>8. PICK t \in [Slot -> TLBEntry] : t = tlb
    BY DEF Types
<1>9. PICK p \in [Frame -> IPTEntry] : p = IPT
    BY DEF Types
<1>10. /\ updateTLB(t, p, f) /\ p[f].valid /\ currentTLB \in Slot
       /\ \A i, j \in Slot :
             t[i].valid /\ t[j].valid /\ t[i].physicalPage = t[j].physicalPage => i = j
       /\ \A i \in Slot : t[i].valid => t[i].physicalPage # f
    BY <1>1, <1>2, <1>6, <1>7, <1>8, <1>9 DEF Holds, Types
<1>11. \A g \in Frame : CleanIn(tlb', IPT', g) => CleanIn(t, p, g)
    BY <1>10, UpdateClean
<1>12. \A s \in Space : \A w \in DOMAIN pageTable[s] : pageTable[s][w].physicalPage \in Frame
  <2> SUFFICES ASSUME NEW s \in Space, NEW w \in DOMAIN pageTable[s]
               PROVE  pageTable[s][w].physicalPage \in Frame
      OBVIOUS
  <2>1. pageTable[s][w] \in PageEntry
      BY EntryTyped DEF Types
  <2> QED BY <2>1 DEF PageEntry
<1>13. MemoryRight' /\ StoredRight'
    BY <1>3 DEF MemoryRight, StoredRight, Pages
<1>14. CleanRight'
    BY <1>3, <1>8, <1>9, <1>11, <1>12 DEF CleanRight, Pages
<1>15. PICK k \in Slot : k = currentTLB
    BY <1>10
<1>16. /\ tlb'[k].valid /\ currentTLB' = NextEntry
       /\ \A i \in Slot : i # k => tlb'[i] = t[i]
    BY <1>10, <1>15, UpdateStep
<1>17. StaleSoonGone'
  <2> SUFFICES ASSUME NEW i \in Slot, ~tlb'[i].valid
               PROVE  Distance(NextEntry, i, TLBSize)
                      < FreeFrames + Distance(currentIPT, tlb'[i].physicalPage, NumPhysPages)
      BY <1>3, <1>16 DEF StaleSoonGone, FreeFrames
  <2>1. i # k /\ tlb'[i] = tlb[i] /\ ~tlb[i].valid
      BY <1>8, <1>16
  <2>2. PICK a \in 0 .. TLBSize - 1 :
            a = Distance(currentTLB, i, TLBSize) /\ Distance(NextEntry, i, TLBSize) = a - 1
      BY <1>15, <2>1, Distances
  <2>3. PICK b \in 0 .. NumPhysPages - 1 :
            b = Distance(currentIPT, tlb[i].physicalPage, NumPhysPages)
      BY Distances
  <2>4. PICK m \in Nat : m = FreeFrames
      BY FramesCounted DEF FreeFrames, Types
  <2>5. a < m + b
      BY <2>1, <2>2, <2>3, <2>4 DEF StaleSoonGone
  <2>6. a - 1 < m + b
      BY <2>5, Numbers
  <2> QED BY <2>1, <2>2, <2>3, <2>4, <2>6
<1> QED BY <1>13, <1>14, <1>17

(***************************************************************************)
(* What IPTMiss does to the distances: all entries but the overwritten one *)
(* come one step closer to being overwritten.                              *)
(***************************************************************************)
LEMMA MissTurns ==
    ASSUME Types, NEW v \in 0 .. MaxPages - 1, NEW f \in Frame,
           NEW t \in [Slot -> TLBEntry], NEW pt, NEW file, IPTMiss(v, f, t, pt, file),
           NEW i \in Slot, ~tlb'[i].valid
    PROVE  /\ tlb'[i] = t[i] /\ i # currentTLB /\ currentTLB' = NextEntry
           /\ Distance(currentTLB', i, TLBSize) = Distance(currentTLB, i, TLBSize) - 1
<1>1. PICK n : n = [owner |-> currentSpace, virtualPage |-> v, valid |-> TRUE, dirty |-> FALSE]
    OBVIOUS
<1>2. n \in IPTEntry /\ n.valid
    BY <1>1, VirtualMemoryAssumption DEF IPTEntry, Types
<1>3. PICK p : p = [IPT EXCEPT ![f] = n]
    OBVIOUS
<1>4. p \in [Frame -> IPTEntry] /\ p[f].valid
    BY <1>2, <1>3 DEF Types
<1>5. updateTLB(t, p, f)
    BY <1>1, <1>3 DEF IPTMiss
<1>6. PICK k \in Slot : k = currentTLB
    BY DEF Types
<1>7. /\ tlb'[k].valid /\ currentTLB' = NextEntry
      /\ \A j \in Slot : j # k => tlb'[j] = t[j]
    BY <1>4, <1>5, <1>6, UpdateStep
<1>8. i # k
    BY <1>7
<1> QED BY <1>6, <1>7, <1>8, Distances

\* A page fault that takes a free frame.
LEMMA FreeReads ==
    ASSUME ReadInv, NEW v \in 0 .. MaxPages - 1, PageFaultFree(v)
    PROVE  MemoryRight' /\ StoredRight' /\ CleanRight' /\ StaleSoonGone'
<1> USE DEF ReadInv
<1>t. Types /\ BitMapRight
    BY DEF VMInv
<1>1. PICK f \in Frame : f = Min(Frame \ mainMemoryBitMap) /\ f \notin mainMemoryBitMap
  <2>1. Frame \ mainMemoryBitMap \in SUBSET Nat /\ Frame \ mainMemoryBitMap # {}
      BY <1>t, Numbers DEF PageFaultFree, Types
  <2>2. Min(Frame \ mainMemoryBitMap) \in Frame \ mainMemoryBitMap
      BY <2>1, MinIn
  <2> QED BY <2>2
<1>2. /\ mainMemoryBitMap' = mainMemoryBitMap \cup {f} /\ IPTMiss(v, f, tlb, pageTable, swapFile)
      /\ UNCHANGED <<processTable, currentSpace, currentIPT, swapFile, halted, written>>
    BY <1>1 DEF PageFaultFree
<1>3. ~IPT[f].valid
    BY <1>1, <1>t DEF BitMapRight
<1>4. v \in Pages(currentSpace) /\ InMemory(v) = {}
    BY DEF PageFaultFree, Faults, Pages
<1>5. ~pageTable[currentSpace][v].valid
    BY <1>4, MissingInvalid
<1>6. Vacated(f, tlb, pageTable)
    BY <1>3, FreeVacated
<1>7. PICK t \in [Slot -> TLBEntry] : t = tlb
    BY <1>t DEF Types
<1>8. PICK pt : pt = pageTable
    OBVIOUS
<1>9. Same(Fetched(pageTable[currentSpace][v], swapFile'), written[currentSpace][v])
  <2>1. Stored(pageTable[currentSpace][v], swapFile, written[currentSpace][v])
      BY <1>t, <1>4, <1>5 DEF StoredRight, Types
  <2> QED BY <1>2, <2>1, StoredFetched
<1>10. /\ \A s \in Space : \A w \in Pages(s) : pt[s][w].valid =>
             Same(mainMemory[pt[s][w].physicalPage], written[s][w])
       /\ \A s \in Space : \A w \in Pages(s) : ~pt[s][w].valid =>
             Stored(pt[s][w], swapFile', written[s][w])
       /\ \A s \in Space : \A w \in Pages(s) :
             pt[s][w].valid /\ CleanIn(t, IPT, pt[s][w].physicalPage) =>
                 Stored(pt[s][w], swapFile', written[s][w])
    BY <1>2, <1>7, <1>8 DEF MemoryRight, StoredRight, CleanRight
<1>11. Vacated(f, t, pt) /\ ~pt[currentSpace][v].valid /\ IPTMiss(v, f, t, pt, swapFile')
       /\ written' = written
    BY <1>2, <1>5, <1>6, <1>7, <1>8
<1>12. MemoryRight' /\ StoredRight' /\ CleanRight'
    BY <1>t, <1>4, <1>9, <1>10, <1>11, FillReads
<1>13. StaleSoonGone'
  <2> SUFFICES ASSUME NEW i \in Slot, ~tlb'[i].valid
               PROVE  Distance(currentTLB', i, TLBSize)
                      < FreeFrames' + Distance(currentIPT, tlb'[i].physicalPage, NumPhysPages)
      BY <1>2 DEF StaleSoonGone
  <2>1. /\ tlb'[i] = t[i]
        /\ Distance(currentTLB', i, TLBSize) = Distance(currentTLB, i, TLBSize) - 1
      BY <1>t, <1>11, MissTurns
  <2>2. PICK a \in 0 .. TLBSize - 1 : a = Distance(currentTLB, i, TLBSize)
      BY <1>t, Distances
  <2>3. PICK b \in 0 .. NumPhysPages - 1 :
            b = Distance(currentIPT, tlb[i].physicalPage, NumPhysPages)
      BY <1>t, Distances
  <2>4. PICK B \in SUBSET Frame : B = mainMemoryBitMap
      BY <1>t DEF Types
  <2>5. PICK m \in Nat : m = FreeFrames
      BY <2>4, FramesCounted DEF FreeFrames
  <2>6. FreeFrames' = m - 1
      BY <1>1, <1>2, <2>4, <2>5, FramesCounted DEF FreeFrames
  <2>7. a < m + b
      BY <1>7, <2>1, <2>2, <2>3, <2>5 DEF StaleSoonGone
  <2>8. a - 1 < (m - 1) + b
      BY <2>7, Numbers
  <2> QED BY <1>7, <2>1, <2>2, <2>3, <2>6, <2>8
<1> QED BY <1>12, <1>13

\* The largest of one number.
LEMMA MaxOfOne ==
    ASSUME NEW i \in Nat
    PROVE  Max({i}) = i
BY DEF Max

(***************************************************************************)
(* When a frame is evicted no stale entry names it, and the dirty bit that *)
(* HandleMemoryFull reads is the right one.                                *)
(***************************************************************************)
LEMMA DirtyRight ==
    ASSUME FifoOneThread, ReadInv, mainMemoryBitMap = Frame, NEW f \in Frame, f = currentIPT,
           ~DirtyAtEviction(f)
    PROVE  CleanIn(tlb, IPT, f)
<1> USE DEF ReadInv, VMInv
<1>1. FreeFrames = 0
    BY FramesCounted DEF FreeFrames
<1>2. ASSUME NEW i \in Slot, tlb[i].physicalPage = f PROVE tlb[i].valid
  <2>1. SUFFICES ASSUME ~tlb[i].valid PROVE FALSE
      OBVIOUS
  <2>2. Distance(currentTLB, i, TLBSize)
            < FreeFrames + Distance(currentIPT, tlb[i].physicalPage, NumPhysPages)
      BY <2>1 DEF StaleSoonGone
  <2>3. Distance(currentIPT, f, NumPhysPages) = 0
      BY Distances
  <2>4. PICK a \in 0 .. TLBSize - 1 : a = Distance(currentTLB, i, TLBSize)
      BY Distances
  <2> QED BY <1>1, <1>2, <2>2, <2>3, <2>4
<1>3. PICK c \in Space : c = currentSpace
    BY DEF Types
<1>4. ASSUME NEW i \in Slot, tlb[i].valid
      PROVE  Keeps(tlb[i].physicalPage, c, tlb[i].virtualPage)
  <2>1. Lies(pageTable, c, tlb[i].virtualPage, tlb[i].physicalPage)
      BY <1>3, <1>4 DEF EntriesRight
  <2> QED BY <2>1 DEF Lies, PagesKnown, Pages
<1>5. ASSUME NEW i \in Slot, tlb[i].valid, tlb[i].physicalPage = f PROVE ~tlb[i].dirty
  <2>1. \A j \in Slot : tlb[j].physicalPage = f => j = i
      BY <1>2, <1>4, <1>5 DEF Keeps, EntriesDiffer
  <2>2. Entries(f) = {i}
      BY <1>5, <2>1 DEF Entries
  <2>3. Max({i}) = i
      BY MaxOfOne, Numbers
  <2> QED BY <2>2, <2>3 DEF DirtyAtEviction
<1>6. ASSUME \A i \in Slot : tlb[i].valid => tlb[i].physicalPage # f PROVE ~IPT[f].dirty
  <2>1. Entries(f) = {}
      BY <1>2, <1>6 DEF Entries
  <2> QED BY <2>1 DEF DirtyAtEviction
<1> QED BY <1>5, <1>6 DEF CleanIn

\* A page fault that evicts a page.
LEMMA EvictReads ==
    ASSUME FifoOneThread, ReadInv, NEW v \in 0 .. MaxPages - 1, NEW f \in Frame,
           PageFaultEvict(v, f)
    PROVE  MemoryRight' /\ StoredRight' /\ CleanRight' /\ StaleSoonGone'
<1> USE DEF ReadInv
<1>t. Types /\ BitMapRight /\ OwnersKnow
    BY DEF VMInv
<1>1. /\ mainMemoryBitMap = Frame /\ f = currentIPT
      /\ currentIPT' = (currentIPT + 1) % NumPhysPages
      /\ swapFile' = IF DirtyAtEviction(f) THEN Append(swapFile, mainMemory[f]) ELSE swapFile
      /\ IPTMiss(v, f, WithoutFrame(f), Evicted(f), swapFile')
      /\ DirtyAtEviction(f) => Len(swapFile) < MaxSwap
      /\ UNCHANGED <<processTable, currentSpace, mainMemoryBitMap, halted, written>>
    BY DEF PageFaultEvict, SwapFileAfter, Victim, FifoOneThread
<1>2. IPT[f].valid
    BY <1>1, <1>t DEF BitMapRight
<1>3. v \in Pages(currentSpace) /\ InMemory(v) = {}
    BY DEF PageFaultEvict, Faults, Pages
<1>4. ~pageTable[currentSpace][v].valid
    BY <1>3, MissingInvalid
<1>5. PICK s \in Space : s = IPT[f].owner
    BY <1>2, <1>t DEF OwnersKnow, Types
<1>6. PICK u : u = IPT[f].virtualPage
    OBVIOUS
<1>7. PICK t : t = WithoutFrame(f)
    OBVIOUS
<1>8. PICK pt : pt = Evicted(f)
    OBVIOUS
<1>9. /\ u \in Pages(s) /\ pageTable[s][u].valid /\ pageTable[s][u].physicalPage = f
      /\ Vacated(f, t, pt)
      /\ \A i \in Slot : /\ t[i].valid <=> tlb[i].valid /\ tlb[i].physicalPage # f
                         /\ t[i].physicalPage = tlb[i].physicalPage
                         /\ t[i].dirty = tlb[i].dirty
      /\ \A r \in Space : \A w \in Pages(r) :
            r # s \/ w # u => pt[r][w] = pageTable[r][w]
      /\ ~pt[s][u].valid
      /\ DirtyAtEviction(f) => /\ pt[s][u].location = "swapfile"
                               /\ pt[s][u].swapLocation = Len(swapFile) + 1
      /\ ~DirtyAtEviction(f) =>
            /\ pt[s][u].location = pageTable[s][u].location
            /\ pt[s][u].swapLocation = pageTable[s][u].swapLocation
    BY <1>1, <1>2, <1>5, <1>6, <1>7, <1>8, EvictVacates
<1>10. PICK c \in Space : c = currentSpace
    BY <1>t DEF Types
<1>11. c # s \/ v # u
    BY <1>3, <1>4, <1>9, <1>10
<1>12. /\ ~pt[currentSpace][v].valid /\ IPTMiss(v, f, t, pt, swapFile') /\ written' = written
    BY <1>1, <1>3, <1>4, <1>7, <1>8, <1>9, <1>10, <1>11
<1>13. swapFile \in Seq(Nat) /\ mainMemory[f] \in Nat
    BY <1>t DEF Types
<1>14. /\ swapFile' \in Seq(Nat) /\ Len(swapFile) <= Len(swapFile')
       /\ \A j \in 1 .. Len(swapFile) : swapFile'[j] = swapFile[j]
    BY <1>1, <1>13
<1>15. ASSUME NEW r \in Space, NEW w \in Pages(r), NEW e, e.location = pageTable[r][w].location,
              e.swapLocation = pageTable[r][w].swapLocation,
              Stored(pageTable[r][w], swapFile, written[r][w])
       PROVE  Stored(e, swapFile', written[r][w])
    BY <1>13, <1>14, <1>15, StoredKept
<1>16. Same(Fetched(pageTable[currentSpace][v], swapFile'), written[currentSpace][v])
  <2>1. Stored(pageTable[c][v], swapFile, written[c][v])
      BY <1>3, <1>4, <1>10 DEF StoredRight
  <2>2. Stored(pageTable[c][v], swapFile', written[c][v])
      BY <1>3, <1>10, <1>15, <2>1
  <2> QED BY <1>10, <2>2, StoredFetched
<1>17. Stored(pt[s][u], swapFile', written[s][u])
  <2>1. CASE DirtyAtEviction(f)
    <3>1. swapFile'[Len(swapFile) + 1] = mainMemory[f] /\ Len(swapFile') = Len(swapFile) + 1
        BY <1>1, <1>13, <2>1
    <3>2. Same(mainMemory[f], written[s][u])
        BY <1>9 DEF MemoryRight
    <3>3. Len(swapFile) + 1 \in 1 .. Len(swapFile')
        BY <1>13, <1>14, <3>1
    <3> QED BY <1>9, <2>1, <3>1, <3>2, <3>3 DEF Stored, Same
  <2>2. CASE ~DirtyAtEviction(f)
    <3>1. CleanIn(tlb, IPT, f)
        BY <1>1, <2>2, DirtyRight
    <3>2. Stored(pageTable[s][u], swapFile, written[s][u])
        BY <1>9, <3>1 DEF CleanRight
    <3> QED BY <1>9, <1>15, <2>2, <3>2
  <2> QED BY <2>1, <2>2
<1>18. ASSUME NEW r \in Space, NEW w \in Pages(r), r # s \/ w # u
       PROVE  /\ pt[r][w].valid => Same(mainMemory[pt[r][w].physicalPage], written[r][w])
              /\ ~pt[r][w].valid => Stored(pt[r][w], swapFile', written[r][w])
              /\ pt[r][w].valid /\ CleanIn(t, IPT, pt[r][w].physicalPage) =>
                     Stored(pt[r][w], swapFile', written[r][w])
  <2>1. pt[r][w] = pageTable[r][w]
        /\ (Stored(pageTable[r][w], swapFile, written[r][w]) =>
               Stored(pt[r][w], swapFile', written[r][w]))
      BY <1>9, <1>15, <1>18
  <2>2. pt[r][w].valid => Same(mainMemory[pt[r][w].physicalPage], written[r][w])
      BY <2>1 DEF MemoryRight
  <2>3. ~pt[r][w].valid => Stored(pt[r][w], swapFile', written[r][w])
      BY <2>1 DEF StoredRight
  <2>4. ASSUME pt[r][w].valid, CleanIn(t, IPT, pt[r][w].physicalPage)
        PROVE  Stored(pt[r][w], swapFile', written[r][w])
    <3>1. PICK g : g = pt[r][w].physicalPage
        OBVIOUS
    <3>2. g # f
        BY <1>9, <2>4, <3>1 DEF Vacated
    <3>3. CleanIn(tlb, IPT, g)
        BY <1>9, <2>4, <3>1, <3>2 DEF CleanIn
    <3> QED BY <2>1, <2>4, <3>1, <3>3 DEF CleanRight
  <2> QED BY <2>2, <2>3, <2>4
<1>19. /\ \A r \in Space : \A w \in Pages(r) : pt[r][w].valid =>
             Same(mainMemory[pt[r][w].physicalPage], written[r][w])
       /\ \A r \in Space : \A w \in Pages(r) : ~pt[r][w].valid =>
             Stored(pt[r][w], swapFile', written[r][w])
       /\ \A r \in Space : \A w \in Pages(r) :
             pt[r][w].valid /\ CleanIn(t, IPT, pt[r][w].physicalPage) =>
                 Stored(pt[r][w], swapFile', written[r][w])
    BY <1>9, <1>17, <1>18
<1>20. MemoryRight' /\ StoredRight' /\ CleanRight'
    BY <1>t, <1>3, <1>9, <1>12, <1>16, <1>19, FillReads
<1>21. StaleSoonGone'
  <2> SUFFICES ASSUME NEW i \in Slot, ~tlb'[i].valid
               PROVE  Distance(currentTLB', i, TLBSize)
                      < FreeFrames' + Distance(currentIPT', tlb'[i].physicalPage, NumPhysPages)
      BY DEF StaleSoonGone
  <2>1. t \in [Slot -> TLBEntry]
      BY <1>9 DEF Vacated
  <2>2. /\ tlb'[i] = t[i]
        /\ Distance(currentTLB', i, TLBSize) = Distance(currentTLB, i, TLBSize) - 1
      BY <1>t, <1>12, <2>1, MissTurns
  <2>3. FreeFrames = 0 /\ FreeFrames' = 0
      BY <1>1, FramesCounted DEF FreeFrames
  <2>4. PICK a \in 0 .. TLBSize - 1 : a = Distance(currentTLB, i, TLBSize)
      BY <1>t, Distances
  <2>5. PICK g \in Frame : g = tlb[i].physicalPage
      BY <1>t, Distances
  <2>6. tlb'[i].physicalPage = g /\ (~tlb[i].valid \/ g = f)
      BY <1>9, <2>2, <2>5
  <2>7. CASE g = f
    <3>1. Distance(currentIPT', g, NumPhysPages) = NumPhysPages - 1
        BY <1>1, <1>t, <2>7, Distances
    <3>2. a - 1 < 0 + (NumPhysPages - 1)
        BY Numbers DEF FifoOneThread
    <3> QED BY <2>2, <2>3, <2>4, <2>6, <3>1, <3>2
  <2>8. CASE g # f
    <3>1. PICK b \in 0 .. NumPhysPages - 1 :
              b = Distance(currentIPT, g, NumPhysPages)
              /\ Distance(currentIPT', g, NumPhysPages) = b - 1
        BY <1>1, <1>t, <2>8, Distances
    <3>2. a < FreeFrames + b
        BY <2>4, <2>5, <2>6, <2>8, <3>1 DEF StaleSoonGone
    <3>3. a - 1 < 0 + (b - 1)
        BY <2>3, <3>2, Numbers
    <3> QED BY <2>2, <2>3, <2>4, <2>6, <3>1, <3>3
  <2> QED BY <2>7, <2>8
<1> QED BY <1>20, <1>21

(***************************************************************************)
(* A step that leaves the memory and the pages that exist alone, or loses  *)
(* them for good, and adds pages that are where their contents come from.  *)
(***************************************************************************)
LEMMA PagesAdded ==
    ASSUME ReadInv,
           UNCHANGED <<tlb, currentTLB, IPT, currentIPT, mainMemoryBitMap, mainMemory, swapFile>>,
           \A s \in Space : \A w \in Pages(s)' :
              \/ written'[s][w] = Unknown
              \/ /\ w \in Pages(s) /\ pageTable'[s][w] = pageTable[s][w]
                 /\ written'[s][w] = written[s][w]
              \/ /\ ~pageTable'[s][w].valid
                 /\ \/ pageTable'[s][w].location = "executable" /\ written'[s][w] = Image
                    \/ pageTable'[s][w].location = "neither" /\ written'[s][w] = Zero
    PROVE  MemoryRight' /\ StoredRight' /\ CleanRight' /\ StaleSoonGone'
<1> USE DEF ReadInv
<1>1. MemoryRight'
    BY DEF MemoryRight, Same
<1>2. StoredRight'
  <2> SUFFICES ASSUME NEW s \in Space, NEW w \in Pages(s)', ~pageTable'[s][w].valid
               PROVE  Stored(pageTable'[s][w], swapFile, written'[s][w])
      BY DEF StoredRight
  <2>1. CASE /\ w \in Pages(s) /\ pageTable'[s][w] = pageTable[s][w]
             /\ written'[s][w] = written[s][w]
      BY <2>1 DEF StoredRight
  <2>2. CASE pageTable'[s][w].location = "executable" /\ written'[s][w] = Image
      BY <2>2 DEF Stored
  <2>3. CASE pageTable'[s][w].location = "neither" /\ written'[s][w] = Zero
      BY <2>3 DEF Stored
  <2>4. CASE written'[s][w] = Unknown
      BY <2>4 DEF Stored
  <2> QED BY <2>1, <2>2, <2>3, <2>4
<1>3. CleanRight'
  <2>1. \A e, sf : Stored(e, sf, Unknown)
      BY DEF Stored
  <2> QED BY <2>1 DEF CleanRight
<1>4. StaleSoonGone'
    BY DEF StaleSoonGone, FreeFrames
<1> QED BY <1>1, <1>2, <1>3, <1>4

\* The pages of a new process.
LEMMA ExecReads ==
    ASSUME ReadInv, NEW s \in Space, Exec(s)
    PROVE  MemoryRight' /\ StoredRight' /\ CleanRight' /\ StaleSoonGone'
<1>1. /\ pageTable' = [pageTable EXCEPT ![s] = ProgramTable]
      /\ written' = [written EXCEPT ![s] = ProgramImage]
      /\ UNCHANGED <<tlb, currentTLB, IPT, currentIPT, mainMemoryBitMap, mainMemory, swapFile>>
    BY DEF Exec, tlbVars, memoryVars
<1>2. PICK g \in Tables : g = ProgramTable
    BY NewTables
<1>3. PICK h \in Contents : h = ProgramImage
    BY NewTables
<1>4. /\ DOMAIN g = DOMAIN h
      /\ \A v \in DOMAIN g : ~g[v].valid /\ g[v].location = "executable" /\ h[v] = Image
    BY <1>2, <1>3, NewTables
<1>5. /\ pageTable'[s] = g /\ written'[s] = h
      /\ \A r \in Space : r # s => pageTable'[r] = pageTable[r] /\ written'[r] = written[r]
    BY <1>1, <1>2, <1>3, <1>4, TableChanged DEF ReadInv
<1>6. \A r \in Space : \A w \in Pages(r)' :
         \/ /\ w \in Pages(r) /\ pageTable'[r][w] = pageTable[r][w]
            /\ written'[r][w] = written[r][w]
         \/ /\ ~pageTable'[r][w].valid
            /\ \/ pageTable'[r][w].location = "executable" /\ written'[r][w] = Image
               \/ pageTable'[r][w].location = "neither" /\ written'[r][w] = Zero
    BY <1>4, <1>5 DEF Pages
<1> QED BY <1>1, <1>6, PagesAdded

\* The pages of a new stack.
LEMMA StackReads ==
    ASSUME ReadInv, allocateStack
    PROVE  MemoryRight' /\ StoredRight' /\ CleanRight' /\ StaleSoonGone'
<1>1. VMInv
    BY DEF ReadInv
<1>2. UNCHANGED <<tlb, currentTLB, IPT, currentIPT, mainMemoryBitMap, mainMemory, swapFile>>
    BY <1>1, StackStep
<1>3. \A s \in Space : \A w \in DOMAIN pageTable[s] :
         \/ pageTable'[s][w] = pageTable[s][w] /\ written'[s][w] = written[s][w]
         \/ written'[s][w] = Unknown
    BY <1>1, StackStep
<1>4. \A s \in Space : \A w \in DOMAIN pageTable'[s] :
         \/ w \in DOMAIN pageTable[s]
         \/ /\ ~pageTable'[s][w].valid /\ pageTable'[s][w].location = "neither"
            /\ written'[s][w] = Zero
    BY <1>1, StackStep
<1>5. \A s \in Space : \A w \in Pages(s)' :
         \/ written'[s][w] = Unknown
         \/ /\ w \in Pages(s) /\ pageTable'[s][w] = pageTable[s][w]
            /\ written'[s][w] = written[s][w]
         \/ /\ ~pageTable'[s][w].valid
            /\ \/ pageTable'[s][w].location = "executable" /\ written'[s][w] = Image
               \/ pageTable'[s][w].location = "neither" /\ written'[s][w] = Zero
    BY <1>3, <1>4 DEF Pages
<1> QED BY <1>2, <1>5, PagesAdded

\* Nothing but the flag of Interrupt::Halt changes.
LEMMA HaltReads ==
    ASSUME ReadInv,
           UNCHANGED <<tlb, currentTLB, IPT, currentIPT, mainMemoryBitMap, mainMemory,
                       pageTable, swapFile, written>>
    PROVE  MemoryRight' /\ StoredRight' /\ CleanRight' /\ StaleSoonGone'
BY PagesAdded DEF Pages

\* Every step keeps the invariant.
LEMMA NextReadInv ==
    ASSUME FifoOneThread
    PROVE  ReadInv /\ [Next]_vars => ReadInv'
<1> SUFFICES ASSUME ReadInv, [Next]_vars
             PROVE  MemoryRight' /\ StoredRight' /\ CleanRight' /\ StaleSoonGone'
    BY NextVMInv DEF ReadInv
<1>1. CASE \E v \in 0 .. MaxPages - 1 : \E x \in Data : WriteMem(v, x)
    BY <1>1, WriteReads
<1>2. CASE \E v \in 0 .. MaxPages - 1 : PageFaultHit(v)
    BY <1>2, HitReads
<1>3. CASE \E v \in 0 .. MaxPages - 1 : PageFaultFree(v)
    BY <1>3, FreeReads
<1>4. CASE \E v \in 0 .. MaxPages - 1 : \E f \in Frame : PageFaultEvict(v, f)
    BY <1>4, EvictReads
<1>5. CASE \E v \in 0 .. MaxPages - 1 : \E f \in Frame : SwapFileFull(v, f)
    BY <1>5, HaltReads DEF SwapFileFull, tlbVars, memoryVars
<1>l. CASE \E v \in 0 .. MaxPages - 1 : LseekFails(v)
    BY <1>l, HaltReads DEF LseekFails, tlbVars, memoryVars
<1>6. CASE \E s \in Space : Run(s)
    BY <1>6 DEF Run, FifoOneThread
<1>7. CASE \E s \in Space : Exec(s)
    BY <1>7, ExecReads
<1>8. CASE \E s \in Space : Exit(s)
    BY <1>8 DEF Exit, FifoOneThread
<1>9. CASE allocateStack
    BY <1>9, StackReads
<1>10. CASE ExitLast
    BY <1>10, HaltReads DEF ExitLast, tlbVars, memoryVars
<1>11. CASE UNCHANGED vars
    BY <1>11, HaltReads DEF vars
<1> QED BY <1>1, <1>2, <1>3, <1>4, <1>5, <1>l, <1>6, <1>7, <1>8, <1>9, <1>10, <1>11, Zenon DEF Next

(***************************************************************************)
(* ReadsLastWrite, with any number of pages and frames: a program reads in *)
(* a page what it last wrote there, also after the page was evicted and    *)
(* fetched again, so HandleMemoryFull drops no modified page.  The premise *)
(* is FIFO replacement, one thread, and no more TLB entries than frames.   *)
(***************************************************************************)
THEOREM NoWriteLost ==
    ASSUME FifoOneThread
    PROVE  Spec => []ReadsLastWrite
<1>1. Init => ReadInv
    BY InitReadInv
<1>2. ReadInv /\ [Next]_vars => ReadInv'
    BY NextReadInv
<1>3. ReadInv => ReadsLastWrite
    BY ReadInvImplies
<1> QED BY <1>1, <1>2, <1>3, PTL DEF Spec

=============================================================================
