--------------------------- MODULE VirtualMemory ---------------------------
(***************************************************************************)
(* Demand-paged virtual memory: the TLB of the machine, the inverted page  *)
(* table (IPT), the page tables of the address spaces and the swap file    *)
(* (userprog/exception.cc, userprog/addrspace.cc, machine/translate.cc).   *)
(*                                                                         *)
(* A page fault is handled with interrupts off.  The machine runs without  *)
(* the preemptive timer (nachos without -rs), so that Exec, Fork and Exit  *)
(* are not interrupted either: each is one step.  All threads of a process *)
(* share its address space; a switch from one to another also goes through *)
(* AddrSpace::SaveState.  A page holds one datum.  No page is read-only.   *)
(***************************************************************************)
EXTENDS Integers, Sequences, FiniteSetsExt

CONSTANTS
    Space,          \* address spaces
    FirstSpace,     \* the one of the program that nachos -x starts
    NULL,           \* no address space
    NumPhysPages,   \* frames of main memory
    TLBSize,        \* entries of the TLB
    ProgramPages,   \* pages of an executable with its stack
    StackPages,     \* pages of the stack of a forked thread
    MaxPages,       \* bound on the pages of an address space
    MaxSwap,        \* pages of the swap file
    Data,           \* what programs write into pages
    PRand,          \* random page replacement (nachos -P RAND), not FIFO
    Switches        \* the CPU is switched between threads

ASSUME VirtualMemoryAssumption ==
    /\ FirstSpace \in Space /\ NULL \notin Space
    /\ NumPhysPages \in Nat \ {0} /\ TLBSize \in Nat \ {0}
    /\ ProgramPages \in Nat \ {0} /\ StackPages \in Nat \ {0}
    /\ MaxPages \in Nat /\ MaxSwap \in Nat
    /\ Data \subseteq Nat
    /\ PRand \in BOOLEAN /\ Switches \in BOOLEAN

VARIABLES
    processTable,   \* the spaces of the processes that exist
    currentSpace,   \* the space of the current thread
    tlb,            \* entries of the TLB
    currentTLB,     \* the entry to be overwritten next
    IPT,            \* frame -> the page in it
    currentIPT,     \* the frame to be evicted next (FIFO)
    mainMemoryBitMap, \* the frames in use
    mainMemory,     \* frame -> its contents
    pageTable,      \* space -> page -> where it is
    swapFile,       \* the pages written to the swap file; none is reused
    halted,         \* Interrupt::Halt was called
    written         \* space -> page -> what the program last wrote, or Unknown
                    \* if Fork lost it (auxiliary)

tlbVars == <<tlb, currentTLB>>
memoryVars == <<IPT, currentIPT, mainMemoryBitMap, mainMemory>>
vars == <<processTable, currentSpace, tlb, currentTLB, IPT, currentIPT,
          mainMemoryBitMap, mainMemory, pageTable, swapFile, halted, written>>

Frame == 0 .. NumPhysPages - 1
Slot == 0 .. TLBSize - 1

\* What a page holds at first: zeroes, or what is in the executable.
Zero == 0
Image == 1

\* What Fork may have lost of a page.
Unknown == -1

Location == {"swapfile", "executable", "neither"}

(***************************************************************************)
(* A slot of the swap file, counted from 1: 0 is past everything the file  *)
(* will ever hold and -1 is any negative number, which only an entry that  *)
(* was never initialised has.                                              *)
(***************************************************************************)
SwapSlot == -1 .. MaxSwap

\* A PageTableEntry.  Its dirty bit is never set, so it is left out.
PageEntry == [valid : BOOLEAN, physicalPage : Frame, location : Location,
              swapLocation : SwapSlot]

NewPage(l) ==
    [valid |-> FALSE, physicalPage |-> 0, location |-> l, swapLocation |-> 0]

NoPages == [v \in {} |-> Zero]

\* The page table that the constructor of AddrSpace makes.
ProgramTable == [v \in 0 .. ProgramPages - 1 |-> NewPage("executable")]
ProgramImage == [v \in 0 .. ProgramPages - 1 |-> Image]

TLBEntry == [virtualPage : 0 .. MaxPages, physicalPage : Frame, valid : BOOLEAN,
             dirty : BOOLEAN]

IPTEntry == [owner : Space \cup {NULL}, virtualPage : 0 .. MaxPages, valid : BOOLEAN,
             dirty : BOOLEAN]

(***************************************************************************)
(* The machine sets nothing but the valid bits of a new TLB: what else is  *)
(* in an entry is whatever the memory held.                                *)
(***************************************************************************)
Init ==
    /\ processTable = {FirstSpace}
    /\ currentSpace = FirstSpace
    /\ tlb \in [Slot -> {e \in TLBEntry : ~e.valid /\ e.virtualPage = 0}]
    /\ currentTLB = 0
    /\ IPT = [f \in Frame |-> [owner |-> NULL, virtualPage |-> 0, valid |-> FALSE,
                               dirty |-> FALSE]]
    /\ currentIPT = 0
    /\ mainMemoryBitMap = {}
    /\ mainMemory = [f \in Frame |-> Zero]
    /\ pageTable = [s \in Space |-> IF s = FirstSpace THEN ProgramTable ELSE NoPages]
    /\ swapFile = <<>>
    /\ halted = FALSE
    /\ written = [s \in Space |-> IF s = FirstSpace THEN ProgramImage ELSE NoPages]

-----------------------------------------------------------------------------
(***************************************************************************)
(* The machine.  An instruction that writes finds the page in the TLB, or  *)
(* raises a page fault and is executed again.                              *)
(***************************************************************************)
Hits(v) == {i \in Slot : tlb[i].valid /\ tlb[i].virtualPage = v}

WriteMem(v, x) ==
    /\ ~halted
    /\ Hits(v) # {}
    /\ mainMemory' = [mainMemory EXCEPT ![tlb[Min(Hits(v))].physicalPage] = x]
    /\ tlb' = [tlb EXCEPT ![Min(Hits(v))].dirty = TRUE]
    /\ written' = [written EXCEPT ![currentSpace][v] = x]
    /\ UNCHANGED <<processTable, currentSpace, currentTLB, IPT, currentIPT,
                   mainMemoryBitMap, pageTable, swapFile, halted>>

-----------------------------------------------------------------------------
(***************************************************************************)
(* updateTLB: the TLB is t and the IPT is p when it is called for frame f. *)
(* The dirty bit of the entry that goes is kept in the IPT.                *)
(***************************************************************************)
\* Mutant: the dirty bit of the overwritten entry is dropped.
PropagateNothing(t, p) == p

Propagate(t, p) ==
    IF t[currentTLB].dirty
    THEN [p EXCEPT ![t[currentTLB].physicalPage].dirty = TRUE]
    ELSE p

NextEntry == (currentTLB + 1) % TLBSize

updateTLB(t, p, f) ==
    /\ IPT' = Propagate(t, p)
    /\ tlb' = [t EXCEPT ![currentTLB] =
                 [virtualPage |-> p[f].virtualPage, physicalPage |-> f,
                  valid |-> p[f].valid, dirty |-> Propagate(t, p)[f].dirty]]
    /\ currentTLB' = NextEntry

\* The frame is zeroed first, and past the end of the file nothing is read.
FromSwap(file, i) == IF i \in 1 .. Len(file) THEN file[i] ELSE Zero

\* What IPTMiss reads for the page of entry e when the swap file is file.
Fetched(e, file) ==
    CASE e.location = "executable" -> Image
      [] e.location = "swapfile" -> FromSwap(file, e.swapLocation)
      [] e.location = "neither" -> Zero

(***************************************************************************)
(* AddrSpace::IPTMiss: page v goes to frame f; t, pt and file are the TLB, *)
(* the page tables and the swap file after the eviction, if there was one. *)
(***************************************************************************)
IPTMiss(v, f, t, pt, file) ==
    /\ mainMemory' = [mainMemory EXCEPT ![f] = Fetched(pageTable[currentSpace][v], file)]
    /\ pageTable' = [pt EXCEPT ![currentSpace][v].valid = TRUE,
                               ![currentSpace][v].physicalPage = f]
    /\ updateTLB(t, [IPT EXCEPT ![f] = [owner |-> currentSpace, virtualPage |-> v,
                                        valid |-> TRUE, dirty |-> FALSE]], f)

\* Page v of the current thread is not in the TLB.
Faults(v) ==
    /\ ~halted
    /\ v \in DOMAIN pageTable[currentSpace]
    /\ Hits(v) = {}

Holds(f, v) ==
    IPT[f].virtualPage = v /\ IPT[f].owner = currentSpace /\ IPT[f].valid

InMemory(v) == {f \in Frame : Holds(f, v)}

PageFaultHit(v) ==
    /\ Faults(v)
    /\ InMemory(v) # {}
    /\ updateTLB(tlb, IPT, Min(InMemory(v)))
    /\ UNCHANGED <<processTable, currentSpace, currentIPT, mainMemoryBitMap,
                   mainMemory, pageTable, swapFile, halted, written>>

\* The slot of page v is not negative, if page v is in the swap file.
Seekable(v) ==
    LET e == pageTable[currentSpace][v]
    IN  e.location = "swapfile" => e.swapLocation >= 0

PageFaultFree(v) ==
    /\ Faults(v)
    /\ InMemory(v) = {}
    /\ Seekable(v)
    /\ mainMemoryBitMap # Frame
    /\ LET f == Min(Frame \ mainMemoryBitMap)
       IN  /\ mainMemoryBitMap' = mainMemoryBitMap \cup {f}
           /\ IPTMiss(v, f, tlb, pageTable, swapFile)
    /\ UNCHANGED <<processTable, currentSpace, currentIPT, swapFile, halted, written>>

\* Lseek asserts that it gets to where it was sent: nachos aborts.
LseekFails(v) ==
    /\ Faults(v)
    /\ InMemory(v) = {}
    /\ ~Seekable(v)
    /\ halted' = TRUE
    /\ UNCHANGED <<processTable, currentSpace, tlbVars, memoryVars, pageTable,
                   swapFile, written>>

-----------------------------------------------------------------------------
(***************************************************************************)
(* HandleMemoryFull evicts the page in frame f.                            *)
(***************************************************************************)
Entries(f) == {i \in Slot : tlb[i].physicalPage = f}

WithoutFrame(f) ==
    [i \in Slot |-> [tlb[i] EXCEPT !.valid = @ /\ i \notin Entries(f)]]

\* The last entry for the frame decides, whether it is valid or not.
DirtyAtEviction(f) ==
    IF Entries(f) = {} THEN IPT[f].dirty ELSE tlb[Max(Entries(f))].dirty

\* The page tables after swappedPage or evictedPage of the owner.
Evicted(f) ==
    [pageTable EXCEPT ![IPT[f].owner][IPT[f].virtualPage] =
        IF DirtyAtEviction(f)
        THEN [@ EXCEPT !.valid = FALSE, !.location = "swapfile",
                       !.swapLocation = Len(swapFile) + 1]
        ELSE [@ EXCEPT !.valid = FALSE]]

SwapFileAfter(f) ==
    IF DirtyAtEviction(f) THEN Append(swapFile, mainMemory[f]) ELSE swapFile

Victim(f) == PRand \/ f = currentIPT

PageFaultEvict(v, f) ==
    /\ Faults(v)
    /\ InMemory(v) = {}
    /\ Seekable(v)
    /\ mainMemoryBitMap = Frame
    /\ Victim(f)
    /\ DirtyAtEviction(f) => Len(swapFile) < MaxSwap
    /\ currentIPT' = IF PRand THEN currentIPT ELSE (currentIPT + 1) % NumPhysPages
    /\ swapFile' = SwapFileAfter(f)
    /\ IPTMiss(v, f, WithoutFrame(f), Evicted(f), SwapFileAfter(f))
    /\ UNCHANGED <<processTable, currentSpace, mainMemoryBitMap, halted, written>>

SwapFileFull(v, f) ==
    /\ Faults(v)
    /\ InMemory(v) = {}
    /\ mainMemoryBitMap = Frame
    /\ Victim(f)
    /\ DirtyAtEviction(f)
    /\ Len(swapFile) = MaxSwap
    /\ halted' = TRUE
    /\ UNCHANGED <<processTable, currentSpace, tlbVars, memoryVars, pageTable,
                   swapFile, written>>

-----------------------------------------------------------------------------
(***************************************************************************)
(* Threads and processes.                                                  *)
(***************************************************************************)
\* Mutant: the TLB is left to the next thread as it is.
SaveNothing == tlb

\* The TLB after AddrSpace::SaveState.
SaveState == [i \in Slot |-> [tlb[i] EXCEPT !.valid = FALSE]]

\* Scheduler::Run gives the CPU to a thread of space s.
Run(s) ==
    /\ ~halted
    /\ Switches
    /\ s \in processTable
    /\ currentSpace' = s
    /\ tlb' = SaveState
    /\ UNCHANGED <<processTable, currentTLB, memoryVars, pageTable, swapFile, halted,
                   written>>

Exec(s) ==
    /\ ~halted
    /\ s \notin processTable
    /\ processTable' = processTable \cup {s}
    /\ pageTable' = [pageTable EXCEPT ![s] = ProgramTable]
    /\ written' = [written EXCEPT ![s] = ProgramImage]
    /\ UNCHANGED <<currentSpace, tlbVars, memoryVars, swapFile, halted>>

numPages(s) == Cardinality(DOMAIN pageTable[s])

\* g with n more pages that hold x.
Extended(g, n, x) ==
    [v \in 0 .. Cardinality(DOMAIN g) + n - 1 |-> IF v \in DOMAIN g THEN g[v] ELSE x]

\* The pages of space s that are to be read from the swap file.
Swapped(s) == {v \in DOMAIN pageTable[s] : pageTable[s][v].location = "swapfile"}

(***************************************************************************)
(* The old entries in the new page table of the current space.  Every      *)
(* field is copied but swapLocation: it is slot[v], whatever the memory    *)
(* held, for a page whose location says that it is to be used.             *)
(***************************************************************************)
Copied(slot) ==
    [v \in DOMAIN pageTable[currentSpace] |->
        IF v \in Swapped(currentSpace)
        THEN [pageTable[currentSpace][v] EXCEPT !.swapLocation = slot[v]]
        ELSE pageTable[currentSpace][v]]

\* What is still known of the pages of the current space.
Kept ==
    [v \in DOMAIN written[currentSpace] |->
        IF v \in Swapped(currentSpace) THEN Unknown ELSE written[currentSpace][v]]

\* Fork gives the new thread a stack.
allocateStack ==
    /\ ~halted
    /\ numPages(currentSpace) + StackPages <= MaxPages
    /\ \E slot \in [Swapped(currentSpace) -> SwapSlot] :
          pageTable' = [pageTable EXCEPT ![currentSpace] =
                           Extended(Copied(slot), StackPages, NewPage("neither"))]
    /\ written' = [written EXCEPT ![currentSpace] = Extended(Kept, StackPages, Zero)]
    /\ UNCHANGED <<processTable, currentSpace, tlbVars, memoryVars, swapFile, halted>>

FramesOf(s) ==
    {pageTable[s][v].physicalPage : v \in {w \in DOMAIN pageTable[s] : pageTable[s][w].valid}}

\* Mutant: the frames are freed and stay in the IPT.
clearFrames ==
    /\ mainMemoryBitMap' = mainMemoryBitMap \ FramesOf(currentSpace)
    /\ mainMemory' = [f \in Frame |-> IF f \in FramesOf(currentSpace) THEN Zero
                                      ELSE mainMemory[f]]
    /\ IPT' = IPT

clearMem ==
    /\ mainMemoryBitMap' = mainMemoryBitMap \ FramesOf(currentSpace)
    /\ mainMemory' = [f \in Frame |-> IF f \in FramesOf(currentSpace) THEN Zero
                                      ELSE mainMemory[f]]
    /\ IPT' = [f \in Frame |-> IF f \in FramesOf(currentSpace)
                               THEN [IPT[f] EXCEPT !.valid = FALSE] ELSE IPT[f]]

\* The last thread of a process exits, and a thread of space s runs next.
Exit(s) ==
    /\ ~halted
    /\ Switches
    /\ s \in processTable \ {currentSpace}
    /\ clearMem
    /\ processTable' = processTable \ {currentSpace}
    /\ pageTable' = [pageTable EXCEPT ![currentSpace] = NoPages]
    /\ written' = [written EXCEPT ![currentSpace] = NoPages]
    /\ currentSpace' = s
    /\ tlb' = SaveState
    /\ UNCHANGED <<currentTLB, currentIPT, swapFile, halted>>

\* The last process exits.
ExitLast ==
    /\ ~halted
    /\ processTable = {currentSpace}
    /\ halted' = TRUE
    /\ UNCHANGED <<processTable, currentSpace, tlbVars, memoryVars, pageTable,
                   swapFile, written>>

-----------------------------------------------------------------------------
Next ==
    \/ \E v \in 0 .. MaxPages - 1 :
          \/ \E x \in Data : WriteMem(v, x)
          \/ PageFaultHit(v)
          \/ PageFaultFree(v)
          \/ LseekFails(v)
          \/ \E f \in Frame : PageFaultEvict(v, f) \/ SwapFileFull(v, f)
    \/ \E s \in Space : Run(s) \/ Exec(s) \/ Exit(s)
    \/ allocateStack
    \/ ExitLast

Spec == Init /\ [][Next]_vars
-----------------------------------------------------------------------------
(***************************************************************************)
(* Properties.                                                             *)
(***************************************************************************)
Pages(s) == DOMAIN pageTable[s]

\* The values that the TLB, the tables and the memory take.
TypeOK ==
    /\ processTable \subseteq Space
    /\ currentSpace \in processTable
    /\ tlb \in [Slot -> TLBEntry]
    /\ currentTLB \in Slot
    /\ IPT \in [Frame -> IPTEntry]
    /\ currentIPT \in Frame
    /\ mainMemoryBitMap \subseteq Frame
    /\ mainMemory \in [Frame -> Nat]
    /\ swapFile \in Seq(Nat) /\ Len(swapFile) <= MaxSwap
    /\ halted \in BOOLEAN
    /\ \A s \in Space :
          /\ pageTable[s] \in [Pages(s) -> PageEntry]
          /\ written[s] \in [Pages(s) -> Nat \cup {Unknown}]

(***************************************************************************)
(* The IPT, the page tables and the bitmap of main memory agree: a frame   *)
(* is in use exactly if it holds one page of one living process, and that  *)
(* process knows it.  So an eviction on behalf of one process tells the    *)
(* right owner, and no frame leaks or is shared when a process exits.      *)
(***************************************************************************)
FramesAgree ==
    /\ mainMemoryBitMap = {f \in Frame : IPT[f].valid}
    /\ \A f \in Frame : IPT[f].valid =>
          LET s == IPT[f].owner
              v == IPT[f].virtualPage
          IN  /\ s \in processTable /\ v \in Pages(s)
              /\ pageTable[s][v].valid /\ pageTable[s][v].physicalPage = f
    /\ \A s \in Space : \A v \in Pages(s) : pageTable[s][v].valid =>
          LET f == pageTable[s][v].physicalPage
          IN  IPT[f].valid /\ IPT[f].owner = s /\ IPT[f].virtualPage = v

(***************************************************************************)
(* A program reaches its own pages only: a valid entry of the TLB leads to *)
(* the frame in which the current process has that page, also after other  *)
(* pages were evicted on behalf of others and after a switch or an exit,   *)
(* and no page has two entries.                                            *)
(***************************************************************************)
TLBAgrees ==
    \A i \in Slot : tlb[i].valid =>
        /\ tlb[i].virtualPage \in Pages(currentSpace)
        /\ pageTable[currentSpace][tlb[i].virtualPage].valid
        /\ pageTable[currentSpace][tlb[i].virtualPage].physicalPage = tlb[i].physicalPage
        /\ \A j \in Slot : tlb[j].valid /\ tlb[j].virtualPage = tlb[i].virtualPage => j = i

\* What a program reads in page v: memory, or what a page fault would fetch.
Reads(s, v) ==
    LET e == pageTable[s][v]
    IN  IF e.valid THEN mainMemory[e.physicalPage] ELSE Fetched(e, swapFile)

(***************************************************************************)
(* A program reads what it last wrote, unless the write was made before a  *)
(* Fork and the page had been in the swap file by then: allocateStack      *)
(* loses the slots of those pages (addrspace.cc:331), although WRITEUP,    *)
(* line 39, says that "The swap file holds all dirty pages that cannot be  *)
(* written back into the executable".  So no eviction drops a page that    *)
(* has been modified since it was fetched, however the dirty bit travels   *)
(* from the TLB to the IPT, and a page written after the Fork is safe too. *)
(***************************************************************************)
ReadsLastWrite ==
    \A s \in processTable : \A v \in Pages(s) :
        written[s][v] # Unknown => Reads(s, v) = written[s][v]
=============================================================================
