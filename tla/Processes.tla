------------------------------ MODULE Processes ------------------------------
(***************************************************************************)
(* Processes and their threads: StartProcess (userprog/progtest.cc), the   *)
(* system calls Exec, Fork and Exit (userprog/exception.cc), the process   *)
(* table (threads/system.h) and the part of an address space that hands    *)
(* out stacks: numPages and numPageQueue (userprog/addrspace.cc).          *)
(*                                                                         *)
(* The timer may switch threads anywhere, so a step ends wherever a lock   *)
(* is taken or let go.  processLock is modelled by its owner: the queue of *)
(* its waiters is the business of module Synch.  pageLock, queueLock and   *)
(* mailBoxLock protect regions that wait for nothing else; each such       *)
(* region is part of one step.  A stack is named by the number of pages    *)
(* below its top: stack n occupies the StackPages pages before page n.     *)
(* The frames that clearMem and clearStack give back are the business of   *)
(* module VirtualMemory.                                                   *)
(***************************************************************************)
EXTENDS Integers, Sequences, FiniteSets, Functions

CONSTANTS
    Thread,         \* thread objects
    Space,          \* address space objects
    Main,           \* the thread that runs StartProcess
    None,           \* the null pointer
    CodePages,      \* sizes, in pages, of the executables
    StackPages      \* pages of a user stack: 8

ASSUME ProcessesAssumption ==
    /\ Main \in Thread
    /\ None \notin Thread \cup Space
    /\ CodePages \subseteq Nat \ {0}
    /\ StackPages \in Nat \ {0}

VARIABLES
    processTable,   \* space -> its Process, for the spaces of the table
    numPages,       \* space -> pages of its page table
    numPageQueue,   \* space -> the sizes not yet taken by a new thread
    owner,          \* the owner of processLock, or None
    pc,             \* thread -> where it is
    space,          \* thread -> its address space, or None
    stack,          \* thread -> the stack in its StackReg once it runs, else 0
    child,          \* thread -> the thread its Exec or Fork has made, or None
    halted          \* Exit has stopped the machine

vars == <<processTable, numPages, numPageQueue, owner, pc, space, stack, child, halted>>

Process == [numThreads : Nat, threadStacks : [Thread -> Nat]]

\* No pair for any thread: stack n of threadStacks[t] = n > 0 is t's pair.
NoStacks == [t \in Thread |-> 0]
NewProcess == [numThreads |-> 1, threadStacks |-> NoStacks]

CallPC == {"exec", "named", "pair", "forking", "exit"}
TypeOK ==
    /\ DOMAIN processTable \subseteq Space
    /\ \A s \in DOMAIN processTable : processTable[s] \in Process
    /\ numPages \in [Space -> Nat]
    /\ numPageQueue \in [Space -> Seq(Nat)]
    /\ owner \in Thread \cup {None}
    /\ pc \in [Thread -> CallPC \cup {"none", "new", "startExec", "startFork", "user", "finished"}]
    /\ space \in [Thread -> Space \cup {None}]
    /\ stack \in [Thread -> Nat]
    /\ child \in [Thread -> Thread \cup {None}]
    /\ halted \in BOOLEAN

(***************************************************************************)
(* StartProcess has made the first process and is about to run it.         *)
(***************************************************************************)
Init ==
    \E s \in Space, n \in CodePages :
        /\ processTable = [r \in {s} |-> [NewProcess EXCEPT !.threadStacks[Main] = n + StackPages]]
        /\ numPages = [r \in Space |-> IF r = s THEN n + StackPages ELSE 0]
        /\ numPageQueue = [r \in Space |-> <<>>]
        /\ owner = None
        /\ pc = [t \in Thread |-> IF t = Main THEN "user" ELSE "none"]
        /\ space = [t \in Thread |-> IF t = Main THEN s ELSE None]
        /\ stack = [t \in Thread |-> IF t = Main THEN n + StackPages ELSE 0]
        /\ child = [t \in Thread |-> None]
        /\ halted = FALSE

\* A thread gets processLock: it is free, or the thread holds it already.
CanAcquire(t) == owner \in {None, t}
Goes(t, where) == pc' = [pc EXCEPT ![t] = where]

\* Mutant: getNumPages without its pop.
PeekNumPages(s) == numPageQueue' = numPageQueue

\* getNumPages takes the oldest size that no thread has taken.
GetNumPages(s) == numPageQueue' = [numPageQueue EXCEPT ![s] = Tail(@)]

(***************************************************************************)
(* Exec.  An error after Acquire returns without letting the lock go.      *)
(***************************************************************************)
Exec(t) ==
    /\ pc[t] = "user"
    /\ CanAcquire(t)
    /\ owner' = t
    /\ Goes(t, "exec")
    /\ UNCHANGED <<processTable, numPages, numPageQueue, space, stack, child, halted>>

ExecFails(t) ==
    /\ pc[t] = "exec"
    /\ Goes(t, "user")
    /\ UNCHANGED <<processTable, numPages, numPageQueue, owner, space, stack, child, halted>>

\* The address space, its process, and the thread, which takes a mailbox.
ExecCreates(t) ==
    /\ pc[t] = "exec"
    /\ \E s \in Space \ (DOMAIN processTable \cup Range(space)), c \in Thread, n \in CodePages :
           /\ pc[c] = "none"
           /\ processTable' = [r \in DOMAIN processTable \cup {s} |->
                                  IF r = s THEN NewProcess ELSE processTable[r]]
           /\ numPages' = [numPages EXCEPT ![s] = n + StackPages]
           /\ numPageQueue' = [numPageQueue EXCEPT ![s] = <<n + StackPages>>]
           /\ space' = [space EXCEPT ![c] = s]
           /\ child' = [child EXCEPT ![t] = c]
           /\ pc' = [pc EXCEPT ![t] = "named", ![c] = "new"]
    /\ owner' = None
    /\ UNCHANGED <<stack, halted>>

\* The pair of the new thread, under the lock again; then Fork.
ExecPair(t) ==
    LET c == child[t]
        s == space[c]
    IN  /\ pc[t] = "named"
        /\ CanAcquire(t)
        /\ GetNumPages(s)
        /\ processTable' = [processTable EXCEPT ![s].threadStacks[c] = Head(numPageQueue[s])]
        /\ owner' = None
        /\ Goes(t, "pair")
        /\ UNCHANGED <<numPages, space, stack, child, halted>>

ExecForks(t) ==
    /\ pc[t] = "pair"
    /\ pc' = [pc EXCEPT ![t] = "user", ![child[t]] = "startExec"]
    /\ child' = [child EXCEPT ![t] = None]
    /\ UNCHANGED <<processTable, numPages, numPageQueue, owner, space, stack, halted>>

\* Exec_Thread: InitRegisters puts the stack at the end of the address space.
ExecThread(t) ==
    /\ pc[t] = "startExec"
    /\ stack' = [stack EXCEPT ![t] = numPages[space[t]]]
    /\ Goes(t, "user")
    /\ UNCHANGED <<processTable, numPages, numPageQueue, owner, space, child, halted>>

(***************************************************************************)
(* Fork: the count of threads and the stack under one lock, then Fork.     *)
(***************************************************************************)
AllocateStack(s) ==
    /\ numPages' = [numPages EXCEPT ![s] = @ + StackPages]
    /\ numPageQueue' = [numPageQueue EXCEPT ![s] = Append(@, numPages'[s])]

CountThread(s) == processTable' = [processTable EXCEPT ![s].numThreads = @ + 1]

Fork(t) ==
    /\ pc[t] = "user"
    /\ CanAcquire(t)
    /\ CountThread(space[t])
    /\ AllocateStack(space[t])
    /\ \E c \in Thread :
           /\ pc[c] = "none"
           /\ space' = [space EXCEPT ![c] = space[t]]
           /\ child' = [child EXCEPT ![t] = c]
           /\ pc' = [pc EXCEPT ![t] = "forking", ![c] = "new"]
    /\ owner' = None
    /\ UNCHANGED <<stack, halted>>

ForkReturns(t) ==
    /\ pc[t] = "forking"
    /\ pc' = [pc EXCEPT ![t] = "user", ![child[t]] = "startFork"]
    /\ child' = [child EXCEPT ![t] = None]
    /\ UNCHANGED <<processTable, numPages, numPageQueue, owner, space, stack, halted>>

\* Fork_Thread: the new thread takes a stack, then records it under the lock.
ForkThread(t) ==
    /\ pc[t] = "startFork"
    /\ stack[t] = 0
    /\ stack' = [stack EXCEPT ![t] = Head(numPageQueue[space[t]])]
    /\ GetNumPages(space[t])
    /\ UNCHANGED <<processTable, numPages, owner, pc, space, child, halted>>

ForkThreadRuns(t) ==
    /\ pc[t] = "startFork"
    /\ stack[t] # 0
    /\ CanAcquire(t)
    /\ processTable' = [processTable EXCEPT ![space[t]].threadStacks[t] = stack[t]]
    /\ owner' = None
    /\ Goes(t, "user")
    /\ UNCHANGED <<numPages, numPageQueue, space, stack, child, halted>>

(***************************************************************************)
(* Exit: a thread that is not the last of its process, the last of a       *)
(* process that is not the last one, and the last thread of all.           *)
(***************************************************************************)
\* Mutant: the thread before the last one takes itself for the last.
FirstThreads(s) == processTable[s].numThreads > 2

NotLastThread(s) == processTable[s].numThreads > 1
LastProcess == Cardinality(DOMAIN processTable) = 1

Exit(t) ==
    /\ pc[t] = "user"
    /\ CanAcquire(t)
    /\ owner' = t
    /\ Goes(t, "exit")
    /\ UNCHANGED <<processTable, numPages, numPageQueue, space, stack, child, halted>>

\* Mutant: Exit finishes the thread without letting processLock go.
FinishKeepsLock(t) ==
    /\ owner' = owner
    /\ Goes(t, "finished")
    /\ UNCHANGED <<numPages, numPageQueue, space, stack, child, halted>>

Finish(t) ==
    /\ owner' = None
    /\ Goes(t, "finished")
    /\ UNCHANGED <<numPages, numPageQueue, space, stack, child, halted>>

ExitThread(t) ==
    /\ pc[t] = "exit"
    /\ NotLastThread(space[t])
    /\ processTable' = [processTable EXCEPT ![space[t]].numThreads = @ - 1,
                                            ![space[t]].threadStacks[t] = 0]
    /\ Finish(t)

ExitProcess(t) ==
    /\ pc[t] = "exit"
    /\ ~NotLastThread(space[t])
    /\ ~LastProcess
    /\ processTable' = Restrict(processTable, DOMAIN processTable \ {space[t]})
    /\ Finish(t)

ExitMachine(t) ==
    /\ pc[t] = "exit"
    /\ ~NotLastThread(space[t])
    /\ LastProcess
    /\ halted' = TRUE
    /\ UNCHANGED <<processTable, numPages, numPageQueue, owner, pc, space, stack, child>>

\* What the kernel does for a thread, and what its program asks for.
KernelStep(t) ==
    \/ ExecFails(t) \/ ExecCreates(t) \/ ExecPair(t) \/ ExecForks(t) \/ ExecThread(t)
    \/ ForkReturns(t) \/ ForkThread(t) \/ ForkThreadRuns(t)
    \/ ExitThread(t) \/ ExitProcess(t) \/ ExitMachine(t)
Call(t) == Exec(t) \/ Fork(t) \/ Exit(t)

Next == ~halted /\ \E t \in Thread : KernelStep(t) \/ Call(t)

(***************************************************************************)
(* A thread that can take a step in the kernel eventually takes one: the   *)
(* ready list is served in order and the timer preempts whoever runs.      *)
(***************************************************************************)
Fairness == \A t \in Thread : WF_vars(~halted /\ KernelStep(t))
Spec == Init /\ [][Next]_vars /\ Fairness

-----------------------------------------------------------------------------
\* The threads that have been made and have not exited.
Live(t) == pc[t] \notin {"none", "finished"}
LiveIn(s) == {t \in Thread : Live(t) /\ space[t] = s}

(***************************************************************************)
(* The thread count of a process (Process::numThreads) is the number of    *)
(* its threads that live, those still being forked included.  So no thread *)
(* lives in an address space that Exit has deleted, and Exit stops the     *)
(* machine (exception.cc, processTable->size() == 1) only when no other    *)
(* thread is left.                                                         *)
(***************************************************************************)
ThreadsCounted ==
    /\ \A t \in Thread : Live(t) => space[t] \in DOMAIN processTable
    /\ \A s \in DOMAIN processTable : processTable[s].numThreads = Cardinality(LiveIn(s))
    /\ halted => Cardinality({t \in Thread : Live(t)}) = 1

(***************************************************************************)
(* A thread that runs user code has a stack of its own above the code, in  *)
(* its page table, that no other thread of the process uses, and the pair  *)
(* in its process names the stack in its register: clearStack, at its      *)
(* Exit, clears that stack and no page of another thread.                  *)
(***************************************************************************)
Running(t) == pc[t] \in CallPC \cup {"user"}
StacksDisjoint ==
    \A t \in Thread : Running(t) =>
        /\ processTable[space[t]].threadStacks[t] = stack[t]
        /\ StackPages < stack[t] /\ stack[t] <= numPages[space[t]]
        /\ \A u \in LiveIn(space[t]) \ {t} :
               stack[u] \notin stack[t] - StackPages + 1 .. stack[t] + StackPages - 1

(***************************************************************************)
(* Exec, Fork and Exit come to an end, and a forked thread gets to run its *)
(* program, unless processLock was left with a thread whose Exec failed    *)
(* (the early returns of Exec_Syscall) and that is back in its program.    *)
(***************************************************************************)
Leaked == owner # None /\ pc[owner] = "user"
InKernel(t) == Live(t) /\ pc[t] # "user"
CallsEnd == \A t \in Thread : InKernel(t) ~> (~InKernel(t) \/ Leaked \/ halted)
=============================================================================
