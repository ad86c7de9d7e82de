# Nachos (CSCI 402): a TLA+ model of the kernel, its machine and its servers

The repository is a Nachos operating system as extended in a course: thread
synchronization and a simulation on top of it (project 1), user programs and
demand-paged virtual memory (projects 2 and 3), and network servers that user
programs reach by remote procedure call (projects 3 and 4). Below it is the
simulated machine. Paths are relative to `src/nachos-csci402/code/`.

| module (proofs) | models | abstract specification |
|---|---|---|
| `Synch` (`SynchProofs`) | threads, ready list, semaphores, locks, conditions | |
| `LockServer` (`LockServerProofs`) | lock and condition server, its clients | |
| `ServerGroup` (`ServerGroupProofs`) | several servers, monitor variables, their clients | |
| `PostOffice` (`PostOfficeProofs`) | post office, network driver, postal worker | `Mail` |
| `Processes` (`ProcessesProofs`) | processes, threads of a process, their stacks | |
| `VirtualMemory` (`VirtualMemoryProofs`) | TLB, IPT, page tables, swap file | |
| `FileSystem`, `FileCalls` (`FileCallsProofs`) | file system; file system calls of programs | `FileMap` |
| `PassportOffice` | the simulation of project 1 | |
| `Devices` (`DevicesProofs`) | clock, interrupts, timer, disk, console | |
| `Mips`, `MipsInstructions` | the simulated processor | `MipsIsa` |

Each has an `MC` module and one or two configurations for TLC. `PROJECT.json`
lists components, runs, mutants, the map from definitions to source lines,
hazards and theorems.

## Inventory

**Threads and scheduler** (`threads/thread.cc`, `scheduler.cc`).
State: the status of each thread, the ready list, the current thread,
`threadToBeDestroyed`. Operations: `Fork`, `Yield`, `Sleep`, `Finish`,
`ReadyToRun`, `Run`. One CPU; atomicity comes from disabling interrupts, and a
thread that sleeps inside an operation goes on with interrupts off when it is
dispatched again. Hard: a thread may be lost or queued twice by an order of
sleeps and wakeups; a finished thread is deleted by another one, later. Correct:
every thread is in one place, ready threads run, nothing deleted is used.

**Semaphores, locks, condition variables** (`threads/synch.cc`).
State: value, `state` and `owner`, `waitingLock`, one wait queue per object.
Hard: a woken thread runs much later than the wakeup, so another may come first
(semaphores) or must not be able to (locks are handed over); `Broadcast` loops
with interrupts on; `Wait` is release and sleep in one. Correct: mutual
exclusion, no lost wakeup, first come first served, consistent bindings.

**Servers** (`network/nettest.cc`) and **RPC system calls**
(`userprog/exception.cc`). State of a server: tables of locks, conditions and
monitor variables, queues of delayed replies, pending requests. State of a
client: the call it is in. They interact by messages. Hard: delayed replies move
between queues, messages get lost, processes share a machine, deleted objects
stay in the tables, ids travel as chars; with several servers a creation needs
the answers of all others. Correct: each lock excludes between programs, each
call is answered once, nothing in use is deleted, an id is one lock, a monitor
variable holds what was stored last.

**Post office and network** (`network/post.cc`, `machine/network.cc`,
`threads/synchlist.cc`). State: mailboxes, a send lock, two semaphores that
interrupt handlers raise, one packet buffer. Hard: interrupts against threads,
lost packets, one buffer. Correct: one packet at a time, nobody sleeps next to
mail, order is kept, nothing is delivered twice.

**Processes and system calls** (`userprog/exception.cc`, `progtest.cc`,
`threads/system.cc`). State: process table, thread counts, list of stacks,
`processLock`. Hard: error paths that keep a lock, decisions about the last
thread, stacks handed out to threads that start later. Correct: counts are
right, stacks are disjoint, calls end.

**Virtual memory** (`userprog/exception.cc` from `updateTLB` on,
`userprog/addrspace.cc`, `machine/translate.cc`). State: TLB, inverted page
table, one page table per address space, bitmap of frames, swap file. Hard: four
records of where a page is, and dirty bits that exist in two of them and travel
late. Correct: the records agree, and a program reads what it last wrote.

**File system** (`filesys/`, `userprog/bitmap.cc`) and the file system calls.
State: bitmap, directory, headers and blocks on the disk, open files, a table of
open files per process. Hard: partial sectors, failures in the middle, full
disk, full directory, full table, restarts. Correct: no sector is lost or used
twice, bytes are where they were written, no open file is lost.

**Passport office** (`threads/threadtest.cc`; again as user programs in
`test/`). Customers, senators, clerks and a manager on locks and conditions.
Hard: everybody waits for somebody, tests before waits, sums under different
locks. Correct: one visitor per counter, no forgotten clerk, the sums agree, the
office closes.

**Interrupts, timer, disk, console** (`machine/interrupt.cc`, `timer.cc`,
`disk.cc`, `console.cc`, `filesys/synchdisk.cc`, `userprog/synchconsole.cc`).
State: pending interrupts by time, the clock, one request per device. Hard:
requests against interrupts, halting while something is due, angles modulo one
turn. **Processor** (`machine/mipssim.cc`, `machine.cc`). State: registers, a
load in progress. Hard: faults and interrupts in delay slots, signed arithmetic
on two words.

**Tools and examples** (`bin/`, `c++example/`, `test/`): converters and small
programs, not modelled.

The hazards of all these parts, each at its line, are in `PROJECT.json`.

## The models

### Synch

Each operation runs with interrupts off from beginning to end, or up to the
`Sleep` in it, and is one action. What remains of an operation behind `Sleep` is
kept in `resume`, and the actions `Resume...` execute it; nothing else happens
between the dispatch of a thread and its `Resume`, because interrupts are still
off. If nobody is ready, the sleeping thread keeps the CPU in the idle loop
(`Idling`) until an interrupt makes somebody ready (`Dispatch`). `Yield` is both
the call and the timer's preemption. `InterruptV` is the `V` of a device
handler. A thread that is dispatched for the first time (`ResumeStart`) does not
come from `SWITCH`, so it does not delete a carcass. `Broadcast` releases its
protection before it loops, so each `Signal` of it is an action.

Calls that return at once (`Acquire` by the owner, `Release` by another,
`Signal` with nobody waiting or with another lock) change nothing, so their
conditions are guards. The program is arbitrary: any thread calls anything,
unless `Disciplined` asks for the rule of `synch.h`. `entered` is auxiliary: the
locks that a thread has been told it holds.

### LockServer

A client sends one request and blocks until a reply comes (`Send`, `Receive`).
The server's cases 0 to 8 are one action each. A `ReplyMsg` that waits in a
queue is represented by the client it is for, and `numWaiters` by the length of
the queue. Owners are machines, as in the code: `MachineOf` says which clients
share one. `AsChar` is the conversion of an id on its way. A table entry stays
when its object is deleted (`freed`); a handler that would touch it is
`UseAfterFree`, after which the server does nothing any more because what it
does is undefined. `held` is auxiliary: the locks a program may rely on.

The server takes requests in any order. Its mailbox is a queue, but nothing
orders the packets of different clients. Monitor variables and several servers
are in `ServerGroup`. Not modelled: a server that is not running.

### ServerGroup

Each server has an inbox (its mailbox 0, a queue) and its tables; a system call
puts a request into the inbox of any server and returns with the next mail in
the client's box. The server's cases 0 and 9 to 14 are one action each. What
LockServer does with locks that exist is left out here. Case 14 reads the number
of the pending request from an unwritten buffer, so the model counts a *no* for
any pending request, or runs into something undefined (`undefined`, after which
nothing happens). `DestroyMV` leaves a dangling pointer, and touching it is
undefined as well. `CreateMV` answers with a position or with an id, as in the
code: with one server they are the same. Every conversion to char is `AsChar`.
`asked`, `last` and what a request says was given (`givenPosition`, `givenValue`)
are auxiliary. `IdRange` is the code's 50. Nothing keeps a server from making more
locks: their ids then run into the range of the next server, or do not fit into a
char, and both happen in the model. The properties say what holds while they fit:
`IdsFit` is the state in which every id given so far is in its server's range and
in the half of the char that is not negative, `MVsFit` the same of the indexes and
positions of monitor variables. Here messages are not lost; `LockServer` and
`PostOffice` have that.

### PostOffice and Mail

`Send` is split where it waits: the send lock, the request to the driver, the
interrupt `SendDone`. `CheckPktAvail` takes a packet from the socket if the
buffer is empty, the postal worker fetches it and puts it into the box, a
receiver takes it or sleeps. Packets are dropped by the driver or refused by the
host. `Mail` is the promise: letters for a machine arrive in the order they were
taken, once, or are dropped. `MailImplemented` is that refinement: mail in the
socket, in the buffer and in the worker's hands is one queue of `Mail`.

### Processes

`Exec`, `Fork` and `Exit` as sequences of steps that end at each lock operation,
under the preemptive timer. The process table and the pairs of thread and stack
are as in the code; `numPageQueue` passes the number of a new stack from `Fork` to
the thread that starts later. A failed `Exec` keeps `processLock`, as the code
does.

### VirtualMemory

An instruction that finds its page in the TLB executes (`WriteMem`; reading
changes nothing that matters), one that does not faults: `PageFaultHit` (the
page is in the IPT), `PageFaultFree` (a frame is free), `PageFaultEvict`, and
`SwapFileFull`, which halts the machine. `updateTLB` is the code's function with
its late propagation of dirty bits. `Run` is a context switch with
`SaveState`. The machine runs without the preemptive timer, so `Exec`, the stack
of `Fork`, and `Exit` are atomic; a page fault is anyway. The dirty bits and
frame numbers of a fresh TLB are uninitialized in the code and arbitrary in
`Init`. A page holds one datum; `Image` is what the executable has there, `Zero`
what a new stack page has. `Fork` makes a new page table (`allocateStack`), which
gets every field of the old entries but `swapLocation`: a page that is in the swap
file then has any slot (`Copied`). Reading from it gives what is in that slot, zeros
past the end of the file (`FromSwap`), or ends the machine in `Lseek` if it is
negative (`LseekFails`). `written` is auxiliary; it is `Unknown` for such a page
until the program writes it again.

Programs use pages that they have: a wild pointer, which the TLB path does not
refuse, is left out. So is the exit of one of several threads (`clearStack`).

### FileSystem, FileCalls and FileMap

An operation is one step (the file system is for one thread at a time), and
`Restart` may come between any two: what is on the disk stays, open files are
gone. Blocks hold bytes; `WriteBuffer` is the buffer that `WriteAt` puts
together from partial sectors, uninitialized bytes (`Junk`) and the new data.
`FileMap` knows names and contents only; `FilesImplemented` says that every
operation is one of `FileMap` or changes nothing there; `Files` and `Handles` are
the refinement mapping. The directory entry and
the header of a removed file, which nobody reads again, are cleared in the model.
A new file has whatever its sectors held, as in the code.

`FileCalls` adds the system calls and class `Table`. `main.cc` lets the kernel
use files before it starts a program, so its operations come first. A program's
`Create` makes empty files, and files cannot grow. `Close` frees the slots of
the console too, as the code does; a file with such an id can neither be read
nor written, and `Read_Syscall` and `Write_Syscall` have that in their guards.

### PassportOffice

Threads run until they sleep or yield (there is no timer unless `-rs`), so a step
is the code between two such places. Ready list, locks and conditions are as in
`Synch`, as operators on one record `os`. Lines, bribes, breaks, disliked
pictures, unfiled papers, senators who clear the office, and the manager's rounds
are there; the random lengths of the yield loops are any length up to `MaxRest`,
`MaxWork`, `MaxGap`. `MoneyAccounted` is a law of conservation: what the clerks
have and what customers have spent agree up to the payments under way, at every
moment. It is not the assertion of the code, which has no such term (see below).

### Devices

Threads issue disk requests, write and read lines, compute and finish; the
simulated time advances by `OneTick` and by `Idle`. Pending interrupts are kept
by the ticks until they are due, in the order of `SortedInsert`; `CheckIfDue` puts
a head that is not due back behind others of the same time (`PutBack`). A typed byte
is any but 0xFF, which `console.cc:101` takes for `EOF`. `ComputeLatency`,
`TimeToSeek` and the track buffer are the code's arithmetic, and `LatencyRight`
compares them with an independent definition of where the head is.

### Mips, MipsInstructions and MipsIsa

`MipsInstructions` has what every instruction computes, on words of a
configurable width; `Mips` is the fetch-execute loop with delayed loads, page
faults that start an instruction again, system calls and interrupts. Instructions
are chosen when they are first fetched, so all short programs are covered.
`MipsIsa` executes the same instructions with neither faults nor delayed loads.
`IsaImplemented` is the refinement. Programs do not use a register in the delay slot
of its load; a system call counts as using every register, so it is not in the delay
slot of a load. `ArithmeticRight` compares `OP_MULT`, `OP_MULTU`, `OP_DIV` and
`OP_DIVU` as they leave `HI` and `LO` with the defining equations of product,
quotient and remainder. `OP_OR` computes `rs | rs` and the logical
shifts are arithmetic in the code (`mipssim.cc:375`, `445`), and so in the model,
on both sides.

## Runs

| run | instance | distinct states | shows |
|---|---|---|---|
| `synch` | 3 threads, 1 semaphore up to 2, 2 locks, 1 condition, fair | 74 154 | safety of `Synch`, ready threads run, `Broadcast` ends unless the condition is bound to another lock |
| `lockserver` | 3 clients on 3 machines, 1 lock, 1 condition, any calls, 1 lost packet | 306 937 | exclusion, one answer per call, accounts agree, order |
| `lockserver_destroy` | 2 clients, 1 lock, 1 condition, all calls, fair | 18 412 | nothing in use is deleted; every `Acquire` returns |
| `servers` | 1 or 2 servers, 2 clients, 2 locks, 2 variables, 4 calls | 801 934 | while ids fit, an id is one lock; reads return what was given |
| `postoffice` | 2 machines, 3 threads, 3 letters, fair | 123 312 | refinement of `Mail`, one packet at a time, mail arrives |
| `processes` | 4 threads, up to 3 processes, fair | 99 057 | counts, stacks, calls end |
| `vm` | 2 processes of 2 pages, 2 frames, 2 TLB entries, random eviction, 1 swap page | 375 064 | records of pages agree |
| `vm_one` | 1 process, up to 4 pages, 2 frames, 1 TLB entry, FIFO, no switch, 2 swap pages | 807 280 | a program reads what it wrote, but for pages that a `Fork` lost |
| `filesystem` | 3 names, 2 entries, 4 free sectors of 2 bytes, table of 3 | 69 792 | refinement of `FileMap`, sectors, open files |
| `passport` | 2 customers, at most 1 senator, 1 clerk of each kind, fair | 114 314 | counters, clerks, money, closing |
| `devices` | 2 threads, 2 tracks of 2 sectors, console, timer, fair | 607 768 | answers, halting, latency, calls return |
| `mips` | words of 4 bits, 4 registers, all programs of 2 steps | 25 506 | refinement of `MipsIsa`, arithmetic |

Bounds. Three threads or clients are what the hazards need: one holds, one
waits, one overtakes. A semaphore value of 2 lets `V` come twice before a woken
thread runs. Two frames for four pages make every third fault evict, and as in
the machine there are at least as many frames as TLB entries; in `vm_one` there
are more, so that a page can be in memory and out of the TLB and its dirty bit is
in the IPT alone; its program starts with three pages on two frames, so that pages
are in the swap file before a `Fork`. Four calls (`MaxCalls`) let two clients create
a variable, store and read it, or make three locks, so that a *no* is counted for an
old request and a server with an `IdRange` of 2 leaves its range. A char of 8 values
makes one of the two values stored, 3 and 5, come back negative.
The disk has room for a file of two sectors and an empty one, or two of one
sector, so every reason for `Create` to fail occurs, and the table of open files
is full with one file. In `mips` two instructions are a load and its delay slot,
or a branch and its delay slot; arithmetic is checked for every pair of words.
The remaining bounds are constants named in the modules: `MaxLost`, `MaxPages`,
`MaxSwap`, `MaxPos`, `MaxSteps`, `MaxLine`, `MaxRetakes` and those above.
Interchangeable clients, names and handles are symmetry sets in the runs without
liveness.

`CHECK_DEADLOCK FALSE` is in every configuration, because these systems may stop:
all threads wait for an interrupt that does not come, a program waits for a lock
that is not released, the machine halts, a bound is reached.

Each property has a mutant in `PROJECT.json`: a change to the modelled code,
written beside the definition it replaces, that makes TLC report the property.

### Fairness

`synch`: the simulator executes something as long as something is ready (weak
fairness of `Dispatch` and `Resume`); under `-rs` the timer keeps interrupting the
running thread (weak fairness of `Yield`); a thread that gets the CPU again and
again executes an instruction of its loop some time (strong fairness of
`BroadcastStep`, since each tick interrupts its being enabled).

`lockserver_destroy`: the server loops for ever and its mailbox is a queue (weak
fairness of `Serve`); a delivered reply is received (`Receive`). That a program
which holds a lock gives it up is an assumption about programs (strong fairness
of `GivesUp`), and packets are not lost: the code sends nothing twice.

`postoffice`: interrupts come (the host polls), threads that can go on do, and a
thread that waits for the send lock gets it (strong fairness, because the lock's
queue is first come first served, see `HandOffInOrder` of `Synch`).

`processes`: a thread in the kernel goes on if it can (the timer shares the CPU).
Programs need not call anything. `processLock` is left to weak fairness, as each
call holds it for finitely many steps.

`passport` and `devices`: the machine goes on while anything can happen (weak
fairness of `Next`). The yield loops are bounded, and intervals of the timer are
longer than a tick.

### Where the code disagrees with itself

Properties are stated for what holds. These do not, and each can be seen by
changing a constant or is in the model already.

- Ownership of a server lock is compared by machine only, against WRITEUP:464 on
  `Release`: with `MachineOf <- Together` in `MCLockServer.cfg`, one process
  releases the other's lock and `MutualExclusion` fails.
- `SaveState` leaves dirty bits in invalid TLB entries. A page that is faulted in
  again gets a clean entry, and eviction believes the last entry for the frame;
  the write is lost, against WRITEUP:39 on the swap file. With `Switches = TRUE`
  and `TLBSize = 2` in `MCVirtualMemoryOne.cfg`, `ReadsLastWrite` fails.
- `allocateStack` does not copy `swapLocation` (`addrspace.cc:331-340`). What was
  written to a page that is in the swap file at a `Fork` is lost, against WRITEUP:39
  again, and also with FIFO and one thread. `ReadsLastWrite` excepts these pages
  (`written` is `Unknown`); without the exception TLC refutes it.
- Ids and values of monitor variables above half of the range of a char come back
  negative, against the WRITEUP's limit of 255 (line 17). `AsChar` in `LockServer`
  and `ServerGroup` has it. `ReadsLastSet` is about values that are the same as a
  char; without that premise TLC refutes it.
- A server that makes more than 50 locks gives ids of the next server
  (`nettest.cc:176-182`): one id, two locks. `IdNamesOneLock` is about states in
  which ids fit (`IdsFit`); without that premise TLC refutes it.
- The manager asserts that the counted total is `totalSpent` (`threadtest.cc:1765-1767`,
  in the menu's money test). A customer adds to `totalSpent` (line 955) before
  the cashier has put the payment away (1643-1645), so a manager who counts in
  between fails the assertion. TLC refutes
  `[][round' = 0 /\ round > 0 => counted' = totalSpent]_vars` with
  `MCPassportOffice.cfg`, without senators too. `MoneyAccounted` has the term
  that is missing.
- A byte 0xFF that is typed equals `EOF` for `CheckCharAvail` (`console.cc:101`) and is
  lost. It is not among the characters of `Devices`.
- `Broadcast` signals in a loop with interrupts on. If a thread waits with another
  lock after the last `Signal` has unbound the condition, `Signal` returns early
  and the loop never ends (`BroadcastEnds` excepts it).
- A thread that starts for the first time does not pass the deletion behind
  `SWITCH`. If it finishes first, the carcass before it is forgotten, against the
  comment at `Thread::Finish` (`thread.cc:147`). `ResumeStart` in `Synch` has it.
- Removing a file that is open lets its reader see other files: `CloseFirst =
  FALSE` in `MCFileSystem.cfg` refutes `FilesImplemented`.
- With several servers a name can be created twice, a client answered twice, and
  a monitor variable made at one server is unknown at the others.
- A failed `Exec` keeps `processLock` (`CallsEnd` excepts it), and a customer who
  is sent out by a senator between test and wait, or a senator at the door, may
  wait for ever (`OfficeCloses` and `ClerkNotForgotten` except them).

## What is proved

Eight modules hold proofs, each for its component's specification with any
values of the constants that satisfy the assumption named there (`MaxLost`,
`MaxCalls` and the other bounds are constants too, so a theorem holds for every
bound). They need little more than that null pointers are not objects and that
sizes are positive. The theorems about owners of server locks, `NoWriteLost` and
`FilesAreImplemented` have a premise besides, and the properties of `ServerGroup`
and `ReadsLastWrite` an exception in themselves, given below with the reason. In
every module the argument is an inductive invariant, from which the properties
follow in a state or in a step; the lemmas before it say what the operators do to
queues, lists, counts and byte ranges.

| module | theorems | property |
|---|---|---|
| `SynchProofs` | `TypeCorrect`, `Invariance` | `TypeOK`, the invariant |
| | `ThreadsInOnePlace`, `LocksExclude`, `LocksConsistent` | `OnePlace`, `MutualExclusion`, `LockState` |
| | `ConditionsBound`, `DeletedUnused` | `ConditionBinding`, `NoUseAfterDelete` |
| | `WakeupsNotLost`, `LocksFirstComeFirstServed` | `NoLostWakeup`, `HandOffInOrder` |
| `LockServerProofs` | `TypeCorrect`, `AnswerInvariance`, `OwnerInvariance` | `TypeOK`, the invariants |
| | `CallsAnsweredOnce`, `LocksFirstComeFirstServed` | `AnsweredOnce`, `HandOffInOrder` |
| | `LocksAccounted`, `NothingUsedDeleted`, `LocksExclude` | `LockAccounted`, `DeletedUnused`, `MutualExclusion` |
| `ServerGroupProofs` | `LockInvariance`, `IdsNameOneLock` | the invariant, `IdNamesOneLock` |
| | `FewCallsFit` | `IdsFit`, if there were few calls |
| | `ReadInvariance`, `ReadsAreLast` | the invariant, `ReadsLastSet` |
| `PostOfficeProofs` | `Invariance`, `SendsExclude`, `MailNotForgotten` | the invariant, `OneSendAtATime`, `NoMailForgotten` |
| | `RefinesMail` | `MailImplemented` |
| `ProcessesProofs` | `ProcessesInvariance`, `ThreadsAreCounted`, `StacksAreDisjoint` | the invariant, `ThreadsCounted`, `StacksDisjoint` |
| `VirtualMemoryProofs` | `VMTypeCorrect`, `VMInvariance` | `TypeOK`, the invariant |
| | `FramesAccounted`, `TLBRight`, `NoWriteLost` | `FramesAgree`, `TLBAgrees`, `ReadsLastWrite` |
| `FileCallsProofs` | `FileCallsInvariance`, `OpenFilesAreOwned` | the invariant, `OpenFilesOwned` |
| | `SpaceInvariance`, `SpaceIsAccounted` | the invariant, `SpaceAccounted` |
| | `DiskInvariance`, `FilesAreImplemented` | the invariant, `FilesImplemented` |
| `DevicesProofs` | `DevicesInvariance`, `RequestsAnswered`, `HaltsAreDone` | the invariants, `Answered`, `HaltsWhenDone` |
| | `HeadInvariance`, `LatenciesRight` | the invariant, `LatencyRight` |

**SynchProofs.** `Inv` is `TypeOK`, `OnePlace`, `LockState`, `ConditionBinding`
and `FinishedStays`. The parts need each other. That a lock's owner is unique is
the assignment to `owner`; that whoever has been told so is the owner is
`LockState`, and it is kept because a waiter that `Release` makes the owner is in
one queue only and sleeps in `Acquire` (`OnePlace`). `OnePlace` says what a
sleeper will do next, for conditions in terms of the lock they are bound to, so
it needs `ConditionBinding`. `FinishedStays` says that a finished thread stays
blocked and off the CPU; with `OnePlace` it follows that a deleted one is
nowhere. `WakeInv` adds that finitely many threads are woken at a semaphore, so
that one who is woken or takes a unit changes their number by one; a `P` that
takes a unit before a woken thread runs makes the bound only looser. The
theorems hold for disciplined and undisciplined callers.

**LockServerProofs.** `AnswerInv`: a client in a queue of a lock or a condition is
in a call for it, no queue has a client twice, and the answer to a call is in at
most one of the places where it can be (`AllPlaced`, which also says when it is
nowhere). The step to watch is `Signal`, which moves a waiter to the lock's queue
or answers it. `OwnerInv` adds which ids programs and messages may have, what a
program that gives a lock up relies on, and for each lock that the recorded owner
is the machine of the client that has it or is being given it. Its premise is
`OneClientPerMachine`: the server compares machines, and with two clients on one
the property is false (see above). `LocksExclude` also assumes `FewNames`, at most
`CharRange / 2` names, since a larger id comes back negative. The configurations
satisfy both.

**ServerGroupProofs.** The id of a lock is the place in the table plus the start of
the server's range (`IdsRight`), so ids that are in their ranges differ.
`PendingRight` and `BoxRight` follow the name from the request through the rounds of
questions to the reply, whichever request a *no* is counted for. `IdsNameOneLock`
concludes for every state in which ids fit, for any number of servers and calls.
`FewCallsFit` says how long that is: `LockBudget` and `MVBudget` count a lock or
a variable of a server, made or being made, against a call, so no server has more
of them than there were calls. In the code that is 50 calls and two servers;
beyond them the property is false (see above).
`ReadInv` is about one server, as is the property: between `SetMV` and `GetMV`
the index, the id and the stores in the inbox agree with the table, which holds the
chars of what was given, while indexes and positions fit into a char (`MVsFit`) and
nothing undefined was done. `ReadsAreLast` then concludes for values that a char
does not change.

**PostOfficeProofs.** `Inv`: a thread in the driver has a letter and one in
`Receive` a box; the send lock is held exactly by the thread in the driver or
waiting for `SendDone` (`LockHeld`); one interrupt or unit of the semaphore is
outstanding while it waits (`OneDone`). The refinement maps the mail of a machine
in socket, buffer and the worker's hands to one queue, and each action is shown
to be a step of `Mail` or to leave the queue as it is.

**ProcessesProofs.** `CountInv`: threads that live are in a process of the table,
its count is their number, threads being forked are counted already and differ.
`StackInv`: as many sizes wait in `numPageQueue` as threads that will take one,
all sizes differ by a stack at least, and stacks that were taken lie apart from
those that wait. That makes it irrelevant in which order threads start.

**VirtualMemoryProofs.** `VMInv` relates bitmap, IPT, page tables and TLB, for any
replacement, any switching and whatever slots `Fork` leaves in a page table: it says
nothing of the swap file. `ReadInv` adds where the last value written is, for pages
of which it is known; a page that is evicted gets a new slot, so nothing in the swap
file is overwritten. `HandleMemoryFull` takes the dirty bit from the last TLB entry that
names the frame, valid or not, so the proof needs that no stale entry names a
frame when it is evicted. `StaleSoonGone` says so by the distance of two pointers
that go round, which is true with FIFO replacement, one thread and no more TLB
entries than frames: the premise `FifoOneThread`. Without it the property is false
(see above). `vm_one` satisfies it.

**FileCallsProofs.** `CallsInv`: what an id of a process stands for is open and has
no other id, and every open file of a program has an id. That proof uses of the
file system only which handles its operations open and close.

`SpaceInv` is about the disk: names in the directory differ, each header lists as
many sectors as its size needs, the marked sectors are the system's and the
files', and no sector is in two places. `Create` keeps it because several calls of
`Find` return different clear sectors: the k-th is the one with k - 1 clear ones
before it, and `RankExists` shows by counting that there is such a one when
`NumClear` is large enough.

`FilesAreImplemented` is the refinement of `FileMap`. `DiskInv` adds that sectors
hold bytes and that the header which an open file has in memory is the one of the
directory entry with its name. The lemmas on quotients and remainders lead to two
facts about bytes: `ReadAtRight`, that `ReadAt` returns the bytes at the offsets
asked for, and `WriteBytes`, that `WriteAt`, which writes whole sectors from a
partly uninitialized buffer, changes a byte of the file exactly if it was asked
to. `BufferByte` is the reason: a byte of the file in a touched sector that is not
overwritten lies in the first or the last sector, and that sector was read before.
By `SectorsApart` no other file changes (`WriteOthers`). Each operation is then a
step of `FileMap`. The premise is `CloseFirst`; without it the property is false
(see above), since a removed file's sectors are given to others while a header in
memory still lists them.

**DevicesProofs.** `ThreadInv`: each thread is on the CPU, ready, in one queue or
done, and the owner of a lock is the one thread between `Acquire` and `Release`.
`RequestInv`: for each device, pending interrupts and units of the semaphore
together are one exactly if a thread is after a request, and somebody sleeps only
at value zero. So a machine in which a thread waits for a device has an interrupt
pending that is not the timer's, and a thread that waits for a lock leads to such
a one through the lock's owner: `Idle` does not halt. The lemma `InsertCount`
shows that `SortedInsert` adds one interrupt wherever it puts it.

`HeadInv` is about the track buffer: `bufferSector` was under the head when
`UpdateLast` says that the head came to the track, unless a whole turn has passed
since (`OnTrack`), and a head that is on its way arrives before the interrupt of
the request that sent it there (`SoonIn`), so that the next request finds it on
the track. The model keeps the clock modulo one turn; `Under` says by a multiple
which sector is under the head, and `UnderTurns` that whole turns do not matter.

## What is only model-checked

- The liveness properties (`ReadyRuns`, `BroadcastEnds`, `AcquireReturns`,
  `OfficeCloses`, `MailArrives`, `RequestReturns`, `CallsEnd`): fairness is out of the
  prover's reach.
- `CountersExclusive`, `ClerkNotForgotten` and `MoneyAccounted` of `PassportOffice`:
  the line that a customer chooses, the clerks that the manager wakes and the sums
  of money are folds over the clerks, and what a fold computes needs induction over
  data.
- `ArithmeticRight` and `IsaImplemented` of `Mips`, which use bitwise operations.

## Not modelled

- `clearStack` and `clearMem` at the granularity of their locks together with page
  faults: the composition of `Processes` and `VirtualMemory`, with the deadlock of
  `bitMapLock` and `IPTLock` among the hazards. It is the next module to write.
- Wild pointers of programs, files larger than a header can list, more processes
  than mailboxes: beyond the assumptions of the modules.
- `sysdep.cc` (UNIX calls), instruction decoding, the debugger, printing, menus and
  unit tests of `threadtest.cc`: I/O without state of the system.
- Tools in `bin/`, examples, and the user programs in `test/`, which repeat the
  passport office on remote locks.

## Running the checks

    tlc -workers 2 -config MCSynch.cfg MCSynch
    tlapm SynchProofs.tla

and likewise for each pair of module and configuration in `PROJECT.json` and for
each module with proofs. Every one of them is proved within a few minutes.
