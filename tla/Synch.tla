------------------------------- MODULE Synch -------------------------------
(***************************************************************************)
(* Threads, the ready list and the three synchronization objects of        *)
(* Nachos: semaphores, locks and condition variables                       *)
(* (threads/thread.cc, threads/scheduler.cc, threads/synch.cc).            *)
(*                                                                         *)
(* Nachos runs on one simulated CPU.  Every operation below runs with      *)
(* interrupts disabled from its first to its last line, or up to the       *)
(* Thread::Sleep in the middle of it, so it is one step here.  A thread    *)
(* that comes back from SWITCH is still inside the operation that made it  *)
(* sleep, and interrupts are still off: the rest of that operation is the  *)
(* step Resume, and nothing else may happen before it.  Between two        *)
(* operations of the running thread the timer may preempt it               *)
(* (Yield) and an interrupt handler may call Semaphore::V.                 *)
(*                                                                         *)
(* The program that the threads run is arbitrary: the running thread may   *)
(* call any operation on any object.  Disciplined restricts it to the      *)
(* rule that synch.h states for condition variables: the caller holds the  *)
(* lock it passes.                                                         *)
(***************************************************************************)
EXTENDS Integers, Sequences, FiniteSets

CONSTANTS
    Thread,         \* the threads that ever exist
    Main,           \* the one that Nachos starts with
    Semaphore,      \* semaphores
    Lock,           \* locks
    Condition,      \* condition variables
    NULL,           \* the null pointer
    MaxValue,       \* bound on a semaphore's value
    Disciplined     \* condition variables are used as synch.h demands

(***************************************************************************)
(* A synchronization object has one wait queue, so that the objects of the *)
(* three kinds are told apart.                                             *)
(***************************************************************************)
ASSUME ConstantsAssumption ==
    /\ Main \in Thread
    /\ NULL \notin Thread
    /\ NULL \notin Lock
    /\ Semaphore \cap Lock = {}
    /\ Semaphore \cap Condition = {}
    /\ Lock \cap Condition = {}
    /\ MaxValue \in Nat
    /\ Disciplined \in BOOLEAN

Object == Semaphore \cup Lock \cup Condition

VARIABLES
    status,         \* thread -> its ThreadStatus
    readyList,      \* threads that may run, in order
    currentThread,  \* the thread that has the CPU
    threadToBeDestroyed, \* the finished thread whose carcass is to be deleted
    deleted,        \* the threads that have been deleted
    resume,         \* thread -> what is left of the operation it sleeps in
    looping,        \* thread -> the Broadcast loop it is in, or NoLoop
    value,          \* semaphore -> its value
    state,          \* lock -> "FREE" or "BUSY"
    owner,          \* lock -> the owning thread or NULL
    waitingLock,    \* condition -> the lock its waiters passed, or NULL
    waitQueue,      \* object -> the threads asleep on it, in order
    entered         \* thread -> the locks it was told it holds (auxiliary):
                    \* Acquire or Wait returned, and no Release since

schedVars == <<status, readyList, currentThread>>
carcassVars == <<threadToBeDestroyed, deleted>>
lockVars == <<state, owner>>
vars == <<status, readyList, currentThread, threadToBeDestroyed, deleted,
          resume, looping, value, state, owner, waitingLock, waitQueue, entered>>

ThreadStatus == {"JUST_CREATED", "READY", "RUNNING", "BLOCKED"}

(***************************************************************************)
(* What a thread does when SWITCH returns to it.  Nothing: it is running   *)
(* between two operations.  Start: it begins in ThreadRoot, not behind     *)
(* SWITCH.  Yielded: it returns from Yield.  InP(s): it tests the value    *)
(* again.  InAcquire(l): the lock was handed to it.  InWait(l): it         *)
(* acquires the lock again.  Finished: it never runs again.                *)
(***************************************************************************)
Nothing == [op |-> "none", obj |-> NULL]
Start == [op |-> "start", obj |-> NULL]
Yielded == [op |-> "yield", obj |-> NULL]
Finished == [op |-> "finished", obj |-> NULL]
InP(s) == [op |-> "P", obj |-> s]
InAcquire(l) == [op |-> "acquire", obj |-> l]
InWait(l) == [op |-> "wait", obj |-> l]

Continuation == {Nothing, Start, Yielded, Finished}
                  \cup {InP(s) : s \in Semaphore}
                  \cup {InAcquire(l) : l \in Lock}
                  \cup {InWait(l) : l \in Lock}

NoLoop == <<>>
Loops == {NoLoop} \cup (Condition \X Lock)

Init ==
    /\ status = [t \in Thread |-> IF t = Main THEN "RUNNING" ELSE "JUST_CREATED"]
    /\ readyList = <<>>
    /\ currentThread = Main
    /\ threadToBeDestroyed = NULL
    /\ deleted = {}
    /\ resume = [t \in Thread |-> IF t = Main THEN Nothing ELSE Start]
    /\ looping = [t \in Thread |-> NoLoop]
    /\ value \in [Semaphore -> 0 .. MaxValue]
    /\ state = [l \in Lock |-> "FREE"]
    /\ owner = [l \in Lock |-> NULL]
    /\ waitingLock = [c \in Condition |-> NULL]
    /\ waitQueue = [o \in Object |-> <<>>]
    /\ entered = [t \in Thread |-> {}]

-----------------------------------------------------------------------------
(***************************************************************************)
(* The scheduler.  ReadyToRun marks a thread READY and appends it;         *)
(* WakeFirst does so with the head of a wait queue, when there is one.     *)
(***************************************************************************)
\* Mutant: the thread goes to the front of the ready list.
ReadyAtFront(t) ==
    /\ status' = [status EXCEPT ![t] = "READY"]
    /\ readyList' = <<t>> \o readyList
    /\ UNCHANGED currentThread

ReadyToRun(t) ==
    /\ status' = [status EXCEPT ![t] = "READY"]
    /\ readyList' = Append(readyList, t)
    /\ UNCHANGED currentThread

WakeFirst(o) ==
    IF waitQueue[o] = <<>>
    THEN UNCHANGED schedVars
    ELSE ReadyToRun(Head(waitQueue[o]))

(***************************************************************************)
(* Thread::Sleep, after the caller has made the statuses st and the ready  *)
(* list rl.  With nobody ready the current thread keeps the CPU, BLOCKED,  *)
(* inside the Idle loop (see Dispatch).                                    *)
(***************************************************************************)
Sleep(st, rl) ==
    IF rl = <<>>
    THEN /\ status' = [st EXCEPT ![currentThread] = "BLOCKED"]
         /\ readyList' = rl
         /\ UNCHANGED currentThread
    ELSE /\ status' = [st EXCEPT ![currentThread] = "BLOCKED",
                                 ![Head(rl)] = "RUNNING"]
         /\ readyList' = Tail(rl)
         /\ currentThread' = Head(rl)

\* Mutant: the thread that is dispatched stays on the ready list.
RunWithoutRemove(st, rl) ==
    /\ status' = [st EXCEPT ![Head(rl)] = "RUNNING"]
    /\ readyList' = rl
    /\ currentThread' = Head(rl)

\* Scheduler::FindNextToRun and Scheduler::Run.
RunNext(st, rl) ==
    /\ status' = [st EXCEPT ![Head(rl)] = "RUNNING"]
    /\ readyList' = Tail(rl)
    /\ currentThread' = Head(rl)

\* The current thread is inside Sleep's loop around Interrupt::Idle.
Idling == status[currentThread] # "RUNNING"

\* Interrupts are on: the running thread is between two operations.
InterruptsOn == ~Idling /\ resume[currentThread] = Nothing

\* The running thread may begin an operation.
Calls(t) == t = currentThread /\ InterruptsOn /\ looping[t] = NoLoop

-----------------------------------------------------------------------------
(***************************************************************************)
(* Threads.                                                                *)
(***************************************************************************)
Fork(t, child) ==
    /\ Calls(t)
    /\ status[child] = "JUST_CREATED"
    /\ ReadyToRun(child)
    /\ UNCHANGED <<carcassVars, resume, looping, value, lockVars, waitingLock,
                   waitQueue, entered>>

\* Called by the thread, or by the timer's interrupt handler on its behalf.
Yield(t) ==
    /\ t = currentThread
    /\ InterruptsOn
    /\ readyList # <<>>
    /\ resume' = [resume EXCEPT ![t] = Yielded]
    /\ RunNext([status EXCEPT ![t] = "READY"], Append(readyList, t))
    /\ UNCHANGED <<carcassVars, looping, value, lockVars, waitingLock, waitQueue,
                   entered>>

\* Mutant: Finish deletes the thread that is still running.
FinishDeletesItself(t) ==
    /\ Calls(t)
    /\ deleted' = deleted \cup {t}
    /\ resume' = [resume EXCEPT ![t] = Finished]
    /\ Sleep(status, readyList)
    /\ UNCHANGED <<threadToBeDestroyed, looping, value, lockVars, waitingLock,
                   waitQueue, entered>>

Finish(t) ==
    /\ Calls(t)
    /\ threadToBeDestroyed' = t
    /\ resume' = [resume EXCEPT ![t] = Finished]
    /\ Sleep(status, readyList)
    /\ UNCHANGED <<deleted, looping, value, lockVars, waitingLock, waitQueue,
                   entered>>

\* Sleep's loop: an interrupt handler has made a thread ready.
Dispatch ==
    /\ Idling
    /\ readyList # <<>>
    /\ RunNext(status, readyList)
    /\ UNCHANGED <<carcassVars, resume, looping, value, lockVars, waitingLock,
                   waitQueue, entered>>

(***************************************************************************)
(* What Run does behind SWITCH: delete the carcass of a finished thread.   *)
(* A thread that runs for the first time starts in ThreadRoot and skips it.*)
(***************************************************************************)
DestroyCarcass ==
    /\ deleted' = deleted \cup ({threadToBeDestroyed} \ {NULL})
    /\ threadToBeDestroyed' = NULL

-----------------------------------------------------------------------------
(***************************************************************************)
(* Semaphores.                                                             *)
(***************************************************************************)
DoP(t, s) ==
    IF value[s] = 0
    THEN /\ waitQueue' = [waitQueue EXCEPT ![s] = Append(@, t)]
         /\ resume' = [resume EXCEPT ![t] = InP(s)]
         /\ Sleep(status, readyList)
         /\ UNCHANGED value
    ELSE /\ value' = [value EXCEPT ![s] = @ - 1]
         /\ resume' = [resume EXCEPT ![t] = Nothing]
         /\ UNCHANGED <<schedVars, waitQueue>>

P(t, s) ==
    /\ Calls(t)
    /\ DoP(t, s)
    /\ UNCHANGED <<carcassVars, looping, lockVars, waitingLock, entered>>

\* Mutant: V wakes a waiter only if the value was zero.
WakeFirstIfZero(s) ==
    IF value[s] # 0 \/ waitQueue[s] = <<>>
    THEN UNCHANGED schedVars
    ELSE ReadyToRun(Head(waitQueue[s]))

VWakesIfZero(s) ==
    /\ value[s] < MaxValue
    /\ value' = [value EXCEPT ![s] = @ + 1]
    /\ WakeFirstIfZero(s)
    /\ waitQueue' = [waitQueue EXCEPT ![s] = IF value[s] # 0 \/ @ = <<>> THEN @ ELSE Tail(@)]
    /\ UNCHANGED <<carcassVars, resume, looping, lockVars, waitingLock, entered>>

DoV(s) ==
    /\ value[s] < MaxValue
    /\ value' = [value EXCEPT ![s] = @ + 1]
    /\ WakeFirst(s)
    /\ waitQueue' = [waitQueue EXCEPT ![s] = IF @ = <<>> THEN @ ELSE Tail(@)]
    /\ UNCHANGED <<carcassVars, resume, looping, lockVars, waitingLock, entered>>

V(t, s) == Calls(t) /\ DoV(s)

\* A device's interrupt handler calls V: between two operations, or from Idle.
InterruptV(s) == (InterruptsOn \/ Idling) /\ DoV(s)

-----------------------------------------------------------------------------
(***************************************************************************)
(* Locks.  Release hands a lock with waiters to the first of them, so the  *)
(* state stays BUSY and a woken waiter does not test anything again.       *)
(***************************************************************************)
isHeldBy(l, t) == owner[l] = t

\* Mutant: Release frees the lock even when it hands it to a waiter.
FreedState(l) == "FREE"

\* The state and the owner that Release leaves behind.
StateAfterRelease(l) == IF waitQueue[l] = <<>> THEN "FREE" ELSE state[l]

\* Mutant: Release leaves the lock ownerless and lets the waiter take it.
UnownedAfterRelease(l) == NULL

\* Mutant: Release hands the lock to the last waiter.
LastWaiter(l) == IF waitQueue[l] = <<>> THEN NULL ELSE waitQueue[l][Len(waitQueue[l])]

OwnerAfterRelease(l) == IF waitQueue[l] = <<>> THEN NULL ELSE Head(waitQueue[l])

\* Lock::Acquire, apart from the test for a lock already held.
DoAcquire(t, l) ==
    IF state[l] = "FREE"
    THEN /\ state' = [state EXCEPT ![l] = "BUSY"]
         /\ owner' = [owner EXCEPT ![l] = t]
         /\ entered' = [entered EXCEPT ![t] = @ \cup {l}]
         /\ resume' = [resume EXCEPT ![t] = Nothing]
         /\ UNCHANGED <<schedVars, waitQueue>>
    ELSE /\ waitQueue' = [waitQueue EXCEPT ![l] = Append(@, t)]
         /\ resume' = [resume EXCEPT ![t] = InAcquire(l)]
         /\ Sleep(status, readyList)
         /\ UNCHANGED <<lockVars, entered>>

Acquire(t, l) ==
    /\ Calls(t)
    /\ ~isHeldBy(l, t)      \* the owner's call returns at once
    /\ DoAcquire(t, l)
    /\ UNCHANGED <<carcassVars, looping, value, waitingLock>>

Release(t, l) ==
    /\ Calls(t)
    /\ isHeldBy(l, t)       \* anybody else's call returns at once
    /\ state' = [state EXCEPT ![l] = StateAfterRelease(l)]
    /\ owner' = [owner EXCEPT ![l] = OwnerAfterRelease(l)]
    /\ waitQueue' = [waitQueue EXCEPT ![l] = IF @ = <<>> THEN @ ELSE Tail(@)]
    /\ WakeFirst(l)
    /\ entered' = [entered EXCEPT ![t] = @ \ {l}]
    /\ UNCHANGED <<carcassVars, resume, looping, value, waitingLock>>

-----------------------------------------------------------------------------
(***************************************************************************)
(* Condition variables.  Calls with a NULL lock return at once, and so do  *)
(* Wait and Broadcast with another lock than the one already waited with.  *)
(***************************************************************************)
MayUse(t, l) == Disciplined => isHeldBy(l, t)

(***************************************************************************)
(* Wait joins the queue, releases the lock (which does nothing for a       *)
(* caller that does not hold it) and sleeps, all with interrupts off.      *)
(***************************************************************************)
Wait(t, c, l) ==
    /\ Calls(t)
    /\ MayUse(t, l)
    /\ waitingLock[c] \in {NULL, l}
    /\ waitingLock' = [waitingLock EXCEPT ![c] = l]
    /\ resume' = [resume EXCEPT ![t] = InWait(l)]
    /\ IF isHeldBy(l, t)
       THEN /\ state' = [state EXCEPT ![l] = StateAfterRelease(l)]
            /\ owner' = [owner EXCEPT ![l] = OwnerAfterRelease(l)]
       ELSE UNCHANGED lockVars
    /\ IF isHeldBy(l, t) /\ waitQueue[l] # <<>>
       THEN LET next == Head(waitQueue[l])
            IN  /\ waitQueue' = [waitQueue EXCEPT ![c] = Append(@, t), ![l] = Tail(@)]
                /\ Sleep([status EXCEPT ![next] = "READY"], Append(readyList, next))
       ELSE /\ waitQueue' = [waitQueue EXCEPT ![c] = Append(@, t)]
            /\ Sleep(status, readyList)
    /\ entered' = [entered EXCEPT ![t] = @ \ {l}]
    /\ UNCHANGED <<carcassVars, looping, value>>

\* Mutant: Signal forgets to unbind the lock when it wakes the last waiter.
StillBound(c) == waitingLock[c]

\* Mutant: Signal unbinds the lock although threads still wait.
Unbound(c) == NULL

\* The lock that a condition is bound to after Signal has woken one waiter.
LockAfterSignal(c) == IF Tail(waitQueue[c]) = <<>> THEN NULL ELSE waitingLock[c]

\* Condition::Signal past its early returns.
DoSignal(c, l) ==
    /\ waitQueue[c] # <<>>
    /\ waitingLock[c] = l
    /\ WakeFirst(c)
    /\ waitQueue' = [waitQueue EXCEPT ![c] = Tail(@)]
    /\ waitingLock' = [waitingLock EXCEPT ![c] = LockAfterSignal(c)]
    /\ UNCHANGED <<carcassVars, resume, looping, value, lockVars, entered>>

Signal(t, c, l) ==
    /\ Calls(t)
    /\ MayUse(t, l)
    /\ DoSignal(c, l)

(***************************************************************************)
(* Broadcast turns interrupts on again before it loops, so other threads   *)
(* run between its Signals.                                                *)
(***************************************************************************)
Broadcast(t, c, l) ==
    /\ Calls(t)
    /\ MayUse(t, l)
    /\ waitingLock[c] = l
    /\ looping' = [looping EXCEPT ![t] = <<c, l>>]
    /\ UNCHANGED <<schedVars, carcassVars, resume, value, lockVars, waitingLock,
                   waitQueue, entered>>

BroadcastSignal(t, c, l) ==
    /\ t = currentThread
    /\ InterruptsOn
    /\ looping[t] = <<c, l>>
    /\ DoSignal(c, l)

BroadcastReturn(t, c, l) ==
    /\ t = currentThread
    /\ InterruptsOn
    /\ looping[t] = <<c, l>>
    /\ waitQueue[c] = <<>>
    /\ looping' = [looping EXCEPT ![t] = NoLoop]
    /\ UNCHANGED <<schedVars, carcassVars, resume, value, lockVars, waitingLock,
                   waitQueue, entered>>

-----------------------------------------------------------------------------
(***************************************************************************)
(* The rest of the operation that the dispatched thread slept in.          *)
(***************************************************************************)
Resumes(t) == t = currentThread /\ ~Idling

ResumeStart(t) ==
    /\ Resumes(t)
    /\ resume[t] = Start
    /\ resume' = [resume EXCEPT ![t] = Nothing]
    /\ UNCHANGED <<schedVars, carcassVars, looping, value, lockVars, waitingLock,
                   waitQueue, entered>>

ResumeYield(t) ==
    /\ Resumes(t)
    /\ resume[t] = Yielded
    /\ DestroyCarcass
    /\ resume' = [resume EXCEPT ![t] = Nothing]
    /\ UNCHANGED <<schedVars, looping, value, lockVars, waitingLock, waitQueue,
                   entered>>

ResumeP(t, s) ==
    /\ Resumes(t)
    /\ resume[t] = InP(s)
    /\ DestroyCarcass
    /\ DoP(t, s)
    /\ UNCHANGED <<looping, lockVars, waitingLock, entered>>

ResumeAcquire(t, l) ==
    /\ Resumes(t)
    /\ resume[t] = InAcquire(l)
    /\ DestroyCarcass
    /\ resume' = [resume EXCEPT ![t] = Nothing]
    /\ entered' = [entered EXCEPT ![t] = @ \cup {l}]
    /\ UNCHANGED <<schedVars, looping, value, lockVars, waitingLock, waitQueue>>

ResumeWait(t, l) ==
    /\ Resumes(t)
    /\ resume[t] = InWait(l)
    /\ DestroyCarcass
    /\ DoAcquire(t, l)
    /\ UNCHANGED <<looping, value, waitingLock>>

Resume(t) ==
    \/ ResumeStart(t)
    \/ ResumeYield(t)
    \/ \E s \in Semaphore : ResumeP(t, s)
    \/ \E l \in Lock : ResumeAcquire(t, l) \/ ResumeWait(t, l)

-----------------------------------------------------------------------------
ThreadStep(t) ==
    \/ \E child \in Thread : Fork(t, child)
    \/ Finish(t)
    \/ \E s \in Semaphore : P(t, s) \/ V(t, s)
    \/ \E l \in Lock : Acquire(t, l) \/ Release(t, l)
    \/ \E c \in Condition, l \in Lock :
          Wait(t, c, l) \/ Signal(t, c, l) \/ Broadcast(t, c, l)

BroadcastStep(t) ==
    \E c \in Condition, l \in Lock :
        BroadcastSignal(t, c, l) \/ BroadcastReturn(t, c, l)

Next ==
    \/ Dispatch
    \/ \E s \in Semaphore : InterruptV(s)
    \/ \E t \in Thread : \/ ThreadStep(t)
                         \/ Yield(t)
                         \/ Resume(t)
                         \/ BroadcastStep(t)

Spec == Init /\ [][Next]_vars

(***************************************************************************)
(* The CPU never stops while there is something to run, a timer (nachos    *)
(* -rs) keeps preempting the running thread, and a thread that gets the    *)
(* CPU executes something of its Broadcast loop before the next tick.      *)
(***************************************************************************)
Fairness ==
    /\ WF_vars(Dispatch)
    /\ \A t \in Thread : /\ WF_vars(Yield(t))
                         /\ WF_vars(Resume(t))
                         /\ SF_vars(BroadcastStep(t))

FairSpec == Spec /\ Fairness
-----------------------------------------------------------------------------
(***************************************************************************)
(* Properties.                                                             *)
(***************************************************************************)
InQueue(t, q) == \E i \in 1 .. Len(q) : q[i] = t

NoRepeats(q) == \A i, j \in 1 .. Len(q) : q[i] = q[j] => i = j

\* The values that the variables of thread.h, scheduler.h and synch.h take.
TypeOK ==
    /\ status \in [Thread -> ThreadStatus]
    /\ readyList \in Seq(Thread)
    /\ currentThread \in Thread
    /\ threadToBeDestroyed \in Thread \cup {NULL}
    /\ deleted \in SUBSET Thread
    /\ resume \in [Thread -> Continuation]
    /\ looping \in [Thread -> Loops]
    /\ value \in [Semaphore -> 0 .. MaxValue]
    /\ state \in [Lock -> {"FREE", "BUSY"}]
    /\ owner \in [Lock -> Thread \cup {NULL}]
    /\ waitingLock \in [Condition -> Lock \cup {NULL}]
    /\ waitQueue \in [Object -> Seq(Thread)]
    /\ entered \in [Thread -> SUBSET Lock]

\* The ready list holds the READY threads once each; only one thread runs.
ReadyOnce(st, rl, cur) ==
    /\ NoRepeats(rl)
    /\ \A t \in Thread : st[t] = "READY" <=> InQueue(t, rl)
    /\ \A t \in Thread : st[t] = "RUNNING" => t = cur

\* What a thread in the wait queue of object o will do when it is woken.
SleepsIn(o) ==
    IF o \in Semaphore THEN InP(o)
    ELSE IF o \in Lock THEN InAcquire(o)
    ELSE InWait(waitingLock[o])

AsleepOnce ==
    \A o \in Object :
        /\ NoRepeats(waitQueue[o])
        /\ \A t \in Thread : InQueue(t, waitQueue[o]) =>
              /\ status[t] = "BLOCKED"
              /\ resume[t] = SleepsIn(o)
              /\ \A p \in Object : InQueue(t, waitQueue[p]) => p = o

BlockedIsAsleep ==
    \A t \in Thread : status[t] = "BLOCKED" =>
        \/ resume[t] = Finished
        \/ \E o \in Object : InQueue(t, waitQueue[o])

(***************************************************************************)
(* A thread is in exactly one place, and its status says which: on the     *)
(* ready list once when READY, asleep in the queue of the object that it   *)
(* waits for when BLOCKED, on the CPU when RUNNING.  No sequence of        *)
(* ReadyToRun, Sleep, Run and wait queue operations duplicates or loses a  *)
(* thread, and none leaves it in a queue that nobody will wake it from.    *)
(***************************************************************************)
OnePlace ==
    /\ ReadyOnce(status, readyList, currentThread)
    /\ AsleepOnce
    /\ BlockedIsAsleep

(***************************************************************************)
(* Two threads are never both told that they hold a lock: Acquire and Wait *)
(* return to one only after the other called Release or Wait, also when a  *)
(* waiter gets the lock by hand-off and runs much later.                   *)
(***************************************************************************)
MutualExclusion ==
    \A t, u \in Thread : entered[t] \cap entered[u] # {} => t = u

(***************************************************************************)
(* What Lock::Release and Condition::Wait must leave of a lock: it is FREE *)
(* exactly if it has no owner, nobody queues for a FREE lock, and an owner *)
(* either knows it (Acquire or Wait returned to it) or is on its way to    *)
(* learn it: it left the wait queue and was made ready.  So a lock is      *)
(* never owned by a thread that will not release it because it never       *)
(* learned that it holds it.                                               *)
(***************************************************************************)
LockState ==
    \A l \in Lock :
        /\ state[l] = "FREE" <=> owner[l] = NULL
        /\ state[l] = "FREE" => waitQueue[l] = <<>>
        /\ \A t \in Thread :
              owner[l] = t <=>
                 \/ l \in entered[t]
                 \/ resume[t] = InAcquire(l) /\ ~InQueue(t, waitQueue[l])

(***************************************************************************)
(* A condition is bound to a lock exactly while threads wait on it.  A     *)
(* binding left behind would make every later Wait with another lock       *)
(* return without waiting, and every Signal would be refused.              *)
(***************************************************************************)
ConditionBinding ==
    \A c \in Condition : waitingLock[c] = NULL <=> waitQueue[c] = <<>>

(***************************************************************************)
(* Semaphore::V loses no wakeup: while threads sleep on a semaphore, each  *)
(* unit of its value has a woken thread on its way to take it, also when   *)
(* late callers of P take units before the woken ones run.                 *)
(***************************************************************************)
Woken(s) == {t \in Thread : resume[t] = InP(s) /\ ~InQueue(t, waitQueue[s])}

NoLostWakeup ==
    \A s \in Semaphore : waitQueue[s] # <<>> => value[s] <= Cardinality(Woken(s))

(***************************************************************************)
(* A thread that Scheduler::Run has deleted is gone: not on the CPU (the   *)
(* ASSERT in Thread::~Thread), not on the ready list, in no wait queue.    *)
(***************************************************************************)
NoUseAfterDelete ==
    \A t \in deleted :
        /\ t # currentThread
        /\ ~InQueue(t, readyList)
        /\ \A o \in Object : ~InQueue(t, waitQueue[o])

\* Why it is so: only finished threads are deleted, and they stay blocked.
FinishedStays ==
    /\ \A t \in Thread : resume[t] = Finished => status[t] = "BLOCKED"
    /\ threadToBeDestroyed # NULL => resume[threadToBeDestroyed] = Finished
    /\ \A t \in deleted : resume[t] = Finished /\ t # currentThread

\* The inductive invariant.
Inv == TypeOK /\ OnePlace /\ LockState /\ ConditionBinding /\ FinishedStays

(***************************************************************************)
(* Lock hand-off is first come, first served: nobody overtakes the threads *)
(* that queue for a lock.                                                  *)
(***************************************************************************)
HandOff ==
    \A l \in Lock : waitQueue[l] # <<>> /\ owner'[l] # owner[l]
                       => owner'[l] = Head(waitQueue[l])

HandOffInOrder == [][HandOff]_vars

(***************************************************************************)
(* A thread on the ready list gets the CPU: new arrivals queue behind it.  *)
(***************************************************************************)
ReadyRuns ==
    \A t \in Thread : status[t] = "READY" ~> status[t] = "RUNNING"

(***************************************************************************)
(* Broadcast's loop ends although it runs with interrupts on: whoever      *)
(* waits with the same lock needs the lock the caller holds, so nobody     *)
(* joins the queue meanwhile.  The one exception is a thread that waits    *)
(* with another lock after the last Signal has unbound the condition: then *)
(* every further Signal of the loop returns early and the queue stays.     *)
(***************************************************************************)
BroadcastEnds ==
    \A t \in Thread, c \in Condition, l \in Lock :
        looping[t] = <<c, l>> ~> \/ looping[t] = NoLoop
                                \/ waitingLock[c] \notin {NULL, l}
=============================================================================
