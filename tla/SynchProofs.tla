---------------------------- MODULE SynchProofs ----------------------------
(***************************************************************************)
(* Proofs about Synch, for any number of threads, semaphores, locks and    *)
(* condition variables and for arbitrary programs.                         *)
(***************************************************************************)
EXTENDS Synch, FiniteSetTheorems, TLAPS

-----------------------------------------------------------------------------
(***************************************************************************)
(* Queues.                                                                 *)
(***************************************************************************)

\* Nobody is in an empty list, and nobody is in it twice.
LEMMA EmptyQueue ==
    /\ <<>> \in Seq(Thread)
    /\ NoRepeats(<<>>)
    /\ \A t : ~InQueue(t, <<>>)
BY DEF InQueue, NoRepeats

\* List::Append adds the one thread.
LEMMA AppendQueue ==
    ASSUME NEW q \in Seq(Thread), NEW x \in Thread
    PROVE  /\ Append(q, x) \in Seq(Thread)
           /\ Append(q, x) # <<>>
           /\ \A t : InQueue(t, Append(q, x)) <=> InQueue(t, q) \/ t = x
           /\ NoRepeats(q) /\ ~InQueue(x, q) => NoRepeats(Append(q, x))
<1> DEFINE r == Append(q, x)
<1>1. /\ r \in Seq(Thread)
      /\ Len(r) = Len(q) + 1
      /\ Len(q) \in Nat
      /\ \A i \in 1 .. Len(q) : r[i] = q[i]
      /\ r[Len(q) + 1] = x
    OBVIOUS
<1>2. r # <<>>
    BY <1>1
<1>3. \A t : InQueue(t, r) <=> InQueue(t, q) \/ t = x
    BY <1>1 DEF InQueue
<1>4. NoRepeats(q) /\ ~InQueue(x, q) => NoRepeats(r)
    BY <1>1 DEF InQueue, NoRepeats
<1> QED BY <1>1, <1>2, <1>3, <1>4

\* List::Remove takes the first thread away, and only that one.
LEMMA RemoveQueue ==
    ASSUME NEW q \in Seq(Thread), q # <<>>
    PROVE  /\ Head(q) \in Thread
           /\ Tail(q) \in Seq(Thread)
           /\ InQueue(Head(q), q)
           /\ NoRepeats(q) =>
                /\ NoRepeats(Tail(q))
                /\ \A t : InQueue(t, Tail(q)) <=> InQueue(t, q) /\ t # Head(q)
<1> DEFINE r == Tail(q)
<1>1. /\ r \in Seq(Thread)
      /\ Len(q) \in Nat /\ Len(q) > 0
      /\ Len(r) = Len(q) - 1
      /\ \A i \in 1 .. Len(r) : r[i] = q[i + 1]
      /\ Head(q) = q[1]
    OBVIOUS
<1>2. InQueue(Head(q), q) /\ Head(q) \in Thread
    BY <1>1 DEF InQueue
<1>3. ASSUME NoRepeats(q) PROVE NoRepeats(r)
    BY <1>1, <1>3 DEF NoRepeats
<1>4. ASSUME NoRepeats(q), NEW t
      PROVE  InQueue(t, r) <=> InQueue(t, q) /\ t # Head(q)
  <2>1. ASSUME InQueue(t, r) PROVE InQueue(t, q) /\ t # Head(q)
    <3>1. PICK i \in 1 .. Len(r) : r[i] = t
        BY <2>1 DEF InQueue
    <3>2. q[i + 1] = t /\ i + 1 \in 1 .. Len(q) /\ i + 1 # 1
        BY <1>1, <3>1
    <3> QED BY <1>1, <1>4, <3>2 DEF InQueue, NoRepeats
  <2>2. ASSUME InQueue(t, q), t # Head(q) PROVE InQueue(t, r)
    <3>1. PICK i \in 1 .. Len(q) : q[i] = t
        BY <2>2 DEF InQueue
    <3>2. i - 1 \in 1 .. Len(r) /\ r[i - 1] = t
        BY <1>1, <2>2, <3>1
    <3> QED BY <3>2 DEF InQueue
  <2> QED BY <2>1, <2>2
<1> QED BY <1>1, <1>2, <1>3, <1>4

-----------------------------------------------------------------------------
(***************************************************************************)
(* Continuations.                                                          *)
(***************************************************************************)

\* The continuations are what resume may hold.
LEMMA ContinuationType ==
    /\ Nothing \in Continuation
    /\ Start \in Continuation
    /\ Yielded \in Continuation
    /\ Finished \in Continuation
    /\ \A s \in Semaphore : InP(s) \in Continuation
    /\ \A l \in Lock : InAcquire(l) \in Continuation
    /\ \A l \in Lock : InWait(l) \in Continuation
BY DEF Continuation

\* A continuation tells which operation the thread is in, and on which object.
LEMMA ContinuationsDiffer ==
    /\ \A s : /\ InP(s) # Nothing /\ InP(s) # Start /\ InP(s) # Yielded
              /\ InP(s) # Finished
    /\ \A l : /\ InAcquire(l) # Nothing /\ InAcquire(l) # Start
              /\ InAcquire(l) # Yielded /\ InAcquire(l) # Finished
    /\ \A l : /\ InWait(l) # Nothing /\ InWait(l) # Start
              /\ InWait(l) # Yielded /\ InWait(l) # Finished
    /\ \A s, l : InP(s) # InAcquire(l)
    /\ \A s, l : InP(s) # InWait(l)
    /\ \A k, l : InAcquire(k) # InWait(l)
    /\ \A k, l : InP(k) = InP(l) => k = l
    /\ \A k, l : InAcquire(k) = InAcquire(l) => k = l
    /\ \A k, l : InWait(k) = InWait(l) => k = l
    /\ Nothing # Start /\ Nothing # Yielded /\ Nothing # Finished
    /\ Start # Yielded /\ Start # Finished /\ Yielded # Finished
BY DEF Nothing, Start, Yielded, Finished, InP, InAcquire, InWait

-----------------------------------------------------------------------------
(***************************************************************************)
(* Type correctness.                                                       *)
(***************************************************************************)

\* Thread::Sleep leaves a list of threads and a current thread.
LEMMA SleepType ==
    ASSUME TypeOK, NEW st \in [Thread -> ThreadStatus], NEW rl \in Seq(Thread),
           Sleep(st, rl)
    PROVE  /\ status' \in [Thread -> ThreadStatus]
           /\ readyList' \in Seq(Thread)
           /\ currentThread' \in Thread
<1>1. CASE rl = <<>>
    BY <1>1 DEF Sleep, TypeOK, ThreadStatus
<1>2. CASE rl # <<>>
    BY <1>2, RemoveQueue DEF Sleep, TypeOK, ThreadStatus
<1> QED BY <1>1, <1>2

\* So does Scheduler::Run.
LEMMA RunNextType ==
    ASSUME TypeOK, NEW st \in [Thread -> ThreadStatus], NEW rl \in Seq(Thread),
           rl # <<>>, RunNext(st, rl)
    PROVE  /\ status' \in [Thread -> ThreadStatus]
           /\ readyList' \in Seq(Thread)
           /\ currentThread' \in Thread
BY RemoveQueue DEF RunNext, TypeOK, ThreadStatus

\* So does Scheduler::ReadyToRun.
LEMMA ReadyToRunType ==
    ASSUME TypeOK, NEW t \in Thread, ReadyToRun(t)
    PROVE  /\ status' \in [Thread -> ThreadStatus]
           /\ readyList' \in Seq(Thread)
           /\ currentThread' \in Thread
BY AppendQueue DEF ReadyToRun, TypeOK, ThreadStatus

\* So does waking the first waiter, when there is one.
LEMMA WakeFirstType ==
    ASSUME TypeOK, NEW o \in Object, WakeFirst(o)
    PROVE  /\ status' \in [Thread -> ThreadStatus]
           /\ readyList' \in Seq(Thread)
           /\ currentThread' \in Thread
<1>1. CASE waitQueue[o] = <<>>
    BY <1>1 DEF WakeFirst, TypeOK, schedVars
<1>2. CASE waitQueue[o] # <<>>
  <2>1. waitQueue[o] \in Seq(Thread)
      BY DEF TypeOK
  <2>2. Head(waitQueue[o]) \in Thread
      BY <1>2, <2>1, RemoveQueue
  <2> QED BY <1>2, <2>2, ReadyToRunType DEF WakeFirst
<1> QED BY <1>1, <1>2

\* The values of the wait queues stay sequences of threads.
LEMMA WaitQueueType ==
    ASSUME TypeOK, NEW o \in Object, NEW t \in Thread
    PROVE  /\ waitQueue[o] \in Seq(Thread)
           /\ Append(waitQueue[o], t) \in Seq(Thread)
           /\ waitQueue[o] # <<>> => Tail(waitQueue[o]) \in Seq(Thread)
           /\ waitQueue[o] # <<>> => Head(waitQueue[o]) \in Thread
<1>1. waitQueue[o] \in Seq(Thread)
    BY DEF TypeOK
<1> QED BY <1>1, AppendQueue, RemoveQueue

\* What P leaves, when it is called and when it comes back from Sleep.
LEMMA DoPType ==
    ASSUME TypeOK, NEW t \in Thread, NEW s \in Semaphore, DoP(t, s)
    PROVE  /\ status' \in [Thread -> ThreadStatus]
           /\ readyList' \in Seq(Thread)
           /\ currentThread' \in Thread
           /\ value' \in [Semaphore -> 0 .. MaxValue]
           /\ resume' \in [Thread -> Continuation]
           /\ waitQueue' \in [Object -> Seq(Thread)]
<1>1. s \in Object
    BY DEF Object
<1>2. CASE value[s] = 0
  <2>1. /\ waitQueue' = [waitQueue EXCEPT ![s] = Append(waitQueue[s], t)]
        /\ resume' = [resume EXCEPT ![t] = InP(s)]
        /\ Sleep(status, readyList)
        /\ value' = value
      BY <1>2 DEF DoP
  <2>2. Append(waitQueue[s], t) \in Seq(Thread)
      BY <1>1, WaitQueueType
  <2>3. /\ status' \in [Thread -> ThreadStatus]
        /\ readyList' \in Seq(Thread)
        /\ currentThread' \in Thread
      BY <2>1, SleepType DEF TypeOK
  <2> QED BY <2>1, <2>2, <2>3, ContinuationType DEF TypeOK
<1>3. CASE value[s] # 0
  <2>1. value[s] - 1 \in 0 .. MaxValue
      BY <1>3, ConstantsAssumption DEF TypeOK
  <2> QED BY <1>3, <2>1, ContinuationType DEF DoP, TypeOK, schedVars
<1> QED BY <1>2, <1>3

\* What V leaves.
LEMMA DoVType ==
    ASSUME TypeOK, NEW s \in Semaphore, DoV(s)
    PROVE  TypeOK'
<1>1. s \in Object
    BY DEF Object
<1>2. value[s] + 1 \in 0 .. MaxValue
    BY ConstantsAssumption DEF DoV, TypeOK
<1>3. waitQueue' \in [Object -> Seq(Thread)]
    BY <1>1, WaitQueueType DEF DoV, TypeOK
<1>4. /\ status' \in [Thread -> ThreadStatus]
      /\ readyList' \in Seq(Thread)
      /\ currentThread' \in Thread
    BY <1>1, WakeFirstType DEF DoV
<1> QED BY <1>2, <1>3, <1>4 DEF DoV, TypeOK, carcassVars, lockVars

\* What Acquire leaves, when it is called and at the end of Wait.
LEMMA DoAcquireType ==
    ASSUME TypeOK, NEW t \in Thread, NEW l \in Lock, DoAcquire(t, l)
    PROVE  /\ status' \in [Thread -> ThreadStatus]
           /\ readyList' \in Seq(Thread)
           /\ currentThread' \in Thread
           /\ state' \in [Lock -> {"FREE", "BUSY"}]
           /\ owner' \in [Lock -> Thread \cup {NULL}]
           /\ resume' \in [Thread -> Continuation]
           /\ waitQueue' \in [Object -> Seq(Thread)]
           /\ entered' \in [Thread -> SUBSET Lock]
<1>1. l \in Object
    BY DEF Object
<1>2. CASE state[l] = "FREE"
  <2>1. /\ state' = [state EXCEPT ![l] = "BUSY"]
        /\ owner' = [owner EXCEPT ![l] = t]
        /\ entered' = [entered EXCEPT ![t] = @ \cup {l}]
        /\ resume' = [resume EXCEPT ![t] = Nothing]
        /\ UNCHANGED <<status, readyList, currentThread, waitQueue>>
      BY <1>2 DEF DoAcquire, schedVars
  <2> QED BY <2>1, ContinuationType DEF TypeOK
<1>3. CASE state[l] # "FREE"
  <2>1. /\ waitQueue' = [waitQueue EXCEPT ![l] = Append(waitQueue[l], t)]
        /\ resume' = [resume EXCEPT ![t] = InAcquire(l)]
        /\ Sleep(status, readyList)
        /\ UNCHANGED <<state, owner, entered>>
      BY <1>3 DEF DoAcquire, lockVars
  <2>2. Append(waitQueue[l], t) \in Seq(Thread)
      BY <1>1, WaitQueueType
  <2>3. /\ status' \in [Thread -> ThreadStatus]
        /\ readyList' \in Seq(Thread)
        /\ currentThread' \in Thread
      BY <2>1, SleepType DEF TypeOK
  <2> QED BY <2>1, <2>2, <2>3, ContinuationType DEF TypeOK
<1> QED BY <1>2, <1>3

\* What Signal leaves.
LEMMA DoSignalType ==
    ASSUME TypeOK, NEW c \in Condition, NEW l \in Lock, DoSignal(c, l)
    PROVE  TypeOK'
<1>1. c \in Object
    BY DEF Object
<1>2. waitQueue' \in [Object -> Seq(Thread)]
    BY <1>1, WaitQueueType DEF DoSignal, TypeOK
<1>3. /\ status' \in [Thread -> ThreadStatus]
      /\ readyList' \in Seq(Thread)
      /\ currentThread' \in Thread
    BY <1>1, WakeFirstType DEF DoSignal
<1> QED BY <1>2, <1>3 DEF DoSignal, TypeOK, LockAfterSignal, carcassVars, lockVars

\* The state and owner that Release computes are a lock state and an owner.
LEMMA ReleaseType ==
    ASSUME TypeOK, NEW l \in Lock
    PROVE  /\ StateAfterRelease(l) \in {"FREE", "BUSY"}
           /\ OwnerAfterRelease(l) \in Thread \cup {NULL}
<1>1. l \in Object
    BY DEF Object
<1> QED BY <1>1, WaitQueueType DEF StateAfterRelease, OwnerAfterRelease, TypeOK

\* What Wait leaves.
LEMMA WaitType ==
    ASSUME TypeOK, NEW t \in Thread, NEW c \in Condition, NEW l \in Lock,
           Wait(t, c, l)
    PROVE  TypeOK'
<1>1. l \in Object /\ c \in Object /\ l # c
    BY ConstantsAssumption DEF Object
<1>2. /\ state' \in [Lock -> {"FREE", "BUSY"}]
      /\ owner' \in [Lock -> Thread \cup {NULL}]
    BY ReleaseType DEF Wait, TypeOK, lockVars
<1>3. /\ status' \in [Thread -> ThreadStatus]
      /\ readyList' \in Seq(Thread)
      /\ currentThread' \in Thread
      /\ waitQueue' \in [Object -> Seq(Thread)]
  <2>1. CASE isHeldBy(l, t) /\ waitQueue[l] # <<>>
    <3> DEFINE next == Head(waitQueue[l])
    <3>1. next \in Thread
        BY <1>1, <2>1, WaitQueueType
    <3>2. Append(readyList, next) \in Seq(Thread)
        BY <3>1, AppendQueue DEF TypeOK
    <3>3. [status EXCEPT ![next] = "READY"] \in [Thread -> ThreadStatus]
        BY <3>1 DEF TypeOK, ThreadStatus
    <3>4. Sleep([status EXCEPT ![next] = "READY"], Append(readyList, next))
        BY <2>1 DEF Wait
    <3>5. waitQueue' \in [Object -> Seq(Thread)]
      <4>1. waitQueue' = [waitQueue EXCEPT ![c] = Append(@, t), ![l] = Tail(@)]
          BY <2>1 DEF Wait
      <4>2. Append(waitQueue[c], t) \in Seq(Thread) /\ Tail(waitQueue[l]) \in Seq(Thread)
          BY <1>1, <2>1, WaitQueueType
      <4> QED BY <1>1, <4>1, <4>2 DEF TypeOK
    <3> QED BY <3>2, <3>3, <3>4, <3>5, SleepType
  <2>2. CASE ~(isHeldBy(l, t) /\ waitQueue[l] # <<>>)
    <3>1. Sleep(status, readyList)
        BY <2>2 DEF Wait
    <3>2. waitQueue' \in [Object -> Seq(Thread)]
        BY <1>1, <2>2, WaitQueueType DEF Wait, TypeOK
    <3> QED BY <3>1, <3>2, SleepType DEF TypeOK
  <2> QED BY <2>1, <2>2
<1>4. /\ waitingLock' \in [Condition -> Lock \cup {NULL}]
      /\ resume' \in [Thread -> Continuation]
      /\ entered' \in [Thread -> SUBSET Lock]
  <2>1. /\ waitingLock' = [waitingLock EXCEPT ![c] = l]
        /\ resume' = [resume EXCEPT ![t] = InWait(l)]
        /\ entered' = [entered EXCEPT ![t] = @ \ {l}]
      BY DEF Wait
  <2> QED BY <2>1, ContinuationType DEF TypeOK
<1>5. UNCHANGED <<threadToBeDestroyed, deleted, looping, value>>
    BY DEF Wait, carcassVars
<1> QED BY <1>2, <1>3, <1>4, <1>5 DEF TypeOK

\* Every step keeps the types.
LEMMA TypeStep ==
    ASSUME TypeOK, [Next]_vars
    PROVE  TypeOK'
<1>1. ASSUME NEW t \in Thread, NEW child \in Thread, Fork(t, child)
      PROVE  TypeOK'
    BY <1>1, ReadyToRunType DEF Fork, TypeOK, carcassVars, lockVars
<1>2. ASSUME NEW t \in Thread, Finish(t)
      PROVE  TypeOK'
    BY <1>2, SleepType, ContinuationType DEF Finish, TypeOK, lockVars
<1>3. ASSUME NEW t \in Thread, NEW s \in Semaphore, P(t, s)
      PROVE  TypeOK'
    BY <1>3, DoPType DEF P, TypeOK, carcassVars, lockVars
<1>4. ASSUME NEW t \in Thread, NEW s \in Semaphore, V(t, s)
      PROVE  TypeOK'
    BY <1>4, DoVType DEF V
<1>5. ASSUME NEW t \in Thread, NEW l \in Lock, Acquire(t, l)
      PROVE  TypeOK'
    BY <1>5, DoAcquireType DEF Acquire, TypeOK, carcassVars
<1>6. ASSUME NEW t \in Thread, NEW l \in Lock, Release(t, l)
      PROVE  TypeOK'
  <2>1. l \in Object
      BY DEF Object
  <2>2. waitQueue' \in [Object -> Seq(Thread)]
      BY <1>6, <2>1, WaitQueueType DEF Release, TypeOK
  <2>3. /\ status' \in [Thread -> ThreadStatus]
        /\ readyList' \in Seq(Thread)
        /\ currentThread' \in Thread
      BY <1>6, <2>1, WakeFirstType DEF Release
  <2> QED BY <1>6, <2>2, <2>3, ReleaseType DEF Release, TypeOK, carcassVars
<1>7. ASSUME NEW t \in Thread, NEW c \in Condition, NEW l \in Lock, Wait(t, c, l)
      PROVE  TypeOK'
    BY <1>7, WaitType
<1>8. ASSUME NEW t \in Thread, NEW c \in Condition, NEW l \in Lock, Signal(t, c, l)
      PROVE  TypeOK'
    BY <1>8, DoSignalType DEF Signal
<1>9. ASSUME NEW t \in Thread, NEW c \in Condition, NEW l \in Lock, Broadcast(t, c, l)
      PROVE  TypeOK'
    BY <1>9 DEF Broadcast, TypeOK, Loops, schedVars, carcassVars, lockVars
<1>10. ASSUME NEW t \in Thread, Yield(t)
       PROVE  TypeOK'
  <2>1. /\ [status EXCEPT ![t] = "READY"] \in [Thread -> ThreadStatus]
        /\ Append(readyList, t) \in Seq(Thread)
        /\ Append(readyList, t) # <<>>
      BY AppendQueue DEF TypeOK, ThreadStatus
  <2> QED BY <1>10, <2>1, RunNextType, ContinuationType
          DEF Yield, TypeOK, carcassVars, lockVars
<1>11. ASSUME Dispatch
       PROVE  TypeOK'
  <2>1. /\ status' \in [Thread -> ThreadStatus]
        /\ readyList' \in Seq(Thread)
        /\ currentThread' \in Thread
      BY <1>11, RunNextType DEF Dispatch, TypeOK
  <2> QED BY <1>11, <2>1 DEF Dispatch, TypeOK, carcassVars, lockVars
<1>12. ASSUME NEW s \in Semaphore, InterruptV(s)
       PROVE  TypeOK'
    BY <1>12, DoVType DEF InterruptV
<1>13. ASSUME NEW t \in Thread, Resume(t)
       PROVE  TypeOK'
  <2>1. ASSUME DestroyCarcass
        PROVE  /\ deleted' \in SUBSET Thread
               /\ threadToBeDestroyed' \in Thread \cup {NULL}
      BY <2>1 DEF DestroyCarcass, TypeOK
  <2>2. CASE ResumeStart(t)
      BY <2>2, ContinuationType
         DEF ResumeStart, TypeOK, schedVars, carcassVars, lockVars
  <2>3. CASE ResumeYield(t)
      BY <2>1, <2>3, ContinuationType DEF ResumeYield, TypeOK, schedVars, lockVars
  <2>4. ASSUME NEW s \in Semaphore, ResumeP(t, s)
        PROVE  TypeOK'
      BY <2>1, <2>4, DoPType DEF ResumeP, TypeOK, lockVars
  <2>5. ASSUME NEW l \in Lock, ResumeAcquire(t, l)
        PROVE  TypeOK'
      BY <2>1, <2>5, ContinuationType DEF ResumeAcquire, TypeOK, schedVars, lockVars
  <2>6. ASSUME NEW l \in Lock, ResumeWait(t, l)
        PROVE  TypeOK'
      BY <2>1, <2>6, DoAcquireType DEF ResumeWait, TypeOK
  <2> QED BY <1>13, <2>2, <2>3, <2>4, <2>5, <2>6 DEF Resume
<1>14. ASSUME NEW t \in Thread, NEW c \in Condition, NEW l \in Lock,
              BroadcastSignal(t, c, l)
       PROVE  TypeOK'
    BY <1>14, DoSignalType DEF BroadcastSignal
<1>15. ASSUME NEW t \in Thread, NEW c \in Condition, NEW l \in Lock,
              BroadcastReturn(t, c, l)
       PROVE  TypeOK'
    BY <1>15 DEF BroadcastReturn, TypeOK, Loops, schedVars, carcassVars, lockVars
<1>16. CASE UNCHANGED vars
    BY <1>16 DEF TypeOK, vars
<1> QED BY <1>1, <1>2, <1>3, <1>4, <1>5, <1>6, <1>7, <1>8, <1>9, <1>10, <1>11,
           <1>12, <1>13, <1>14, <1>15, <1>16
        DEF Next, ThreadStep, BroadcastStep

\* Initially the types are right.
LEMMA TypeInit == Init => TypeOK
BY ConstantsAssumption, EmptyQueue, ContinuationType
   DEF Init, TypeOK, ThreadStatus, Loops, NoLoop

(***************************************************************************)
(* The state of threads, scheduler and synchronization objects always has  *)
(* its type: in particular no semaphore's value is ever negative.          *)
(***************************************************************************)
THEOREM TypeCorrect == Spec => []TypeOK
<1>1. Init => TypeOK
    BY TypeInit
<1>2. TypeOK /\ [Next]_vars => TypeOK'
    BY TypeStep
<1> QED BY <1>1, <1>2, PTL DEF Spec

-----------------------------------------------------------------------------
(***************************************************************************)
(* The scheduler keeps every ready thread on the ready list once, and      *)
(* changes which threads are blocked only as its caller asks.              *)
(***************************************************************************)

\* Sleep blocks the current thread and nobody else.
LEMMA SleepKeeps ==
    ASSUME TypeOK, NEW st \in [Thread -> ThreadStatus], NEW rl \in Seq(Thread),
           ReadyOnce(st, rl, currentThread), st[currentThread] = "RUNNING",
           Sleep(st, rl)
    PROVE  /\ ReadyOnce(status, readyList, currentThread)'
           /\ \A t \in Thread : status'[t] = "BLOCKED" <=>
                                   st[t] = "BLOCKED" \/ t = currentThread
           /\ currentThread' = currentThread \/ st[currentThread'] = "READY"
<1>0. currentThread \in Thread
    BY DEF TypeOK
<1>1. CASE rl = <<>>
  <2>1. /\ status' = [st EXCEPT ![currentThread] = "BLOCKED"]
        /\ readyList' = rl
        /\ currentThread' = currentThread
      BY <1>1 DEF Sleep
  <2> QED BY <1>0, <2>1 DEF ReadyOnce, ThreadStatus
<1>2. CASE rl # <<>>
  <2> DEFINE h == Head(rl)
  <2>1. /\ status' = [st EXCEPT ![currentThread] = "BLOCKED", ![h] = "RUNNING"]
        /\ readyList' = Tail(rl)
        /\ currentThread' = h
      BY <1>2 DEF Sleep
  <2>2. /\ h \in Thread
        /\ InQueue(h, rl)
        /\ NoRepeats(Tail(rl))
        /\ \A t : InQueue(t, Tail(rl)) <=> InQueue(t, rl) /\ t # h
      BY <1>2, RemoveQueue DEF ReadyOnce
  <2>3. st[h] = "READY" /\ h # currentThread
      BY <2>2 DEF ReadyOnce
  <2>4. \A t \in Thread : status'[t] = IF t = h THEN "RUNNING"
                                       ELSE IF t = currentThread THEN "BLOCKED"
                                       ELSE st[t]
      BY <1>0, <2>1, <2>2, <2>3
  <2> HIDE DEF h
  <2> QED BY <1>0, <2>1, <2>2, <2>3, <2>4 DEF ReadyOnce
<1> QED BY <1>1, <1>2

\* Run takes the first ready thread when nobody runs.
LEMMA RunNextKeeps ==
    ASSUME TypeOK, NEW st \in [Thread -> ThreadStatus], NEW rl \in Seq(Thread),
           rl # <<>>, ReadyOnce(st, rl, currentThread),
           st[currentThread] # "RUNNING", RunNext(st, rl)
    PROVE  /\ ReadyOnce(status, readyList, currentThread)'
           /\ \A t \in Thread : status'[t] = "BLOCKED" <=> st[t] = "BLOCKED"
           /\ st[currentThread'] = "READY"
<1> DEFINE h == Head(rl)
<1>1. /\ status' = [st EXCEPT ![h] = "RUNNING"]
      /\ readyList' = Tail(rl)
      /\ currentThread' = h
    BY DEF RunNext
<1>2. /\ h \in Thread
      /\ InQueue(h, rl)
      /\ NoRepeats(Tail(rl))
      /\ \A t : InQueue(t, Tail(rl)) <=> InQueue(t, rl) /\ t # h
    BY RemoveQueue DEF ReadyOnce
<1>3. st[h] = "READY"
    BY <1>2 DEF ReadyOnce
<1>4. \A t \in Thread : status'[t] = IF t = h THEN "RUNNING" ELSE st[t]
    BY <1>1, <1>2
<1> HIDE DEF h
<1> QED BY <1>1, <1>2, <1>3, <1>4 DEF ReadyOnce

\* The statuses and the list after ReadyToRun of a thread that is nowhere else.
LEMMA ReadyAppend ==
    ASSUME TypeOK, NEW t \in Thread, status[t] # "READY",
           ReadyOnce(status, readyList, currentThread)
    PROVE  /\ ReadyOnce([status EXCEPT ![t] = "READY"], Append(readyList, t), currentThread)
           /\ Append(readyList, t) \in Seq(Thread)
           /\ Append(readyList, t) # <<>>
           /\ [status EXCEPT ![t] = "READY"] \in [Thread -> ThreadStatus]
<1> DEFINE st == [status EXCEPT ![t] = "READY"]
           rl == Append(readyList, t)
<1>1. /\ rl \in Seq(Thread)
      /\ rl # <<>>
      /\ \A u : InQueue(u, rl) <=> InQueue(u, readyList) \/ u = t
      /\ NoRepeats(readyList) /\ ~InQueue(t, readyList) => NoRepeats(rl)
    BY AppendQueue DEF TypeOK
<1>2. /\ st \in [Thread -> ThreadStatus]
      /\ \A u \in Thread : st[u] = IF u = t THEN "READY" ELSE status[u]
    BY DEF TypeOK, ThreadStatus
<1> HIDE DEF st, rl
<1>3. ReadyOnce(st, rl, currentThread)
    BY <1>1, <1>2 DEF ReadyOnce
<1> QED BY <1>1, <1>2, <1>3 DEF st, rl

\* ReadyToRun unblocks the one thread.
LEMMA ReadyToRunKeeps ==
    ASSUME TypeOK, NEW t \in Thread, status[t] # "READY",
           ReadyOnce(status, readyList, currentThread), ReadyToRun(t)
    PROVE  /\ ReadyOnce(status, readyList, currentThread)'
           /\ \A u \in Thread : status'[u] = "BLOCKED" <=>
                                   status[u] = "BLOCKED" /\ u # t
           /\ currentThread' = currentThread
<1>1. /\ status' = [status EXCEPT ![t] = "READY"]
      /\ readyList' = Append(readyList, t)
      /\ currentThread' = currentThread
    BY DEF ReadyToRun
<1>2. ReadyOnce(status', readyList', currentThread')
    BY <1>1, ReadyAppend
<1>3. ReadyOnce(status, readyList, currentThread)'
    BY <1>2 DEF ReadyOnce
<1> QED BY <1>1, <1>3 DEF TypeOK

-----------------------------------------------------------------------------
(***************************************************************************)
(* The three ways in which a step moves threads between the CPU, the ready *)
(* list and the wait queues.                                               *)
(***************************************************************************)

\* The current thread goes to sleep in the queue of object o.
LEMMA JoinQueue ==
    ASSUME TypeOK, OnePlace, NEW o \in Object, NEW t \in Thread,
           t = currentThread, status[t] = "RUNNING",
           Sleep(status, readyList),
           waitQueue' = [waitQueue EXCEPT ![o] = Append(@, t)],
           resume' = [resume EXCEPT ![t] = SleepsIn(o)'],
           \A p \in Object : waitQueue[p] = <<>> \/ SleepsIn(p)' = SleepsIn(p)
    PROVE  /\ OnePlace'
           /\ \A u \in Thread : status'[u] = "BLOCKED" <=>
                                   status[u] = "BLOCKED" \/ u = t
           /\ currentThread' = t \/ status[currentThread'] = "READY"
<1>1. /\ ReadyOnce(status, readyList, currentThread)'
      /\ \A u \in Thread : status'[u] = "BLOCKED" <=> status[u] = "BLOCKED" \/ u = t
      /\ currentThread' = t \/ status[currentThread'] = "READY"
    BY SleepKeeps DEF OnePlace, TypeOK
<1>2. \A p \in Object : ~InQueue(t, waitQueue[p])
    BY DEF OnePlace, AsleepOnce
<1>3. /\ waitQueue'[o] = Append(waitQueue[o], t)
      /\ \A p \in Object \ {o} : waitQueue'[p] = waitQueue[p]
    BY DEF TypeOK
<1>4. /\ \A u : InQueue(u, waitQueue'[o]) <=> InQueue(u, waitQueue[o]) \/ u = t
      /\ NoRepeats(waitQueue'[o])
  <2>1. waitQueue[o] \in Seq(Thread) /\ NoRepeats(waitQueue[o])
      BY DEF TypeOK, OnePlace, AsleepOnce
  <2> QED BY <1>2, <1>3, <2>1, AppendQueue
<1>5. \A u \in Thread : resume'[u] = IF u = t THEN SleepsIn(o)' ELSE resume[u]
    BY DEF TypeOK
<1>6. AsleepOnce'
  <2> SUFFICES ASSUME NEW p \in Object
               PROVE  /\ NoRepeats(waitQueue'[p])
                      /\ \A u \in Thread : InQueue(u, waitQueue'[p]) =>
                            /\ status'[u] = "BLOCKED"
                            /\ resume'[u] = SleepsIn(p)'
                            /\ \A r \in Object : InQueue(u, waitQueue'[r]) => r = p
      BY DEF AsleepOnce, Object
  <2>1. /\ NoRepeats(waitQueue[p])
        /\ \A u \in Thread : InQueue(u, waitQueue[p]) =>
              /\ status[u] = "BLOCKED"
              /\ resume[u] = SleepsIn(p)
              /\ \A r \in Object : InQueue(u, waitQueue[r]) => r = p
      BY DEF OnePlace, AsleepOnce
  <2>2. \A u \in Thread : InQueue(u, waitQueue[p]) => SleepsIn(p)' = SleepsIn(p)
      BY EmptyQueue
  <2>3. NoRepeats(waitQueue'[p])
      BY <1>3, <1>4, <2>1
  <2>4. ASSUME NEW u \in Thread, InQueue(u, waitQueue'[p])
        PROVE  /\ status'[u] = "BLOCKED"
               /\ resume'[u] = SleepsIn(p)'
      BY <1>1, <1>2, <1>3, <1>4, <1>5, <2>1, <2>2, <2>4
  <2>5. ASSUME NEW u \in Thread, InQueue(u, waitQueue'[p]),
               NEW r \in Object, InQueue(u, waitQueue'[r])
        PROVE  r = p
      BY <1>2, <1>3, <1>4, <2>1, <2>5
  <2> QED BY <2>3, <2>4, <2>5
<1>7. BlockedIsAsleep'
  <2> SUFFICES ASSUME NEW u \in Thread, status'[u] = "BLOCKED"
               PROVE  \/ resume'[u] = Finished
                      \/ \E p \in Object : InQueue(u, waitQueue'[p])
      BY DEF BlockedIsAsleep, Object
  <2>1. CASE u = t
      BY <1>4, <2>1
  <2>2. CASE u # t
    <3>1. \/ resume[u] = Finished
          \/ \E p \in Object : InQueue(u, waitQueue[p])
        BY <1>1, <2>2 DEF OnePlace, BlockedIsAsleep
    <3> QED BY <1>3, <1>4, <1>5, <2>2, <3>1
  <2> QED BY <2>1, <2>2
<1> QED BY <1>1, <1>6, <1>7 DEF OnePlace

\* The first thread in the queue of object o, if any, is made ready.
LEMMA LeaveQueue ==
    ASSUME TypeOK, OnePlace, NEW o \in Object,
           WakeFirst(o),
           waitQueue' = [waitQueue EXCEPT ![o] = IF @ = <<>> THEN @ ELSE Tail(@)],
           resume' = resume,
           \A p \in Object : waitQueue'[p] = <<>> \/ SleepsIn(p)' = SleepsIn(p)
    PROVE  /\ OnePlace'
           /\ \A u \in Thread : status'[u] = "BLOCKED" => status[u] = "BLOCKED"
           /\ \A u \in Thread : status[u] = "BLOCKED" /\ status'[u] # "BLOCKED"
                                   => resume[u] = SleepsIn(o)
           /\ currentThread' = currentThread
<1>1. CASE waitQueue[o] = <<>>
  <2>1. UNCHANGED <<status, readyList, currentThread>>
      BY <1>1 DEF WakeFirst, schedVars
  <2>2. waitQueue' = waitQueue
      BY <1>1 DEF TypeOK
  <2>3. AsleepOnce'
    <3> SUFFICES ASSUME NEW p \in Object
                 PROVE  /\ NoRepeats(waitQueue'[p])
                        /\ \A u \in Thread : InQueue(u, waitQueue'[p]) =>
                              /\ status'[u] = "BLOCKED"
                              /\ resume'[u] = SleepsIn(p)'
                              /\ \A r \in Object : InQueue(u, waitQueue'[r]) => r = p
        BY DEF AsleepOnce, Object
    <3>1. \A u : InQueue(u, waitQueue'[p]) => SleepsIn(p)' = SleepsIn(p)
        BY EmptyQueue
    <3> QED BY <2>1, <2>2, <3>1 DEF OnePlace, AsleepOnce
  <2>4. ReadyOnce(status, readyList, currentThread)' /\ BlockedIsAsleep'
      BY <2>1, <2>2 DEF OnePlace, ReadyOnce, BlockedIsAsleep, Object
  <2> QED BY <2>1, <2>3, <2>4 DEF OnePlace
<1>2. CASE waitQueue[o] # <<>>
  <2> DEFINE h == Head(waitQueue[o])
  <2>1. ReadyToRun(h)
      BY <1>2 DEF WakeFirst
  <2>2. /\ waitQueue'[o] = Tail(waitQueue[o])
        /\ \A p \in Object \ {o} : waitQueue'[p] = waitQueue[p]
      BY <1>2 DEF TypeOK
  <2>3. /\ h \in Thread
        /\ InQueue(h, waitQueue[o])
        /\ NoRepeats(waitQueue'[o])
        /\ \A u : InQueue(u, waitQueue'[o]) <=> InQueue(u, waitQueue[o]) /\ u # h
    <3>1. waitQueue[o] \in Seq(Thread) /\ NoRepeats(waitQueue[o])
        BY DEF TypeOK, OnePlace, AsleepOnce
    <3> QED BY <1>2, <2>2, <3>1, RemoveQueue
  <2> HIDE DEF h
  <2>4. status[h] = "BLOCKED" /\ resume[h] = SleepsIn(o)
      BY <2>3 DEF OnePlace, AsleepOnce
  <2>5. /\ ReadyOnce(status, readyList, currentThread)'
        /\ \A u \in Thread : status'[u] = "BLOCKED" <=> status[u] = "BLOCKED" /\ u # h
        /\ currentThread' = currentThread
      BY <2>1, <2>3, <2>4, ReadyToRunKeeps DEF OnePlace
  <2>6. \A p \in Object : \A u \in Thread : 
           InQueue(u, waitQueue'[p]) <=> InQueue(u, waitQueue[p]) /\ u # h
      BY <2>2, <2>3 DEF OnePlace, AsleepOnce
  <2>7. AsleepOnce'
    <3> SUFFICES ASSUME NEW p \in Object
                 PROVE  /\ NoRepeats(waitQueue'[p])
                        /\ \A u \in Thread : InQueue(u, waitQueue'[p]) =>
                              /\ status'[u] = "BLOCKED"
                              /\ resume'[u] = SleepsIn(p)'
                              /\ \A r \in Object : InQueue(u, waitQueue'[r]) => r = p
        BY DEF AsleepOnce, Object
    <3>1. \A u : InQueue(u, waitQueue'[p]) => SleepsIn(p)' = SleepsIn(p)
        BY EmptyQueue
    <3> QED BY <2>2, <2>3, <2>5, <2>6, <3>1 DEF OnePlace, AsleepOnce
  <2>8. BlockedIsAsleep'
      BY <2>5, <2>6 DEF OnePlace, BlockedIsAsleep, Object
  <2> QED BY <2>4, <2>5, <2>7, <2>8 DEF OnePlace
<1> QED BY <1>1, <1>2

\* Nobody enters or leaves a wait queue; one thread's continuation changes
\* from one that is not asleep to another.
LEMMA StayInQueues ==
    ASSUME TypeOK, OnePlace, UNCHANGED <<waitQueue, waitingLock>>,
           ReadyOnce(status, readyList, currentThread)',
           \A u \in Thread : status'[u] = "BLOCKED" <=> status[u] = "BLOCKED",
           NEW t \in Thread, NEW k, status[t] # "BLOCKED",
           resume' = resume \/ resume' = [resume EXCEPT ![t] = k]
    PROVE  OnePlace'
<1>1. \A u \in Thread \ {t} : resume'[u] = resume[u]
    BY DEF TypeOK
<1>2. \A p \in Object : SleepsIn(p)' = SleepsIn(p)
    BY DEF SleepsIn
<1>3. AsleepOnce'
  <2> SUFFICES ASSUME NEW p \in Object
               PROVE  /\ NoRepeats(waitQueue'[p])
                      /\ \A u \in Thread : InQueue(u, waitQueue'[p]) =>
                            /\ status'[u] = "BLOCKED"
                            /\ resume'[u] = SleepsIn(p)'
                            /\ \A r \in Object : InQueue(u, waitQueue'[r]) => r = p
      BY DEF AsleepOnce, Object
  <2> QED BY <1>1, <1>2 DEF OnePlace, AsleepOnce
<1>4. BlockedIsAsleep'
    BY <1>1 DEF OnePlace, BlockedIsAsleep, Object
<1> QED BY <1>3, <1>4 DEF OnePlace

-----------------------------------------------------------------------------
(***************************************************************************)
(* The other conjuncts of the invariant, where a step does not touch them. *)
(***************************************************************************)

\* The locks are as before when their queues and their waiters are.
LEMMA LockStateKept ==
    ASSUME LockState, UNCHANGED <<state, owner, entered>>,
           \A l \in Lock : waitQueue'[l] = waitQueue[l],
           \A u \in Thread, l \in Lock :
              resume'[u] = InAcquire(l) <=> resume[u] = InAcquire(l)
    PROVE  LockState'
BY DEF LockState

\* Deletion reaches finished threads only, and they do not come back.
LEMMA FinishedKept ==
    ASSUME TypeOK, FinishedStays,
           \A u \in Thread : resume'[u] = Finished <=> resume[u] = Finished,
           \A u \in Thread : resume[u] = Finished => status'[u] = "BLOCKED",
           currentThread' = currentThread \/ status[currentThread'] = "READY",
           \/ UNCHANGED carcassVars
           \/ DestroyCarcass /\ status[currentThread] = "RUNNING"
    PROVE  FinishedStays'
<1>1. CASE UNCHANGED carcassVars
    BY <1>1 DEF FinishedStays, carcassVars, TypeOK
<1>2. CASE DestroyCarcass /\ status[currentThread] = "RUNNING"
    BY <1>2 DEF FinishedStays, DestroyCarcass, TypeOK
<1> QED BY <1>1, <1>2

\* The bindings are as before when the conditions' queues are.
LEMMA BindingKept ==
    ASSUME ConditionBinding, waitingLock' = waitingLock,
           \A c \in Condition : waitQueue'[c] = waitQueue[c]
    PROVE  ConditionBinding'
BY DEF ConditionBinding

\* The running thread is not asleep, and when it calls it is not in Acquire.
LEMMA Running ==
    ASSUME Inv, NEW t \in Thread
    PROVE  /\ Calls(t) => /\ t = currentThread /\ status[t] = "RUNNING"
                          /\ resume[t] = Nothing
           /\ Resumes(t) => t = currentThread /\ status[t] = "RUNNING"
BY DEF Calls, Resumes, InterruptsOn, Idling

\* Semaphore::P, called or resumed.
LEMMA DoPKeeps ==
    ASSUME Inv, NEW t \in Thread, NEW s \in Semaphore,
           t = currentThread, status[t] = "RUNNING",
           resume[t] \in {Nothing, InP(s)}, DoP(t, s),
           UNCHANGED <<looping, lockVars, waitingLock, entered>>,
           UNCHANGED carcassVars \/ DestroyCarcass
    PROVE  OnePlace' /\ LockState' /\ ConditionBinding' /\ FinishedStays'
<1>0. s \in Object /\ s \notin Lock /\ s \notin Condition
    BY ConstantsAssumption DEF Object
<1>1. CASE value[s] = 0
  <2>1. /\ waitQueue' = [waitQueue EXCEPT ![s] = Append(@, t)]
        /\ resume' = [resume EXCEPT ![t] = InP(s)]
        /\ Sleep(status, readyList)
      BY <1>1 DEF DoP
  <2>2. \A p \in Object : SleepsIn(p)' = SleepsIn(p)
      BY DEF SleepsIn
  <2>3. SleepsIn(s)' = InP(s)
      BY DEF SleepsIn
  <2>4. /\ OnePlace'
        /\ \A u \in Thread : status'[u] = "BLOCKED" <=> status[u] = "BLOCKED" \/ u = t
        /\ currentThread' = t \/ status[currentThread'] = "READY"
      BY <1>0, <2>1, <2>2, <2>3, JoinQueue DEF Inv
  <2>5. \A u \in Thread : resume'[u] = IF u = t THEN InP(s) ELSE resume[u]
      BY <2>1 DEF Inv, TypeOK
  <2>6. /\ \A l \in Lock : waitQueue'[l] = waitQueue[l]
        /\ \A c \in Condition : waitQueue'[c] = waitQueue[c]
      BY <1>0, <2>1 DEF Inv, TypeOK, Object
  <2>7. LockState'
      BY <2>5, <2>6, LockStateKept, ContinuationsDiffer DEF Inv, lockVars
  <2>8. ConditionBinding'
      BY <2>6, BindingKept DEF Inv
  <2>9. FinishedStays'
    <3>1. \A u \in Thread : resume'[u] = Finished <=> resume[u] = Finished
        BY <2>5, ContinuationsDiffer
    <3>2. \A u \in Thread : resume[u] = Finished => status'[u] = "BLOCKED"
        BY <2>4 DEF Inv, FinishedStays
    <3> QED BY <2>4, <3>1, <3>2, FinishedKept DEF Inv
  <2> QED BY <2>4, <2>7, <2>8, <2>9
<1>2. CASE value[s] # 0
  <2>1. /\ resume' = [resume EXCEPT ![t] = Nothing]
        /\ UNCHANGED <<status, readyList, currentThread, waitQueue>>
      BY <1>2 DEF DoP, schedVars
  <2>2. OnePlace'
    <3>1. ReadyOnce(status, readyList, currentThread)'
        BY <2>1 DEF Inv, OnePlace, ReadyOnce
    <3> QED BY <2>1, <3>1, StayInQueues DEF Inv
  <2>3. \A u \in Thread : resume'[u] = IF u = t THEN Nothing ELSE resume[u]
      BY <2>1 DEF Inv, TypeOK
  <2>4. LockState'
      BY <2>1, <2>3, LockStateKept, ContinuationsDiffer DEF Inv, lockVars
  <2>5. ConditionBinding'
      BY <2>1, BindingKept DEF Inv
  <2>6. FinishedStays'
    <3>1. \A u \in Thread : resume'[u] = Finished <=> resume[u] = Finished
        BY <2>3, ContinuationsDiffer
    <3>2. \A u \in Thread : resume[u] = Finished => status'[u] = "BLOCKED"
        BY <2>1 DEF Inv, FinishedStays
    <3> QED BY <2>1, <3>1, <3>2, FinishedKept DEF Inv
  <2> QED BY <2>2, <2>4, <2>5, <2>6
<1> QED BY <1>1, <1>2

\* Semaphore::V.
LEMMA DoVKeeps ==
    ASSUME Inv, NEW s \in Semaphore, DoV(s)
    PROVE  OnePlace' /\ LockState' /\ ConditionBinding' /\ FinishedStays'
<1>0. s \in Object /\ s \notin Lock /\ s \notin Condition
    BY ConstantsAssumption DEF Object
<1>1. /\ WakeFirst(s)
      /\ waitQueue' = [waitQueue EXCEPT ![s] = IF @ = <<>> THEN @ ELSE Tail(@)]
      /\ resume' = resume
      /\ UNCHANGED <<state, owner, waitingLock, entered>>
      /\ UNCHANGED carcassVars
    BY DEF DoV, lockVars
<1>2. \A p \in Object : SleepsIn(p)' = SleepsIn(p)
    BY <1>1 DEF SleepsIn
<1>3. /\ OnePlace'
      /\ \A u \in Thread : status[u] = "BLOCKED" /\ status'[u] # "BLOCKED"
                              => resume[u] = SleepsIn(s)
      /\ currentThread' = currentThread
    BY <1>0, <1>1, <1>2, LeaveQueue DEF Inv
<1>4. SleepsIn(s) = InP(s)
    BY DEF SleepsIn
<1>5. /\ \A l \in Lock : waitQueue'[l] = waitQueue[l]
      /\ \A c \in Condition : waitQueue'[c] = waitQueue[c]
    BY <1>0, <1>1 DEF Inv, TypeOK, Object
<1>6. LockState'
    BY <1>1, <1>5, LockStateKept DEF Inv
<1>7. ConditionBinding'
    BY <1>1, <1>5, BindingKept DEF Inv
<1>8. FinishedStays'
  <2>1. \A u \in Thread : resume[u] = Finished => status'[u] = "BLOCKED"
      BY <1>3, <1>4, ContinuationsDiffer DEF Inv, FinishedStays
  <2> QED BY <1>1, <1>3, <2>1, FinishedKept DEF Inv
<1> QED BY <1>3, <1>6, <1>7, <1>8

\* Lock::Acquire, called or at the end of Condition::Wait.
LEMMA DoAcquireKeeps ==
    ASSUME Inv, NEW t \in Thread, NEW l \in Lock,
           t = currentThread, status[t] = "RUNNING",
           resume[t] \in {Nothing, InWait(l)}, DoAcquire(t, l),
           waitingLock' = waitingLock,
           UNCHANGED carcassVars \/ DestroyCarcass
    PROVE  OnePlace' /\ LockState' /\ ConditionBinding' /\ FinishedStays'
<1>0. l \in Object /\ l \notin Semaphore /\ l \notin Condition
    BY ConstantsAssumption DEF Object
<1>1. CASE state[l] = "FREE"
  <2>1. /\ state' = [state EXCEPT ![l] = "BUSY"]
        /\ owner' = [owner EXCEPT ![l] = t]
        /\ entered' = [entered EXCEPT ![t] = @ \cup {l}]
        /\ resume' = [resume EXCEPT ![t] = Nothing]
        /\ UNCHANGED <<status, readyList, currentThread, waitQueue>>
      BY <1>1 DEF DoAcquire, schedVars
  <2>2. OnePlace'
    <3>1. ReadyOnce(status, readyList, currentThread)'
        BY <2>1 DEF Inv, OnePlace, ReadyOnce
    <3> QED BY <2>1, <3>1, StayInQueues DEF Inv
  <2>3. \A u \in Thread : resume'[u] = IF u = t THEN Nothing ELSE resume[u]
      BY <2>1 DEF Inv, TypeOK
  <2>4. LockState'
    <3> SUFFICES ASSUME NEW k \in Lock
                 PROVE  /\ state'[k] = "FREE" <=> owner'[k] = NULL
                        /\ state'[k] = "FREE" => waitQueue'[k] = <<>>
                        /\ \A u \in Thread : owner'[k] = u <=>
                              \/ k \in entered'[u]
                              \/ resume'[u] = InAcquire(k) /\ ~InQueue(u, waitQueue'[k])
        BY DEF LockState
    <3>1. /\ state[k] = "FREE" <=> owner[k] = NULL
          /\ state[k] = "FREE" => waitQueue[k] = <<>>
          /\ \A u \in Thread : owner[k] = u <=>
                \/ k \in entered[u]
                \/ resume[u] = InAcquire(k) /\ ~InQueue(u, waitQueue[k])
        BY DEF Inv, LockState
    <3>2. \A u \in Thread : resume'[u] = InAcquire(k) <=> resume[u] = InAcquire(k)
        BY <2>3, ContinuationsDiffer
    <3>3. CASE k = l
      <4>1. state'[k] = "BUSY" /\ owner'[k] = t
          BY <2>1, <3>3 DEF Inv, TypeOK
      <4>2. \A u \in Thread : k \in entered'[u] <=> k \in entered[u] \/ u = t
          BY <2>1, <3>3 DEF Inv, TypeOK
      <4>3. owner[k] \notin Thread
          BY <1>1, <3>1, <3>3, ConstantsAssumption
      <4> QED BY <2>1, <3>1, <3>2, <4>1, <4>2, <4>3, ConstantsAssumption
    <3>4. CASE k # l
      <4>1. state'[k] = state[k] /\ owner'[k] = owner[k]
          BY <2>1, <3>4 DEF Inv, TypeOK
      <4>2. \A u \in Thread : k \in entered'[u] <=> k \in entered[u]
          BY <2>1, <3>4 DEF Inv, TypeOK
      <4> QED BY <2>1, <3>1, <3>2, <4>1, <4>2
    <3> QED BY <3>3, <3>4
  <2>5. ConditionBinding'
      BY <2>1, BindingKept DEF Inv
  <2>6. FinishedStays'
    <3>1. \A u \in Thread : resume'[u] = Finished <=> resume[u] = Finished
        BY <2>3, ContinuationsDiffer
    <3>2. \A u \in Thread : resume[u] = Finished => status'[u] = "BLOCKED"
        BY <2>1 DEF Inv, FinishedStays
    <3> QED BY <2>1, <3>1, <3>2, FinishedKept DEF Inv
  <2> QED BY <2>2, <2>4, <2>5, <2>6
<1>2. CASE state[l] # "FREE"
  <2>1. /\ waitQueue' = [waitQueue EXCEPT ![l] = Append(@, t)]
        /\ resume' = [resume EXCEPT ![t] = InAcquire(l)]
        /\ Sleep(status, readyList)
        /\ UNCHANGED <<state, owner, entered>>
      BY <1>2 DEF DoAcquire, lockVars
  <2>2. \A p \in Object : SleepsIn(p)' = SleepsIn(p)
      BY DEF SleepsIn
  <2>3. SleepsIn(l)' = InAcquire(l)
      BY <1>0 DEF SleepsIn
  <2>4. /\ OnePlace'
        /\ \A u \in Thread : status'[u] = "BLOCKED" <=> status[u] = "BLOCKED" \/ u = t
        /\ currentThread' = t \/ status[currentThread'] = "READY"
      BY <1>0, <2>1, <2>2, <2>3, JoinQueue DEF Inv
  <2>5. \A u \in Thread : resume'[u] = IF u = t THEN InAcquire(l) ELSE resume[u]
      BY <2>1 DEF Inv, TypeOK
  <2>6. /\ \A k \in Object \ {l} : waitQueue'[k] = waitQueue[k]
        /\ waitQueue'[l] = Append(waitQueue[l], t)
        /\ \A u : InQueue(u, waitQueue'[l]) <=> InQueue(u, waitQueue[l]) \/ u = t
    <3>1. waitQueue[l] \in Seq(Thread)
        BY <1>0 DEF Inv, TypeOK
    <3>2. /\ \A k \in Object \ {l} : waitQueue'[k] = waitQueue[k]
          /\ waitQueue'[l] = Append(waitQueue[l], t)
        BY <1>0, <2>1 DEF Inv, TypeOK
    <3> QED BY <3>1, <3>2, AppendQueue
  <2>7. LockState'
    <3> SUFFICES ASSUME NEW k \in Lock
                 PROVE  /\ state'[k] = "FREE" <=> owner'[k] = NULL
                        /\ state'[k] = "FREE" => waitQueue'[k] = <<>>
                        /\ \A u \in Thread : owner'[k] = u <=>
                              \/ k \in entered'[u]
                              \/ resume'[u] = InAcquire(k) /\ ~InQueue(u, waitQueue'[k])
        BY DEF LockState
    <3>1. /\ state[k] = "FREE" <=> owner[k] = NULL
          /\ state[k] = "FREE" => waitQueue[k] = <<>>
          /\ \A u \in Thread : owner[k] = u <=>
                \/ k \in entered[u]
                \/ resume[u] = InAcquire(k) /\ ~InQueue(u, waitQueue[k])
        BY DEF Inv, LockState
    <3>2. \A u \in Thread \ {t} : resume'[u] = resume[u]
        BY <2>5
    <3>3. resume[t] # InAcquire(k) /\ (resume'[t] = InAcquire(k) => k = l)
        BY <2>5, ContinuationsDiffer
    <3>4. k \in Object
        BY DEF Object
    <3> QED BY <1>2, <2>1, <2>6, <3>1, <3>2, <3>3, <3>4
  <2>8. ConditionBinding'
      BY <1>0, <2>6, BindingKept DEF Inv, Object
  <2>9. FinishedStays'
    <3>1. \A u \in Thread : resume'[u] = Finished <=> resume[u] = Finished
        BY <2>5, ContinuationsDiffer
    <3>2. \A u \in Thread : resume[u] = Finished => status'[u] = "BLOCKED"
        BY <2>4 DEF Inv, FinishedStays
    <3> QED BY <2>4, <3>1, <3>2, FinishedKept DEF Inv
  <2> QED BY <2>4, <2>7, <2>8, <2>9
<1> QED BY <1>1, <1>2

(***************************************************************************)
(* What giving up lock l does to the locks, in Release and in Wait: the    *)
(* lock is free, or its first waiter owns it and has left the queue.       *)
(***************************************************************************)
LEMMA GiveUpLock ==
    ASSUME Inv, NEW t \in Thread, NEW l \in Lock, NEW k,
           t = currentThread, status[t] = "RUNNING", resume[t] = Nothing,
           isHeldBy(l, t),
           state' = [state EXCEPT ![l] = StateAfterRelease(l)],
           owner' = [owner EXCEPT ![l] = OwnerAfterRelease(l)],
           entered' = [entered EXCEPT ![t] = @ \ {l}],
           waitQueue'[l] = IF waitQueue[l] = <<>> THEN <<>> ELSE Tail(waitQueue[l]),
           \A m \in Lock \ {l} : waitQueue'[m] = waitQueue[m],
           \A u \in Thread \ {t} : resume'[u] = resume[u],
           \A m \in Lock : resume'[t] # InAcquire(m)
    PROVE  LockState'
<1>0. l \in Object /\ l \notin Semaphore /\ l \notin Condition
    BY ConstantsAssumption DEF Object
<1> SUFFICES ASSUME NEW m \in Lock
             PROVE  /\ state'[m] = "FREE" <=> owner'[m] = NULL
                    /\ state'[m] = "FREE" => waitQueue'[m] = <<>>
                    /\ \A u \in Thread : owner'[m] = u <=>
                          \/ m \in entered'[u]
                          \/ resume'[u] = InAcquire(m) /\ ~InQueue(u, waitQueue'[m])
    BY DEF LockState
<1>1. /\ state[m] = "FREE" <=> owner[m] = NULL
      /\ state[m] = "FREE" => waitQueue[m] = <<>>
      /\ \A u \in Thread : owner[m] = u <=>
            \/ m \in entered[u]
            \/ resume[u] = InAcquire(m) /\ ~InQueue(u, waitQueue[m])
    BY DEF Inv, LockState
<1>2. resume[t] # InAcquire(m)
    BY ContinuationsDiffer
<1>3. \A u \in Thread : m \in entered'[u] <=> m \in entered[u] /\ ~(u = t /\ m = l)
    BY DEF Inv, TypeOK
<1>4. CASE m # l
  <2>1. state'[m] = state[m] /\ owner'[m] = owner[m] /\ waitQueue'[m] = waitQueue[m]
      BY <1>4 DEF Inv, TypeOK
  <2> QED BY <1>1, <1>2, <1>3, <1>4, <2>1
<1>5. CASE m = l /\ waitQueue[l] = <<>>
  <2>1. state'[m] = "FREE" /\ owner'[m] = NULL /\ waitQueue'[m] = <<>>
      BY <1>5 DEF Inv, TypeOK, StateAfterRelease, OwnerAfterRelease
  <2>2. \A u \in Thread : u # t => owner[m] # u
      BY <1>5 DEF isHeldBy
  <2> QED BY <1>1, <1>2, <1>3, <1>5, <2>1, <2>2, ConstantsAssumption
<1>6. CASE m = l /\ waitQueue[l] # <<>>
  <2> DEFINE h == Head(waitQueue[l])
  <2>1. /\ h \in Thread
        /\ InQueue(h, waitQueue[l])
        /\ \A u : InQueue(u, Tail(waitQueue[l])) <=> InQueue(u, waitQueue[l]) /\ u # h
    <3>1. waitQueue[l] \in Seq(Thread) /\ NoRepeats(waitQueue[l])
        BY <1>0 DEF Inv, TypeOK, OnePlace, AsleepOnce
    <3> QED BY <1>6, <3>1, RemoveQueue
  <2>2. state'[m] = state[l] /\ owner'[m] = h /\ waitQueue'[m] = Tail(waitQueue[l])
      BY <1>6 DEF Inv, TypeOK, StateAfterRelease, OwnerAfterRelease
  <2> HIDE DEF h
  <2>3. SleepsIn(l) = InAcquire(l)
      BY <1>0 DEF SleepsIn
  <2>4. resume[h] = InAcquire(m) /\ status[h] = "BLOCKED" /\ h # t
      BY <1>0, <1>6, <2>1, <2>3 DEF Inv, OnePlace, AsleepOnce
  <2>5. \A u \in Thread : u # t => owner[m] # u
      BY <1>6 DEF isHeldBy
  <2>6. h # NULL /\ state[l] # "FREE"
      BY <1>1, <1>6, <2>1, ConstantsAssumption
  <2> QED BY <1>1, <1>2, <1>3, <1>6, <2>1, <2>2, <2>4, <2>5, <2>6
<1> QED BY <1>4, <1>5, <1>6

\* Lock::Release.
LEMMA ReleaseKeeps ==
    ASSUME Inv, NEW t \in Thread, NEW l \in Lock, Release(t, l)
    PROVE  OnePlace' /\ LockState' /\ ConditionBinding' /\ FinishedStays'
<1>0. l \in Object /\ l \notin Semaphore /\ l \notin Condition
    BY ConstantsAssumption DEF Object
<1>1. /\ isHeldBy(l, t)
      /\ state' = [state EXCEPT ![l] = StateAfterRelease(l)]
      /\ owner' = [owner EXCEPT ![l] = OwnerAfterRelease(l)]
      /\ waitQueue' = [waitQueue EXCEPT ![l] = IF @ = <<>> THEN @ ELSE Tail(@)]
      /\ WakeFirst(l)
      /\ entered' = [entered EXCEPT ![t] = @ \ {l}]
      /\ resume' = resume
      /\ waitingLock' = waitingLock
      /\ UNCHANGED carcassVars
    BY DEF Release
<1>2. t = currentThread /\ status[t] = "RUNNING" /\ resume[t] = Nothing
    BY Running DEF Release
<1>3. \A p \in Object : SleepsIn(p)' = SleepsIn(p)
    BY <1>1 DEF SleepsIn
<1>4. /\ OnePlace'
      /\ \A u \in Thread : status[u] = "BLOCKED" /\ status'[u] # "BLOCKED"
                              => resume[u] = SleepsIn(l)
      /\ currentThread' = currentThread
    BY <1>0, <1>1, <1>3, LeaveQueue DEF Inv
<1>5. SleepsIn(l) = InAcquire(l)
    BY <1>0 DEF SleepsIn
<1>6. /\ \A m \in Object \ {l} : waitQueue'[m] = waitQueue[m]
      /\ waitQueue'[l] = IF waitQueue[l] = <<>> THEN <<>> ELSE Tail(waitQueue[l])
    BY <1>0, <1>1 DEF Inv, TypeOK
<1>7. LockState'
  <2>1. \A m \in Lock \ {l} : waitQueue'[m] = waitQueue[m]
      BY <1>6 DEF Object
  <2>2. \A m \in Lock : resume'[t] # InAcquire(m)
      BY <1>1, <1>2, ContinuationsDiffer
  <2> QED BY <1>1, <1>2, <1>6, <2>1, <2>2, GiveUpLock
<1>8. ConditionBinding'
    BY <1>0, <1>1, <1>6, BindingKept DEF Inv, Object
<1>9. FinishedStays'
  <2>1. \A u \in Thread : resume[u] = Finished => status'[u] = "BLOCKED"
      BY <1>4, <1>5, ContinuationsDiffer DEF Inv, FinishedStays
  <2> QED BY <1>1, <1>4, <2>1, FinishedKept DEF Inv
<1> QED BY <1>4, <1>7, <1>8, <1>9

\* Condition::Signal.
LEMMA DoSignalKeeps ==
    ASSUME Inv, NEW c \in Condition, NEW l \in Lock, DoSignal(c, l)
    PROVE  OnePlace' /\ LockState' /\ ConditionBinding' /\ FinishedStays'
<1>0. c \in Object /\ c \notin Lock /\ c \notin Semaphore
    BY ConstantsAssumption DEF Object
<1>1. /\ waitQueue[c] # <<>>
      /\ waitingLock[c] = l
      /\ WakeFirst(c)
      /\ waitQueue' = [waitQueue EXCEPT ![c] = Tail(@)]
      /\ waitingLock' = [waitingLock EXCEPT ![c] = LockAfterSignal(c)]
      /\ resume' = resume
      /\ UNCHANGED <<state, owner, entered>>
      /\ UNCHANGED carcassVars
    BY DEF DoSignal, lockVars
<1>2. /\ waitQueue' = [waitQueue EXCEPT ![c] = IF @ = <<>> THEN @ ELSE Tail(@)]
      /\ waitQueue'[c] = Tail(waitQueue[c])
      /\ \A p \in Object \ {c} : waitQueue'[p] = waitQueue[p]
    BY <1>0, <1>1 DEF Inv, TypeOK
<1>3. /\ waitingLock'[c] = IF Tail(waitQueue[c]) = <<>> THEN NULL ELSE l
      /\ \A d \in Condition \ {c} : waitingLock'[d] = waitingLock[d]
    BY <1>1 DEF Inv, TypeOK, LockAfterSignal
<1>4. \A p \in Object : waitQueue'[p] = <<>> \/ SleepsIn(p)' = SleepsIn(p)
  <2>1. \A p \in Object \ {c} : SleepsIn(p)' = SleepsIn(p)
      BY <1>3 DEF SleepsIn, Object
  <2>2. waitQueue'[c] = <<>> \/ waitingLock'[c] = waitingLock[c]
      BY <1>1, <1>2, <1>3
  <2>3. waitQueue'[c] = <<>> \/ SleepsIn(c)' = SleepsIn(c)
      BY <2>2 DEF SleepsIn
  <2> QED BY <2>1, <2>3
<1>5. /\ OnePlace'
      /\ \A u \in Thread : status[u] = "BLOCKED" /\ status'[u] # "BLOCKED"
                              => resume[u] = SleepsIn(c)
      /\ currentThread' = currentThread
    BY <1>0, <1>1, <1>2, <1>4, LeaveQueue DEF Inv
<1>6. SleepsIn(c) = InWait(l)
    BY <1>0, <1>1 DEF SleepsIn
<1>7. LockState'
  <2>1. \A m \in Lock : waitQueue'[m] = waitQueue[m]
      BY <1>0, <1>2 DEF Object
  <2> QED BY <1>1, <2>1, LockStateKept DEF Inv
<1>8. ConditionBinding'
  <2> SUFFICES ASSUME NEW d \in Condition
               PROVE  waitingLock'[d] = NULL <=> waitQueue'[d] = <<>>
      BY DEF ConditionBinding
  <2>1. d \in Object
      BY DEF Object
  <2> QED BY <1>2, <1>3, <2>1, ConstantsAssumption DEF Inv, ConditionBinding
<1>9. FinishedStays'
  <2>1. \A u \in Thread : resume[u] = Finished => status'[u] = "BLOCKED"
      BY <1>5, <1>6, ContinuationsDiffer DEF Inv, FinishedStays
  <2> QED BY <1>1, <1>5, <2>1, FinishedKept DEF Inv
<1> QED BY <1>5, <1>7, <1>8, <1>9

\* Condition::Wait: the lock is given up and the caller asleep in one step.
LEMMA WaitKeeps ==
    ASSUME Inv, NEW t \in Thread, NEW c \in Condition, NEW l \in Lock,
           Wait(t, c, l)
    PROVE  OnePlace' /\ LockState' /\ ConditionBinding' /\ FinishedStays'
<1>0. /\ c \in Object /\ c \notin Lock /\ c \notin Semaphore
      /\ l \in Object /\ l \notin Semaphore /\ l \notin Condition /\ l # c
    BY ConstantsAssumption DEF Object
<1>1. /\ waitingLock[c] \in {NULL, l}
      /\ waitingLock' = [waitingLock EXCEPT ![c] = l]
      /\ resume' = [resume EXCEPT ![t] = InWait(l)]
      /\ entered' = [entered EXCEPT ![t] = @ \ {l}]
      /\ UNCHANGED carcassVars
    BY DEF Wait
<1>2. t = currentThread /\ status[t] = "RUNNING" /\ resume[t] = Nothing
    BY Running DEF Wait
<1>3. \A u \in Thread : resume'[u] = IF u = t THEN InWait(l) ELSE resume[u]
    BY <1>1 DEF Inv, TypeOK
<1>4. /\ waitingLock'[c] = l
      /\ \A d \in Condition \ {c} : waitingLock'[d] = waitingLock[d]
    BY <1>1 DEF Inv, TypeOK
<1>5. SleepsIn(c)' = InWait(l)
    BY <1>0, <1>4 DEF SleepsIn
<1>6. \A p \in Object : waitQueue[p] = <<>> \/ SleepsIn(p)' = SleepsIn(p)
  <2>1. \A p \in Object \ {c} : SleepsIn(p)' = SleepsIn(p)
      BY <1>4 DEF SleepsIn, Object
  <2>2. waitQueue[c] = <<>> \/ waitingLock'[c] = waitingLock[c]
      BY <1>1, <1>4 DEF Inv, ConditionBinding
  <2>3. waitQueue[c] = <<>> \/ SleepsIn(c)' = SleepsIn(c)
      BY <2>2 DEF SleepsIn
  <2> QED BY <2>1, <2>3
<1>7. /\ \A u \in Thread : resume'[u] = Finished <=> resume[u] = Finished
      /\ \A m \in Lock : resume'[t] # InAcquire(m)
      /\ \A u \in Thread, m \in Lock :
            resume'[u] = InAcquire(m) <=> resume[u] = InAcquire(m)
    BY <1>2, <1>3, ContinuationsDiffer
<1>8. CASE ~(isHeldBy(l, t) /\ waitQueue[l] # <<>>)
  <2>1. /\ waitQueue' = [waitQueue EXCEPT ![c] = Append(@, t)]
        /\ Sleep(status, readyList)
      BY <1>8 DEF Wait
  <2>2. /\ OnePlace'
        /\ \A u \in Thread : status'[u] = "BLOCKED" <=> status[u] = "BLOCKED" \/ u = t
        /\ currentThread' = t \/ status[currentThread'] = "READY"
      BY <1>0, <1>1, <1>2, <1>5, <1>6, <2>1, JoinQueue DEF Inv
  <2>3. /\ \A p \in Object \ {c} : waitQueue'[p] = waitQueue[p]
        /\ waitQueue'[c] = Append(waitQueue[c], t)
      BY <1>0, <2>1 DEF Inv, TypeOK
  <2>4. \A m \in Lock : waitQueue'[m] = waitQueue[m]
      BY <1>0, <2>3 DEF Object
  <2>5. LockState'
    <3>1. CASE isHeldBy(l, t)
      <4>1. /\ state' = [state EXCEPT ![l] = StateAfterRelease(l)]
            /\ owner' = [owner EXCEPT ![l] = OwnerAfterRelease(l)]
          BY <3>1 DEF Wait
      <4>2. waitQueue'[l] = IF waitQueue[l] = <<>> THEN <<>> ELSE Tail(waitQueue[l])
          BY <1>8, <2>4, <3>1
      <4>3. \A u \in Thread \ {t} : resume'[u] = resume[u]
          BY <1>3
      <4> QED BY <1>1, <1>2, <1>7, <2>4, <3>1, <4>1, <4>2, <4>3, GiveUpLock
    <3>2. CASE ~isHeldBy(l, t)
      <4>1. UNCHANGED <<state, owner>>
          BY <3>2 DEF Wait, lockVars
      <4>2. l \notin entered[t]
          BY <1>2, <3>2, ContinuationsDiffer DEF Inv, LockState, isHeldBy
      <4>3. entered' = entered
          BY <1>1, <4>2 DEF Inv, TypeOK
      <4> QED BY <1>7, <2>4, <4>1, <4>3, LockStateKept DEF Inv
    <3> QED BY <3>1, <3>2
  <2>6. ConditionBinding'
    <3> SUFFICES ASSUME NEW d \in Condition
                 PROVE  waitingLock'[d] = NULL <=> waitQueue'[d] = <<>>
        BY DEF ConditionBinding
    <3>1. Append(waitQueue[c], t) # <<>>
        BY <1>0, AppendQueue DEF Inv, TypeOK
    <3>2. d \in Object
        BY DEF Object
    <3> QED BY <1>4, <2>3, <3>1, <3>2, ConstantsAssumption DEF Inv, ConditionBinding
  <2>7. FinishedStays'
    <3>1. \A u \in Thread : resume[u] = Finished => status'[u] = "BLOCKED"
        BY <2>2 DEF Inv, FinishedStays
    <3> QED BY <1>1, <1>2, <1>7, <2>2, <3>1, FinishedKept DEF Inv
  <2> QED BY <2>2, <2>5, <2>6, <2>7
<1>9. CASE isHeldBy(l, t) /\ waitQueue[l] # <<>>
  <2> DEFINE h == Head(waitQueue[l])
             st == [status EXCEPT ![h] = "READY"]
             rl == Append(readyList, h)
  <2>1. /\ waitQueue' = [waitQueue EXCEPT ![c] = Append(@, t), ![l] = Tail(@)]
        /\ Sleep(st, rl)
        /\ state' = [state EXCEPT ![l] = StateAfterRelease(l)]
        /\ owner' = [owner EXCEPT ![l] = OwnerAfterRelease(l)]
      BY <1>9 DEF Wait
  <2>2. /\ waitQueue'[l] = Tail(waitQueue[l])
        /\ waitQueue'[c] = Append(waitQueue[c], t)
        /\ \A p \in Object \ {c, l} : waitQueue'[p] = waitQueue[p]
      BY <1>0, <2>1 DEF Inv, TypeOK
  <2>3. /\ waitQueue[l] \in Seq(Thread) /\ NoRepeats(waitQueue[l])
        /\ waitQueue[c] \in Seq(Thread) /\ NoRepeats(waitQueue[c])
      BY <1>0 DEF Inv, TypeOK, OnePlace, AsleepOnce
  <2>4. /\ h \in Thread
        /\ InQueue(h, waitQueue[l])
        /\ NoRepeats(waitQueue'[l])
        /\ \A u : InQueue(u, waitQueue'[l]) <=> InQueue(u, waitQueue[l]) /\ u # h
      BY <1>9, <2>2, <2>3, RemoveQueue
  <2>5. SleepsIn(l) = InAcquire(l)
      BY <1>0 DEF SleepsIn
  <2>6. /\ status[h] = "BLOCKED" /\ resume[h] = InAcquire(l) /\ h # t
        /\ \A p \in Object : InQueue(h, waitQueue[p]) => p = l
        /\ \A p \in Object : ~InQueue(t, waitQueue[p])
      BY <1>0, <1>2, <2>4, <2>5 DEF Inv, OnePlace, AsleepOnce
  <2>7. /\ ReadyOnce(st, rl, currentThread)
        /\ st \in [Thread -> ThreadStatus]
        /\ rl \in Seq(Thread)
      BY <2>4, <2>6, ReadyAppend DEF Inv, OnePlace
  <2>8. \A u \in Thread : st[u] = IF u = h THEN "READY" ELSE status[u]
      BY <2>4 DEF Inv, TypeOK
  <2>9. /\ InQueue(t, waitQueue'[c])
        /\ NoRepeats(waitQueue'[c])
        /\ \A u : InQueue(u, waitQueue'[c]) <=> InQueue(u, waitQueue[c]) \/ u = t
      BY <1>0, <2>2, <2>3, <2>6, AppendQueue
  <2> HIDE DEF h, st, rl
  <2>10. /\ ReadyOnce(status, readyList, currentThread)'
         /\ \A u \in Thread : status'[u] = "BLOCKED" <=> st[u] = "BLOCKED" \/ u = t
         /\ currentThread' = t \/ st[currentThread'] = "READY"
      BY <1>2, <2>1, <2>6, <2>7, <2>8, SleepKeeps DEF Inv
  <2>11. \A u \in Thread : \A p \in Object :
            InQueue(u, waitQueue'[p]) <=>
               (InQueue(u, waitQueue[p]) /\ u # h) \/ (u = t /\ p = c)
    <3> SUFFICES ASSUME NEW u \in Thread, NEW p \in Object
                 PROVE  InQueue(u, waitQueue'[p]) <=>
                           (InQueue(u, waitQueue[p]) /\ u # h) \/ (u = t /\ p = c)
        OBVIOUS
    <3>1. CASE p = l
        BY <1>0, <2>4, <2>6, <3>1
    <3>2. CASE p = c
        BY <1>0, <2>6, <2>9, <3>2
    <3>3. CASE p # l /\ p # c
        BY <2>2, <2>6, <3>3
    <3> QED BY <3>1, <3>2, <3>3
  <2>12. AsleepOnce'
    <3> SUFFICES ASSUME NEW p \in Object
                 PROVE  /\ NoRepeats(waitQueue'[p])
                        /\ \A u \in Thread : InQueue(u, waitQueue'[p]) =>
                              /\ status'[u] = "BLOCKED"
                              /\ resume'[u] = SleepsIn(p)'
                              /\ \A r \in Object : InQueue(u, waitQueue'[r]) => r = p
        BY DEF AsleepOnce, Object
    <3>1. /\ NoRepeats(waitQueue[p])
          /\ \A u \in Thread : InQueue(u, waitQueue[p]) =>
                /\ status[u] = "BLOCKED"
                /\ resume[u] = SleepsIn(p)
                /\ \A r \in Object : InQueue(u, waitQueue[r]) => r = p
        BY DEF Inv, OnePlace, AsleepOnce
    <3>2. NoRepeats(waitQueue'[p])
        BY <2>2, <2>4, <2>9, <3>1
    <3>3. \A u \in Thread : InQueue(u, waitQueue[p]) => SleepsIn(p)' = SleepsIn(p)
        BY <1>6, EmptyQueue
    <3>4. ASSUME NEW u \in Thread, InQueue(u, waitQueue'[p])
          PROVE  /\ status'[u] = "BLOCKED"
                 /\ resume'[u] = SleepsIn(p)'
        BY <1>3, <1>5, <2>6, <2>8, <2>10, <2>11, <3>1, <3>3, <3>4
    <3>5. ASSUME NEW u \in Thread, InQueue(u, waitQueue'[p]),
                 NEW r \in Object, InQueue(u, waitQueue'[r])
          PROVE  r = p
        BY <2>6, <2>11, <3>1, <3>5
    <3> QED BY <3>2, <3>4, <3>5
  <2>13. BlockedIsAsleep'
    <3> SUFFICES ASSUME NEW u \in Thread, status'[u] = "BLOCKED"
                 PROVE  \/ resume'[u] = Finished
                        \/ \E p \in Object : InQueue(u, waitQueue'[p])
        BY DEF BlockedIsAsleep, Object
    <3>1. CASE u = t
        BY <1>0, <2>9, <3>1
    <3>2. CASE u # t
      <4>1. status[u] = "BLOCKED" /\ u # h
          BY <2>8, <2>10, <3>2
      <4>2. resume[u] = Finished \/ \E p \in Object : InQueue(u, waitQueue[p])
          BY <4>1 DEF Inv, OnePlace, BlockedIsAsleep
      <4>3. CASE resume[u] = Finished
          BY <1>3, <3>2, <4>3
      <4>4. CASE \E p \in Object : InQueue(u, waitQueue[p])
          BY <2>11, <4>1, <4>4
      <4> QED BY <4>2, <4>3, <4>4
    <3> QED BY <3>1, <3>2
  <2>14. LockState'
    <3>1. waitQueue'[l] = IF waitQueue[l] = <<>> THEN <<>> ELSE Tail(waitQueue[l])
        BY <1>9, <2>2
    <3>2. \A m \in Lock \ {l} : waitQueue'[m] = waitQueue[m]
        BY <1>0, <2>2 DEF Object
    <3>3. \A u \in Thread \ {t} : resume'[u] = resume[u]
        BY <1>3
    <3> QED BY <1>1, <1>2, <1>7, <1>9, <2>1, <3>1, <3>2, <3>3, GiveUpLock
  <2>15. ConditionBinding'
    <3> SUFFICES ASSUME NEW d \in Condition
                 PROVE  waitingLock'[d] = NULL <=> waitQueue'[d] = <<>>
        BY DEF ConditionBinding
    <3>1. waitQueue'[c] # <<>>
        BY <2>9, EmptyQueue
    <3>2. d \in Object /\ d # l
        BY <1>0 DEF Object
    <3> QED BY <1>4, <2>2, <3>1, <3>2, ConstantsAssumption DEF Inv, ConditionBinding
  <2>16. FinishedStays'
    <3>1. \A u \in Thread : resume[u] = Finished => status'[u] = "BLOCKED"
        BY <2>6, <2>8, <2>10, ContinuationsDiffer DEF Inv, FinishedStays
    <3>2. currentThread' = t \/ ~(\E u \in Thread : u = currentThread' /\ resume[u] = Finished)
        BY <2>6, <2>8, <2>10, ContinuationsDiffer DEF Inv, FinishedStays
    <3> QED BY <1>1, <1>2, <1>7, <3>1, <3>2
            DEF Inv, FinishedStays, carcassVars, TypeOK
  <2> QED BY <2>10, <2>12, <2>13, <2>14, <2>15, <2>16 DEF OnePlace
<1> QED BY <1>8, <1>9

-----------------------------------------------------------------------------
(***************************************************************************)
(* A step that touches no wait queue, lock or condition, and moves only    *)
(* threads that are not blocked.                                           *)
(***************************************************************************)
LEMMA NeutralKeeps ==
    ASSUME Inv, NEW t \in Thread, NEW k \in {Nothing, Yielded},
           resume[t] \in {Nothing, Start, Yielded}, status[t] # "BLOCKED",
           resume' = resume \/ resume' = [resume EXCEPT ![t] = k],
           UNCHANGED <<state, owner, waitingLock, waitQueue, entered>>,
           ReadyOnce(status, readyList, currentThread)',
           \A u \in Thread : status'[u] = "BLOCKED" <=> status[u] = "BLOCKED",
           currentThread' = currentThread \/ status[currentThread'] = "READY",
           \/ UNCHANGED carcassVars
           \/ DestroyCarcass /\ status[currentThread] = "RUNNING"
    PROVE  OnePlace' /\ LockState' /\ ConditionBinding' /\ FinishedStays'
<1>1. \A u \in Thread : resume'[u] = resume[u] \/ (u = t /\ resume'[u] = k)
    BY DEF Inv, TypeOK
<1>2. OnePlace'
    BY StayInQueues DEF Inv
<1>3. LockState'
    BY <1>1, LockStateKept, ContinuationsDiffer DEF Inv
<1>4. ConditionBinding'
    BY BindingKept DEF Inv
<1>5. FinishedStays'
  <2>1. \A u \in Thread : resume'[u] = Finished <=> resume[u] = Finished
      BY <1>1, ContinuationsDiffer
  <2>2. \A u \in Thread : resume[u] = Finished => status'[u] = "BLOCKED"
      BY DEF Inv, FinishedStays
  <2> QED BY <2>1, <2>2, FinishedKept DEF Inv
<1> QED BY <1>2, <1>3, <1>4, <1>5

\* Thread::Finish: the running thread blocks for ever and is to be destroyed.
LEMMA FinishKeeps ==
    ASSUME Inv, NEW t \in Thread, Finish(t)
    PROVE  OnePlace' /\ LockState' /\ ConditionBinding' /\ FinishedStays'
<1>1. /\ threadToBeDestroyed' = t
      /\ resume' = [resume EXCEPT ![t] = Finished]
      /\ Sleep(status, readyList)
      /\ UNCHANGED <<deleted, state, owner, waitingLock, waitQueue, entered>>
    BY DEF Finish, lockVars
<1>2. t = currentThread /\ status[t] = "RUNNING" /\ resume[t] = Nothing
    BY Running DEF Finish
<1>3. /\ ReadyOnce(status, readyList, currentThread)'
      /\ \A u \in Thread : status'[u] = "BLOCKED" <=> status[u] = "BLOCKED" \/ u = t
      /\ currentThread' = currentThread \/ status[currentThread'] = "READY"
    BY <1>1, <1>2, SleepKeeps DEF Inv, OnePlace, TypeOK
<1>4. \A u \in Thread : resume'[u] = IF u = t THEN Finished ELSE resume[u]
    BY <1>1 DEF Inv, TypeOK
<1>5. \A p \in Object : SleepsIn(p)' = SleepsIn(p)
    BY <1>1 DEF SleepsIn
<1>6. AsleepOnce'
  <2> SUFFICES ASSUME NEW p \in Object
               PROVE  /\ NoRepeats(waitQueue'[p])
                      /\ \A u \in Thread : InQueue(u, waitQueue'[p]) =>
                            /\ status'[u] = "BLOCKED"
                            /\ resume'[u] = SleepsIn(p)'
                            /\ \A r \in Object : InQueue(u, waitQueue'[r]) => r = p
      BY DEF AsleepOnce, Object
  <2> QED BY <1>1, <1>2, <1>3, <1>4, <1>5 DEF Inv, OnePlace, AsleepOnce
<1>7. BlockedIsAsleep'
    BY <1>1, <1>3, <1>4 DEF Inv, OnePlace, BlockedIsAsleep, Object
<1>8. LockState'
    BY <1>1, <1>2, <1>4, LockStateKept, ContinuationsDiffer DEF Inv
<1>9. ConditionBinding'
    BY <1>1, BindingKept DEF Inv
<1>10. FinishedStays'
    BY <1>1, <1>2, <1>3, <1>4, ContinuationsDiffer DEF Inv, FinishedStays, TypeOK
<1> QED BY <1>3, <1>6, <1>7, <1>8, <1>9, <1>10 DEF OnePlace

\* Acquire returns to the thread that the lock was handed to.
LEMMA ResumeAcquireKeeps ==
    ASSUME Inv, NEW t \in Thread, NEW l \in Lock, ResumeAcquire(t, l)
    PROVE  OnePlace' /\ LockState' /\ ConditionBinding' /\ FinishedStays'
<1>1. /\ resume[t] = InAcquire(l)
      /\ DestroyCarcass
      /\ resume' = [resume EXCEPT ![t] = Nothing]
      /\ entered' = [entered EXCEPT ![t] = @ \cup {l}]
      /\ UNCHANGED <<status, readyList, currentThread, state, owner, waitingLock,
                     waitQueue>>
    BY DEF ResumeAcquire, schedVars, lockVars
<1>2. t = currentThread /\ status[t] = "RUNNING"
    BY Running DEF ResumeAcquire
<1>3. OnePlace'
  <2>1. ReadyOnce(status, readyList, currentThread)'
      BY <1>1 DEF Inv, OnePlace, ReadyOnce
  <2> QED BY <1>1, <1>2, <2>1, StayInQueues DEF Inv
<1>4. \A u \in Thread : resume'[u] = IF u = t THEN Nothing ELSE resume[u]
    BY <1>1 DEF Inv, TypeOK
<1>5. \A p \in Object : ~InQueue(t, waitQueue[p])
    BY <1>2 DEF Inv, OnePlace, AsleepOnce
<1>6. LockState'
  <2> SUFFICES ASSUME NEW m \in Lock
               PROVE  /\ state'[m] = "FREE" <=> owner'[m] = NULL
                      /\ state'[m] = "FREE" => waitQueue'[m] = <<>>
                      /\ \A u \in Thread : owner'[m] = u <=>
                            \/ m \in entered'[u]
                            \/ resume'[u] = InAcquire(m) /\ ~InQueue(u, waitQueue'[m])
      BY DEF LockState
  <2>1. /\ state[m] = "FREE" <=> owner[m] = NULL
        /\ state[m] = "FREE" => waitQueue[m] = <<>>
        /\ \A u \in Thread : owner[m] = u <=>
              \/ m \in entered[u]
              \/ resume[u] = InAcquire(m) /\ ~InQueue(u, waitQueue[m])
      BY DEF Inv, LockState
  <2>2. \A u \in Thread : m \in entered'[u] <=> m \in entered[u] \/ (u = t /\ m = l)
      BY <1>1 DEF Inv, TypeOK
  <2>3. resume'[t] # InAcquire(m) /\ (resume[t] = InAcquire(m) <=> m = l)
      BY <1>1, <1>4, ContinuationsDiffer
  <2>4. m \in Object
      BY DEF Object
  <2> QED BY <1>1, <1>4, <1>5, <2>1, <2>2, <2>3, <2>4
<1>7. ConditionBinding'
    BY <1>1, BindingKept DEF Inv
<1>8. FinishedStays'
  <2>1. \A u \in Thread : resume'[u] = Finished <=> resume[u] = Finished
      BY <1>1, <1>4, ContinuationsDiffer
  <2>2. \A u \in Thread : resume[u] = Finished => status'[u] = "BLOCKED"
      BY <1>1 DEF Inv, FinishedStays
  <2> QED BY <1>1, <1>2, <2>1, <2>2, FinishedKept DEF Inv
<1> QED BY <1>3, <1>6, <1>7, <1>8

\* Initially all but the main thread are yet to be forked.
LEMMA InvInit == Init => Inv
<1> SUFFICES ASSUME Init PROVE Inv
    OBVIOUS
<1>1. TypeOK
    BY TypeInit
<1>2. /\ \A t \in Thread : resume[t] \in {Nothing, Start}
      /\ \A t \in Thread : status[t] \in {"RUNNING", "JUST_CREATED"}
      /\ \A t \in Thread : status[t] = "RUNNING" => t = Main
      /\ \A t \in Thread : entered[t] = {}
      /\ \A o \in Object : waitQueue[o] = <<>>
      /\ \A l \in Lock : state[l] = "FREE" /\ owner[l] = NULL
      /\ \A c \in Condition : waitingLock[c] = NULL
      /\ readyList = <<>> /\ currentThread = Main
      /\ threadToBeDestroyed = NULL /\ deleted = {}
    BY DEF Init
<1>3. OnePlace
    BY <1>2, EmptyQueue DEF OnePlace, ReadyOnce, AsleepOnce, BlockedIsAsleep
<1>4. LockState
  <2>1. \A t \in Thread, l \in Lock : owner[l] # t /\ resume[t] # InAcquire(l)
      BY <1>2, ContinuationsDiffer, ConstantsAssumption
  <2> QED BY <1>2, <2>1 DEF LockState, Object
<1>5. ConditionBinding
    BY <1>2 DEF ConditionBinding, Object
<1>6. FinishedStays
    BY <1>2, ContinuationsDiffer DEF FinishedStays
<1> QED BY <1>1, <1>3, <1>4, <1>5, <1>6 DEF Inv

\* Every step keeps the invariant.
LEMMA InvStep ==
    ASSUME Inv, [Next]_vars
    PROVE  Inv'
<1> DEFINE Goal == OnePlace' /\ LockState' /\ ConditionBinding' /\ FinishedStays'
<1>0. TypeOK'
    BY TypeStep DEF Inv
<1>1. ASSUME NEW t \in Thread, NEW child \in Thread, Fork(t, child)
      PROVE  Goal
  <2>1. /\ Calls(t) /\ status[child] = "JUST_CREATED" /\ ReadyToRun(child)
        /\ UNCHANGED carcassVars
        /\ UNCHANGED <<resume, state, owner, waitingLock, waitQueue, entered>>
      BY <1>1 DEF Fork, lockVars
  <2>2. /\ ReadyOnce(status, readyList, currentThread)'
        /\ \A u \in Thread : status'[u] = "BLOCKED" <=> status[u] = "BLOCKED"
        /\ currentThread' = currentThread
      BY <2>1, ReadyToRunKeeps DEF Inv, OnePlace
  <2>3. status[t] = "RUNNING" /\ resume[t] = Nothing
      BY <2>1, Running
  <2> QED BY <2>1, <2>2, <2>3, NeutralKeeps
<1>2. ASSUME NEW t \in Thread, Finish(t)
      PROVE  Goal
    BY <1>2, FinishKeeps
<1>3. ASSUME NEW t \in Thread, NEW s \in Semaphore, P(t, s)
      PROVE  Goal
    BY <1>3, Running, DoPKeeps DEF P
<1>4. ASSUME NEW s \in Semaphore, DoV(s)
      PROVE  Goal
    BY <1>4, DoVKeeps
<1>5. ASSUME NEW t \in Thread, NEW l \in Lock, Acquire(t, l)
      PROVE  Goal
    BY <1>5, Running, DoAcquireKeeps DEF Acquire
<1>6. ASSUME NEW t \in Thread, NEW l \in Lock, Release(t, l)
      PROVE  Goal
    BY <1>6, ReleaseKeeps
<1>7. ASSUME NEW t \in Thread, NEW c \in Condition, NEW l \in Lock, Wait(t, c, l)
      PROVE  Goal
    BY <1>7, WaitKeeps
<1>8. ASSUME NEW c \in Condition, NEW l \in Lock, DoSignal(c, l)
      PROVE  Goal
    BY <1>8, DoSignalKeeps
<1>9. ASSUME UNCHANGED <<status, readyList, currentThread, state, owner, waitingLock,
                         waitQueue, entered, resume, threadToBeDestroyed, deleted>>
      PROVE  Goal
  <2>1. OnePlace'
      BY <1>9 DEF Inv, OnePlace, ReadyOnce, AsleepOnce, BlockedIsAsleep, SleepsIn, Object
  <2> QED BY <1>9, <2>1 DEF Inv, LockState, ConditionBinding, FinishedStays
<1>10. ASSUME NEW t \in Thread, Yield(t)
       PROVE  Goal
  <2>1. /\ t = currentThread /\ InterruptsOn
        /\ resume' = [resume EXCEPT ![t] = Yielded]
        /\ RunNext([status EXCEPT ![t] = "READY"], Append(readyList, t))
        /\ UNCHANGED carcassVars
        /\ UNCHANGED <<state, owner, waitingLock, waitQueue, entered>>
      BY <1>10 DEF Yield, lockVars
  <2>2. status[t] = "RUNNING" /\ resume[t] = Nothing
      BY <2>1 DEF InterruptsOn, Idling
  <2> DEFINE st == [status EXCEPT ![t] = "READY"]
             rl == Append(readyList, t)
  <2>3. /\ ReadyOnce(st, rl, currentThread)
        /\ rl \in Seq(Thread) /\ rl # <<>>
        /\ st \in [Thread -> ThreadStatus]
      BY <2>2, ReadyAppend DEF Inv, OnePlace
  <2>4. \A u \in Thread : st[u] = IF u = t THEN "READY" ELSE status[u]
      BY DEF Inv, TypeOK
  <2>5. RunNext(st, rl)
      BY <2>1
  <2> HIDE DEF st, rl
  <2>6. /\ ReadyOnce(status, readyList, currentThread)'
        /\ \A u \in Thread : status'[u] = "BLOCKED" <=> st[u] = "BLOCKED"
        /\ st[currentThread'] = "READY"
      BY <2>1, <2>3, <2>4, <2>5, RunNextKeeps DEF Inv
  <2>7. currentThread' = currentThread \/ status[currentThread'] = "READY"
      BY <1>0, <2>1, <2>4, <2>6 DEF TypeOK
  <2>8. \A u \in Thread : status'[u] = "BLOCKED" <=> status[u] = "BLOCKED"
      BY <2>2, <2>4, <2>6
  <2> QED BY <2>1, <2>2, <2>6, <2>7, <2>8, NeutralKeeps
<1>11. ASSUME Dispatch
       PROVE  Goal
  <2>1. /\ status[currentThread] # "RUNNING" /\ readyList # <<>>
        /\ RunNext(status, readyList)
        /\ UNCHANGED carcassVars
        /\ UNCHANGED <<resume, state, owner, waitingLock, waitQueue, entered>>
      BY <1>11 DEF Dispatch, Idling, lockVars
  <2>2. /\ ReadyOnce(status, readyList, currentThread)'
        /\ \A u \in Thread : status'[u] = "BLOCKED" <=> status[u] = "BLOCKED"
        /\ status[currentThread'] = "READY"
      BY <2>1, RunNextKeeps DEF Inv, OnePlace, TypeOK
  <2>3. OnePlace'
    <3>1. currentThread' \in Thread
        BY <1>0 DEF TypeOK
    <3> QED BY <2>1, <2>2, <3>1, StayInQueues DEF Inv
  <2>4. LockState' /\ ConditionBinding'
      BY <2>1 DEF Inv, LockState, ConditionBinding
  <2>5. FinishedStays'
      BY <2>1, <2>2, FinishedKept DEF Inv, FinishedStays
  <2> QED BY <2>3, <2>4, <2>5
<1>12. ASSUME NEW t \in Thread, Resume(t)
       PROVE  Goal
  <2>1. ASSUME resume[t] \in {Start, Yielded}, Resumes(t),
               resume' = [resume EXCEPT ![t] = Nothing],
               UNCHANGED carcassVars \/ DestroyCarcass,
               UNCHANGED <<status, readyList, currentThread, state, owner,
                           waitingLock, waitQueue, entered>>
        PROVE  Goal
    <3>1. t = currentThread /\ status[t] = "RUNNING"
        BY <2>1, Running
    <3>2. ReadyOnce(status, readyList, currentThread)'
        BY <2>1 DEF Inv, OnePlace, ReadyOnce
    <3> QED BY <2>1, <3>1, <3>2, NeutralKeeps
  <2>2. CASE ResumeStart(t)
      BY <2>1, <2>2 DEF ResumeStart, schedVars, lockVars
  <2>3. CASE ResumeYield(t)
      BY <2>1, <2>3 DEF ResumeYield, schedVars, lockVars
  <2>4. ASSUME NEW s \in Semaphore, ResumeP(t, s)
        PROVE  Goal
      BY <2>4, Running, DoPKeeps DEF ResumeP
  <2>5. ASSUME NEW l \in Lock, ResumeAcquire(t, l)
        PROVE  Goal
      BY <2>5, ResumeAcquireKeeps
  <2>6. ASSUME NEW l \in Lock, ResumeWait(t, l)
        PROVE  Goal
      BY <2>6, Running, DoAcquireKeeps DEF ResumeWait
  <2> QED BY <1>12, <2>2, <2>3, <2>4, <2>5, <2>6 DEF Resume
<1>13. Goal
  <2>1. CASE UNCHANGED vars
      BY <1>9, <2>1 DEF vars
  <2>2. CASE \E s \in Semaphore : InterruptV(s)
      BY <1>4, <2>2 DEF InterruptV
  <2>3. ASSUME NEW t \in Thread, ThreadStep(t)
        PROVE  Goal
    <3>1. CASE \E child \in Thread : Fork(t, child)
        BY <1>1, <3>1
    <3>2. CASE Finish(t)
        BY <1>2, <3>2
    <3>3. CASE \E s \in Semaphore : P(t, s) \/ V(t, s)
        BY <1>3, <1>4, <3>3 DEF V
    <3>4. CASE \E l \in Lock : Acquire(t, l) \/ Release(t, l)
        BY <1>5, <1>6, <3>4
    <3>5. ASSUME NEW c \in Condition, NEW l \in Lock,
                 Wait(t, c, l) \/ Signal(t, c, l) \/ Broadcast(t, c, l)
          PROVE  Goal
      <4>1. CASE Wait(t, c, l)
          BY <1>7, <4>1
      <4>2. CASE Signal(t, c, l)
          BY <1>8, <4>2 DEF Signal
      <4>3. CASE Broadcast(t, c, l)
          BY <1>9, <4>3 DEF Broadcast, schedVars, carcassVars, lockVars
      <4> QED BY <3>5, <4>1, <4>2, <4>3
    <3> QED BY <2>3, <3>1, <3>2, <3>3, <3>4, <3>5 DEF ThreadStep
  <2>4. ASSUME NEW t \in Thread, BroadcastStep(t)
        PROVE  Goal
    <3>1. ASSUME NEW c \in Condition, NEW l \in Lock, BroadcastSignal(t, c, l)
          PROVE  Goal
        BY <1>8, <3>1 DEF BroadcastSignal
    <3>2. ASSUME NEW c \in Condition, NEW l \in Lock, BroadcastReturn(t, c, l)
          PROVE  Goal
        BY <1>9, <3>2 DEF BroadcastReturn, schedVars, carcassVars, lockVars
    <3> QED BY <2>4, <3>1, <3>2 DEF BroadcastStep
  <2> QED BY <1>10, <1>11, <1>12, <2>1, <2>2, <2>3, <2>4 DEF Next
<1> QED BY <1>0, <1>13 DEF Inv

(***************************************************************************)
(* The inductive invariant holds in every behaviour, for any number of     *)
(* threads and objects and any program.                                    *)
(***************************************************************************)
THEOREM Invariance == Spec => []Inv
<1>1. Init => Inv
    BY InvInit
<1>2. Inv /\ [Next]_vars => Inv'
    BY InvStep
<1> QED BY <1>1, <1>2, PTL DEF Spec

(***************************************************************************)
(* Every thread is always in exactly one place: the CPU, the ready list or *)
(* the wait queue of the object that it sleeps on.                         *)
(***************************************************************************)
THEOREM ThreadsInOnePlace == Spec => []OnePlace
<1>1. Inv => OnePlace
    BY DEF Inv
<1> QED BY <1>1, Invariance, PTL

(***************************************************************************)
(* Lock::Acquire and Condition::Wait never return to two threads that have *)
(* not released the lock in between.                                       *)
(***************************************************************************)
THEOREM LocksExclude == Spec => []MutualExclusion
<1>1. Inv => MutualExclusion
  <2> SUFFICES ASSUME Inv, NEW t \in Thread, NEW u \in Thread,
                      NEW l \in entered[t] \cap entered[u]
               PROVE  t = u
      BY DEF MutualExclusion
  <2>1. l \in Lock
      BY DEF Inv, TypeOK
  <2> QED BY <2>1 DEF Inv, LockState
<1> QED BY <1>1, Invariance, PTL

(***************************************************************************)
(* A lock that is not free has an owner that knows it or is about to, and  *)
(* nobody queues for a free lock.                                          *)
(***************************************************************************)
THEOREM LocksConsistent == Spec => []LockState
<1>1. Inv => LockState
    BY DEF Inv
<1> QED BY <1>1, Invariance, PTL

(***************************************************************************)
(* A condition variable is bound to a lock exactly while threads wait.     *)
(***************************************************************************)
THEOREM ConditionsBound == Spec => []ConditionBinding
<1>1. Inv => ConditionBinding
    BY DEF Inv
<1> QED BY <1>1, Invariance, PTL

(***************************************************************************)
(* A deleted thread is never used again.                                   *)
(***************************************************************************)
THEOREM DeletedUnused == Spec => []NoUseAfterDelete
<1>1. Inv => NoUseAfterDelete
  <2> SUFFICES ASSUME Inv, NEW t \in deleted
               PROVE  /\ t # currentThread
                      /\ ~InQueue(t, readyList)
                      /\ \A o \in Object : ~InQueue(t, waitQueue[o])
      BY DEF NoUseAfterDelete
  <2>1. t \in Thread /\ resume[t] = Finished /\ status[t] = "BLOCKED" /\ t # currentThread
      BY DEF Inv, TypeOK, FinishedStays
  <2>2. ~InQueue(t, readyList)
      BY <2>1 DEF Inv, OnePlace, ReadyOnce
  <2>3. \A o \in Object : SleepsIn(o) # Finished
      BY ContinuationsDiffer DEF SleepsIn
  <2>4. \A o \in Object : ~InQueue(t, waitQueue[o])
      BY <2>1, <2>3 DEF Inv, OnePlace, AsleepOnce
  <2> QED BY <2>1, <2>2, <2>4
<1> QED BY <1>1, Invariance, PTL

(***************************************************************************)
(* Nobody overtakes a thread that queues for a lock: while there is a      *)
(* queue the lock is not FREE, so only Release and Wait of its owner       *)
(* change the owner, and they choose the head of the queue.                *)
(***************************************************************************)
THEOREM LocksFirstComeFirstServed == Spec => HandOffInOrder
<1>1. ASSUME Inv, [Next]_vars
      PROVE  HandOff
  <2> SUFFICES ASSUME NEW l \in Lock, waitQueue[l] # <<>>, owner'[l] # owner[l]
               PROVE  owner'[l] = Head(waitQueue[l])
      BY DEF HandOff
  <2>1. ASSUME NEW k \in Lock, owner' = [owner EXCEPT ![k] = OwnerAfterRelease(k)]
        PROVE  owner'[l] = Head(waitQueue[l])
      BY <1>1, <2>1 DEF OwnerAfterRelease, Inv, TypeOK
  <2>2. ASSUME NEW t \in Thread, NEW k \in Lock, DoAcquire(t, k)
        PROVE  owner'[l] = owner[l]
    <3>1. CASE state[k] = "FREE"
      <4>1. k # l
          BY <1>1, <3>1 DEF Inv, LockState
      <4> QED BY <1>1, <2>2, <3>1, <4>1 DEF DoAcquire, Inv, TypeOK
    <3>2. CASE state[k] # "FREE"
        BY <2>2, <3>2 DEF DoAcquire, lockVars
    <3> QED BY <3>1, <3>2
  <2>3. ASSUME NEW t \in Thread, NEW c \in Condition, NEW k \in Lock, Wait(t, c, k)
        PROVE  owner'[l] = Head(waitQueue[l])
    <3>1. CASE isHeldBy(k, t)
        BY <2>1, <2>3, <3>1 DEF Wait
    <3>2. CASE ~isHeldBy(k, t)
        BY <2>3, <3>2 DEF Wait, lockVars
    <3> QED BY <3>1, <3>2
  <2>4. ASSUME NEW t \in Thread, NEW k \in Lock, Release(t, k)
        PROVE  owner'[l] = Head(waitQueue[l])
      BY <2>1, <2>4 DEF Release
  <2>5. ASSUME NEW t \in Thread, Resume(t)
        PROVE  owner'[l] = owner[l]
      BY <2>2, <2>5 DEF Resume, ResumeStart, ResumeYield, ResumeP, ResumeAcquire,
                        ResumeWait, lockVars
  <2>6. ASSUME NEW t \in Thread, ThreadStep(t)
        PROVE  owner'[l] = Head(waitQueue[l])
      BY <2>2, <2>3, <2>4, <2>6 DEF ThreadStep, Fork, Finish, P, V, DoV, Acquire,
                                    Signal, DoSignal, Broadcast, lockVars
  <2>7. CASE UNCHANGED owner
      BY <2>7
  <2>8. ASSUME NEW t \in Thread, BroadcastStep(t)
        PROVE  UNCHANGED owner
      BY <2>8 DEF BroadcastStep, BroadcastSignal, BroadcastReturn, DoSignal, lockVars
  <2>9. ASSUME NEW t \in Thread, Yield(t)
        PROVE  UNCHANGED owner
      BY <2>9 DEF Yield, lockVars
  <2>10. ASSUME Dispatch \/ \E s \in Semaphore : InterruptV(s)
         PROVE  UNCHANGED owner
      BY <2>10 DEF Dispatch, InterruptV, DoV, lockVars
  <2>11. CASE UNCHANGED vars
      BY <2>7, <2>11 DEF vars
  <2> QED BY <1>1, <2>5, <2>6, <2>7, <2>8, <2>9, <2>10, <2>11 DEF Next
<1>2. Inv /\ [Next]_vars => [HandOff]_vars
    BY <1>1
<1> QED BY <1>2, Invariance, PTL DEF Spec, HandOffInOrder

-----------------------------------------------------------------------------
(***************************************************************************)
(* No lost wakeup.  Counting the woken threads needs their set to be       *)
(* finite, also when Thread is not: only finitely many threads have been   *)
(* woken so far.                                                           *)
(***************************************************************************)
FewWoken == \A s \in Semaphore : IsFiniteSet(Woken(s))

WakeInv == FewWoken /\ NoLostWakeup

\* A step that touches no semaphore and starts or ends no P.
LEMMA WokenKept ==
    ASSUME WakeInv, UNCHANGED value,
           \A s \in Semaphore : waitQueue'[s] = waitQueue[s],
           \A s \in Semaphore, t \in Thread : resume'[t] = InP(s) <=> resume[t] = InP(s)
    PROVE  WakeInv'
<1>1. \A s \in Semaphore : Woken(s)' = Woken(s)
    BY DEF Woken
<1> QED BY <1>1 DEF WakeInv, FewWoken, NoLostWakeup

\* A step of one thread that is not in P and does not sleep in P.
LEMMA WokenOthers ==
    ASSUME TypeOK, WakeInv, UNCHANGED value, NEW t \in Thread, NEW k,
           \A s \in Semaphore : waitQueue'[s] = waitQueue[s],
           resume' = [resume EXCEPT ![t] = k],
           \A s \in Semaphore : k # InP(s) /\ resume[t] # InP(s)
    PROVE  WakeInv'
<1>1. \A s \in Semaphore, u \in Thread : resume'[u] = InP(s) <=> resume[u] = InP(s)
    BY DEF TypeOK
<1> QED BY <1>1, WokenKept

\* P takes one unit of the value, and at most one woken thread with it.
LEMMA DoPWakes ==
    ASSUME Inv, WakeInv, NEW t \in Thread, NEW s \in Semaphore, DoP(t, s),
           resume[t] \in {Nothing, InP(s)}, status[t] = "RUNNING"
    PROVE  WakeInv'
<1>1. s \in Object /\ \A r \in Semaphore : r \in Object
    BY DEF Object
<1>2. \A r \in Semaphore : InP(r) # Nothing /\ (r # s => InP(r) # InP(s))
    BY ContinuationsDiffer
<1>3. \A r \in Semaphore : value[r] \in Nat
    BY ConstantsAssumption DEF Inv, TypeOK
<1>4. CASE value[s] = 0
  <2>1. /\ waitQueue' = [waitQueue EXCEPT ![s] = Append(waitQueue[s], t)]
        /\ resume' = [resume EXCEPT ![t] = InP(s)]
        /\ value' = value
      BY <1>4 DEF DoP
  <2>2. \A u : InQueue(u, Append(waitQueue[s], t)) <=> InQueue(u, waitQueue[s]) \/ u = t
      BY <1>1, AppendQueue DEF Inv, TypeOK
  <2>3. Woken(s)' = Woken(s) \ {t}
      BY <1>1, <2>1, <2>2 DEF Woken, Inv, TypeOK
  <2>4. \A r \in Semaphore : r # s => Woken(r)' = Woken(r)
      BY <1>1, <1>2, <2>1 DEF Woken, Inv, TypeOK
  <2>5. \A r \in Semaphore : r # s => waitQueue'[r] = waitQueue[r]
      BY <1>1, <2>1 DEF Inv, TypeOK
  <2>6. IsFiniteSet(Woken(s)')
      BY <2>3, FS_RemoveElement DEF WakeInv, FewWoken
  <2>7. value'[s] <= Cardinality(Woken(s)')
      BY <1>4, <2>1, <2>6, FS_CardinalityType
  <2> QED BY <2>1, <2>4, <2>5, <2>6, <2>7 DEF WakeInv, FewWoken, NoLostWakeup
<1>5. CASE value[s] # 0
  <2>1. /\ value' = [value EXCEPT ![s] = value[s] - 1]
        /\ resume' = [resume EXCEPT ![t] = Nothing]
        /\ waitQueue' = waitQueue
      BY <1>5 DEF DoP
  <2>2. Woken(s)' = Woken(s) \ {t}
      BY <1>1, <1>2, <2>1 DEF Woken, Inv, TypeOK
  <2>3. \A r \in Semaphore : r # s => Woken(r)' = Woken(r) /\ value'[r] = value[r]
      BY <1>1, <1>2, <2>1 DEF Woken, Inv, TypeOK
  <2>4. IsFiniteSet(Woken(s))
      BY DEF WakeInv, FewWoken
  <2>5. /\ IsFiniteSet(Woken(s)')
        /\ Cardinality(Woken(s)') >= Cardinality(Woken(s)) - 1
        /\ Cardinality(Woken(s)) \in Nat /\ Cardinality(Woken(s)') \in Nat
    <3>1. /\ IsFiniteSet(Woken(s) \ {t})
          /\ \/ Cardinality(Woken(s) \ {t}) = Cardinality(Woken(s)) - 1
             \/ Cardinality(Woken(s) \ {t}) = Cardinality(Woken(s))
        BY <2>4, FS_RemoveElement
    <3>2. Cardinality(Woken(s)) \in Nat /\ Cardinality(Woken(s) \ {t}) \in Nat
        BY <2>4, <3>1, FS_CardinalityType
    <3> QED BY <2>2, <3>1, <3>2
  <2>6. value'[s] = value[s] - 1
      BY <2>1 DEF Inv, TypeOK
  <2>7. waitQueue'[s] # <<>> => value'[s] <= Cardinality(Woken(s)')
      BY <1>3, <2>1, <2>5, <2>6 DEF WakeInv, NoLostWakeup
  <2> QED BY <2>1, <2>3, <2>5, <2>7 DEF WakeInv, FewWoken, NoLostWakeup
<1> QED BY <1>4, <1>5

\* V adds one unit, and one woken thread if any sleeps.
LEMMA DoVWakes ==
    ASSUME Inv, WakeInv, NEW s \in Semaphore, DoV(s)
    PROVE  WakeInv'
<1>1. s \in Object /\ \A r \in Semaphore : r \in Object
    BY DEF Object
<1>2. /\ value' = [value EXCEPT ![s] = value[s] + 1]
      /\ waitQueue' = [waitQueue EXCEPT ![s] = IF waitQueue[s] = <<>> THEN waitQueue[s]
                                               ELSE Tail(waitQueue[s])]
      /\ resume' = resume
    BY DEF DoV
<1>3. \A r \in Semaphore : r # s => /\ Woken(r)' = Woken(r)
                                    /\ value'[r] = value[r]
                                    /\ waitQueue'[r] = waitQueue[r]
    BY <1>1, <1>2 DEF Woken, Inv, TypeOK
<1>4. value'[s] = value[s] + 1 /\ value[s] \in Nat
    BY <1>2, ConstantsAssumption DEF Inv, TypeOK
<1>5. IsFiniteSet(Woken(s))
    BY DEF WakeInv, FewWoken
<1>6. CASE waitQueue[s] = <<>>
  <2>1. waitQueue'[s] = <<>>
      BY <1>1, <1>2, <1>6 DEF Inv, TypeOK
  <2>2. Woken(s)' = Woken(s)
      BY <1>2, <1>6, <2>1 DEF Woken
  <2> QED BY <1>3, <1>5, <2>1, <2>2 DEF WakeInv, FewWoken, NoLostWakeup
<1>7. CASE waitQueue[s] # <<>>
  <2> DEFINE h == Head(waitQueue[s])
  <2>1. waitQueue'[s] = Tail(waitQueue[s])
      BY <1>1, <1>2, <1>7 DEF Inv, TypeOK
  <2>2. waitQueue[s] \in Seq(Thread) /\ NoRepeats(waitQueue[s])
      BY <1>1 DEF Inv, TypeOK, OnePlace, AsleepOnce
  <2>3. /\ h \in Thread
        /\ InQueue(h, waitQueue[s])
        /\ \A u : InQueue(u, Tail(waitQueue[s])) <=> InQueue(u, waitQueue[s]) /\ u # h
      BY <1>7, <2>2, RemoveQueue
  <2>4. resume[h] = InP(s)
      BY <1>1, <2>3 DEF Inv, OnePlace, AsleepOnce, SleepsIn
  <2> HIDE DEF h
  <2>5. Woken(s)' = Woken(s) \cup {h} /\ h \notin Woken(s)
      BY <1>2, <2>1, <2>3, <2>4 DEF Woken
  <2>6. /\ IsFiniteSet(Woken(s)')
        /\ Cardinality(Woken(s)') = Cardinality(Woken(s)) + 1
        /\ Cardinality(Woken(s)) \in Nat
      BY <1>5, <2>5, FS_AddElement, FS_CardinalityType
  <2>7. value'[s] <= Cardinality(Woken(s)')
      BY <1>4, <1>7, <2>6 DEF WakeInv, NoLostWakeup
  <2> QED BY <1>3, <2>6, <2>7 DEF WakeInv, FewWoken, NoLostWakeup
<1> QED BY <1>6, <1>7

\* Acquire touches no semaphore.
LEMMA DoAcquireWakes ==
    ASSUME Inv, WakeInv, UNCHANGED value, NEW t \in Thread, NEW l \in Lock,
           DoAcquire(t, l), \A s \in Semaphore : resume[t] # InP(s)
    PROVE  WakeInv'
<1>1. \A s \in Semaphore : s # l /\ s \in Object
    BY ConstantsAssumption DEF Object
<1>2. \A s \in Semaphore : waitQueue'[s] = waitQueue[s]
    BY <1>1 DEF DoAcquire, Inv, TypeOK
<1>3. PICK k \in {Nothing, InAcquire(l)} : resume' = [resume EXCEPT ![t] = k]
    BY DEF DoAcquire
<1>4. \A s \in Semaphore : k # InP(s)
    BY <1>3, ContinuationsDiffer
<1> QED BY <1>2, <1>3, <1>4, WokenOthers DEF Inv

\* Signal touches no semaphore.
LEMMA DoSignalWakes ==
    ASSUME Inv, WakeInv, NEW c \in Condition, NEW l \in Lock, DoSignal(c, l)
    PROVE  WakeInv'
<1>1. \A s \in Semaphore : s # c /\ s \in Object
    BY ConstantsAssumption DEF Object
<1>2. \A s \in Semaphore : waitQueue'[s] = waitQueue[s]
    BY <1>1 DEF DoSignal, Inv, TypeOK
<1> QED BY <1>2, WokenKept DEF DoSignal

\* Every step keeps a woken thread for each unit of a semaphore with sleepers.
LEMMA WakeStep ==
    ASSUME Inv, WakeInv, [Next]_vars
    PROVE  WakeInv'
<1>0. \A s \in Semaphore : /\ InP(s) # Nothing /\ InP(s) # Start /\ InP(s) # Yielded
                           /\ InP(s) # Finished
                           /\ \A l \in Lock : InP(s) # InAcquire(l) /\ InP(s) # InWait(l)
    BY ContinuationsDiffer
<1>1. \A t \in Thread : Calls(t) => resume[t] = Nothing /\ status[t] = "RUNNING"
    BY DEF Calls, InterruptsOn, Idling
<1>2. ASSUME UNCHANGED <<value, waitQueue, resume>>
      PROVE  WakeInv'
    BY <1>2, WokenKept
<1>3. ASSUME NEW t \in Thread, Finish(t)
      PROVE  WakeInv'
    BY <1>0, <1>1, <1>3, WokenOthers DEF Finish, Inv
<1>4. ASSUME NEW t \in Thread, NEW s \in Semaphore, P(t, s)
      PROVE  WakeInv'
    BY <1>1, <1>4, DoPWakes DEF P
<1>5. ASSUME NEW t \in Thread, NEW l \in Lock, Acquire(t, l)
      PROVE  WakeInv'
    BY <1>0, <1>1, <1>5, DoAcquireWakes DEF Acquire
<1>6. ASSUME NEW t \in Thread, NEW l \in Lock, Release(t, l)
      PROVE  WakeInv'
  <2>1. \A s \in Semaphore : s # l /\ s \in Object
      BY ConstantsAssumption DEF Object
  <2>2. \A s \in Semaphore : waitQueue'[s] = waitQueue[s]
      BY <1>6, <2>1 DEF Release, Inv, TypeOK
  <2> QED BY <1>6, <2>2, WokenKept DEF Release
<1>7. ASSUME NEW t \in Thread, NEW c \in Condition, NEW l \in Lock, Wait(t, c, l)
      PROVE  WakeInv'
  <2>1. \A s \in Semaphore : s # l /\ s # c /\ s \in Object
      BY ConstantsAssumption DEF Object
  <2>2. \A s \in Semaphore : waitQueue'[s] = waitQueue[s]
    <3>1. CASE isHeldBy(l, t) /\ waitQueue[l] # <<>>
        BY <1>7, <2>1, <3>1 DEF Wait, Inv, TypeOK
    <3>2. CASE ~(isHeldBy(l, t) /\ waitQueue[l] # <<>>)
        BY <1>7, <2>1, <3>2 DEF Wait, Inv, TypeOK
    <3> QED BY <3>1, <3>2
  <2>3. /\ resume' = [resume EXCEPT ![t] = InWait(l)]
        /\ UNCHANGED value
        /\ resume[t] = Nothing
      BY <1>1, <1>7 DEF Wait
  <2> QED BY <1>0, <2>2, <2>3, WokenOthers DEF Inv
<1>8. ASSUME NEW t \in Thread, Yield(t)
      PROVE  WakeInv'
  <2>1. /\ resume' = [resume EXCEPT ![t] = Yielded]
        /\ UNCHANGED <<value, waitQueue>>
        /\ resume[t] = Nothing
      BY <1>8 DEF Yield, InterruptsOn
  <2> QED BY <1>0, <2>1, WokenOthers DEF Inv
<1>9. ASSUME NEW t \in Thread, Resume(t)
      PROVE  WakeInv'
  <2>1. ASSUME resume[t] # Nothing, resume' = [resume EXCEPT ![t] = Nothing],
               \A s \in Semaphore : resume[t] # InP(s), UNCHANGED <<value, waitQueue>>
        PROVE  WakeInv'
      BY <1>0, <2>1, WokenOthers DEF Inv
  <2>2. CASE ResumeStart(t)
      BY <1>0, <2>1, <2>2, ContinuationsDiffer DEF ResumeStart
  <2>3. CASE ResumeYield(t)
      BY <1>0, <2>1, <2>3, ContinuationsDiffer DEF ResumeYield
  <2>4. ASSUME NEW s \in Semaphore, ResumeP(t, s)
        PROVE  WakeInv'
      BY <2>4, DoPWakes DEF ResumeP, Resumes, Idling
  <2>5. ASSUME NEW l \in Lock, ResumeAcquire(t, l)
        PROVE  WakeInv'
      BY <1>0, <2>1, <2>5, ContinuationsDiffer DEF ResumeAcquire
  <2>6. ASSUME NEW l \in Lock, ResumeWait(t, l)
        PROVE  WakeInv'
      BY <1>0, <2>6, DoAcquireWakes DEF ResumeWait
  <2> QED BY <1>9, <2>2, <2>3, <2>4, <2>5, <2>6 DEF Resume
<1>10. ASSUME NEW t \in Thread, ThreadStep(t)
       PROVE  WakeInv'
  <2>1. CASE \E child \in Thread : Fork(t, child)
      BY <1>2, <2>1 DEF Fork
  <2>2. CASE \E s \in Semaphore : P(t, s) \/ V(t, s)
      BY <1>4, <2>2, DoVWakes DEF V
  <2>3. CASE \E l \in Lock : Acquire(t, l) \/ Release(t, l)
      BY <1>5, <1>6, <2>3
  <2>4. ASSUME NEW c \in Condition, NEW l \in Lock,
               Wait(t, c, l) \/ Signal(t, c, l) \/ Broadcast(t, c, l)
        PROVE  WakeInv'
      BY <1>2, <1>7, <2>4, DoSignalWakes DEF Signal, Broadcast
  <2> QED BY <1>3, <1>10, <2>1, <2>2, <2>3, <2>4 DEF ThreadStep
<1>11. ASSUME NEW t \in Thread, BroadcastStep(t)
       PROVE  WakeInv'
    BY <1>2, <1>11, DoSignalWakes DEF BroadcastStep, BroadcastSignal, BroadcastReturn
<1>12. ASSUME Dispatch
       PROVE  WakeInv'
    BY <1>2, <1>12 DEF Dispatch
<1>13. ASSUME NEW s \in Semaphore, InterruptV(s)
       PROVE  WakeInv'
    BY <1>13, DoVWakes DEF InterruptV
<1>14. CASE UNCHANGED vars
    BY <1>2, <1>14 DEF vars
<1> QED BY <1>8, <1>9, <1>10, <1>11, <1>12, <1>13, <1>14 DEF Next

(***************************************************************************)
(* Semaphore::V loses no wakeup, whoever calls P before the woken thread   *)
(* runs: while threads sleep on a semaphore, each unit of its value has a  *)
(* woken thread that will take it.                                         *)
(***************************************************************************)
THEOREM WakeupsNotLost == Spec => []NoLostWakeup
<1>1. Init => WakeInv
  <2> SUFFICES ASSUME Init, NEW s \in Semaphore
               PROVE  Woken(s) = {} /\ waitQueue[s] = <<>>
      BY FS_EmptySet DEF WakeInv, FewWoken, NoLostWakeup
  <2> QED BY ContinuationsDiffer DEF Init, Woken, Object
<1>2. Inv /\ WakeInv /\ [Next]_vars => WakeInv'
    BY WakeStep
<1>3. WakeInv => NoLostWakeup
    BY DEF WakeInv
<1> QED BY <1>1, <1>2, <1>3, Invariance, PTL DEF Spec
=============================================================================
