--------------------------- MODULE PassportOffice ---------------------------
(***************************************************************************)
(* The passport office simulation (threads/threadtest.cc): customers and   *)
(* senators visit an application clerk, a picture clerk, a passport clerk  *)
(* and a cashier; clerks call visitors from their lines, or go on break    *)
(* until the manager wakes them; the manager collects the money and closes *)
(* the office.                                                             *)
(*                                                                         *)
(* The simulation runs without the preemptive timer (Nachos starts it only *)
(* with -rs): a thread keeps the CPU until it sleeps or yields.  A step    *)
(* here is the code from one place where the CPU can change hands to the   *)
(* next: an Acquire, a Wait, a Yield.  moneyLock and outsideLock are never *)
(* held at such a place, so the regions they guard are parts of steps.     *)
(*                                                                         *)
(* Money is in units of $100.  The yield loops, whose lengths are random   *)
(* or arbitrary in the code, have any length up to a bound.                *)
(***************************************************************************)
EXTENDS Integers, Sequences, FiniteSets, SequencesExt

CONSTANTS
    NumCustomers,   \* numCustomers
    MaxSenators,    \* bound on numSenators, which the user enters
    NumClerks,      \* kind of clerk -> how many there are
    StartMoney,     \* what a customer may bring: 1, 6, 11 or 16 in the code
    WakeLine,       \* kind of clerk -> the manager ends a break for a longer line
    Rounds,         \* manager: checks of the lines between two counts (60)
    MaxRest,        \* bound on the yields between two checks (70)
    MaxWork,        \* bound on the yields of a clerk at work (10, 20 or 50)
    MaxGap,         \* bound on the yields between two arrivals (29 or 60)
    MaxRetakes      \* bound on the pictures that are disliked

Kinds == <<"app", "pic", "pass", "cash">>
Kind == {"app", "pic", "pass", "cash"}

ASSUME OfficeAssumption ==
    /\ NumCustomers \in Nat /\ MaxSenators \in Nat
    /\ NumClerks \in [Kind -> Nat \ {0}]
    /\ WakeLine \in [Kind -> Nat]
    /\ StartMoney \subseteq Nat \ {0}
    /\ {Rounds, MaxRest, MaxWork, MaxGap} \subseteq Nat \ {0}
    /\ MaxRetakes \in Nat

\* Threads and objects are tuples; the null pointer is the empty one.
None == <<>>
Manager == <<"manager", 0>>
Main == <<"main", 0>>
Customer == {<<"customer", i>> : i \in 0 .. NumCustomers - 1}
Senator == {<<"senator", i>> : i \in 0 .. MaxSenators - 1}
Visitor == Customer \cup Senator
Clerk == UNION {{<<k, i>> : i \in 0 .. NumClerks[k] - 1} : k \in Kind}
ClerksOf(k) == [i \in 1 .. NumClerks[k] |-> <<k, i - 1>>]
ClerkSeq == FlattenSeq([j \in 1 .. 4 |-> ClerksOf(Kinds[j])])
Thread == Visitor \cup Clerk \cup {Manager, Main}

LineLock == <<"clerkLineLock">>
SenatorLock == <<"senatorLock">>
CounterLock(k) == <<"clerkLock", k>>
Lock == {LineLock, SenatorLock} \cup {CounterLock(k) : k \in Clerk}

OutsideCV == <<"senatorCV">>        \* customers wait for the senator to leave
DoorCV == <<"customersCV">>         \* a senator waits for the customers to leave
LineCV(k) == <<"clerkLineCV", k>>
BribeCV(k) == <<"clerkBribeLineCV", k>>
SenatorCV(k) == <<"senatorLineCV", k>>
ClerkCV(k) == <<"clerkCV", k>>
Condition == {OutsideCV, DoorCV} \cup
    UNION {{LineCV(k), BribeCV(k), SenatorCV(k), ClerkCV(k)} : k \in Clerk}

VARIABLES
    os,             \* the ready list, the owners of locks, the wait queues
    current,        \* currentThread
    pc,             \* thread -> where it goes on when it has the CPU
    again,          \* thread -> the lock it acquires again after a Wait
    yields,         \* thread -> iterations left of the yield loop it is in
    clerk,          \* clerk -> its object
    data,           \* visitor -> its CustomerData
    plan,           \* visitor -> the counters it has still to visit
    my,             \* visitor -> the clerk whose line it chose (myLine)
    bribed,         \* visitor -> whether it stands in the bribe line
    money,          \* customer -> its money
    totalSpent,     \* what visitors have spent
    counted,        \* what the manager has counted
    senatorFlag,    \* a senator is present
    numSenators,    \* how many senators come
    forked,         \* how many visitors have been forked
    round,          \* the manager's loop counter
    retakes,        \* pictures that were disliked
    closed          \* the manager has closed the office

cpu == <<os, current, pc, again, yields>>
papers == <<data, plan, my, bribed>>
cash == <<money, totalSpent, counted>>
rest == <<numSenators, forked, round, retakes, closed>>
vars == <<os, current, pc, again, yields, clerk, data, plan, my, bribed, money,
          totalSpent, counted, senatorFlag, numSenators, forked, round, retakes, closed>>

-----------------------------------------------------------------------------
(***************************************************************************)
(* Threads, locks and condition variables, as in module Synch: a lock that *)
(* is released is handed to the first that queues for it.                  *)
(***************************************************************************)
ReadyToRun(o, t) == [o EXCEPT !.ready = Append(@, t)]

SleepOn(o, t, q) == [o EXCEPT !.queue[q] = Append(@, t)]

Release(o, l) ==
    IF o.queue[l] = <<>>
    THEN [o EXCEPT !.owner[l] = None]
    ELSE [ReadyToRun(o, Head(o.queue[l])) EXCEPT !.owner[l] = Head(o.queue[l]),
                                                 !.queue[l] = Tail(@)]

Signal(o, c) ==
    IF o.queue[c] = <<>>
    THEN o
    ELSE [ReadyToRun(o, Head(o.queue[c])) EXCEPT !.queue[c] = Tail(@)]

Broadcast(o, c) == [o EXCEPT !.ready = @ \o o.queue[c], !.queue[c] = <<>>]

\* The CPU goes to the first ready thread, if there is one.
Switch(o) ==
    IF o.ready = <<>>
    THEN current' = None /\ os' = o
    ELSE current' = Head(o.ready) /\ os' = [o EXCEPT !.ready = Tail(@)]

\* Thread t, which has made o of the objects, goes on at next ...
Acquire(o, t, l, next) ==       \* ... when it has the lock
    /\ pc' = [pc EXCEPT ![t] = next]
    /\ IF o.owner[l] = None
       THEN os' = [o EXCEPT !.owner[l] = t] /\ UNCHANGED current
       ELSE Switch(SleepOn(o, t, l))
    /\ UNCHANGED <<again, yields>>

Wait(o, t, c, l, next) ==       \* ... when it was signalled and has the lock again
    /\ pc' = [pc EXCEPT ![t] = next]
    /\ again' = [again EXCEPT ![t] = l]
    /\ Switch(SleepOn(Release(o, l), t, c))
    /\ UNCHANGED yields

WaitOutside(o, t, c, next) ==   \* ... likewise, outsideLock being free by then
    /\ pc' = [pc EXCEPT ![t] = next]
    /\ Switch(SleepOn(o, t, c))
    /\ UNCHANGED <<again, yields>>

Yield(o, t, next) ==            \* ... when its turn comes
    /\ pc' = [pc EXCEPT ![t] = next]
    /\ Switch(ReadyToRun(o, t))
    /\ UNCHANGED again

Finish(o, t) ==                 \* ... never
    /\ pc' = [pc EXCEPT ![t] = "finished"]
    /\ Switch(o)
    /\ UNCHANGED <<again, yields>>

GoOn(o, t, next) ==             \* ... at once
    /\ pc' = [pc EXCEPT ![t] = next]
    /\ os' = o
    /\ UNCHANGED <<current, again, yields>>

At(t, label) == current = t /\ again[t] = None /\ pc[t] = label

\* The end of Condition::Wait.
Reacquire(t) ==
    /\ current = t
    /\ again[t] # None
    /\ IF os.owner[again[t]] = None
       THEN os' = [os EXCEPT !.owner[again[t]] = t] /\ UNCHANGED current
       ELSE Switch(SleepOn(os, t, again[t]))
    /\ again' = [again EXCEPT ![t] = None]
    /\ UNCHANGED <<pc, yields, clerk, papers, cash, senatorFlag, rest>>

-----------------------------------------------------------------------------
(***************************************************************************)
(* The start: Main has forked the manager and the clerks.                  *)
(***************************************************************************)
NewClerk ==
    [state |-> "FREE", line |-> 0, bribe |-> 0, senatorInLine |-> FALSE,
     toFile |-> 0, money |-> 0, picLiked |-> FALSE, branch |-> "none"]

NewData ==
    [arrived |-> FALSE, outside |-> FALSE, social |-> FALSE, picture |-> FALSE,
     passport |-> FALSE, paid |-> FALSE]

Init ==
    /\ os = [ready |-> <<Manager>> \o ClerkSeq,
             owner |-> [l \in Lock |-> None],
             queue |-> [q \in Lock \cup Condition |-> <<>>]]
    /\ current = Main
    /\ pc = [t \in Thread |-> IF t = Main THEN "fork" ELSE "start"]
    /\ again = [t \in Thread |-> None]
    /\ yields = [t \in Thread |-> 0]
    /\ clerk = [k \in Clerk |-> NewClerk]
    /\ data = [v \in Visitor |-> NewData]
    /\ plan = [v \in Visitor |-> <<>>]
    /\ my = [v \in Visitor |-> None]
    /\ bribed = [v \in Visitor |-> FALSE]
    /\ money \in [Customer -> StartMoney]
    /\ totalSpent = 0
    /\ counted = 0
    /\ senatorFlag = FALSE
    /\ numSenators \in 0 .. MaxSenators
    /\ forked = 0
    /\ round = 0
    /\ retakes = 0
    /\ closed = FALSE

\* Main forks the customers and then the senators, and yields after each.
Arrivals ==
    [i \in 1 .. NumCustomers + numSenators |->
        IF i <= NumCustomers THEN <<"customer", i - 1>>
        ELSE <<"senator", i - 1 - NumCustomers>>]

Fork ==
    /\ At(Main, "fork")
    /\ IF forked < Len(Arrivals)
       THEN /\ forked' = forked + 1
            /\ \E n \in 0 .. MaxGap : yields' = [yields EXCEPT ![Main] = n]
            /\ os' = ReadyToRun(os, Arrivals[forked + 1])
            /\ pc' = [pc EXCEPT ![Main] = "gap"]
            /\ UNCHANGED <<current, again>>
       ELSE Finish(os, Main) /\ UNCHANGED forked
    /\ UNCHANGED <<clerk, papers, cash, senatorFlag, numSenators, round, retakes, closed>>

Gap ==
    /\ At(Main, "gap")
    /\ IF yields[Main] > 0
       THEN Yield(os, Main, "gap") /\ yields' = [yields EXCEPT ![Main] = @ - 1]
       ELSE GoOn(os, Main, "fork")
    /\ UNCHANGED <<clerk, papers, cash, senatorFlag, rest>>

-----------------------------------------------------------------------------
(***************************************************************************)
(* Customers.  "door": checkSenator, before the office and before every    *)
(* counter.                                                                *)
(***************************************************************************)
checkSenator(c, next) ==
    IF senatorFlag
    THEN /\ data' = [data EXCEPT ![c].outside = TRUE]
         /\ WaitOutside(os, c, OutsideCV, next)
    ELSE GoOn(os, c, next) /\ UNCHANGED data

CustomerStart(c) ==
    /\ At(c, "start")
    /\ checkSenator(c, "arrive")
    /\ UNCHANGED <<clerk, plan, my, bribed, cash, senatorFlag, rest>>

Plans == {<<"app", "pic", "pass", "cash">>, <<"pic", "app", "pass", "cash">>}

CustomerArrive(c) ==
    /\ At(c, "arrive")
    /\ data' = [data EXCEPT ![c].arrived = TRUE]
    /\ \E p \in Plans : plan' = [plan EXCEPT ![c] = p]
    /\ GoOn(os, c, "next")
    /\ UNCHANGED <<clerk, my, bribed, cash, senatorFlag, rest>>

CustomerNext(c) ==
    /\ At(c, "next")
    /\ IF plan[c] = <<>>
       THEN Finish(os, c) /\ UNCHANGED data
       ELSE checkSenator(c, "enter")
    /\ UNCHANGED <<clerk, plan, my, bribed, cash, senatorFlag, rest>>

Enter(v) ==
    /\ At(v, "enter")
    /\ Acquire(os, v, LineLock, "choose")
    /\ UNCHANGED <<clerk, papers, cash, senatorFlag, rest>>

(***************************************************************************)
(* The choice of a line.  A busy clerk counts as one more in line, a clerk *)
(* on break as two; a bribe line counts as it is.  The last loop of the    *)
(* code is for the case that no line was short enough.                     *)
(***************************************************************************)
Cost(k) == clerk[k].line + (CASE clerk[k].state = "FREE" -> 0
                              [] clerk[k].state = "BUSY" -> 1
                              [] clerk[k].state = "BREAK" -> 2)

Better(c, best, k) ==
    LET b == IF Cost(k) < best.size
             THEN [line |-> k, size |-> Cost(k), bribe |-> FALSE]
             ELSE best
    IN  IF clerk[k].state # "BREAK" /\ money[c] >= 5 /\ clerk[k].bribe < b.size
        THEN [line |-> k, size |-> clerk[k].bribe, bribe |-> TRUE]
        ELSE b

Shorter(best, k) ==
    IF clerk[k].line < best.size
    THEN [best EXCEPT !.line = k, !.size = clerk[k].line] ELSE best

Choice(c, kind) ==
    LET start == [line |-> None, size |-> NumCustomers + 1, bribe |-> FALSE]
        best == FoldLeft(LAMBDA b, k : Better(c, b, k), start, ClerksOf(kind))
    IN  IF best.line = None
        THEN FoldLeft(Shorter, start, ClerksOf(kind))
        ELSE best

ChooseLine(c, kind) ==
    LET choice == Choice(c, kind)
        k == choice.line
    IN  /\ At(c, "choose")
        /\ my' = [my EXCEPT ![c] = k]
        /\ bribed' = [bribed EXCEPT ![c] = choice.bribe]
        /\ IF choice.bribe
           THEN /\ money' = [money EXCEPT ![c] = @ - 5]
                /\ totalSpent' = totalSpent + 5
                /\ clerk' = [clerk EXCEPT ![k].money = @ + 5, ![k].bribe = @ + 1]
                /\ Wait(os, c, BribeCV(k), LineLock, "called")
           ELSE /\ clerk' = [clerk EXCEPT ![k].line = @ + 1]
                /\ Wait(os, c, LineCV(k), LineLock, "called")
                /\ UNCHANGED <<money, totalSpent>>
        /\ UNCHANGED <<data, plan, counted, senatorFlag, rest>>

\* Out of the line: outside when a senator is present, else to the counter.
Called(c) ==
    LET k == my[c]
        left == IF bribed[c] THEN [clerk[k] EXCEPT !.bribe = @ - 1]
                ELSE [clerk[k] EXCEPT !.line = @ - 1]
    IN  /\ At(c, "called")
        /\ IF senatorFlag
           THEN /\ clerk' = [clerk EXCEPT ![k] = left]
                /\ data' = [data EXCEPT ![c].outside = TRUE]
                /\ WaitOutside(Release(os, LineLock), c, OutsideCV, "enter")
           ELSE /\ clerk' = [clerk EXCEPT ![k] = [left EXCEPT !.state = "BUSY"]]
                /\ Acquire(os, c, CounterLock(k), "counter")
                /\ UNCHANGED data
        /\ UNCHANGED <<plan, my, bribed, cash, senatorFlag, rest>>

(***************************************************************************)
(* At the counter, for customers and senators alike.  Only the cashier is  *)
(* paid here.                                                              *)
(***************************************************************************)
Pays(v, kind) ==
    IF kind # "cash" THEN UNCHANGED <<money, totalSpent>>
    ELSE /\ totalSpent' = totalSpent + 1
         /\ money' = IF v \in Customer THEN [money EXCEPT ![v] = @ - 1] ELSE money

\* Mutant: the visitor forgets to tell the clerk.
GiveNumberSilently(v, kind) ==
    LET k == my[v] IN
    /\ At(v, "counter")
    /\ clerk' = [clerk EXCEPT ![k].toFile = v[2]]
    /\ Pays(v, kind)
    /\ Wait(Release(os, LineLock), v, ClerkCV(k), CounterLock(k),
            IF kind = "pic" THEN "look" ELSE "served")
    /\ UNCHANGED <<papers, counted, senatorFlag, rest>>

GiveNumber(v, kind) ==
    LET k == my[v] IN
    /\ At(v, "counter")
    /\ clerk' = [clerk EXCEPT ![k].toFile = v[2]]
    /\ Pays(v, kind)
    /\ Wait(Signal(Release(os, LineLock), ClerkCV(k)), v, ClerkCV(k), CounterLock(k),
            IF kind = "pic" THEN "look" ELSE "served")
    /\ UNCHANGED <<papers, counted, senatorFlag, rest>>

LeaveCounter(v) ==
    LET k == my[v] IN
    /\ At(v, "served")
    /\ clerk' = [clerk EXCEPT ![k].state = "FREE"]
    /\ plan' = [plan EXCEPT ![v] = Tail(@)]
    /\ GoOn(Release(Signal(os, ClerkCV(k)), CounterLock(k)), v, "next")
    /\ UNCHANGED <<data, my, bribed, cash, senatorFlag, rest>>

\* The picture is liked nine times out of ten.
LookAtPicture(v) ==
    LET k == my[v] IN
    /\ At(v, "look")
    /\ \/ /\ clerk' = [clerk EXCEPT ![k].picLiked = TRUE]
          /\ Wait(Signal(os, ClerkCV(k)), v, ClerkCV(k), CounterLock(k), "liked")
          /\ UNCHANGED retakes
       \/ /\ retakes < MaxRetakes
          /\ retakes' = retakes + 1
          /\ Wait(Signal(os, ClerkCV(k)), v, ClerkCV(k), CounterLock(k), "retake")
          /\ UNCHANGED clerk
    /\ UNCHANGED <<papers, cash, senatorFlag, numSenators, forked, round, closed>>

Retake(v) ==
    LET k == my[v] IN
    /\ At(v, "retake")
    /\ Wait(Signal(os, ClerkCV(k)), v, ClerkCV(k), CounterLock(k), "look")
    /\ UNCHANGED <<clerk, papers, cash, senatorFlag, rest>>

LeavePicture(v) ==
    /\ At(v, "liked")
    /\ plan' = [plan EXCEPT ![v] = Tail(@)]
    /\ GoOn(Release(os, CounterLock(my[v])), v, "next")
    /\ UNCHANGED <<clerk, data, my, bribed, cash, senatorFlag, rest>>

Visits(v, kind) == plan[v] # <<>> /\ Head(plan[v]) = kind

goToAppClerk(c) ==
    /\ Visits(c, "app")
    /\ \/ Enter(c) \/ ChooseLine(c, "app") \/ Called(c)
       \/ GiveNumber(c, "app") \/ LeaveCounter(c)

goToPicClerk(c) ==
    /\ Visits(c, "pic")
    /\ \/ Enter(c) \/ ChooseLine(c, "pic") \/ Called(c) \/ GiveNumber(c, "pic")
       \/ LookAtPicture(c) \/ Retake(c) \/ LeavePicture(c)

goToPassClerk(c) ==
    /\ Visits(c, "pass")
    /\ \/ Enter(c) \/ ChooseLine(c, "pass") \/ Called(c)
       \/ GiveNumber(c, "pass") \/ LeaveCounter(c)

goToCashier(c) ==
    /\ Visits(c, "cash")
    /\ \/ Enter(c) \/ ChooseLine(c, "cash") \/ Called(c)
       \/ GiveNumber(c, "cash") \/ LeaveCounter(c)

CustomerRun(c) ==
    \/ CustomerStart(c) \/ CustomerArrive(c) \/ CustomerNext(c)
    \/ goToAppClerk(c) \/ goToPicClerk(c) \/ goToPassClerk(c) \/ goToCashier(c)

-----------------------------------------------------------------------------
(***************************************************************************)
(* Senators: one at a time, admitted by the manager, always to the first   *)
(* clerk of a kind.                                                        *)
(***************************************************************************)
SenatorStart(s) ==
    /\ At(s, "start")
    /\ Acquire(os, s, SenatorLock, "flag")
    /\ UNCHANGED <<clerk, papers, cash, senatorFlag, rest>>

SenatorFlag(s) ==
    /\ At(s, "flag")
    /\ senatorFlag' = TRUE
    /\ WaitOutside(os, s, DoorCV, "arrive")
    /\ UNCHANGED <<clerk, papers, cash, rest>>

SenatorArrive(s) ==
    /\ At(s, "arrive")
    /\ data' = [data EXCEPT ![s].arrived = TRUE]
    /\ \E p \in Plans : plan' = [plan EXCEPT ![s] = p]
    /\ GoOn(os, s, "next")
    /\ UNCHANGED <<clerk, my, bribed, cash, senatorFlag, rest>>

SenatorLeave(s) ==
    /\ At(s, "next")
    /\ plan[s] = <<>>
    /\ senatorFlag' = FALSE
    /\ Finish(Release(Broadcast(os, OutsideCV), SenatorLock), s)
    /\ UNCHANGED <<clerk, papers, cash, rest>>

SenatorEnter(s) ==
    /\ At(s, "next")
    /\ Acquire(os, s, LineLock, "queue")
    /\ UNCHANGED <<clerk, papers, cash, senatorFlag, rest>>

SenatorQueue(s, kind) ==
    LET k == <<kind, 0>> IN
    /\ At(s, "queue")
    /\ my' = [my EXCEPT ![s] = k]
    /\ clerk' = [clerk EXCEPT ![k].senatorInLine = TRUE]
    /\ Wait(os, s, SenatorCV(k), LineLock, "called")
    /\ UNCHANGED <<data, plan, bribed, cash, senatorFlag, rest>>

SenatorCalled(s) ==
    LET k == my[s] IN
    /\ At(s, "called")
    /\ clerk' = [clerk EXCEPT ![k].senatorInLine = FALSE, ![k].state = "BUSY"]
    /\ Acquire(os, s, CounterLock(k), "counter")
    /\ UNCHANGED <<papers, cash, senatorFlag, rest>>

SenatorGoToAppClerk(s) ==
    /\ Visits(s, "app")
    /\ \/ SenatorEnter(s) \/ SenatorQueue(s, "app") \/ SenatorCalled(s)
       \/ GiveNumber(s, "app") \/ LeaveCounter(s)

SenatorGoToPicClerk(s) ==
    /\ Visits(s, "pic")
    /\ \/ SenatorEnter(s) \/ SenatorQueue(s, "pic") \/ SenatorCalled(s)
       \/ GiveNumber(s, "pic") \/ LookAtPicture(s) \/ Retake(s) \/ LeavePicture(s)

SenatorGoToPassClerk(s) ==
    /\ Visits(s, "pass")
    /\ \/ SenatorEnter(s) \/ SenatorQueue(s, "pass") \/ SenatorCalled(s)
       \/ GiveNumber(s, "pass") \/ LeaveCounter(s)

SenatorGoToCashier(s) ==
    /\ Visits(s, "cash")
    /\ \/ SenatorEnter(s) \/ SenatorQueue(s, "cash") \/ SenatorCalled(s)
       \/ GiveNumber(s, "cash") \/ LeaveCounter(s)

SenatorRun(s) ==
    \/ SenatorStart(s) \/ SenatorFlag(s) \/ SenatorArrive(s) \/ SenatorLeave(s)
    \/ SenatorGoToAppClerk(s) \/ SenatorGoToPicClerk(s)
    \/ SenatorGoToPassClerk(s) \/ SenatorGoToCashier(s)

-----------------------------------------------------------------------------
(***************************************************************************)
(* Clerks.  The top of the loop: call a visitor and keep the counter for   *)
(* him, or go on break.                                                    *)
(***************************************************************************)
ClerkStart(k) ==
    /\ At(k, "start")
    /\ Acquire(os, k, LineLock, "decide")
    /\ UNCHANGED <<clerk, papers, cash, senatorFlag, rest>>

\* Clerk::broadcastOnLineCV, called when somebody stands in the regular line.
SendOut(o, k) ==
    LET cleared == Broadcast(o, LineCV(k)) IN
    CASE clerk[k].line = 0 -> o
      [] clerk[k].line > 0 /\ clerk[k].bribe = 0 -> cleared
      [] OTHER -> Broadcast(cleared, BribeCV(k))

\* Mutant: the whole line is called.
CallAll(k, o, cv, branch) ==
    /\ clerk' = [clerk EXCEPT ![k].state = "BUSY", ![k].branch = branch]
    /\ Acquire(Broadcast(o, cv), k, CounterLock(k), "open")

CallIn(k, o, cv, branch) ==
    /\ clerk' = [clerk EXCEPT ![k].state = "BUSY", ![k].branch = branch]
    /\ Acquire(Signal(o, cv), k, CounterLock(k), "open")

GoOnBreak(k, o) ==
    /\ clerk' = [clerk EXCEPT ![k].state = "BREAK"]
    /\ Acquire(Release(o, LineLock), k, CounterLock(k), "break")

Decide(k) ==
    LET me == clerk[k]
        o == SendOut(os, k)
    IN  /\ At(k, "decide")
        /\ CASE senatorFlag /\ me.senatorInLine -> CallIn(k, o, SenatorCV(k), "senator")
             [] senatorFlag /\ ~me.senatorInLine -> GoOnBreak(k, o)
             [] ~senatorFlag /\ me.bribe > 0 -> CallIn(k, os, BribeCV(k), "bribe")
             [] ~senatorFlag /\ me.bribe = 0 /\ me.line > 0
                    -> CallIn(k, os, LineCV(k), "regular")
             [] OTHER -> GoOnBreak(k, os)
        /\ UNCHANGED <<papers, cash, senatorFlag, rest>>

TakeBreak(k) ==
    /\ At(k, "break")
    /\ Wait(os, k, ClerkCV(k), CounterLock(k), "wake")
    /\ UNCHANGED <<clerk, papers, cash, senatorFlag, rest>>

\* The last lines of the loop and its first: the counter is free again.
NextRound(k) ==
    /\ clerk' = [clerk EXCEPT ![k].state = "FREE"]
    /\ Acquire(Release(os, CounterLock(k)), k, LineLock, "decide")

EndBreak(k) ==
    /\ At(k, "wake")
    /\ NextRound(k)
    /\ UNCHANGED <<papers, cash, senatorFlag, rest>>

OpenCounter(k) ==
    /\ At(k, "open")
    /\ clerk' = [clerk EXCEPT ![k].picLiked = FALSE]
    /\ Wait(Release(os, LineLock), k, ClerkCV(k), CounterLock(k), "received")
    /\ UNCHANGED <<papers, cash, senatorFlag, rest>>

\* Work takes some yields.
StartWork(k) ==
    /\ At(k, "received")
    /\ \E n \in 0 .. MaxWork - 1 : yields' = [yields EXCEPT ![k] = n]
    /\ Yield(os, k, "work")

Work(k) ==
    /\ At(k, "work")
    /\ yields[k] > 0
    /\ yields' = [yields EXCEPT ![k] = @ - 1]
    /\ Yield(os, k, "work")
    /\ UNCHANGED <<clerk, papers, cash, senatorFlag, rest>>

\* The person whose number the clerk was given, in the list of the branch.
Person(k) ==
    <<IF clerk[k].branch = "senator" THEN "senator" ELSE "customer", clerk[k].toFile>>

Answer(k, next) ==
    /\ At(k, "work")
    /\ yields[k] = 0
    /\ Wait(Signal(os, ClerkCV(k)), k, ClerkCV(k), CounterLock(k), next)

Dismiss(k) ==
    /\ At(k, "leave")
    /\ NextRound(k)
    /\ UNCHANGED <<papers, cash, senatorFlag, rest>>

AnyClerkRun(k) ==
    \/ ClerkStart(k) \/ Decide(k) \/ TakeBreak(k) \/ EndBreak(k)
    \/ OpenCounter(k) \/ Work(k) \/ Dismiss(k)

FileApplication(k) ==
    /\ Answer(k, "leave")
    /\ data' = [data EXCEPT ![Person(k)].social = TRUE]
    /\ UNCHANGED <<clerk, plan, my, bribed, cash, senatorFlag, rest>>

ApplicationClerkRun(k) ==
    /\ k[1] = "app"
    /\ \/ AnyClerkRun(k)
       \/ StartWork(k) /\ UNCHANGED <<clerk, papers, cash, senatorFlag, rest>>
       \/ FileApplication(k)

TakePicture(k) ==
    /\ Answer(k, "verdict")
    /\ UNCHANGED <<clerk, papers, cash, senatorFlag, rest>>

\* A liked picture ends the visit; else the visitor is told to pose again.
HearVerdict(k) ==
    LET o == Signal(os, ClerkCV(k)) IN
    /\ At(k, "verdict")
    /\ IF clerk[k].picLiked
       THEN /\ data' = [data EXCEPT ![Person(k)].picture = TRUE]
            /\ clerk' = [clerk EXCEPT ![k].state = "FREE"]
            /\ Acquire(Release(o, CounterLock(k)), k, LineLock, "decide")
       ELSE /\ Wait(o, k, ClerkCV(k), CounterLock(k), "received")
            /\ UNCHANGED <<data, clerk>>
    /\ UNCHANGED <<plan, my, bribed, cash, senatorFlag, rest>>

PictureClerkRun(k) ==
    /\ k[1] = "pic"
    /\ \/ AnyClerkRun(k)
       \/ StartWork(k) /\ UNCHANGED <<clerk, papers, cash, senatorFlag, rest>>
       \/ TakePicture(k) \/ HearVerdict(k)

Certify(k) ==
    /\ Answer(k, "leave")
    /\ data' = [data EXCEPT ![Person(k)].passport = TRUE]
    /\ UNCHANGED <<clerk, plan, my, bribed, cash, senatorFlag, rest>>

PassportClerkRun(k) ==
    /\ k[1] = "pass"
    /\ \/ AnyClerkRun(k)
       \/ StartWork(k) /\ UNCHANGED <<clerk, papers, cash, senatorFlag, rest>>
       \/ Certify(k)

(***************************************************************************)
(* The cashier puts the money away before his work for a customer who      *)
(* bribed, and after it for the others.                                    *)
(***************************************************************************)
Banked(k) == [clerk EXCEPT ![k].money = @ + 1]

ReceivePayment(k) ==
    /\ StartWork(k)
    /\ clerk' = IF clerk[k].branch = "bribe" THEN Banked(k) ELSE clerk
    /\ UNCHANGED <<papers, cash, senatorFlag, rest>>

\* Mutant: the payment of a customer who bribed is put away twice.
HandOutTwice(k) ==
    /\ Answer(k, "leave")
    /\ clerk' = Banked(k)
    /\ data' = [data EXCEPT ![Person(k)].paid = TRUE]
    /\ UNCHANGED <<plan, my, bribed, cash, senatorFlag, rest>>

HandOut(k) ==
    /\ Answer(k, "leave")
    /\ clerk' = IF clerk[k].branch = "bribe" THEN clerk ELSE Banked(k)
    /\ data' = [data EXCEPT ![Person(k)].paid = TRUE]
    /\ UNCHANGED <<plan, my, bribed, cash, senatorFlag, rest>>

CashierRun(k) ==
    /\ k[1] = "cash"
    /\ AnyClerkRun(k) \/ ReceivePayment(k) \/ HandOut(k)

-----------------------------------------------------------------------------
(***************************************************************************)
(* The manager.  The locks of clerks on break are free (CountersExclusive  *)
(* below), so that a check of all lines is one step.                       *)
(***************************************************************************)
Wake(o, ks) == FoldLeft(LAMBDA p, k : Signal(p, ClerkCV(k)), o, ks)

MustWake(k) ==
    /\ clerk[k].state = "BREAK"
    /\ \/ clerk[k].line > WakeLine[k[1]]
       \/ clerk[k].senatorInLine
       \/ clerk[k].line > 0 /\ senatorFlag

CustomersGone ==
    /\ \A k \in Clerk : clerk[k].state # "BUSY"
    /\ \A c \in Customer : data[c].arrived => data[c].outside

ManagerCheckLines ==
    LET woken == Wake(os, SelectSeq(ClerkSeq, MustWake))
        o == IF CustomersGone /\ senatorFlag THEN Signal(woken, DoorCV) ELSE woken
    IN  /\ pc[Manager] \in {"start", "check"} /\ current = Manager
        /\ Yield(o, Manager, "rest")
        /\ \E n \in 0 .. MaxRest - 1 : yields' = [yields EXCEPT ![Manager] = n]
        /\ round' = round + 1
        /\ UNCHANGED <<clerk, papers, cash, senatorFlag, numSenators, forked, retakes, closed>>

ManagerRest ==
    /\ At(Manager, "rest")
    /\ IF yields[Manager] > 0
       THEN Yield(os, Manager, "rest") /\ yields' = [yields EXCEPT ![Manager] = @ - 1]
       ELSE GoOn(os, Manager, IF round = Rounds THEN "count" ELSE "check")
    /\ UNCHANGED <<clerk, papers, cash, senatorFlag, rest>>

ManagerCountMoney ==
    /\ counted' = FoldLeft(LAMBDA sum, k : sum + clerk[k].money, counted, ClerkSeq)
    /\ clerk' = [k \in Clerk |-> [clerk[k] EXCEPT !.money = 0]]

Complete(v) ==
    data[v].arrived /\ data[v].social /\ data[v].picture /\ data[v].passport /\ data[v].paid

(***************************************************************************)
(* Each list is read up to its first person who is not complete, so that   *)
(* the absence of somebody behind him goes unnoticed.                      *)
(***************************************************************************)
FirstLate(list) == SelectInSeq(list, LAMBDA v : ~Complete(v))

\* Mutant: somebody who is here but not done counts as absent.
AllDone(list) == FirstLate(list) = 0

AllHere(list) == FirstLate(list) = 0 \/ data[list[FirstLate(list)]].arrived

Expected(role, n) == [i \in 1 .. n |-> <<role, i - 1>>]

ManagerCheckClose ==
    LET lists == {Expected("senator", numSenators), Expected("customer", NumCustomers)}
        done == \A list \in lists : FirstLate(list) = 0
        idle == /\ \A list \in lists : AllHere(list)
                /\ \A k \in Clerk : clerk[k].state = "BREAK"
        waiting == SelectSeq(ClerkSeq, LAMBDA k : idle /\ clerk[k].line > 0)
    IN  /\ At(Manager, "count")
        /\ ManagerCountMoney
        /\ closed' = done
        /\ round' = 0
        /\ IF done THEN Finish(os, Manager) ELSE GoOn(Wake(os, waiting), Manager, "check")
        /\ UNCHANGED <<papers, money, totalSpent, senatorFlag, numSenators, forked, retakes>>

ManagerRun == ManagerCheckLines \/ ManagerRest \/ ManagerCheckClose

-----------------------------------------------------------------------------
Next ==
    \/ \E t \in Thread : Reacquire(t)
    \/ Fork \/ Gap
    \/ \E c \in Customer : CustomerRun(c)
    \/ \E s \in Senator : SenatorRun(s)
    \/ \E k \in Clerk : ApplicationClerkRun(k) \/ PictureClerkRun(k)
                          \/ PassportClerkRun(k) \/ CashierRun(k)
    \/ ManagerRun

(***************************************************************************)
(* The thread that has the CPU goes on.  Yield loops, and the pictures     *)
(* that are disliked, are bounded, so this is all the fairness there is.   *)
(***************************************************************************)
Spec == Init /\ [][Next]_vars /\ WF_vars(Next)

-----------------------------------------------------------------------------
Sleeping(t) == \E q \in DOMAIN os.queue : Contains(os.queue[q], t)

\* Visitors between the call to a counter and the end of the visit there.
AtCounter(v) ==
    \/ pc[v] \in {"counter", "served", "look", "retake"}
    \/ pc[v] = "liked" /\ Sleeping(v)

(***************************************************************************)
(* At most one visitor is at a counter, none at the counter of a clerk on  *)
(* break, whose lock is free when the manager runs, and no customer while  *)
(* a senator is inside.                                                    *)
(***************************************************************************)
CountersExclusive ==
    /\ \A u, v \in Visitor : AtCounter(u) /\ AtCounter(v) /\ my[u] = my[v] => u = v
    /\ \A k \in Clerk : clerk[k].state = "BREAK" =>
          /\ current = Manager => os.owner[CounterLock(k)] = None
          /\ \A v \in Visitor : AtCounter(v) => my[v] # k
    /\ \A s \in Senator, c \in Customer :
          plan[s] # <<>> => ~AtCounter(c)

(***************************************************************************)
(* A clerk that waits at an open counter waits for somebody: a visitor     *)
(* that it called is on the way, or is there and about to signal it.  The  *)
(* exception is the visitor that was called and meets a senator.           *)
(***************************************************************************)
ClerkNotForgotten ==
    \A k \in Clerk :
        pc[k] \in {"received", "leave", "verdict"} /\ Sleeping(k) /\ ~senatorFlag =>
            \E v \in Visitor : /\ my[v] = k
                               /\ pc[v] = "called" \/ AtCounter(v)
                               /\ ~Sleeping(v)

(***************************************************************************)
(* No payment is lost or counted twice: what was spent has been counted,   *)
(* is with a clerk, or was paid to a cashier that has not put it away, and *)
(* when the office closes all of it has been counted.  The ASSERT of the   *)
(* count (threadtest.cc, line 1766) says more, that the manager has always *)
(* counted everything, and is wrong while a payment is InFlight: the       *)
(* customer adds to totalSpent (line 955) before the cashier has the money *)
(* (lines 1643 to 1645).                                                   *)
(***************************************************************************)
BankedFirst(k) == clerk[k].branch = "bribe" /\ pc[k] = "work"

InFlight ==
    {v \in Visitor : /\ Visits(v, "cash") /\ pc[v] = "served"
                     /\ ~data[v].paid /\ ~BankedFirst(my[v])}

MoneyAccounted ==
    /\ totalSpent = Cardinality(InFlight)
                      + FoldLeft(LAMBDA sum, k : sum + clerk[k].money, counted, ClerkSeq)
    /\ closed => counted = totalSpent

(***************************************************************************)
(* The manager closes the office in the end, unless a senator waits at the *)
(* door for ever; without senators it always does.                         *)
(***************************************************************************)
SenatorAtDoor == numSenators > 0 /\ os.queue[DoorCV] # <<>>

OfficeCloses == <>(closed \/ []SenatorAtDoor)
=============================================================================
