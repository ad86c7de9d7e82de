------------------------------- MODULE Devices -------------------------------
(***************************************************************************)
(* The simulated hardware and the synchronous devices on top of it: the    *)
(* interrupts and the clock (machine/interrupt.cc), the timer (timer.cc),  *)
(* the disk (disk.cc, filesys/synchdisk.cc) and the console (console.cc,   *)
(* userprog/synchconsole.cc), with the threads that use them.              *)
(*                                                                         *)
(* Interrupts come only when a thread enables them (OneTick) or when no    *)
(* thread is ready (Idle).  `mode' says where the machine is: "run", a     *)
(* thread runs; "tick", the loop of OneTick; "idle", the first test of     *)
(* Idle; "drain", its loop; "halted".                                      *)
(*                                                                         *)
(* Time is kept relative to now: a pending interrupt has the ticks left    *)
(* until it is due, the clock is kept modulo one turn of the disk, and     *)
(* the age of the track buffer up to one turn, after which it holds the    *)
(* whole track.  No test of the code can tell more.                        *)
(***************************************************************************)
EXTENDS Integers, Sequences, FiniteSets

CONSTANTS
    NumThreads,
    SectorsPerTrack, NumTracks,             \* disk.h
    RotationTime, SeekTime, ConsoleTime,    \* stats.h
    SystemTick, UserTick,
    Intervals,      \* the random intervals of the timer
    MaxLine         \* the longest line read or written

Thread == 1..NumThreads
None == 0
Sector == 0..(SectorsPerTrack * NumTracks - 1)
Turn == RotationTime * SectorsPerTrack
\* The bytes that are typed.  0xFF is not among them: incoming is a char, and
\* with that byte in it it equals EOF (console.cc:101).
EOF == "EOF"
Char == {"char", "newline"}
Device == {"disk", "out", "in"}

ASSUME DevicesAssumption ==
    /\ {NumThreads, SectorsPerTrack, NumTracks, RotationTime, SeekTime, ConsoleTime,
        SystemTick, UserTick} \subseteq Nat \ {0}
    /\ Intervals \subseteq Nat \ {0} /\ Intervals # {}
    /\ MaxLine \in Nat

VARIABLES
    mode, current, ready,
    pc,             \* thread -> where it is
    work,           \* thread -> the request it is serving
    waking,         \* threads that enable interrupts when they run next
    pending,        \* the sorted list of pending interrupts
    yieldOnReturn,
    clock,          \* totalTicks % Turn
    active,
    lastTrack,      \* the track of lastSector
    bufferSector,   \* the sector under the head at bufferInit
    bufferAge,      \* totalTicks - bufferInit, at most Turn
    incoming, putBusy,
    lock,           \* device -> its lock
    sem             \* device -> its semaphore

cpu == <<mode, current, ready, waking>>
time == <<pending, clock, bufferAge>>
diskVars == <<active, lastTrack, bufferSector>>
consoleVars == <<incoming, putBusy>>
vars == <<cpu, pc, work, time, yieldOnReturn, diskVars, consoleVars, lock, sem>>

NoWork == [dev |-> "disk", sector |-> 0, writing |-> FALSE, left |-> 0]

-----------------------------------------------------------------------------
\* List::SortedInsert: after every element whose key is not greater.
SortedInsert(list, type, ticks) ==
    LET n == Cardinality({i \in DOMAIN list : list[i].ticks <= ticks})
    IN  SubSeq(list, 1, n) \o <<[type |-> type, ticks |-> ticks]>>
          \o SubSeq(list, n + 1, Len(list))

Elapse(d) ==
    /\ clock' = (clock + d) % Turn
    /\ bufferAge' = IF bufferAge + d > Turn THEN Turn ELSE bufferAge + d

Later(list, d) == [i \in DOMAIN list |-> [list[i] EXCEPT !.ticks = @ - d]]

\* Interrupt::SetLevel(IntOn) by the running thread: OneTick begins.
Enable ==
    /\ Elapse(SystemTick)
    /\ pending' = Later(pending, SystemTick)
    /\ mode' = "tick"

(***************************************************************************)
(* The machine starts with or without a console, with or without timer.    *)
(***************************************************************************)
Init ==
    /\ mode = "run" /\ current = 1
    /\ ready = [i \in 1..(NumThreads - 1) |-> i + 1]
    /\ waking = Thread \ {1}
    /\ pc = [t \in Thread |-> "idle"]
    /\ work = [t \in Thread |-> NoWork]
    /\ \E hasTimer, hasConsole \in BOOLEAN : \E d \in Intervals :
         LET timer == IF hasTimer THEN SortedInsert(<<>>, "timer", d) ELSE <<>>
         IN  pending = IF hasConsole THEN SortedInsert(timer, "in", ConsoleTime) ELSE timer
    /\ yieldOnReturn = FALSE
    /\ clock = 0
    /\ active = FALSE /\ lastTrack = 0 /\ bufferSector = 0 /\ bufferAge = 0
    /\ incoming = EOF /\ putBusy = FALSE
    /\ lock = [d \in Device |-> [owner |-> None, waiting |-> <<>>]]
    /\ sem = [d \in Device |-> [value |-> 0, waiting |-> <<>>]]

-----------------------------------------------------------------------------
(***************************************************************************)
(* The disk's timing.                                                      *)
(***************************************************************************)
Track(s) == s \div SectorsPerTrack
Distance(i, j) == IF i >= j THEN i - j ELSE j - i
Seek(s) == SeekTime * Distance(Track(s), lastTrack)

\* Mutant: the head is at a sector boundary whenever the seek ends.
NoRotation(s) == 0
\* Disk::TimeToSeek: the ticks to the next sector boundary after the seek.
Rotation(s) == LET over == (clock + Seek(s)) % RotationTime
               IN  IF over > 0 THEN RotationTime - over ELSE 0

ModuloDiff(to, from) ==
    ((to % SectorsPerTrack) - (from % SectorsPerTrack) + SectorsPerTrack) % SectorsPerTrack

InTrackBuffer(s) ==
    /\ Seek(s) = 0
    /\ (bufferAge + Rotation(s)) \div RotationTime > ModuloDiff(s, bufferSector)

ComputeLatency(s, writing) ==
    LET after == clock + Seek(s) + Rotation(s)
    IN  IF ~writing /\ InTrackBuffer(s)
        THEN RotationTime
        ELSE Seek(s) + Rotation(s) + ModuloDiff(s, after \div RotationTime) * RotationTime
               + RotationTime

\* Disk::UpdateLast.
UpdateLast(s) ==
    LET after == Seek(s) + Rotation(s)
    IN  /\ lastTrack' = Track(s)
        /\ IF Seek(s) # 0
           THEN /\ bufferAge' = -after
                /\ bufferSector' = ((clock + after) \div RotationTime) % SectorsPerTrack
           ELSE UNCHANGED <<bufferAge, bufferSector>>

-----------------------------------------------------------------------------
(***************************************************************************)
(* Threads.  Dispatch(r) gives the CPU to the first ready thread, if any:  *)
(* the end of Thread::Sleep.                                               *)
(***************************************************************************)
Dispatch(r) ==
    IF r = <<>>
    THEN mode' = "idle" /\ current' = None /\ ready' = r
    ELSE mode' = "run" /\ current' = Head(r) /\ ready' = Tail(r)

Running(t) == mode = "run" /\ current = t /\ t \notin waking

\* A thread that slept in Acquire or Yield, or is new, enables interrupts.
Resume(t) ==
    /\ mode = "run" /\ current = t /\ t \in waking
    /\ waking' = waking \ {t}
    /\ Enable
    /\ UNCHANGED <<current, ready, pc, work, yieldOnReturn, diskVars, consoleVars,
                   lock, sem>>

\* Machine::Run: a user instruction, and OneTick.
UserInstruction(t) ==
    /\ Running(t) /\ pc[t] = "idle"
    /\ Elapse(UserTick)
    /\ pending' = Later(pending, UserTick)
    /\ mode' = "tick"
    /\ UNCHANGED <<current, ready, waking, pc, work, yieldOnReturn, diskVars, consoleVars,
                   lock, sem>>

Finish(t) ==
    /\ Running(t) /\ pc[t] = "idle"
    /\ pc' = [pc EXCEPT ![t] = "done"]
    /\ Dispatch(ready)
    /\ UNCHANGED <<waking, work, time, yieldOnReturn, diskVars, consoleVars, lock, sem>>

HasConsole == \E i \in DOMAIN pending : pending[i].type = "in"

Begin(t, w) ==
    /\ Running(t) /\ pc[t] = "idle"
    /\ work' = [work EXCEPT ![t] = w]
    /\ pc' = [pc EXCEPT ![t] = "acquire"]
    /\ UNCHANGED <<cpu, time, yieldOnReturn, diskVars, consoleVars, lock, sem>>

\* SynchDisk::ReadSector and WriteSector, SynchConsole::WriteLine and ReadLine.
Sectors(t) == \E s \in Sector, b \in BOOLEAN :
    Begin(t, [dev |-> "disk", sector |-> s, writing |-> b, left |-> 0])
WriteLine(t) == HasConsole /\ \E n \in 0..MaxLine :
    Begin(t, [dev |-> "out", sector |-> 0, writing |-> TRUE, left |-> n])
ReadLine(t) == HasConsole /\ \E n \in 0..MaxLine :
    Begin(t, [dev |-> "in", sector |-> 0, writing |-> FALSE, left |-> n])

\* Mutant: the lock is not waited for.
AcquireAtOnce(t) ==
    /\ Running(t) /\ pc[t] = "acquire"
    /\ pc' = [pc EXCEPT ![t] = "io"]
    /\ lock' = [lock EXCEPT ![work[t].dev].owner = t]
    /\ Enable
    /\ UNCHANGED <<current, ready, waking, work, yieldOnReturn, diskVars, consoleVars, sem>>

Acquire(t) ==
    LET d == work[t].dev IN
    /\ Running(t) /\ pc[t] = "acquire"
    /\ pc' = [pc EXCEPT ![t] = "io"]
    /\ IF lock[d].owner = None
       THEN /\ lock' = [lock EXCEPT ![d].owner = t]
            /\ Enable
            /\ UNCHANGED <<current, ready, waking>>
       ELSE /\ lock' = [lock EXCEPT ![d].waiting = Append(@, t)]
            /\ waking' = waking \cup {t}
            /\ Dispatch(ready)
            /\ UNCHANGED time
    /\ UNCHANGED <<work, yieldOnReturn, diskVars, consoleVars, sem>>

Release(t) ==
    LET d == work[t].dev
        q == lock[d].waiting
    IN
    /\ Running(t) /\ pc[t] = "release"
    /\ pc' = [pc EXCEPT ![t] = "idle"]
    /\ IF q = <<>>
       THEN lock' = [lock EXCEPT ![d].owner = None] /\ UNCHANGED ready
       ELSE lock' = [lock EXCEPT ![d] = [owner |-> Head(q), waiting |-> Tail(q)]]
              /\ ready' = Append(ready, Head(q))
    /\ work' = [work EXCEPT ![t] = NoWork]
    /\ Enable
    /\ UNCHANGED <<current, waking, yieldOnReturn, diskVars, consoleVars, sem>>

\* Semaphore::P; a thread that was woken tests the value again.
P(t) ==
    LET d == work[t].dev IN
    /\ Running(t) /\ pc[t] = "P"
    /\ IF sem[d].value = 0
       THEN /\ sem' = [sem EXCEPT ![d].waiting = Append(@, t)]
            /\ Dispatch(ready)
            /\ UNCHANGED <<pc, time>>
       ELSE /\ sem' = [sem EXCEPT ![d].value = @ - 1]
            /\ pc' = [pc EXCEPT ![t] = [disk |-> "release", out |-> "io", in |-> "get"][d]]
            /\ Enable
            /\ UNCHANGED <<current, ready>>
    /\ UNCHANGED <<waking, work, yieldOnReturn, diskVars, consoleVars, lock>>

\* Semaphore::V in an interrupt handler.
V(d) ==
    LET q == sem[d].waiting IN
    IF q = <<>>
    THEN sem' = [sem EXCEPT ![d].value = @ + 1] /\ UNCHANGED ready
    ELSE sem' = [sem EXCEPT ![d] = [value |-> @.value + 1, waiting |-> Tail(q)]]
           /\ ready' = Append(ready, Head(q))

\* Disk::ReadRequest and WriteRequest.
Request(t) ==
    LET w == work[t] IN
    /\ Running(t) /\ pc[t] = "io" /\ w.dev = "disk"
    /\ pending' = SortedInsert(pending, "disk", ComputeLatency(w.sector, w.writing))
    /\ active' = TRUE
    /\ UpdateLast(w.sector)
    /\ work' = [work EXCEPT ![t] = NoWork]
    /\ pc' = [pc EXCEPT ![t] = "P"]
    /\ UNCHANGED <<cpu, clock, yieldOnReturn, consoleVars, lock, sem>>

PutChar(t) ==
    /\ Running(t) /\ pc[t] = "io" /\ work[t].dev = "out" /\ work[t].left > 0
    /\ work' = [work EXCEPT ![t].left = @ - 1]
    /\ putBusy' = TRUE
    /\ pending' = SortedInsert(pending, "out", ConsoleTime)
    /\ pc' = [pc EXCEPT ![t] = "P"]
    /\ UNCHANGED <<cpu, clock, bufferAge, yieldOnReturn, diskVars, incoming, lock, sem>>

\* ReadLine waits for a character ...
AwaitChar(t) ==
    /\ Running(t) /\ pc[t] = "io" /\ work[t].dev = "in" /\ work[t].left > 0
    /\ pc' = [pc EXCEPT ![t] = "P"]
    /\ UNCHANGED <<cpu, work, time, yieldOnReturn, diskVars, consoleVars, lock, sem>>

\* ... and takes it; a newline ends the line.
GetChar(t) ==
    /\ Running(t) /\ pc[t] = "get"
    /\ work' = [work EXCEPT ![t].left = IF incoming = "newline" THEN 0 ELSE @ - 1]
    /\ incoming' = EOF
    /\ pc' = [pc EXCEPT ![t] = "io"]
    /\ UNCHANGED <<cpu, time, yieldOnReturn, diskVars, putBusy, lock, sem>>

EndLine(t) ==
    /\ Running(t) /\ pc[t] = "io" /\ work[t].dev # "disk" /\ work[t].left = 0
    /\ pc' = [pc EXCEPT ![t] = "release"]
    /\ UNCHANGED <<cpu, work, time, yieldOnReturn, diskVars, consoleVars, lock, sem>>

-----------------------------------------------------------------------------
(***************************************************************************)
(* Interrupt handlers.  `rest' is the pending list without the interrupt   *)
(* that occurs; a device that polls schedules its next interrupt first.    *)
(***************************************************************************)
TimerExpired(rest) ==
    /\ \E d \in Intervals : pending' = SortedInsert(rest, "timer", d)
    /\ yieldOnReturn' = TRUE
    /\ UNCHANGED <<ready, sem, active, consoleVars>>

DiskDone(rest) ==
    /\ pending' = rest
    /\ active' = FALSE
    /\ V("disk")
    /\ UNCHANGED <<yieldOnReturn, consoleVars>>

WriteDone(rest) ==
    /\ pending' = rest
    /\ putBusy' = FALSE
    /\ V("out")
    /\ UNCHANGED <<yieldOnReturn, active, incoming>>

\* Mutant: a buffered character is overwritten.
ReadAnyChar(rest) ==
    /\ pending' = SortedInsert(rest, "in", ConsoleTime)
    /\ \/ UNCHANGED <<incoming, ready, sem>>
       \/ incoming' \in Char /\ V("in")
    /\ UNCHANGED <<yieldOnReturn, active, putBusy>>

CheckCharAvail(rest) ==
    /\ pending' = SortedInsert(rest, "in", ConsoleTime)
    /\ \/ UNCHANGED <<incoming, ready, sem>>
       \/ incoming = EOF /\ incoming' \in Char /\ V("in")
    /\ UNCHANGED <<yieldOnReturn, active, putBusy>>

Handler(type, rest) ==
    \/ type = "timer" /\ TimerExpired(rest)
    \/ type = "disk" /\ DiskDone(rest)
    \/ type = "out" /\ WriteDone(rest)
    \/ type = "in" /\ CheckCharAvail(rest)

-----------------------------------------------------------------------------
(***************************************************************************)
(* Interrupt::CheckIfDue.  When the machine is idle and only the timer is  *)
(* left, its interrupt stays pending.                                      *)
(***************************************************************************)
Due == pending # <<>> /\ Head(pending).ticks <= 0

\* Mutant: other pending interrupts are not looked for.
TimerNext == pending # <<>> /\ Head(pending).type = "timer"
OnlyTimer == Len(pending) = 1 /\ Head(pending).type = "timer"

(***************************************************************************)
(* The loops of OneTick and of Idle.  The call that ends a loop has taken  *)
(* the first interrupt and puts it back, behind others of its time.        *)
(***************************************************************************)
PutBack ==
    IF pending = <<>> THEN pending
    ELSE SortedInsert(Tail(pending), Head(pending).type, Head(pending).ticks)

CheckIfDue ==
    /\ Due
    /\ \/ mode = "tick"
       \/ mode = "drain" /\ ~OnlyTimer
    /\ Handler(Head(pending).type, Tail(pending))
    /\ UNCHANGED <<mode, current, waking, pc, work, clock, bufferAge, lastTrack,
                   bufferSector, lock>>

\* Mutant: the wish to yield is dropped.
EndTickStays ==
    /\ mode = "tick" /\ ~Due
    /\ mode' = "run"
    /\ yieldOnReturn' = FALSE
    /\ pending' = PutBack
    /\ UNCHANGED <<current, ready, waking, pc, work, clock, bufferAge, diskVars, consoleVars,
                   lock, sem>>

\* The end of OneTick, with Thread::Yield when a handler asked for it.
EndTick ==
    /\ mode = "tick" /\ ~Due
    /\ mode' = "run"
    /\ yieldOnReturn' = FALSE
    /\ IF yieldOnReturn
       THEN /\ waking' = waking \cup {current}
            /\ IF ready = <<>>
               THEN UNCHANGED <<current, ready>>
               ELSE current' = Head(ready) /\ ready' = Append(Tail(ready), current)
       ELSE UNCHANGED <<current, ready, waking>>
    /\ pending' = PutBack
    /\ UNCHANGED <<pc, work, clock, bufferAge, diskVars, consoleVars, lock, sem>>

\* Interrupt::Idle: the clock goes to the next interrupt, which occurs ...
Idle ==
    LET d == IF Head(pending).ticks > 0 THEN Head(pending).ticks ELSE 0 IN
    /\ mode = "idle"
    /\ pending # <<>> /\ ~OnlyTimer
    /\ Elapse(d)
    /\ Handler(Head(pending).type, Later(Tail(pending), d))
    /\ mode' = "drain"
    /\ UNCHANGED <<current, waking, pc, work, lastTrack, bufferSector, lock>>

\* ... and after those that are due now the ready list is tried again.
EndIdle ==
    /\ mode = "drain"
    /\ ~Due \/ OnlyTimer
    /\ yieldOnReturn' = FALSE
    /\ Dispatch(ready)
    /\ pending' = PutBack
    /\ UNCHANGED <<waking, pc, work, clock, bufferAge, diskVars, consoleVars, lock, sem>>

Halt ==
    /\ mode = "idle"
    /\ pending = <<>> \/ OnlyTimer
    /\ mode' = "halted"
    /\ UNCHANGED <<current, ready, waking, pc, work, time, yieldOnReturn, diskVars,
                   consoleVars, lock, sem>>

-----------------------------------------------------------------------------
Step(t) ==
    \/ Resume(t) \/ UserInstruction(t) \/ Finish(t)
    \/ Sectors(t) \/ WriteLine(t) \/ ReadLine(t)
    \/ Acquire(t) \/ Release(t) \/ P(t)
    \/ Request(t) \/ PutChar(t) \/ AwaitChar(t) \/ GetChar(t) \/ EndLine(t)

Next ==
    \/ \E t \in Thread : Step(t)
    \/ CheckIfDue \/ EndTick \/ Idle \/ EndIdle \/ Halt

\* The machine runs until it halts.
Spec == Init /\ [][Next]_vars /\ WF_vars(Next)

-----------------------------------------------------------------------------
Count(type) == Cardinality({i \in DOMAIN pending : pending[i].type = type})
At(d, l) == {t \in Thread : pc[t] = l /\ work[t].dev = d}

(***************************************************************************)
(* A device has one request at a time, the interrupt of a request wakes    *)
(* the thread that made it, and the assertions of ReadRequest, of          *)
(* WriteRequest and of PutChar hold.  A character that was announced is in *)
(* the buffer until the reader takes it: none is overwritten, and ReadLine *)
(* never takes EOF.                                                        *)
(***************************************************************************)
Answered ==
    /\ Count("disk") + sem["disk"].value = Cardinality(At("disk", "P"))
    /\ Count("out") + sem["out"].value = Cardinality(At("out", "P"))
    /\ active <=> Count("disk") = 1
    /\ putBusy <=> Count("out") = 1
    /\ At("disk", "io") \ waking # {} => ~active
    /\ At("out", "io") \ waking # {} => ~putBusy
    /\ sem["in"].value + Cardinality(At("in", "get")) = IF incoming = EOF THEN 0 ELSE 1

(***************************************************************************)
(* The machine halts only when every thread has finished: an interrupt     *)
(* that a thread waits for keeps it running, although the timer alone does *)
(* not.                                                                    *)
(***************************************************************************)
HaltsWhenDone == mode = "halted" => \A t \in Thread : pc[t] = "done"

(***************************************************************************)
(* A request is answered no earlier than the sector has passed under the   *)
(* head: after the seek, or, for the track buffer, since the head came to  *)
(* the track.  A write is answered the first time that it has.             *)
(***************************************************************************)
PassesAt(s, ticks) == (clock + ticks) % Turn = (s % SectorsPerTrack) * RotationTime

LatencyRight ==
    mode = "run" /\ ~active =>
        \A s \in Sector :
          LET read == ComputeLatency(s, FALSE)
              write == ComputeLatency(s, TRUE)
              first == IF Seek(s) = 0 THEN -bufferAge ELSE Seek(s)
          IN  /\ \E b \in first..(read - RotationTime) : PassesAt(s, b)
              /\ PassesAt(s, write - RotationTime)
              /\ write - RotationTime >= Seek(s)
              /\ \A b \in Seek(s)..(write - RotationTime - 1) : ~PassesAt(s, b)

(***************************************************************************)
(* Every sector and every line that is written is written: the call        *)
(* returns, whatever the other threads compute, when there is a timer.     *)
(***************************************************************************)
HasTimer == \E i \in DOMAIN pending : pending[i].type = "timer"

RequestReturns ==
    \A t \in Thread :
        (HasTimer /\ pc[t] = "acquire" /\ work[t].dev # "in") ~> pc[t] = "idle"
=============================================================================
