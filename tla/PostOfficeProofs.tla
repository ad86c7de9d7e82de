-------------------------- MODULE PostOfficeProofs --------------------------
(***************************************************************************)
(* Proofs about PostOffice, for any machines, mailboxes, threads and       *)
(* letters.  Neither the threads nor the letters need be finitely many.    *)
(***************************************************************************)
EXTENDS PostOffice, FiniteSetTheorems, SequenceTheorems, TLAPS

-----------------------------------------------------------------------------
(***************************************************************************)
(* The inductive invariant.                                                *)
(***************************************************************************)
InSendPC == {"acquire", "driver", "sent"}
InGetPC == {"get", "asleep"}
Mailed == Letter \cup {None}

\* The values that the variables take.
TypeOK ==
    /\ pc \in [Thread -> {"idle"} \cup InSendPC \cup InGetPC]
    /\ mail \in [Thread -> Mailed]
    /\ got \in [Thread -> Mailed]
    /\ at \in [Thread -> Box \cup {None}]
    /\ unsent \subseteq Letter
    /\ sendLock \in [Machine -> Thread \cup {None}]
    /\ messageSent \in [Machine -> Nat]
    /\ pending \in [Machine -> Nat]
    /\ wire \in [Machine -> Seq(Letter)]
    /\ inbox \in [Machine -> Mailed]
    /\ messageAvailable \in [Machine -> Nat]
    /\ hand \in [Machine -> Mailed]
    /\ list \in [Machine -> [Box -> Seq(Letter)]]

\* A thread in Send has a letter, and one in Receive has a box.
Busy ==
    \A t \in Thread : /\ pc[t] \in InSendPC => mail[t] \in Letter
                      /\ pc[t] \in InGetPC => at[t] \in Box

\* Only finitely many threads have called anything yet.
FewBusy == IsFiniteSet({t \in Thread : pc[t] # "idle"})

\* sendLock is held from the driver's call to the end of Send, by one thread.
LockHeld ==
    /\ \A t \in Thread : pc[t] \in {"driver", "sent"} => sendLock[MachineOf[t]] = t
    /\ \A m \in Machine : sendLock[m] # None =>
          MachineOf[sendLock[m]] = m /\ pc[sendLock[m]] \in {"driver", "sent"}

\* Exactly one SendDone is outstanding or counted while the holder waits for it.
Waiting(m) == sendLock[m] # None /\ pc[sendLock[m]] = "sent"

OneDone ==
    \A m \in Machine : pending[m] + messageSent[m] = IF Waiting(m) THEN 1 ELSE 0

Inv == TypeOK /\ Busy /\ FewBusy /\ LockHeld /\ OneDone /\ NoMailForgotten

-----------------------------------------------------------------------------
(***************************************************************************)
(* Type correctness.                                                       *)
(***************************************************************************)
\* Letters are not None, and are addressed to a box of a machine.
LEMMA MailedLetters == \A l \in Letter : l \in Mailed /\ l # None /\ l.to \in Machine /\ l.box \in Box
BY PostAssumption DEF Mailed

\* Types, initially.
LEMMA InitType == Init => TypeOK
BY DEF Init, TypeOK, Mailed, InSendPC, InGetPC

\* Each step keeps the types and gives threads in calls their letter or box.
LEMMA NextType ==
    ASSUME TypeOK, Busy, [Next]_vars
    PROVE  TypeOK' /\ Busy'
<1> USE PostAssumption DEF TypeOK, Busy, Mailed, InSendPC, InGetPC, sending, arriving
<1>1. ASSUME NEW t \in Thread, NEW l \in Letter, Send(t, l)
      PROVE  TypeOK' /\ Busy'
    BY <1>1 DEF Send
<1>2. ASSUME NEW t \in Thread, NEW b \in Box, Receive(t, b)
      PROVE  TypeOK' /\ Busy'
    BY <1>2 DEF Receive
<1>3. ASSUME NEW t \in Thread, AcquireSendLock(t)
      PROVE  TypeOK' /\ Busy'
    BY <1>3 DEF AcquireSendLock
<1>4. ASSUME NEW t \in Thread, NetworkSend(t)
      PROVE  TypeOK' /\ Busy'
  <2>1. mail[t] \in Letter /\ mail[t].to \in Machine
      BY <1>4, MailedLetters DEF NetworkSend
  <2>2. Append(wire[mail[t].to], mail[t]) \in Seq(Letter)
      BY <2>1
  <2>3. wire' \in [Machine -> Seq(Letter)]
      BY <1>4, <2>1, <2>2 DEF NetworkSend
  <2>4. /\ pc' = [pc EXCEPT ![t] = "sent"]
        /\ pending' = [pending EXCEPT ![MachineOf[t]] = @ + 1]
        /\ UNCHANGED <<mail, got, at, unsent, sendLock, messageSent, arriving, list>>
      BY <1>4 DEF NetworkSend
  <2> QED BY <2>1, <2>3, <2>4
<1>5. ASSUME NEW t \in Thread, EndSend(t)
      PROVE  TypeOK' /\ Busy'
    BY <1>5 DEF EndSend
<1>6. ASSUME NEW t \in Thread, GetWaits(t)
      PROVE  TypeOK' /\ Busy'
    BY <1>6 DEF GetWaits
<1>7. ASSUME NEW t \in Thread, Get(t)
      PROVE  TypeOK' /\ Busy'
  <2> DEFINE m == MachineOf[t]
             b == at[t]
  <2>1. m \in Machine /\ b \in Box /\ list[m][b] \in Seq(Letter) /\ list[m][b] # <<>>
      BY <1>7 DEF Get
  <2>2. Head(list[m][b]) \in Letter /\ Tail(list[m][b]) \in Seq(Letter)
      BY <2>1
  <2>3. list' \in [Machine -> [Box -> Seq(Letter)]]
      BY <1>7, <2>1, <2>2 DEF Get
  <2> QED BY <1>7, <2>1, <2>2, <2>3 DEF Get
<1>8. ASSUME NEW m \in Machine, SendDone(m)
      PROVE  TypeOK' /\ Busy'
    BY <1>8 DEF SendDone
<1>9. ASSUME NEW m \in Machine, CheckPktAvail(m)
      PROVE  TypeOK' /\ Busy'
  <2>1. Head(wire[m]) \in Letter /\ Tail(wire[m]) \in Seq(Letter)
      BY <1>9 DEF CheckPktAvail
  <2> QED BY <1>9, <2>1 DEF CheckPktAvail
<1>10. ASSUME NEW m \in Machine, WorkerReceive(m)
       PROVE  TypeOK' /\ Busy'
    BY <1>10 DEF WorkerReceive
<1>11. ASSUME NEW m \in Machine, WorkerPut(m)
       PROVE  TypeOK' /\ Busy'
  <2>1. hand[m] \in Letter /\ hand[m].box \in Box
      BY <1>11, MailedLetters DEF WorkerPut
  <2>2. list' \in [Machine -> [Box -> Seq(Letter)]]
      BY <1>11, <2>1 DEF WorkerPut
  <2>3. /\ pc' \in [Thread -> {"idle"} \cup InSendPC \cup InGetPC]
        /\ \A t \in Thread : /\ pc'[t] \in InSendPC => pc[t] \in InSendPC
                             /\ pc'[t] \in InGetPC => pc[t] \in InGetPC
      BY <1>11 DEF WorkerPut, Asleep
  <2> QED BY <1>11, <2>2, <2>3 DEF WorkerPut
<1>12. CASE UNCHANGED vars
    BY <1>12 DEF vars
<1> QED BY <1>1, <1>2, <1>3, <1>4, <1>5, <1>6, <1>7, <1>8, <1>9, <1>10, <1>11, <1>12
        DEF Next, InSend, Worker

-----------------------------------------------------------------------------
(***************************************************************************)
(* The lock and the interrupts.                                            *)
(***************************************************************************)
\* A step moves one thread at most, so finitely many stay busy.
LEMMA NextFewBusy ==
    ASSUME TypeOK, FewBusy, [Next]_vars
    PROVE  FewBusy'
<1> DEFINE OneMoves == \E x : \A t \in Thread : t # x => pc'[t] = pc[t]
<1>1. OneMoves
  <2>1. ASSUME NEW x \in Thread, NEW w, pc' = [pc EXCEPT ![x] = w]
        PROVE  OneMoves
      BY <2>1 DEF TypeOK
  <2>2. ASSUME NEW x \in Thread, NEW l \in Letter, Send(x, l)
        PROVE  OneMoves
      BY <2>1, <2>2 DEF Send
  <2>3. ASSUME NEW x \in Thread, NEW b \in Box, Receive(x, b)
        PROVE  OneMoves
      BY <2>1, <2>3 DEF Receive
  <2>4. ASSUME NEW x \in Thread, InSend(x) \/ GetWaits(x) \/ Get(x)
        PROVE  OneMoves
      BY <2>1, <2>4 DEF InSend, AcquireSendLock, NetworkSend, EndSend, GetWaits, Get
  <2>5. ASSUME NEW m \in Machine, SendDone(m) \/ CheckPktAvail(m) \/ WorkerReceive(m)
        PROVE  OneMoves
      BY <2>5 DEF SendDone, CheckPktAvail, WorkerReceive
  <2>6. ASSUME NEW m \in Machine, WorkerPut(m)
        PROVE  OneMoves
      BY <2>1, <2>6 DEF WorkerPut, Asleep
  <2>7. CASE UNCHANGED vars
      BY <2>7 DEF vars
  <2> HIDE DEF OneMoves
  <2> QED BY <2>2, <2>3, <2>4, <2>5, <2>6, <2>7 DEF Next, Worker
<1>2. PICK x : \A t \in Thread : t # x => pc'[t] = pc[t]
    BY <1>1
<1> DEFINE B == {t \in Thread : pc[t] # "idle"}
<1>3. IsFiniteSet(B \cup {x})
    BY FS_AddElement DEF FewBusy
<1>4. {t \in Thread : pc'[t] # "idle"} \in SUBSET (B \cup {x})
    BY <1>2
<1> HIDE DEF B
<1>5. IsFiniteSet({t \in Thread : pc'[t] # "idle"})
    BY <1>3, <1>4, FS_Subset
<1> QED BY <1>5 DEF FewBusy

\* sendLock changes hands only through "None", and its holder is in Send.
LEMMA NextLockHeld ==
    ASSUME TypeOK, LockHeld, [Next]_vars
    PROVE  LockHeld'
<1> USE PostAssumption DEF TypeOK, LockHeld, sending
<1>1. ASSUME NEW t \in Thread, NEW l \in Letter, Send(t, l)
      PROVE  LockHeld'
    BY <1>1 DEF Send
<1>2. ASSUME NEW t \in Thread, NEW b \in Box, Receive(t, b)
      PROVE  LockHeld'
    BY <1>2 DEF Receive
<1>3. ASSUME NEW t \in Thread, AcquireSendLock(t)
      PROVE  LockHeld'
    BY <1>3 DEF AcquireSendLock
<1>4. ASSUME NEW t \in Thread, NetworkSend(t)
      PROVE  LockHeld'
    BY <1>4 DEF NetworkSend
<1>5. ASSUME NEW t \in Thread, EndSend(t)
      PROVE  LockHeld'
    BY <1>5 DEF EndSend
<1>6. ASSUME NEW t \in Thread, GetWaits(t) \/ Get(t)
      PROVE  LockHeld'
  <2>1. \E w \in {"idle", "asleep"} : pc' = [pc EXCEPT ![t] = w] /\ pc[t] = "get"
      BY <1>6 DEF GetWaits, Get
  <2>2. UNCHANGED sendLock
      BY <1>6 DEF GetWaits, Get
  <2> QED BY <2>1, <2>2
<1>7. ASSUME NEW m \in Machine, SendDone(m) \/ CheckPktAvail(m) \/ WorkerReceive(m)
      PROVE  LockHeld'
    BY <1>7 DEF SendDone, CheckPktAvail, WorkerReceive
<1>8. ASSUME NEW m \in Machine, WorkerPut(m)
      PROVE  LockHeld'
  <2>1. \A t \in Thread : pc'[t] = pc[t] \/ (pc[t] = "asleep" /\ pc'[t] = "get")
      BY <1>8 DEF WorkerPut, Asleep
  <2>2. \A t \in Thread : pc'[t] \in {"driver", "sent"} <=> pc[t] \in {"driver", "sent"}
      BY <2>1
  <2>3. \A k \in Machine : sendLock[k] # None => sendLock[k] \in Thread
      OBVIOUS
  <2>4. UNCHANGED sendLock
      BY <1>8 DEF WorkerPut
  <2> QED BY <2>2, <2>3, <2>4
<1>9. CASE UNCHANGED vars
    BY <1>9 DEF vars
<1> QED BY <1>1, <1>2, <1>3, <1>4, <1>5, <1>6, <1>7, <1>8, <1>9 DEF Next, InSend, Worker

\* Each packet brings one SendDone, and Send consumes it before it ends.
LEMMA NextOneDone ==
    ASSUME TypeOK, LockHeld, OneDone, [Next]_vars
    PROVE  OneDone'
<1> USE PostAssumption DEF TypeOK, LockHeld, OneDone, Waiting, sending
<1>1. ASSUME NEW t \in Thread, NEW l \in Letter, Send(t, l)
      PROVE  OneDone'
    BY <1>1 DEF Send
<1>2. ASSUME NEW t \in Thread, NEW b \in Box, Receive(t, b)
      PROVE  OneDone'
    BY <1>2 DEF Receive
<1>3. ASSUME NEW t \in Thread, AcquireSendLock(t)
      PROVE  OneDone'
    BY <1>3 DEF AcquireSendLock
<1>4. ASSUME NEW t \in Thread, NetworkSend(t)
      PROVE  OneDone'
    BY <1>4 DEF NetworkSend
<1>5. ASSUME NEW t \in Thread, EndSend(t)
      PROVE  OneDone'
    BY <1>5 DEF EndSend
<1>6. ASSUME NEW t \in Thread, GetWaits(t) \/ Get(t)
      PROVE  OneDone'
    BY <1>6 DEF GetWaits, Get
<1>7. ASSUME NEW m \in Machine, SendDone(m)
      PROVE  OneDone'
    BY <1>7 DEF SendDone
<1>8. ASSUME NEW m \in Machine, CheckPktAvail(m) \/ WorkerReceive(m)
      PROVE  OneDone'
    BY <1>8 DEF CheckPktAvail, WorkerReceive
<1>9. ASSUME NEW m \in Machine, WorkerPut(m)
      PROVE  OneDone'
    BY <1>9 DEF WorkerPut, Asleep
<1>10. CASE UNCHANGED vars
    BY <1>10 DEF vars
<1> QED BY <1>1, <1>2, <1>3, <1>4, <1>5, <1>6, <1>7, <1>8, <1>9, <1>10
        DEF Next, InSend, Worker

-----------------------------------------------------------------------------
(***************************************************************************)
(* The lists of mail and the threads that wait for it.                     *)
(***************************************************************************)
\* Only finitely many threads are woken at a box, so they can be counted.
LEMMA FewWoken ==
    ASSUME FewBusy, NEW m \in Machine, NEW b \in Box
    PROVE  IsFiniteSet(Woken(m, b)) /\ Cardinality(Woken(m, b)) \in Nat
<1>1. Woken(m, b) \in SUBSET {t \in Thread : pc[t] # "idle"}
    BY DEF Woken
<1>2. IsFiniteSet(Woken(m, b))
    BY <1>1, FS_Subset DEF FewBusy
<1> QED BY <1>2, FS_CardinalityType

\* Steps that touch neither the lists nor a thread in Receive.
LEMMA OthersForgetNothing ==
    ASSUME TypeOK, NoMailForgotten, UNCHANGED <<at, list>>,
           \A t \in Thread : pc'[t] = pc[t] \/ (pc[t] \notin InGetPC /\ pc'[t] \notin InGetPC)
    PROVE  NoMailForgotten'
<1>1. ASSUME NEW m \in Machine, NEW b \in Box
      PROVE  Asleep(m, b)' = Asleep(m, b) /\ Woken(m, b)' = Woken(m, b)
    BY DEF Asleep, Woken, InGetPC
<1> QED BY <1>1 DEF NoMailForgotten

\* SynchList::Remove tests the list before every Wait, and Append wakes one.
LEMMA NextNoMailForgotten ==
    ASSUME TypeOK, Busy, FewBusy, FewBusy', NoMailForgotten, [Next]_vars
    PROVE  NoMailForgotten'
<1>1. ASSUME NEW t \in Thread, NEW l \in Letter, Send(t, l)
      PROVE  NoMailForgotten'
    BY <1>1, OthersForgetNothing DEF Send, TypeOK, InGetPC
<1>2. ASSUME NEW t \in Thread, InSend(t)
      PROVE  NoMailForgotten'
    BY <1>2, OthersForgetNothing DEF InSend, AcquireSendLock, NetworkSend, EndSend, TypeOK, InGetPC
<1>3. ASSUME NEW k \in Machine, SendDone(k) \/ CheckPktAvail(k) \/ WorkerReceive(k)
      PROVE  NoMailForgotten'
    BY <1>3, OthersForgetNothing DEF SendDone, CheckPktAvail, WorkerReceive
<1>4. CASE UNCHANGED vars
    BY <1>4, OthersForgetNothing DEF vars
<1>5. ASSUME NEW t \in Thread, NEW b \in Box, Receive(t, b)
      PROVE  NoMailForgotten'
  <2> SUFFICES ASSUME NEW m \in Machine, NEW c \in Box, Asleep(m, c)' # {}
               PROVE  Len(list'[m][c]) <= Cardinality(Woken(m, c)')
      BY DEF NoMailForgotten
  <2>1. Asleep(m, c)' = Asleep(m, c) /\ list' = list
      BY <1>5 DEF Receive, Asleep, TypeOK
  <2>2. Woken(m, c)' = Woken(m, c) \/ Woken(m, c)' = Woken(m, c) \cup {t}
      BY <1>5 DEF Receive, Woken, TypeOK
  <2>3. IsFiniteSet(Woken(m, c)) /\ Cardinality(Woken(m, c)) \in Nat
      BY FewWoken
  <2>4. \/ Cardinality(Woken(m, c)') = Cardinality(Woken(m, c))
        \/ Cardinality(Woken(m, c)') = Cardinality(Woken(m, c)) + 1
    <3>1. CASE Woken(m, c)' = Woken(m, c)
        BY <3>1
    <3>2. CASE Woken(m, c)' = Woken(m, c) \cup {t}
        BY <2>3, <3>2, FS_AddElement
    <3> QED BY <2>2, <3>1, <3>2
  <2>5. Cardinality(Woken(m, c)') \in Nat /\ Cardinality(Woken(m, c)) <= Cardinality(Woken(m, c)')
      BY <2>3, <2>4
  <2>6. Len(list[m][c]) \in Nat
      BY DEF TypeOK
  <2> QED BY <2>1, <2>3, <2>5, <2>6 DEF NoMailForgotten
<1>6. ASSUME NEW t \in Thread, GetWaits(t)
      PROVE  NoMailForgotten'
  <2> SUFFICES ASSUME NEW m \in Machine, NEW c \in Box, Asleep(m, c)' # {}
               PROVE  Len(list'[m][c]) <= Cardinality(Woken(m, c)')
      BY DEF NoMailForgotten
  <2>1. list' = list /\ Len(list[m][c]) \in Nat
      BY <1>6 DEF GetWaits, TypeOK
  <2>2. CASE MachineOf[t] = m /\ at[t] = c
    <3>1. Len(list[m][c]) = 0
        BY <1>6, <2>2 DEF GetWaits
    <3>2. Woken(m, c)' = Woken(m, c) \ {t}
        BY <1>6 DEF GetWaits, Woken, TypeOK
    <3>3. Cardinality(Woken(m, c)') \in Nat
        BY <3>2, FewWoken, FS_RemoveElement, FS_CardinalityType
    <3> QED BY <2>1, <3>1, <3>3
  <2>3. CASE ~(MachineOf[t] = m /\ at[t] = c)
    <3>1. Asleep(m, c)' = Asleep(m, c) /\ Woken(m, c)' = Woken(m, c)
        BY <1>6, <2>3 DEF GetWaits, Asleep, Woken, TypeOK
    <3> QED BY <2>1, <3>1 DEF NoMailForgotten
  <2> QED BY <2>2, <2>3
<1>7. ASSUME NEW t \in Thread, Get(t)
      PROVE  NoMailForgotten'
  <2> SUFFICES ASSUME NEW m \in Machine, NEW c \in Box, Asleep(m, c)' # {}
               PROVE  Len(list'[m][c]) <= Cardinality(Woken(m, c)')
      BY DEF NoMailForgotten
  <2>1. /\ pc[t] = "get" /\ at[t] \in Box /\ MachineOf[t] \in Machine
        /\ list[MachineOf[t]][at[t]] # <<>>
      BY <1>7, PostAssumption DEF Get, Busy, InGetPC
  <2>2. Asleep(m, c)' = Asleep(m, c)
      BY <1>7, <2>1 DEF Get, Asleep, TypeOK
  <2>3. CASE MachineOf[t] = m /\ at[t] = c
    <3>1. Len(list'[m][c]) = Len(list[m][c]) - 1 /\ Len(list[m][c]) \in Nat
        BY <1>7, <2>1, <2>3 DEF Get, TypeOK
    <3>2. Woken(m, c)' = Woken(m, c) \ {t} /\ t \in Woken(m, c)
        BY <1>7, <2>1, <2>3, PostAssumption DEF Get, Woken, TypeOK
    <3>3. Cardinality(Woken(m, c)') = Cardinality(Woken(m, c)) - 1
        BY <3>2, FewWoken, FS_RemoveElement
    <3> QED BY <2>2, <3>1, <3>3, FewWoken DEF NoMailForgotten
  <2>4. CASE ~(MachineOf[t] = m /\ at[t] = c)
    <3>1. list'[m][c] = list[m][c]
        BY <1>7, <2>1, <2>4 DEF Get, TypeOK
    <3>2. Woken(m, c)' = Woken(m, c)
        BY <1>7, <2>1, <2>4, PostAssumption DEF Get, Woken, TypeOK
    <3> QED BY <2>2, <3>1, <3>2 DEF NoMailForgotten
  <2> QED BY <2>3, <2>4
<1>8. ASSUME NEW k \in Machine, WorkerPut(k)
      PROVE  NoMailForgotten'
  <2> SUFFICES ASSUME NEW m \in Machine, NEW c \in Box, Asleep(m, c)' # {}
               PROVE  Len(list'[m][c]) <= Cardinality(Woken(m, c)')
      BY DEF NoMailForgotten
  <2> DEFINE b == hand[k].box
  <2>1. hand[k] \in Letter /\ b \in Box
      BY <1>8, MailedLetters DEF WorkerPut, TypeOK, Mailed
  <2>2. UNCHANGED at /\ list' = [list EXCEPT ![k][b] = Append(@, hand[k])]
      BY <1>8 DEF WorkerPut
  <2>3. CASE m = k /\ c = b
    <3>1. Len(list'[m][c]) = Len(list[m][c]) + 1 /\ Len(list[m][c]) \in Nat
        BY <2>1, <2>2, <2>3 DEF TypeOK
    <3>2. PICK t \in Asleep(m, c) : pc' = [pc EXCEPT ![t] = "get"]
        BY <1>8, <2>2, <2>3 DEF WorkerPut, Asleep
    <3>3. Woken(m, c)' = Woken(m, c) \cup {t} /\ t \notin Woken(m, c)
        BY <2>2, <3>2, PostAssumption DEF Asleep, Woken, TypeOK
    <3>4. Cardinality(Woken(m, c)') = Cardinality(Woken(m, c)) + 1
        BY <3>3, FewWoken, FS_AddElement
    <3> QED BY <3>1, <3>2, <3>4, FewWoken DEF NoMailForgotten
  <2>4. CASE ~(m = k /\ c = b)
    <3>1. list'[m][c] = list[m][c]
        BY <2>1, <2>2, <2>4 DEF TypeOK
    <3>2. \A t \in Thread : MachineOf[t] = m /\ at[t] = c => pc'[t] = pc[t]
        BY <1>8, <2>4 DEF WorkerPut, Asleep, TypeOK
    <3>3. Asleep(m, c)' = Asleep(m, c) /\ Woken(m, c)' = Woken(m, c)
        BY <2>2, <3>2 DEF Asleep, Woken
    <3> QED BY <3>1, <3>3 DEF NoMailForgotten
  <2> QED BY <2>3, <2>4
<1> QED BY <1>1, <1>2, <1>3, <1>4, <1>5, <1>6, <1>7, <1>8 DEF Next, Worker

-----------------------------------------------------------------------------
(***************************************************************************)
(* The theorems.                                                           *)
(***************************************************************************)
\* The invariant holds when the machines start.
LEMMA InitInv == Init => Inv
<1> SUFFICES ASSUME Init PROVE Inv
    OBVIOUS
<1>1. TypeOK
    BY InitType
<1>2. Busy /\ LockHeld /\ OneDone
    BY PostAssumption DEF Init, Busy, LockHeld, OneDone, Waiting, InSendPC, InGetPC
<1>3. {t \in Thread : pc[t] # "idle"} = {}
    BY DEF Init
<1>4. FewBusy
    BY <1>3, FS_EmptySet DEF FewBusy
<1>5. NoMailForgotten
    BY DEF Init, NoMailForgotten, Asleep
<1> QED BY <1>1, <1>2, <1>4, <1>5 DEF Inv

\* The inductive invariant holds always.
THEOREM Invariance == Spec => []Inv
<1>1. Inv /\ [Next]_vars => Inv'
    BY NextType, NextFewBusy, NextLockHeld, NextOneDone, NextNoMailForgotten DEF Inv
<1> QED BY <1>1, InitInv, PTL DEF Spec

(***************************************************************************)
(* PostOffice::Send: a machine has one packet at a time with the driver,   *)
(* although Network::Send never notices a second one.                      *)
(***************************************************************************)
THEOREM SendsExclude == Spec => []OneSendAtATime
<1>1. ASSUME Inv PROVE OneSendAtATime
  <2> SUFFICES ASSUME NEW m \in Machine
               PROVE  pending[m] + messageSent[m]
                        = Cardinality({t \in Thread : MachineOf[t] = m /\ pc[t] = "sent"
                                                        /\ sendLock[m] = t})
      BY DEF OneSendAtATime
  <2> DEFINE S == {t \in Thread : MachineOf[t] = m /\ pc[t] = "sent" /\ sendLock[m] = t}
  <2>1. CASE Waiting(m)
    <3>1. S = {sendLock[m]}
        BY <1>1, <2>1 DEF Inv, TypeOK, LockHeld, Waiting
    <3> QED BY <1>1, <2>1, <3>1, FS_Singleton DEF Inv, OneDone
  <2>2. CASE ~Waiting(m)
    <3>1. S = {}
        BY <2>2, PostAssumption DEF Waiting
    <3> QED BY <1>1, <2>2, <3>1, FS_EmptySet DEF Inv, OneDone
  <2> QED BY <2>1, <2>2
<1> QED BY <1>1, Invariance, PTL

(***************************************************************************)
(* SynchList::Append and Remove: no thread sleeps at a box whose mail      *)
(* nobody is on its way to take.                                           *)
(***************************************************************************)
THEOREM MailNotForgotten == Spec => []NoMailForgotten
<1>1. Inv => NoMailForgotten
    BY DEF Inv
<1> QED BY <1>1, Invariance, PTL

-----------------------------------------------------------------------------
(***************************************************************************)
(* Refinement.  The mail on its way to a machine is what the postal worker *)
(* holds, what the driver holds and what is in the socket, in this order.  *)
(***************************************************************************)
Transit(m) == Held(hand[m]) \o Held(inbox[m]) \o wire[m]

\* What may be held is a sequence of at most one letter.
LEMMA HeldType == \A x \in Mailed : Held(x) \in Seq(Letter)
BY DEF Held, Mailed

\* The parts of a sequence with one more letter in front.
LEMMA ConsParts ==
    ASSUME NEW x \in Letter, NEW s \in Seq(Letter)
    PROVE  /\ <<x>> \o s \in Seq(Letter)
           /\ <<x>> \o s # <<>>
           /\ Head(<<x>> \o s) = x
           /\ Tail(<<x>> \o s) = s
<1> DEFINE r == <<x>> \o s
<1>1. /\ <<x>> \in Seq(Letter) /\ Len(<<x>>) = 1 /\ <<x>>[1] = x
      /\ Len(s) \in Nat
    OBVIOUS
<1>2. /\ r \in Seq(Letter)
      /\ Len(r) = 1 + Len(s)
      /\ \A i \in 1 .. 1 + Len(s) : r[i] = IF i <= 1 THEN <<x>>[i] ELSE s[i - 1]
    BY <1>1, ConcatProperties
<1> HIDE DEF r
<1>3. r # <<>> /\ Head(r) = x
    BY <1>1, <1>2
<1>4. /\ Tail(r) \in Seq(Letter)
      /\ Len(Tail(r)) = Len(s)
      /\ \A i \in 1 .. Len(s) : Tail(r)[i] = s[i]
    BY <1>1, <1>2, <1>3
<1>5. Tail(r) = s
    BY <1>4, SeqEqual
<1> QED BY <1>2, <1>3, <1>5 DEF r

\* A sequence is its head in front of its tail.
LEMMA ConsWhole ==
    ASSUME NEW s \in Seq(Letter), s # <<>>
    PROVE  <<Head(s)>> \o Tail(s) = s
<1>1. /\ Head(s) \in Letter /\ Tail(s) \in Seq(Letter)
      /\ Len(Tail(s)) = Len(s) - 1 /\ Len(s) \in Nat /\ Len(s) > 0
      /\ \A i \in 1 .. Len(Tail(s)) : Tail(s)[i] = s[i + 1]
      /\ Head(s) = s[1]
    OBVIOUS
<1> DEFINE x == Head(s)
           r == <<x>> \o Tail(s)
<1>2. <<x>> \in Seq(Letter) /\ Len(<<x>>) = 1 /\ <<x>>[1] = x
    BY <1>1
<1>3. /\ r \in Seq(Letter)
      /\ Len(r) = Len(s)
      /\ \A i \in 1 .. Len(s) : r[i] = IF i <= 1 THEN <<x>>[i] ELSE Tail(s)[i - 1]
    BY <1>1, <1>2, ConcatProperties
<1>4. \A i \in 1 .. Len(s) : r[i] = s[i]
    BY <1>1, <1>2, <1>3
<1> QED BY <1>3, <1>4, SeqEqual

\* Appending to the last part appends to the whole.
LEMMA ConcatAppend ==
    ASSUME NEW s \in Seq(Letter), NEW w \in Seq(Letter), NEW x \in Letter
    PROVE  s \o Append(w, x) = Append(s \o w, x)
<1>1. <<x>> \in Seq(Letter) /\ s \o w \in Seq(Letter)
    OBVIOUS
<1>2. Append(w, x) = w \o <<x>> /\ Append(s \o w, x) = (s \o w) \o <<x>>
    BY <1>1, AppendIsConcat
<1> QED BY <1>1, <1>2, ConcatAssociative

\* Concatenation is associative.
LEMMA LettersAssociate ==
    \A s, t, u \in Seq(Letter) : (s \o t) \o u = s \o (t \o u)
BY ConcatAssociative

\* No step but a send and a delivery changes what is on its way.
LEMMA TransitMoves ==
    ASSUME TypeOK, NEW m \in Machine
    PROVE  /\ Transit(m) \in Seq(Letter)
           /\ Held(hand[m]) \o Held(inbox[m]) \in Seq(Letter)
           /\ CheckPktAvail(m) => Transit(m)' = Transit(m)
           /\ WorkerReceive(m) => Transit(m)' = Transit(m)
           /\ hand[m] # None =>
                 /\ Transit(m) # <<>>
                 /\ Head(Transit(m)) = hand[m]
                 /\ Tail(Transit(m)) = Held(None) \o Held(inbox[m]) \o wire[m]
<1> DEFINE h == Held(hand[m])
           k == Held(inbox[m])
           w == wire[m]
<1>1. h \in Seq(Letter) /\ k \in Seq(Letter) /\ w \in Seq(Letter)
    BY HeldType DEF TypeOK
<1>2. h \o k \in Seq(Letter) /\ k \o w \in Seq(Letter) /\ Transit(m) \in Seq(Letter)
    BY <1>1, ConcatProperties DEF Transit
<1>3. Held(None) = <<>>
    BY DEF Held
<1>4. ASSUME CheckPktAvail(m) PROVE Transit(m)' = Transit(m)
  <2>1. w # <<>> /\ k = <<>> /\ h' = h /\ w' = Tail(w) /\ inbox'[m] = Head(w)
      BY <1>4, <1>3 DEF CheckPktAvail, TypeOK
  <2>2. Head(w) \in Letter /\ Tail(w) \in Seq(Letter)
      BY <1>1, <2>1
  <2>3. k' = <<Head(w)>>
      BY <2>1, <2>2, PostAssumption DEF Held
  <2> DEFINE x == <<Head(w)>>
  <2>4. x \in Seq(Letter)
      BY <2>2
  <2>5. (h \o x) \o Tail(w) = h \o (x \o Tail(w))
      BY <1>1, <2>2, <2>4, LettersAssociate, Zenon
  <2>6. x \o Tail(w) = w /\ h \o <<>> = h
      BY <1>1, <2>1, ConsWhole, ConcatEmptySeq
  <2>7. Transit(m)' = (h \o x) \o Tail(w)
      BY <2>1, <2>3 DEF Transit
  <2>8. Transit(m) = (h \o <<>>) \o w
      BY <2>1 DEF Transit
  <2> QED BY <2>5, <2>6, <2>7, <2>8
<1>5. ASSUME WorkerReceive(m) PROVE Transit(m)' = Transit(m)
  <2>1. h = <<>> /\ h' = k /\ k' = <<>> /\ w' = w
      BY <1>5, <1>3 DEF WorkerReceive, TypeOK
  <2>2. k \o <<>> = k /\ <<>> \o k = k
      BY <1>1, ConcatEmptySeq
  <2>3. Transit(m)' = (k \o <<>>) \o w /\ Transit(m) = (<<>> \o k) \o w
      BY <2>1 DEF Transit
  <2> QED BY <2>2, <2>3
<1>6. ASSUME hand[m] # None
      PROVE  /\ Transit(m) # <<>> /\ Head(Transit(m)) = hand[m]
             /\ Tail(Transit(m)) = Held(None) \o Held(inbox[m]) \o wire[m]
  <2>1. hand[m] \in Letter /\ h = <<hand[m]>>
      BY <1>6 DEF TypeOK, Mailed, Held
  <2>2. (h \o k) \o w = h \o (k \o w)
      BY <1>1, LettersAssociate, Zenon
  <2>3. Transit(m) = <<hand[m]>> \o (k \o w)
      BY <2>1, <2>2 DEF Transit
  <2>4. Held(None) \o k = k
      BY <1>1, <1>3, ConcatEmptySeq
  <2> QED BY <1>2, <2>1, <2>3, <2>4, ConsParts
<1> QED BY <1>2, <1>4, <1>5, <1>6

\* A step that keeps the mail on its way, the lists and got is a stutter.
LEMMA Stutters ==
    ASSUME \A m \in Machine : Transit(m)' = Transit(m), UNCHANGED <<list, got>>
    PROVE  UNCHANGED M!vars
<1>1. [m \in Machine |-> Transit(m)]' = [m \in Machine |-> Transit(m)]
    OBVIOUS
<1> QED BY <1>1 DEF M!vars, Transit

\* Nothing is on its way initially.
LEMMA InitRefines == Init => M!Init
<1> SUFFICES ASSUME Init PROVE M!Init
    OBVIOUS
<1>1. \A m \in Machine : Held(hand[m]) \o Held(inbox[m]) \o wire[m] = <<>>
    BY DEF Init, Held
<1> QED BY <1>1 DEF Init, M!Init

\* What Mail allows.
MailStep == M!Next \/ UNCHANGED M!vars

\* Every step of the post office is a step of Mail or a stutter.
LEMMA NextRefines ==
    ASSUME Inv, [Next]_vars
    PROVE  MailStep
<1>1. TypeOK /\ Busy
    BY DEF Inv
<1>2. ASSUME UNCHANGED <<hand, inbox, wire, list, got>>
      PROVE  MailStep
    BY <1>2, Stutters DEF Transit, MailStep
<1>3. ASSUME NEW t \in Thread, NEW l \in Letter, Send(t, l)
      PROVE  MailStep
    BY <1>2, <1>3 DEF Send, arriving
<1>4. ASSUME NEW t \in Thread, NEW b \in Box, Receive(t, b)
      PROVE  MailStep
    BY <1>2, <1>4 DEF Receive, arriving
<1>5. ASSUME NEW t \in Thread, AcquireSendLock(t) \/ EndSend(t) \/ GetWaits(t)
      PROVE  MailStep
    BY <1>2, <1>5 DEF AcquireSendLock, EndSend, GetWaits, arriving
<1>6. ASSUME NEW t \in Thread, NetworkSend(t)
      PROVE  MailStep
  <2>1. CASE UNCHANGED wire
      BY <1>2, <1>6, <2>1 DEF NetworkSend, arriving
  <2>2. CASE wire' = [wire EXCEPT ![mail[t].to] = Append(@, mail[t])]
    <3>1. PICK x \in Letter : x = mail[t] /\ x.to \in Machine
        BY <1>1, <1>6, MailedLetters DEF NetworkSend, Busy, InSendPC
    <3>2. UNCHANGED <<hand, inbox, list, got>>
        BY <1>6 DEF NetworkSend, arriving
    <3>3. ASSUME NEW m \in Machine
          PROVE  Transit(m)' = IF m = x.to THEN Append(Transit(m), x) ELSE Transit(m)
      <4>1. CASE m = x.to
        <5>1. Transit(m)' = (Held(hand[m]) \o Held(inbox[m])) \o Append(wire[m], x)
            BY <1>1, <2>2, <3>1, <3>2, <4>1 DEF Transit, TypeOK
        <5>2. wire[m] \in Seq(Letter) /\ Held(hand[m]) \o Held(inbox[m]) \in Seq(Letter)
            BY <1>1, TransitMoves DEF TypeOK
        <5> QED BY <3>1, <4>1, <5>1, <5>2, ConcatAppend DEF Transit
      <4>2. CASE m # x.to
          BY <1>1, <2>2, <3>1, <3>2, <4>2 DEF Transit, TypeOK
      <4> QED BY <4>1, <4>2
    <3> DEFINE T == [m \in Machine |-> Transit(m)]
    <3>4. T' = [T EXCEPT ![x.to] = Append(@, x)]
        BY <3>1, <3>3
    <3>5. M!Post(x)
        BY <3>2, <3>4 DEF M!Post, Transit
    <3> QED BY <3>1, <3>5 DEF M!Next, MailStep
  <2> QED BY <1>6, <2>1, <2>2 DEF NetworkSend
<1>7. ASSUME NEW t \in Thread, Get(t)
      PROVE  MailStep
  <2> DEFINE m == MachineOf[t]
             b == at[t]
  <2>1. m \in Machine /\ b \in Box
      BY <1>1, <1>7, PostAssumption DEF Get, Busy, InGetPC
  <2>2. UNCHANGED <<hand, inbox, wire>>
      BY <1>7 DEF Get, arriving
  <2>3. M!Take(t, m, b)
      BY <1>7, <2>2 DEF Get, M!Take
  <2> QED BY <2>1, <2>3 DEF M!Next, MailStep
<1>8. ASSUME NEW m \in Machine, SendDone(m)
      PROVE  MailStep
    BY <1>2, <1>8 DEF SendDone, arriving
<1>9. ASSUME NEW m \in Machine, CheckPktAvail(m)
      PROVE  MailStep
  <2>1. \A k \in Machine : k # m => Transit(k)' = Transit(k)
      BY <1>1, <1>9 DEF CheckPktAvail, Transit, TypeOK
  <2>2. Transit(m)' = Transit(m)
      BY <1>1, <1>9, TransitMoves
  <2>3. UNCHANGED <<list, got>>
      BY <1>9 DEF CheckPktAvail
  <2> QED BY <2>1, <2>2, <2>3, Stutters DEF MailStep
<1>10. ASSUME NEW m \in Machine, WorkerReceive(m)
       PROVE  MailStep
  <2>1. \A k \in Machine : k # m => Transit(k)' = Transit(k)
      BY <1>1, <1>10 DEF WorkerReceive, Transit, TypeOK
  <2>2. Transit(m)' = Transit(m)
      BY <1>1, <1>10, TransitMoves
  <2>3. UNCHANGED <<list, got>>
      BY <1>10 DEF WorkerReceive
  <2> QED BY <2>1, <2>2, <2>3, Stutters DEF MailStep
<1>11. ASSUME NEW m \in Machine, WorkerPut(m)
       PROVE  MailStep
  <2> DEFINE T == [k \in Machine |-> Transit(k)]
  <2>1. /\ hand[m] # None
        /\ hand' = [hand EXCEPT ![m] = None]
        /\ list' = [list EXCEPT ![m][hand[m].box] = Append(@, hand[m])]
        /\ UNCHANGED <<inbox, wire, got>>
      BY <1>11 DEF WorkerPut
  <2>2. T[m] # <<>> /\ Head(T[m]) = hand[m]
      BY <1>1, <2>1, TransitMoves
  <2>3. Transit(m)' = Held(None) \o Held(inbox[m]) \o wire[m]
      BY <1>1, <2>1 DEF Transit, TypeOK
  <2>4. Transit(m)' = Tail(Transit(m))
      BY <1>1, <2>1, <2>3, TransitMoves
  <2>5. \A k \in Machine : k # m => Transit(k)' = Transit(k)
      BY <1>1, <2>1 DEF Transit, TypeOK
  <2>6. T' = [T EXCEPT ![m] = Tail(@)]
      BY <2>4, <2>5
  <2>7. list' = [list EXCEPT ![m][Head(T[m]).box] = Append(@, Head(T[m]))]
      BY <2>1, <2>2
  <2>8. M!Deliver(m)
      BY <2>1, <2>2, <2>6, <2>7 DEF M!Deliver, Transit
  <2> QED BY <2>8 DEF M!Next, MailStep
<1>12. CASE UNCHANGED vars
    BY <1>2, <1>12 DEF vars
<1> QED BY <1>3, <1>4, <1>5, <1>6, <1>7, <1>8, <1>9, <1>10, <1>11, <1>12
        DEF Next, InSend, Worker

(***************************************************************************)
(* The post office and the driver implement Mail: what the network does    *)
(* not lose reaches its box once and in the order in which it was sent,    *)
(* although it passes the socket, the driver's one-packet buffer and the   *)
(* hands of the postal worker.                                             *)
(***************************************************************************)
THEOREM RefinesMail == Spec => MailImplemented
<1>1. Inv /\ [Next]_vars => [M!Next]_(M!vars)
    BY NextRefines DEF MailStep
<1> QED BY <1>1, InitRefines, Invariance, PTL DEF Spec, MailImplemented, M!Spec
=============================================================================
