----------------------------- MODULE FileCalls -----------------------------
(***************************************************************************)
(* The file system calls of userprog/exception.cc and the table of open    *)
(* files that every address space has (class Table, userprog/addrspace.cc),*)
(* on top of FileSystem.  The kernel uses files of its own besides         *)
(* (filesys/fstest.cc).                                                    *)
(*                                                                         *)
(* A Table is a bitmap and an array.  A slot can be marked and hold a null *)
(* pointer: the slots 0 and 1 do, so that no file gets the id of the       *)
(* console.  Nothing stops a program from closing these ids.               *)
(*                                                                         *)
(* A call that fails, or that reads or writes the console, changes nothing *)
(* here.  The processes do not exit: ~Table deletes no file that is open.  *)
(***************************************************************************)
EXTENDS FileSystem

CONSTANTS
    Process,        \* address spaces
    KernelHandle,   \* the open files of the kernel; the others are programs'
    MaxOpenFiles    \* slots of a table (256)

ASSUME FileCallsAssumption ==
    /\ KernelHandle \subseteq Handle
    /\ None \notin Handle
    /\ MaxOpenFiles \in Nat /\ MaxOpenFiles >= 2
    /\ 0 \in Sizes

VARIABLE fileTable  \* process -> its Table

ConsoleInput == 0
ConsoleOutput == 1
OpenFileId == 0 .. MaxOpenFiles - 1
UserHandle == Handle \ KernelHandle

EmptyTable == [map |-> {}, table |-> [id \in OpenFileId |-> None]]

\* The slot that Put takes: the first that is not marked.
Slot(t) == LET clear == OpenFileId \ t.map IN IF clear = {} THEN -1 ELSE Min(clear)
Put(t, f) == [map |-> t.map \cup {Slot(t)}, table |-> [t.table EXCEPT ![Slot(t)] = f]]
Get(t, id) == IF id \in t.map THEN t.table[id] ELSE None
Unmark(t, id) == [map |-> t.map \ {id}, table |-> [t.table EXCEPT ![id] = None]]

NewTable == Put(Put(EmptyTable, None), None)

CallsInit == Init /\ fileTable = [p \in Process |-> NewTable]

-----------------------------------------------------------------------------
\* A program cannot name a size: its files are empty.
Create_Syscall(name) == Create(name, 0) /\ UNCHANGED fileTable

\* Mutant: the open file is not deleted when the table is full.
OpenKeepsFile(p, name) ==
    \E f \in UserHandle :
        /\ Open(f, name)
        /\ fileTable' = IF Slot(fileTable[p]) = -1 THEN fileTable
                        ELSE [fileTable EXCEPT ![p] = Put(@, f)]

\* The file is opened, and deleted again if there is no slot for it.
Open_Syscall(p, name) ==
    \/ /\ Slot(fileTable[p]) = -1
       /\ result' = <<>>
       /\ UNCHANGED <<freeMap, table, header, block, open, fileTable>>
    \/ /\ Slot(fileTable[p]) # -1
       /\ \E f \in UserHandle :
             /\ Open(f, name)
             /\ fileTable' = [fileTable EXCEPT ![p] = Put(@, f)]

Write_Syscall(p, from, len, id) ==
    /\ id \notin {ConsoleInput, ConsoleOutput}
    /\ LET f == Get(fileTable[p], id) IN f # None /\ Write(f, from, len)
    /\ UNCHANGED fileTable

Read_Syscall(p, len, id) ==
    /\ id \notin {ConsoleInput, ConsoleOutput}
    /\ LET f == Get(fileTable[p], id) IN f # None /\ Read(f, len)
    /\ UNCHANGED fileTable

\* Table::Remove clears the slot also when it holds a null pointer.
Close_Syscall(p, fd) ==
    LET f == Get(fileTable[p], fd) IN
    /\ fd \in fileTable[p].map
    /\ fileTable' = [fileTable EXCEPT ![p] = Unmark(@, fd)]
    /\ IF f # None
       THEN Close(f)
       ELSE result' = <<>> /\ UNCHANGED <<freeMap, table, header, block, open>>

Program(p) ==
    \/ \E name \in Name : Create_Syscall(name) \/ Open_Syscall(p, name)
    \/ \E id \in OpenFileId :
          \/ Close_Syscall(p, id)
          \/ \E n \in 0 .. MaxPos :
                Read_Syscall(p, n, id) \/ \E b \in Byte : Write_Syscall(p, b, n, id)

\* main.cc: the kernel is done with its files before a program starts.
KernelDone == \A h \in KernelHandle : open[h] = None

CallsNext ==
    \/ Restart /\ fileTable' = [p \in Process |-> NewTable]
    \/ /\ fileTable = [p \in Process |-> NewTable]
       /\ \/ \E name \in Name : Manage(name)
          \/ \E h \in KernelHandle : Use(h)
       /\ UNCHANGED fileTable
    \/ KernelDone /\ \E p \in Process : Program(p)

CallsSpec == CallsInit /\ [][CallsNext]_<<vars, fileTable>>

-----------------------------------------------------------------------------
(***************************************************************************)
(* An open file of a program is in one slot of one table, and what a table *)
(* gives out is open: no file is lost when a table is full, two ids never  *)
(* share a position, and no id outlives its file.                          *)
(***************************************************************************)
OpenFilesOwned ==
    \A f \in UserHandle :
        Cardinality({s \in Process \X OpenFileId : Get(fileTable[s[1]], s[2]) = f})
            = IF open[f] = None THEN 0 ELSE 1
=============================================================================
