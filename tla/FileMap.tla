------------------------------ MODULE FileMap ------------------------------
(***************************************************************************)
(* What the file system promises (filesys/filesys.h, filesys/openfile.h):  *)
(* named files of a fixed length.  A new file has arbitrary contents.      *)
(***************************************************************************)
EXTENDS Integers, Sequences

CONSTANTS
    Name,           \* file names
    Handle,         \* open file objects
    Byte,           \* what a byte may hold
    Sizes,          \* the sizes of files
    MaxPos,         \* bound on positions and on the lengths of requests
    None            \* no file

VARIABLES
    files,          \* name -> contents, for the files that exist
    handle,         \* handle -> the name and the position, or None
    result          \* what the last operation read: nothing if it was no Read

vars == <<files, handle, result>>

Init ==
    /\ files = [n \in {} |-> <<>>]
    /\ handle = [h \in Handle |-> None]
    /\ result = <<>>

Create(n) ==
    /\ UNCHANGED handle
    /\ result' = <<>>
    /\ n \notin DOMAIN files
    /\ DOMAIN files' = DOMAIN files \cup {n}
    /\ \E size \in Sizes : files'[n] \in [1 .. size -> Byte]
    /\ \A m \in DOMAIN files : files'[m] = files[m]

Remove(n) ==
    /\ UNCHANGED handle
    /\ result' = <<>>
    /\ n \in DOMAIN files
    /\ files' = [m \in DOMAIN files \ {n} |-> files[m]]

Open(h, n) ==
    /\ handle' = [handle EXCEPT ![h] = [name |-> n, pos |-> 0]]
    /\ n \in DOMAIN files
    /\ result' = <<>>
    /\ UNCHANGED files

Close(h) ==
    /\ handle' = [handle EXCEPT ![h] = None]
    /\ result' = <<>>
    /\ UNCHANGED files

\* Nachos stops and starts again: the files stay.
Restart ==
    /\ handle' = [h \in Handle |-> None]
    /\ result' = <<>>
    /\ UNCHANGED files

Seek(h) ==
    /\ handle[h] # None
    /\ \E p \in 0 .. MaxPos : handle' = [handle EXCEPT ![h].pos = p]
    /\ result' = <<>>
    /\ UNCHANGED files

\* The part of a request that lies in the file.
Reach(text, p, n) == IF n <= 0 \/ p >= Len(text) THEN 0
                     ELSE IF p + n > Len(text) THEN Len(text) - p ELSE n

\* The handle is open on a file that is still there.
HasFile(h) == handle[h] # None /\ handle[h].name \in DOMAIN files

Read(h, n) ==
    /\ HasFile(h)
    /\ LET text == files[handle[h].name]
           p == handle[h].pos
           k == Reach(text, p, n)
       IN  /\ result' = SubSeq(text, p + 1, p + k)
           /\ handle' = [handle EXCEPT ![h].pos = p + k]
    /\ UNCHANGED files

Write(h, n, b) ==
    /\ HasFile(h)
    /\ result' = <<>>
    /\ LET text == files[handle[h].name]
           p == handle[h].pos
           k == Reach(text, p, n)
       IN  /\ handle' = [handle EXCEPT ![h].pos = p + k]
           /\ files' = [files EXCEPT ![handle[h].name] =
                          [i \in DOMAIN text |-> IF i \in p + 1 .. p + k THEN b ELSE text[i]]]

\* An operation that fails, or that reads or writes nothing.
Nothing == result' = <<>> /\ UNCHANGED <<files, handle>>

Next ==
    \/ Nothing
    \/ \E n \in Name : Create(n) \/ Remove(n)
    \/ Restart
    \/ \E h \in Handle :
          \/ \E n \in Name : Open(h, n)
          \/ Close(h) \/ Seek(h)
          \/ \E n \in 0 .. MaxPos : Read(h, n) \/ \E b \in Byte : Write(h, n, b)

Spec == Init /\ [][Next]_vars
=============================================================================
