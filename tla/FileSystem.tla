----------------------------- MODULE FileSystem -----------------------------
(***************************************************************************)
(* The Nachos file system (filesys/filesys.cc, directory.cc, filehdr.cc,   *)
(* openfile.cc, userprog/bitmap.cc), as built with FILESYS: a bitmap of    *)
(* sectors, one flat directory, a header sector per file that lists its    *)
(* data sectors, and files of a fixed size.                                *)
(*                                                                         *)
(* One thread at a time uses the file system (filesys.cc says so), hence   *)
(* an operation is one step.  Nachos may stop between two operations and   *)
(* be started again on the same disk.  The contents of the bitmap file and *)
(* of the directory file are variables of their own; the sectors that hold *)
(* them are marked and never used for anything else.                       *)
(***************************************************************************)
EXTENDS Integers, Sequences, FiniteSets, FiniteSetsExt, Functions

CONSTANTS
    Name,           \* file names, different in their first FileNameMaxLen characters
    Handle,         \* open file objects
    Byte,           \* what a program writes
    Junk,           \* what an uninitialized buffer or a fresh disk holds
    NumSectors,     \* sectors of the disk
    SectorSize,     \* bytes of a sector
    NumDirEntries,  \* entries of the directory
    NumDirect,      \* data sectors a header can list
    MapSectors,     \* data sectors of the bitmap file
    DirSectors,     \* data sectors of the directory file
    Sizes,          \* sizes of files a program asks for
    MaxPos,         \* bound on positions and on the lengths of requests
    CloseFirst      \* a program removes a file only when nobody has it open

(***************************************************************************)
(* Allocate does not compare the size with NumDirect: a program that asks  *)
(* for more overruns the header.                                           *)
(***************************************************************************)
ASSUME FileSystemAssumption ==
    /\ {NumSectors, SectorSize, NumDirEntries, MaxPos} \subseteq Nat \ {0}
    /\ {MapSectors, DirSectors, NumDirect} \subseteq Nat
    /\ Sizes \subseteq 0 .. NumDirect * SectorSize
    /\ 2 + MapSectors + DirSectors <= NumSectors
    /\ Junk \notin Byte
    /\ CloseFirst \in BOOLEAN

None == <<>>        \* the null pointer
Sector == 0 .. NumSectors - 1
System == 0 .. 1 + MapSectors + DirSectors

VARIABLES
    freeMap,        \* the bitmap file: the sectors that are marked
    table,          \* the directory file
    header,         \* sector -> the header stored there, or None
    block,          \* sector -> the bytes stored there
    open,           \* handle -> an OpenFile (and its name, auxiliary), or None
    result          \* what the last operation read: nothing if it was no Read

vars == <<freeMap, table, header, block, open, result>>

Unused == [inUse |-> FALSE, name |-> None, sector |-> 0]

\* FileSystem::FileSystem(TRUE) formats the disk.
Init ==
    /\ freeMap = System
    /\ table = [i \in 1 .. NumDirEntries |-> Unused]
    /\ header = [s \in Sector |-> None]
    /\ block = [s \in Sector |-> [i \in 1 .. SectorSize |-> Junk]]
    /\ open = [h \in Handle |-> None]
    /\ result = <<>>

\* FileSystem::FileSystem(FALSE): the disk is as it was left.
Restart ==
    /\ open' = [h \in Handle |-> None]
    /\ UNCHANGED <<freeMap, table, header, block>>
    /\ result' = <<>>

-----------------------------------------------------------------------------
(***************************************************************************)
(* BitMap: Find takes the first clear bit; several Finds take several.     *)
(***************************************************************************)
Clear(map) == Sector \ map
NumClear(map) == Cardinality(Clear(map))
Find(map) == IF Clear(map) = {} THEN -1 ELSE Min(Clear(map))

\* The sectors that n calls of Find return: the k-th has k - 1 clear ones before it.
Finds(map, n) ==
    [k \in 1 .. n |->
        CHOOSE s \in Clear(map) : Cardinality({r \in Clear(map) : r < s}) = k - 1]

\* Directory: the first entry of a set of them.
FirstOf(entries) == IF entries = {} THEN 0 ELSE Min(entries)
FindIndex(name) == FirstOf({i \in DOMAIN table : table[i].inUse /\ table[i].name = name})
FindSector(name) == IF FindIndex(name) = 0 THEN -1 ELSE table[FindIndex(name)].sector
FreeIndex == FirstOf({i \in DOMAIN table : ~table[i].inUse})

Add(name, sector) ==
    [table EXCEPT ![FreeIndex] = [inUse |-> TRUE, name |-> name, sector |-> sector]]

\* Remove only clears inUse; nobody looks at the rest of such an entry.
DirectoryRemove(name) == [table EXCEPT ![FindIndex(name)] = Unused]

\* FileHeader.
divRoundDown(n, s) == n \div s
divRoundUp(n, s) == (n \div s) + (IF n % s > 0 THEN 1 ELSE 0)

Allocate(map, size) ==
    [numBytes |-> size, dataSectors |-> Finds(map, divRoundUp(size, SectorSize))]

Deallocate(map, hdr) == map \ Range(hdr.dataSectors)

ByteToSector(hdr, offset) == hdr.dataSectors[(offset \div SectorSize) + 1]

-----------------------------------------------------------------------------
(***************************************************************************)
(* FileSystem::Create.  The changes are written to the disk only when all  *)
(* of them succeeded; otherwise they are forgotten.                        *)
(***************************************************************************)
CreateFails(name, size) ==
    LET sector == Find(freeMap) IN
    \/ FindSector(name) # -1
    \/ sector = -1
    \/ FreeIndex = 0
    \/ NumClear(freeMap \cup {sector}) < divRoundUp(size, SectorSize)

Create(name, size) ==
    LET sector == Find(freeMap)
        hdr == Allocate(freeMap \cup {sector}, size)
    IN  /\ IF CreateFails(name, size)
           THEN UNCHANGED <<freeMap, table, header>>
           ELSE /\ header' = [header EXCEPT ![sector] = hdr]
                /\ table' = Add(name, sector)
                /\ freeMap' = freeMap \cup {sector} \cup Range(hdr.dataSectors)
        /\ result' = <<>>
        /\ UNCHANGED <<block, open>>

\* FileSystem::Open; the header stays in memory while the file is open.
Open(h, name) ==
    /\ open[h] = None
    /\ FindSector(name) # -1
    /\ open' = [open EXCEPT ![h] = [hdr |-> header[FindSector(name)], seekPosition |-> 0,
                                    name |-> name]]
    /\ UNCHANGED <<freeMap, table, header, block>>
    /\ result' = <<>>

Close(h) ==
    /\ open[h] # None
    /\ open' = [open EXCEPT ![h] = None]
    /\ UNCHANGED <<freeMap, table, header, block>>
    /\ result' = <<>>

IsOpen(name) == \E h \in Handle : open[h] # None /\ open[h].name = name

\* Mutant: the header's sector stays marked.
RemoveKeepsHeader(name) ==
    LET sector == FindSector(name) IN
    /\ sector # -1
    /\ CloseFirst => ~IsOpen(name)
    /\ freeMap' = Deallocate(freeMap, header[sector])
    /\ table' = DirectoryRemove(name)
    /\ header' = [header EXCEPT ![sector] = None]
    /\ UNCHANGED <<block, open>>
    /\ result' = <<>>

\* The header stays on the disk as well, where nobody finds it any more.
Remove(name) ==
    LET sector == FindSector(name) IN
    /\ sector # -1
    /\ CloseFirst => ~IsOpen(name)
    /\ freeMap' = Deallocate(freeMap, header[sector]) \ {sector}
    /\ table' = DirectoryRemove(name)
    /\ header' = [header EXCEPT ![sector] = None]
    /\ UNCHANGED <<block, open>>
    /\ result' = <<>>

-----------------------------------------------------------------------------
(***************************************************************************)
(* OpenFile.  Transferred is the number of bytes a request moves; First    *)
(* and Last are the file's sectors that it touches.                        *)
(***************************************************************************)
Seek(h, position) ==
    /\ open[h] # None
    /\ open' = [open EXCEPT ![h].seekPosition = position]
    /\ UNCHANGED <<freeMap, table, header, block>>
    /\ result' = <<>>

Transferred(hdr, numBytes, position) ==
    IF numBytes <= 0 \/ position >= hdr.numBytes THEN 0
    ELSE IF position + numBytes > hdr.numBytes THEN hdr.numBytes - position
    ELSE numBytes

First(position) == divRoundDown(position, SectorSize)
Last(position, n) == divRoundDown(position + n - 1, SectorSize)

\* The sectors from first to last, read into one buffer.
Fetch(hdr, first, last) ==
    [i \in 1 .. (last - first + 1) * SectorSize |->
        LET offset == first * SectorSize + i - 1
        IN  block[ByteToSector(hdr, offset)][(offset % SectorSize) + 1]]

ReadAt(hdr, numBytes, position) ==
    LET n == Transferred(hdr, numBytes, position)
        buf == Fetch(hdr, First(position), Last(position, n))
        skip == position - First(position) * SectorSize
    IN  IF n = 0 THEN <<>> ELSE SubSeq(buf, skip + 1, skip + n)

Read(h, numBytes) ==
    LET f == open[h]
        data == ReadAt(f.hdr, numBytes, f.seekPosition)
    IN  /\ f # None
        /\ result' = data
        /\ open' = [open EXCEPT ![h].seekPosition = @ + Len(data)]
        /\ UNCHANGED <<freeMap, table, header, block>>

(***************************************************************************)
(* The buffer that WriteAt writes back: the first and the last sector are  *)
(* read before if they are not wholly overwritten, the rest of the buffer  *)
(* is not initialized, and the data is copied over it.                     *)
(***************************************************************************)
\* Mutant: the last sector is read only when it is not the first.
WriteBufferLastOnly(hdr, from, n, position) ==
    LET first == First(position)
        last == Last(position, n)
        firstAligned == position = first * SectorSize
        lastAligned == position + n = (last + 1) * SectorSize
        kept == (IF firstAligned THEN {} ELSE {first})
                  \cup (IF ~lastAligned /\ first # last THEN {last} ELSE {})
        old(s) == ReadAt(hdr, SectorSize, s * SectorSize)
        at(i) == first + ((i - 1) \div SectorSize)
        off(i) == ((i - 1) % SectorSize) + 1
        skip == position - first * SectorSize
    IN  [i \in 1 .. (last - first + 1) * SectorSize |->
            IF i \in skip + 1 .. skip + n THEN from
            ELSE IF at(i) \in kept /\ off(i) <= Len(old(at(i))) THEN old(at(i))[off(i)]
            ELSE Junk]

WriteBuffer(hdr, from, n, position) ==
    LET first == First(position)
        last == Last(position, n)
        firstAligned == position = first * SectorSize
        lastAligned == position + n = (last + 1) * SectorSize
        kept == (IF firstAligned THEN {} ELSE {first})
                  \cup (IF ~lastAligned /\ (first # last \/ firstAligned) THEN {last} ELSE {})
        old(s) == ReadAt(hdr, SectorSize, s * SectorSize)
        at(i) == first + ((i - 1) \div SectorSize)
        off(i) == ((i - 1) % SectorSize) + 1
        skip == position - first * SectorSize
    IN  [i \in 1 .. (last - first + 1) * SectorSize |->
            IF i \in skip + 1 .. skip + n THEN from
            ELSE IF at(i) \in kept /\ off(i) <= Len(old(at(i))) THEN old(at(i))[off(i)]
            ELSE Junk]

\* Write, through WriteAt, of numBytes bytes that are all the byte from.
Write(h, from, numBytes) ==
    LET f == open[h]
        position == f.seekPosition
        n == Transferred(f.hdr, numBytes, position)
        first == First(position)
        buf == WriteBuffer(f.hdr, from, n, position)
        touched == first .. Last(position, n)
        sectorOf(i) == f.hdr.dataSectors[i + 1]
        part(i) == SubSeq(buf, (i - first) * SectorSize + 1, (i - first + 1) * SectorSize)
    IN  /\ f # None
        /\ block' = IF n = 0 THEN block
                    ELSE [s \in Sector |->
                            IF \E i \in touched : sectorOf(i) = s
                            THEN part(CHOOSE i \in touched : sectorOf(i) = s)
                            ELSE block[s]]
        /\ open' = [open EXCEPT ![h].seekPosition = @ + n]
        /\ result' = <<>>
        /\ UNCHANGED <<freeMap, table, header>>

-----------------------------------------------------------------------------
Use(h) ==
    \/ \E name \in Name : Open(h, name)
    \/ Close(h)
    \/ \E p \in 0 .. MaxPos : Seek(h, p) \/ Read(h, p)
    \/ \E n \in 0 .. MaxPos, b \in Byte : Write(h, b, n)

Manage(name) == Remove(name) \/ \E size \in Sizes : Create(name, size)

Next ==
    \/ Restart
    \/ \E name \in Name : Manage(name)
    \/ \E h \in Handle : Use(h)

Spec == Init /\ [][Next]_vars

-----------------------------------------------------------------------------
InUse == {i \in 1 .. NumDirEntries : table[i].inUse}

\* The sectors of a file: its header and its data.
SectorsOf(i) == <<table[i].sector>> \o header[table[i].sector].dataSectors

(***************************************************************************)
(* Every sector is free, or the system's, or belongs to one place of one   *)
(* file of the directory: none is lost and none is used twice.             *)
(***************************************************************************)
SpaceAccounted ==
    LET owned == UNION {Range(SectorsOf(i)) : i \in InUse} IN
    /\ freeMap = System \cup owned
    /\ System \cap owned = {}
    /\ \A i, j \in InUse : \A m \in DOMAIN SectorsOf(i), n \in DOMAIN SectorsOf(j) :
         SectorsOf(i)[m] = SectorsOf(j)[n] => i = j /\ m = n

(***************************************************************************)
(* The file system implements FileMap, for programs that do not remove a   *)
(* file that is open: writes change exactly the bytes that were asked for, *)
(* in that file and no other, and reads return what was written last.      *)
(***************************************************************************)
Contents(name) ==
    LET hdr == header[FindSector(name)] IN ReadAt(hdr, hdr.numBytes, 0)

Files == [n \in {table[i].name : i \in InUse} |-> Contents(n)]
Handles == [h \in Handle |-> IF open[h] = None THEN None
                             ELSE [name |-> open[h].name, pos |-> open[h].seekPosition]]

F == INSTANCE FileMap WITH Byte <- Byte \cup {Junk}, files <- Files, handle <- Handles

FilesImplemented == F!Spec
=============================================================================
