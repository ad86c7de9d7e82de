SPECIFICATION CallsSpec
CONSTANTS
    Name = {n1, n2, n3}
    Handle = {k, u1, u2}
    KernelHandle = {k}
    Process = {p}
    MaxOpenFiles = 3
    Byte = {b1}
    Junk = junk
    NumSectors = 8
    SectorSize = 2
    NumDirEntries = 2
    NumDirect = 2
    MapSectors = 1
    DirSectors = 1
    Sizes = {0, 1, 3}
    MaxPos = 2
    CloseFirst = TRUE
SYMMETRY Symmetry
INVARIANTS SpaceAccounted OpenFilesOwned
PROPERTY FilesImplemented
CHECK_DEADLOCK FALSE
