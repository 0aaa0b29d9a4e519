SPECIFICATION Spec
CONSTANTS
    P1 = P1
    P2 = P2
    Proc = {P1}
    User <- CollidingUsers
    Name <- CollidingNames
    SafeName <- CollidingNames
    Path <- TwoPaths
    BaseName <- TwoBase
    Nfd <- TwoNfd
    Data = {d1}
    Size <- Below
    MaxFileSize = 3
    HeaderLen = 1
    FileId = {i1, i2}
    Login <- Anyone
    Reach <- Anywhere
    Faults = {"crash", "write", "remove"}
    Absent = Absent
SYMMETRY Symmetry
INVARIANTS
    RecordBacked
    KeptIsRetrievable
    ListShowsLoadable
PROPERTIES
    RemovesItsOwnRecord
