SPECIFICATION Spec
CONSTANTS
    P1 = P1
    P2 = P2
    Proc = {P1}
    User <- OneUser
    Name <- SomeUnsafe
    SafeName <- OneName
    Path <- TypedPaths
    BaseName <- TypedBase
    Nfd <- TypedNfd
    Data = {d1, d2}
    Size <- Below
    MaxFileSize = 3
    HeaderLen = 1
    FileId = {i1}
    Login <- Anyone
    Reach <- Anywhere
    Faults = {"crash", "read", "write", "remove"}
    Absent = Absent
SYMMETRY Symmetry
INVARIANTS
    FailedEncryptLeavesNothing
PROPERTIES
    TextDestroyedOnlyWhenSaved
    NoReadableCopy
    OverwrittenBeforeUnlinked
