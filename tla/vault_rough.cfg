SPECIFICATION Spec
CONSTANTS
    P1 = P1
    P2 = P2
    Proc = {P1, P2}
    User <- OneUser
    Name <- OneName
    SafeName <- OneName
    Path <- OnePath
    BaseName <- OneBase
    Nfd <- OneNfd
    Data = {d1}
    Size <- Below
    MaxFileSize = 3
    HeaderLen = 1
    FileId = {i1, i2}
    Login <- Anyone
    Reach <- Anywhere
    Faults = {"crash", "read", "write", "flush", "zero", "remove", "edit"}
    Absent = Absent
SYMMETRY Symmetry
INVARIANTS
    TypeOK
    Bookkeeping
    DecryptFaithful
PROPERTIES
    DeleteSuccessMeansGone
