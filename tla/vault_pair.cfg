SPECIFICATION Spec
CONSTANTS
    P1 = P1
    P2 = P2
    Proc = {P1, P2}
    User <- ApartUsers
    Name <- OneName
    SafeName <- OneName
    Path <- OnePath
    BaseName <- OneBase
    Nfd <- OneNfd
    Data = {d1}
    Size <- Below
    MaxFileSize = 3
    HeaderLen = 1
    FileId = {i1, i2}
    Login <- OwnUser
    Reach <- Anywhere
    Faults = {"read", "write", "zero"}
    Absent = Absent
SYMMETRY Symmetry
INVARIANTS
    RecordBacked
    StoreComplete
    KeptIsRetrievable
PROPERTIES
    KeepsItsPromise
