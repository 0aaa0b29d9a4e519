SPECIFICATION Spec
CONSTANTS
    P1 = P1
    P2 = P2
    Proc = {P1}
    User <- OneUser
    Name <- OneName
    SafeName <- OneName
    Path <- OnePath
    BaseName <- OneBase
    Nfd <- OneNfd
    Data = {d1}
    Size <- Below
    MaxFileSize = 3
    HeaderLen = 1
    FileId = {i1}
    Login <- Anyone
    Reach <- Anywhere
    Faults = {"zero", "remove"}
    Absent = Absent
SYMMETRY Symmetry
PROPERTIES
    NoReadableCopy
