SPECIFICATION Spec
CONSTANTS
    f1 = f1
    f2 = f2
    Proc = {p1}
    User <- Users
    SafeUser <- Accepted
    File <- Files
    FileOf <- FoldCase
    Password = {k1, k2, blank}
    Blank = blank
    AccountFaults = {"crash", "write", "flush", "remove"}
    None = None
INVARIANTS
    TypeOK
    OneAdmin
    SessionIsAccount
