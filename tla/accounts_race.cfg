SPECIFICATION Spec
CONSTANTS
    f1 = f1
    f2 = f2
    Proc = {p1, p2}
    User <- TwoUsers
    SafeUser <- TwoUsers
    File <- Files
    FileOf <- Apart
    Password = {k1, k2}
    Blank = blank
    AccountFaults = {"read", "write"}
    None = None
INVARIANTS
    Accounted
    NoDebris
    SuccessMeansAccount
PROPERTIES
    KeepsTheRegister
    AccountNeverChanges
