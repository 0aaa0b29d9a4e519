SPECIFICATION Spec
CONSTANTS
    f1 = f1
    User <- Spellings
    SafeUser <- Spellings
    File <- OneFile
    FileOf <- SameFile
    Password = {k1, blank}
    Blank = blank
    Name = {n1}
    Failures = {"elide"}
    MaxLog = 5
    None = None
    Lost = Lost
INVARIANTS
    CleansedAtMenu
