SPECIFICATION Spec
CONSTANTS
    LineSize = 4
    ChoiceSize = 4
    UserSize = 4
    NameSize = 6
    NfdSize = 12
    FieldSize = 6
    Alphabet <- Edges
    MaxLen <- Lengths
CHECK_DEADLOCK FALSE
INVARIANTS
    OneLinePerRead
    ChoiceIsMeant
    StoredNamesStay
    UsersCanOwn
    NfdIsOtherSpelling
    FieldIsJson
