SPECIFICATION FairSpec
CONSTANTS
    Threads = {t1, t2}
    Keys = {k1, k2}
    n1 = n1
    n2 = n2
    Names = {n1, n2}
    Shelf = {s1}
    Texts = {"1"}
    IdOf <- SameId
    Actions = {a1, a2}
    MaxCalls = 3
    MaxEdits = 1
    None = None
    Garbled = Garbled
CHECK_DEADLOCK FALSE
INVARIANTS TypeOK AnswerTrue
PROPERTIES OneLogPerKey NothingLost RegistryGrows AllAnswered
