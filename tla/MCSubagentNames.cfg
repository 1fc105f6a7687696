SPECIFICATION Spec
CONSTANTS
    p1 = p1
    p2 = p2
    Papers = {p1, p2}
    Names = {"one", "two"}
    Filename <- SameName
    Forced = FALSE
    Attempts = 2
    MaxBad = 1
    MaxFails = 0
    MaxSolo = 0
    None = None
    Partial = Partial
    Invalid = Invalid
    Garbled = Garbled
INVARIANT DoneHasNotes
