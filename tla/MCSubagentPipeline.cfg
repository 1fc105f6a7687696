SPECIFICATION FairSpec
CONSTANTS
    p1 = p1
    p2 = p2
    Papers = {p1, p2}
    Names = {"one", "two"}
    Filename <- OwnName
    Forced = FALSE
    Attempts = 2
    MaxBad = 1
    MaxFails = 2
    MaxSolo = 1
    None = None
    Partial = Partial
    Invalid = Invalid
    Garbled = Garbled
INVARIANTS NoteOfItsPaper RecordedWasPublished PendingListed DoneMissesOnlyTorn
PROPERTY BatchEndsUnlessUndecodable
