SPECIFICATION MCSpec
CONSTANTS
    p1 = p1
    p2 = p2
    Papers = {p1, p2}
    Group <- TwoGroups
    InZotero = {p2}
    FirstDigest <- Digests
    MaxChanges = 1
    MaxFails = 1
    MaxRuns = 2
    MaxCommands = 2
    NoNote = NoNote
    Blank = Blank
    Garbled = Garbled
INVARIANTS StaysCovered LinesKept MigrationSettles
CHECK_DEADLOCK FALSE
