SPECIFICATION FairSpec
CONSTANTS
    Gens = {g1, g2}
    Procs = {p1, p2}
    Papers = TRUE
    Permissive = {}
    World <- Unchanging
    MaxDamage = 0
    None = None
    Garbled = Garbled
INVARIANTS LatestNeverReturns NoFalseSuccess
PROPERTY BuildEnds
