SPECIFICATION Spec
CONSTANTS
    Gens = {g1, g2, g3}
    Procs = {p1}
    Papers = FALSE
    Permissive = {}
    World <- RenameAndWithdraw
    MaxDamage = 0
    None = None
    Garbled = Garbled
SYMMETRY Symmetry
INVARIANTS ActiveServable LatestTruthful
PROPERTIES SealedImmutable DeletesOnlyObsolete NoSilentWithdrawal CommitReported
