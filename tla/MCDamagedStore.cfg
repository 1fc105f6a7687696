SPECIFICATION Spec
CONSTANTS
    Gens = {g1, g2}
    Procs = {p1, p2}
    Papers = FALSE
    Permissive = {p2}
    World <- ModelChange
    MaxDamage = 1
    None = None
    Garbled = Garbled
SYMMETRY Symmetry
INVARIANTS TypeOK
PROPERTIES RecoveryKeepsPointer RefinesRegister NoStalePublish
