SPECIFICATION Spec
CONSTANTS
    Builds = {b1}
    Source = Source
    Digests = {d1, d2, d3}
    Batches = 2
    MaxPulls = 3
    MaxMeddles = 2
    None = None
CHECK_DEADLOCK FALSE
INVARIANT AliasNamed
