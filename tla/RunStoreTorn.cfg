SPECIFICATION Spec
CONSTANTS
    Procs = {p1, p2}
    Slugs = {s1}
    Paths = {yaml}
    Long <- MCLong
    RunIDs = {1, 2}
    MaxSecond = 1
    NoReg = NoReg
    Empty = Empty
    Garbled = Garbled
    NoSlug = NoSlug
    NoRun = NoRun
SYMMETRY Symmetric
INVARIANT PageFull
