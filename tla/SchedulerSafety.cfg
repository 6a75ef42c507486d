SPECIFICATION Spec
CONSTANTS
    Slugs = {s1}
    Handlers = {h1, h2}
    Files = {f1}
    Pipelines = {timed, manual}
    Periodic = {timed}
    Hanging = {timed}
    NoPipeline = NoPipeline
    NoFile = NoFile
    NoMutex = NoMutex
    Nobody = Nobody
SYMMETRY HandlerSymmetry
INVARIANTS TypeOK NoOverlap LockDiscipline LockedIffRunning
PROPERTY ImplementsExclusiveRuns
