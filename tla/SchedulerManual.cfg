SPECIFICATION Spec
CONSTANTS
    Slugs = {s1}
    Handlers = {h1}
    Files = {f1}
    Pipelines = {timed, manual}
    Periodic = {timed}
    Hanging = {}
    NoPipeline = NoPipeline
    NoFile = NoFile
    NoMutex = NoMutex
    Nobody = Nobody
PROPERTY ManualOnlyNotScheduled
