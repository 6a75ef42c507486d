SPECIFICATION FairSpec
CONSTANTS
    Slugs = {s1}
    Handlers = {h1}
    Files = {f1}
    Pipelines = {timed, hang}
    Periodic = {timed, hang}
    Hanging = {hang}
    NoPipeline = NoPipeline
    NoFile = NoFile
    NoMutex = NoMutex
    Nobody = Nobody
PROPERTIES KeepsTrying ShutdownCompletes RequestAnswered EditTakesEffect
