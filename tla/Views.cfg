SPECIFICATION FairSpec
CONSTANTS
    Slugs <- MCSlugs
    RunIDs <- MCRunIDs
    StartOf <- MCStartOf
    PageSize = 2
    WidgetSlug = 1
    Polls = {"poll1", "poll2"}
    NoSlug = NoSlug
    NoRun = NoRun
    NoRead = NoRead
INVARIANTS TypeOK RegularRead OneJob ViewMatches ResultNotOlder SeriesInOrder
PROPERTIES WidgetSettles
