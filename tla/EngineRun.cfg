SPECIFICATION FairSpec
CONSTANTS
    Nodes <- MCNodes
    Conds <- MCConds
    Top <- MCTop
    Then <- MCThen
    Else <- MCElse
    IDs <- MCIDs
    Programs <- MCPrograms
    NoStep = NoStep
    NotRun = NotRun
INVARIANTS TypeOK NoReadOfFailed RecordTruthful ValidatedRefsFound LintedBounded
PROPERTIES FailFast RunEnds
