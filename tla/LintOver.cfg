SPECIFICATION Spec
CONSTANTS
    Nodes <- MCNodes
    Conds <- MCConds
    Top <- MCTop
    Then <- MCThen
    Else <- MCElse
    IDs <- MCIDs
    Programs <- MCPrograms
    NoStep = NoStep
    NotRun = NotRun
INVARIANT DocumentedAccepted
