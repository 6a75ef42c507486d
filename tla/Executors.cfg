SPECIFICATION FairSpec
CONSTANTS
    Floats <- MCFloats
    Huge <- MCHuge
    Data <- MCData
    Fields <- MCFields
    Steps <- MCSteps
    MaxLines = 2
INVARIANTS TypeOK OkTrusted NothingLeftBehind RecordsPrinted AggregateSound
PROPERTIES CancelReturns ExitReturns RequestReturns
