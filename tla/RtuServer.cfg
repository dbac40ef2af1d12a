SPECIFICATION Spec
CONSTANTS
    LogCapacity = 3
    CounterMax = 1
    Word <- MCWord
    PduLength <- MCAllLengths
    PduCapacity <- MCCapacities
    ServerIdLength = 9
    ExceptionCode <- MCAllCodes
PROPERTIES
    ListenOnlyExecutesNothing
    OneEventPerOutcome
    RefusedChangesNothing
VIEW
    ServerView
