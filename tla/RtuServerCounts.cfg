SPECIFICATION Spec
CONSTANTS
    LogCapacity = 3
    CounterMax = 3
    Word <- MCOneWord
    PduLength <- MCTwoLengths
    PduCapacity <- MCLargeCapacity
    ServerIdLength = 9
    ExceptionCode <- MCOneCode
INVARIANTS
    LogIsHistory
    CountersNest
VIEW
    CountersView
