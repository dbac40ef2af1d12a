SPECIFICATION Spec
CONSTANTS
    LogCapacity = 1
    CounterMax = 0
    Word <- MCOneWord
    PduLength <- MCAllLengths
    PduCapacity <- MCLargeCapacity
    ServerIdLength = 9
    ExceptionCode <- MCTwoCodes
INVARIANT
    ListenOnlySilent
