SPECIFICATION ExchangeSpec
CONSTANTS
    Task = {t1}
    Bits = {0, 1}
    Size <- MCWideSize
    Requests <- OneTask
    CreateMayFail = TRUE
    MaxHandles = 1
    Calls <- MCCalls
    Strays <- MCStrays
    Block <- MCBlock
    Length <- MCLength
    Word <- MCWord
    FileTables <- MCFileTables
    QueueTables <- MCQueueTables
    Reads <- MCReads
    Writes <- MCWrites
    Addresses = {0, 1, 2}
    Capacity = {8, 9, 22}
    MaxFiles = 2
    MaxRecords = 3
    ResponseMax = 8
    MaxQueues = 2
    MaxValues = 2
VIEW ExchangeView
INVARIANTS RequestsExact AnswersAccepted AcceptedIsConformant
PROPERTIES WriteAllOrNothing BlocksAnswersAccepted
