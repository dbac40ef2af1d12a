SPECIFICATION TransportSpec
CONSTANTS
    PduMax = 15
    Configurations <- MCConfigurations
    ObjectIds = {0, 1, 3, 129, 200}
    Capacity = {6, 12, 15, 16}
    MaxObjects = 5
    MaxValueLength = 6
    StorageSize = 12
    MaxGenerations = 2
    Task = {t1, t2}
    MeiTypes = {1, 2, 13}
    Pairs = {p, q}
    MaxHandlers = 2
    Capacities = {1, 14, 16}
    Results <- MCResults
    NULL = NULL
INVARIANTS StreamComplete ResponseSound OneEntryPerType PairWhole MeiAnswersAccepted
PROPERTIES StreamEnds
