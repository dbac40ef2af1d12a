SPECIFICATION HistorySpec
CONSTANTS
    Task = {t1, t2}
    Bits = {0, 1}
    Size <- MCSize
    Requests <- Contended
    CreateMayFail = FALSE
    MaxHandles = 2
INVARIANTS MaskWriteAtomic HookPerWrite ReadsFresh
PROPERTIES RequestsFinish
