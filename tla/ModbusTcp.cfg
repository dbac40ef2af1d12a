\* Three connections for two slots, and streams in every segmentation.
CONSTANTS
    p1 = p1  p2 = p2  p3 = p3
    Pcb <- MCPcb
    MaxClients = 2
    AduMax = 5
    Byte <- MCByte
    Streams <- MCStreams
    MaxWrites = 2
SPECIFICATION Spec
VIEW SlotView
INVARIANTS SlotsMatchConnections StreamReassembled
PROPERTIES AbortedForCause
CHECK_DEADLOCK FALSE
