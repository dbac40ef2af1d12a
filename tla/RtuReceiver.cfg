SPECIFICATION FairSpec
CONSTANTS
    b1 = b1  b2 = b2
    Byte <- MCByte
    Capacity = 2
    AduMinSize = 2
    T15 = 1
    T35 = 3
    CounterModulus = 3
    LineStats = {}
    NoFrame = NoFrame
VIEW ReceiverView
INVARIANTS FrameAccounting
PROPERTIES ImplementsSlot FramesMoveOn
