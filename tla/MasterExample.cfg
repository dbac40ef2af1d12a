SPECIFICATION ExampleSafety
CONSTANTS
    MaxRetries = 1
    ResponseTimeout = 2
    RetryDelay = 1
    RetryTransportErrors = TRUE
    HalfRange = 4
    PollLatency = 0
    TransportDepth = 1
    CounterMax = 0
    Regs = {1}
    First = 1
    RxCapacity = 1
    T15 = 0
    T35 = 2
    ByteTicks = 1
    TicksPerMs = 1
    Period = 1
    FirstDelay = 1
    StallTicks = 2
    CopyTicks = 1
    Tests = {"write_all"}
    LineDepth = 2
    UpsetMax = 1
    Noise = Noise
VIEW ExampleView
INVARIANTS PassIsTrue
PROPERTIES FrameIntact FreshWindow
