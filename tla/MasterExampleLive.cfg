SPECIFICATION ExampleSpec
CONSTANTS
    MaxRetries = 1
    ResponseTimeout = 2
    RetryDelay = 1
    RetryTransportErrors = TRUE
    HalfRange = 3
    PollLatency = 0
    TransportDepth = 1
    CounterMax = 0
    Regs = {1, 2}
    First = 1
    RxCapacity = 1
    T15 = 0
    T35 = 1
    ByteTicks = 1
    TicksPerMs = 1
    Period = 1
    FirstDelay = 1
    StallTicks = 1
    CopyTicks = 0
    Tests = {"read", "write_one", "write_all", "invalid"}
    LineDepth = 1
    UpsetMax = 1
    Noise = Noise
VIEW ExampleView
INVARIANTS PassIsTrue
PROPERTIES CyclesGoOn
