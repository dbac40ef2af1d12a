SPECIFICATION Spec
CONSTANTS
    MaxRetries = 2
    ResponseTimeout = 3
    RetryDelay = 2
    RetryTransportErrors = TRUE
    HalfRange = 4
    PollLatency = 3
    TransportDepth = 1
    CounterMax = 4
CONSTRAINT CountersCount
INVARIANTS DeadlineExact RetryBudget ResultTellsTheStory DiagnosticsBalance
PROPERTIES LateNeverCompletes
