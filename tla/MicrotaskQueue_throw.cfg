\* queueMicrotask callbacks may throw: order and engine notification.
CONSTANTS
    p1 = p1
    u1 = u1
    NoJob = NoJob
    PromiseJobs <- MCPromiseJobs
    UserJobs <- MCUserJobs
    MayThrow = TRUE
    MaxEnqueues = 4
SPECIFICATION Spec
INVARIANT FifoOrder
INVARIANT EngineNotified
