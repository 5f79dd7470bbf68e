\* A throwing queueMicrotask callback: does run_jobs still drain the queue?
CONSTANTS
    p1 = p1
    u1 = u1
    NoJob = NoJob
    PromiseJobs <- MCPromiseJobs
    UserJobs <- MCUserJobs
    MayThrow = TRUE
    MaxEnqueues = 4
SPECIFICATION Spec
PROPERTY DrainCompletes
