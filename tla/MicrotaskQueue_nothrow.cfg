\* Microtasks that never throw: drain completeness, eventual execution of
\* every job, and the scheduler contract (FIFO, return only when empty).
CONSTANTS
    p1 = p1
    u1 = u1
    NoJob = NoJob
    PromiseJobs <- MCPromiseJobs
    UserJobs <- MCUserJobs
    MayThrow = FALSE
    MaxEnqueues = 4
SPECIFICATION FairSpec
PROPERTY DrainCompletes
PROPERTY EveryJobRuns
PROPERTY QueueRefinesContract
