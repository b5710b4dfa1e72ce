SPECIFICATION FairSpec
CONSTANTS
    w1 = w1  w2 = w2
    NJobs = 3
    Workers = {w1, w2}
    MaxAttempts = 3
    BatchPerRun = 2
    MaxCrashes = 2
INVARIANTS TypeOK OneBatchPerJob FirstAttemptsInOrder
PROPERTIES OnlyHeldJobsAreLost QueuePromise
