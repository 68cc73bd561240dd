SPECIFICATION Spec
CONSTANTS
    Jobs = {"j1", "j2"}
    UrlJobs = {"j1"}
    Episodes = {"j1", "j2"}
    EpisodeOf <- MCEpisodeOf
    Workers = {w1}
    MaxJobs = 1
    MaxFinished = 0
    ResumeInterrupted = TRUE
    MaxRetries = 1
    MaxCrashes = 0
    NoJob = NoJob
    w1 = w1
SYMMETRY MCWorkers
INVARIANT CancelledIsNotRun
CHECK_DEADLOCK FALSE
