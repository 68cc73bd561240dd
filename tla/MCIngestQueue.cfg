SPECIFICATION Spec
CONSTANTS
    Jobs = {"j1", "j2"}
    UrlJobs = {"j1"}
    Episodes = {"j1", "j2"}
    EpisodeOf <- MCEpisodeOf
    Workers = {w1, w2}
    MaxJobs = 2
    MaxFinished = 0
    ResumeInterrupted = TRUE
    MaxRetries = 1
    MaxCrashes = 1
    NoJob = NoJob
    w1 = w1
    w2 = w2
SYMMETRY MCWorkers
CONSTRAINT MCBound
INVARIANT TypeOK
INVARIANT NoLostJob
INVARIANT NoDoubleRun
INVARIANT WaitingHasEntry
INVARIANT ActiveIsDurable
INVARIANT CompletedIsImported
CHECK_DEADLOCK FALSE
