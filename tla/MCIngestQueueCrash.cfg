SPECIFICATION FairSpec
CONSTANTS
    Jobs = {"j1", "j2"}
    UrlJobs = {"j1"}
    Episodes = {"j1", "j2"}
    EpisodeOf <- MCEpisodeOf
    Workers = {w1}
    MaxJobs = 1
    MaxFinished = 0
    ResumeInterrupted = TRUE
    MaxRetries = 0
    MaxCrashes = 1
    NoJob = NoJob
    w1 = w1
 
PROPERTY KeepsTheBoard
PROPERTY EveryJobSettles
PROPERTY InterruptedRunsAgain
CHECK_DEADLOCK FALSE
