SPECIFICATION FairSpec
CONSTANTS
    Callers = {c1, c2}
    Limits = {1, 2}
    Interval = 2
    Cooldown = 1
    MaxCooldown = 4
    RateLimitRetries = 2
    MaxAttempts = 2
    c1 = c1
    c2 = c2
    RetryAfters = {0, 1, 3}
    Services = {"llm", "youtube"}
    MaxStrikes = 3
INVARIANT TypeOK
INVARIANT CapacityRespected
INVARIANT NoStrandedWaiter
INVARIANT NoOversleep
INVARIANT ToldIsKept
PROPERTY EveryRequestEnds
CHECK_DEADLOCK FALSE
