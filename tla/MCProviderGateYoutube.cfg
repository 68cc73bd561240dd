SPECIFICATION Spec
CONSTANTS
    Callers = {c1, c2, c3}
    Limits = {1}
    Interval = 1
    Cooldown = 1
    MaxCooldown = 4
    RateLimitRetries = 0
    MaxAttempts = 1
    c1 = c1
    c2 = c2
    c3 = c3
    RetryAfters = {0}
    Services = {"youtube"}
    MaxStrikes = 0
SYMMETRY MCCallers
INVARIANT StrikesSinceSuccess
CHECK_DEADLOCK FALSE
