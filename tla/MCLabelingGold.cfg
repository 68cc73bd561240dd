SPECIFICATION Spec
CONSTANTS
    Segments = {"s1"}
    Requests = {r1,r2}
    MaxTasks = 2
    MaxLabels = 2
    r1 = r1
    r2 = r2
SYMMETRY MCRequests
INVARIANT GoldIsListenedTo
CHECK_DEADLOCK FALSE
