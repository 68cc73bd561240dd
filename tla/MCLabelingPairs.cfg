SPECIFICATION Spec
CONSTANTS
    Segments = {"s1"}
    Requests = {r1,r2}
    MaxTasks = 2
    MaxLabels = 1
    r1 = r1
    r2 = r2
SYMMETRY MCRequests
INVARIANT DoneTaskHasLabel
INVARIANT UnlabelledComesBack
CHECK_DEADLOCK FALSE
