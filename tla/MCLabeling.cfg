SPECIFICATION Spec
CONSTANTS
    Segments = {"s1"}
    Requests = {r1}
    MaxTasks = 4
    MaxLabels = 4
    r1 = r1
SYMMETRY MCRequests
INVARIANT TypeOK
INVARIANT GoldIsListenedTo
INVARIANT AcceptNeverUndoesEdit
INVARIANT SecondLabelIsListenedTo
INVARIANT LifecycleFollowsLabel
INVARIANT OneLabelPerTask
INVARIANT DoneTaskHasLabel
CHECK_DEADLOCK FALSE
