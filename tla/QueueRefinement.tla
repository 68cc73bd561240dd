-------------------------- MODULE QueueRefinement --------------------------
(***************************************************************************)
(* IngestQueue implements JobBoard.  Where a job stands is read from its   *)
(* entries, its worker and the handler that has it, never from the status  *)
(* it shows, and while the server is down from what it left on disk.       *)
(***************************************************************************)
EXTENDS IngestQueue

\* Failed by a crash and not taken up since: what shows INTERRUPTED as its error.
Cut(j)       == status[j] = "failed" /\ interrupted[j]
CutOnDisk(j) == WasActive(j) \/ (disk.status[j] = "failed" /\ disk.interrupted[j])

OnDisk(j) ==
    IF j \notin Elements(created) THEN "none"
    ELSE IF j \notin disk.jobs THEN "gone"
    ELSE IF CutOnDisk(j) THEN "cut" ELSE "ended"

InMemory(j) ==
    IF j \in ghosts THEN "off"
    ELSE IF \E w \in Workers : Holds(w, j) THEN "run"
    ELSE IF Queued(j) \/ Submitting(j) THEN "line"
    ELSE IF j \in RunningIds THEN "closing"
    ELSE IF j \in registry THEN (IF Cut(j) THEN "cut" ELSE "ended")
    ELSE IF j \in Elements(created) THEN "gone" ELSE "none"

Phase == [j \in Jobs |-> IF up THEN InMemory(j) ELSE OnDisk(j)]

Board == INSTANCE JobBoard WITH Limit <- MaxJobs, phase <- Phase, alive <- up

\* Every step of the manager, its workers, the crash and the restart is one of the board's or
\* none at all: a job runs only out of the line and never more than the limit at once, a crash
\* forgets nothing that was in line or running, and an end that came to rest, like a deletion,
\* outlasts every crash.
KeepsTheBoard == Board!Spec
=============================================================================
