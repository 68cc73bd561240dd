-------------------------- MODULE IngestQueueProofs --------------------------
(***************************************************************************)
(* Proofs about IngestQueue, for any jobs, workers, bounds and settings:   *)
(* its type invariant, that no job is lost, that none is run twice, and    *)
(* that a crash loses no accepted work.                                    *)
(***************************************************************************)
EXTENDS IngestQueue, SequenceTheorems, TLAPS

(***************************************************************************)
(* What list.remove returns.                                               *)
(***************************************************************************)
\* Past the place where it stood, the rest moves up.
LEMMA DroppedShape ==
    ASSUME NEW S, NEW s \in Seq(S), NEW j \in Elements(s)
    PROVE  \E k \in 1 .. Len(s) :
              /\ s[k] = j
              /\ Dropped(s, j) \in Seq(S)
              /\ Len(Dropped(s, j)) = Len(s) - 1
              /\ \A i \in 1 .. Len(s) - 1 :
                    Dropped(s, j)[i] = IF i < k THEN s[i] ELSE s[i + 1]
<1> DEFINE k == CHOOSE i \in DOMAIN s : s[i] = j
           before == SubSeq(s, 1, k - 1)
           after  == SubSeq(s, k + 1, Len(s))
<1>1. k \in 1 .. Len(s) /\ s[k] = j
    BY DEF Elements
<1>2. Dropped(s, j) = before \o after
    BY DEF Dropped, RemoveAt
<1> HIDE DEF k
<1>3. /\ before \in Seq(S) /\ Len(before) = k - 1
      /\ \A i \in 1 .. k - 1 : before[i] = s[i]
    BY <1>1, SubSeqProperties
<1>4. /\ after \in Seq(S) /\ Len(after) = Len(s) - k
      /\ \A i \in 1 .. Len(s) - k : after[i] = s[i + k]
    BY <1>1, SubSeqProperties
<1> HIDE DEF before, after
<1>5. /\ before \o after \in Seq(S)
      /\ Len(before \o after) = Len(before) + Len(after)
      /\ \A i \in 1 .. Len(before) + Len(after) :
            (before \o after)[i] = IF i <= Len(before) THEN before[i]
                                  ELSE after[i - Len(before)]
    BY <1>3, <1>4, ConcatProperties
<1>6. ASSUME NEW i \in 1 .. Len(s) - 1
      PROVE  (before \o after)[i] = IF i < k THEN s[i] ELSE s[i + 1]
    <2>1. CASE i < k
        BY <1>1, <1>3, <1>4, <1>5, <2>1
    <2>2. CASE ~(i < k)
        <3>1. i - (k - 1) \in 1 .. Len(s) - k /\ (i - (k - 1)) + k = i + 1
            BY <1>1, <2>2
        <3>2. (before \o after)[i] = after[i - (k - 1)]
            BY <1>1, <1>3, <1>4, <1>5, <2>2
        <3>3. after[i - (k - 1)] = s[(i - (k - 1)) + k]
            BY <1>4, <3>1
        <3> QED
            BY <2>2, <3>1, <3>2, <3>3
    <2> QED
        BY <2>1, <2>2
<1>7. /\ Dropped(s, j) \in Seq(S)
      /\ Len(Dropped(s, j)) = Len(s) - 1
      /\ \A i \in 1 .. Len(s) - 1 :
            Dropped(s, j)[i] = IF i < k THEN s[i] ELSE s[i + 1]
    BY <1>1, <1>2, <1>3, <1>4, <1>5, <1>6
<1> QED
    BY <1>1, <1>7

\* Dropping a job from a list leaves a list of jobs.
LEMMA DroppedSeq ==
    ASSUME NEW S, NEW s \in Seq(S), NEW j
    PROVE  /\ Dropped(s, j) \in Seq(S)
           /\ \A i \in Elements(s) \ {j} : i \in Elements(Dropped(s, j))
<1>1. CASE j \in Elements(s)
    <2>1. PICK k \in 1 .. Len(s) :
              /\ s[k] = j
              /\ Dropped(s, j) \in Seq(S)
              /\ Len(Dropped(s, j)) = Len(s) - 1
              /\ \A i \in 1 .. Len(s) - 1 :
                    Dropped(s, j)[i] = IF i < k THEN s[i] ELSE s[i + 1]
        BY <1>1, DroppedShape
    <2>2. ASSUME NEW i \in 1 .. Len(s), s[i] # j
          PROVE  \E n \in 1 .. Len(s) - 1 : Dropped(s, j)[n] = s[i]
        <3>1. CASE i < k
            BY <2>1, <3>1
        <3>2. CASE i > k
            <4>1. i - 1 \in 1 .. Len(s) - 1 /\ ~(i - 1 < k) /\ (i - 1) + 1 = i
                BY <2>1, <3>2
            <4> QED
                BY <2>1, <4>1
        <3> QED
            BY <2>1, <2>2, <3>1, <3>2
    <2> QED
        BY <2>1, <2>2 DEF Elements
<1>2. CASE j \notin Elements(s)
    BY <1>2 DEF Dropped
<1> QED
    BY <1>1, <1>2

\* A list without duplicates holds no trace of what was removed, and still has none.
Once(s) == \A i, k \in DOMAIN s : s[i] = s[k] => i = k

\* Dropping a job from a list without duplicates leaves exactly the others.
LEMMA DroppedOnce ==
    ASSUME NEW S, NEW s \in Seq(S), NEW j, Once(s)
    PROVE  /\ Once(Dropped(s, j)) /\ j \notin Elements(Dropped(s, j))
           /\ \A i \in Elements(Dropped(s, j)) : i \in Elements(s)
<1>1. CASE j \in Elements(s)
    <2>1. PICK k \in 1 .. Len(s) :
              /\ s[k] = j
              /\ Dropped(s, j) \in Seq(S)
              /\ Len(Dropped(s, j)) = Len(s) - 1
              /\ \A i \in 1 .. Len(s) - 1 :
                    Dropped(s, j)[i] = IF i < k THEN s[i] ELSE s[i + 1]
        BY <1>1, DroppedShape
    <2> DEFINE from(i) == IF i < k THEN i ELSE i + 1
    <2>2. /\ DOMAIN s = 1 .. Len(s) /\ DOMAIN Dropped(s, j) = 1 .. Len(s) - 1
          /\ Len(s) \in Nat
        BY <2>1
    <2>3. ASSUME NEW i \in 1 .. Len(s) - 1
          PROVE  from(i) \in 1 .. Len(s) /\ from(i) # k /\ Dropped(s, j)[i] = s[from(i)]
        BY <2>1, <2>2
    <2>4. \A i, n \in 1 .. Len(s) - 1 : from(i) = from(n) => i = n
        BY <2>1, <2>2
    <2> HIDE DEF from
    <2>5. Once(Dropped(s, j))
        BY <2>2, <2>3, <2>4 DEF Once
    <2>6. j \notin Elements(Dropped(s, j))
        BY <2>1, <2>2, <2>3 DEF Once, Elements
    <2>7. \A i \in Elements(Dropped(s, j)) : i \in Elements(s)
        BY <2>2, <2>3 DEF Elements
    <2> QED
        BY <2>5, <2>6, <2>7
<1>2. CASE j \notin Elements(s)
    BY <1>2 DEF Dropped
<1> QED
    BY <1>1, <1>2

-----------------------------------------------------------------------------
(***************************************************************************)
(* Type correctness.                                                       *)
(***************************************************************************)

\* A busy worker has a job, and moving on keeps it.
LEMMA BusyFacts ==
    ASSUME TypeOK, NEW w \in Workers, run[w].at # "idle"
    PROVE  run[w].job \in Jobs /\ run[w].at \in Running \cup Ending
    BY DEF TypeOK, Runs, Idle

\* A move of one worker keeps its job, and leaves the other workers alone.
LEMMA MoveToFacts ==
    ASSUME TypeOK, NEW w \in Workers, run[w].at # "idle",
           NEW place \in Running \cup Ending, MoveTo(w, place)
    PROVE  /\ run' \in [Workers -> Runs]
           /\ run'[w].job = run[w].job /\ run'[w].at = place
           /\ \A v \in Workers \ {w} : run'[v] = run[v]
<1>1. run[w] \in [job : Jobs, at : Running \cup Ending]
    BY DEF TypeOK, Runs, Idle
<1>2. run' = [run EXCEPT ![w] = [run[w] EXCEPT !.at = place]]
    BY DEF MoveTo
<1>3. [run[w] EXCEPT !.at = place] \in [job : Jobs, at : Running \cup Ending]
    BY <1>1
<1> QED
    BY <1>1, <1>2, <1>3 DEF TypeOK, Runs

\* _save_state writes a well-formed file, with the jobs and statuses of the moment.
LEMMA SaveFacts ==
    ASSUME status' \in [Jobs -> Statuses], interrupted' \in [Jobs -> BOOLEAN],
           registry' \subseteq Jobs, waiting' \in Seq(Jobs), backlog' \subseteq Jobs,
           run' \in [Workers -> Runs], Save
    PROVE  /\ disk' \in Files
           /\ disk'.jobs = registry'
           /\ \A j \in registry' : disk'.status[j] = status'[j]
<1>1. RunningIds' \subseteq Jobs
    BY DEF RunningIds, Busy, Runs, Idle
<1>2. [j \in Jobs |-> IF j \in registry' THEN status'[j] ELSE "none"] \in [Jobs -> Statuses]
    BY DEF Statuses
<1>3. [j \in Jobs |-> j \in registry' /\ interrupted'[j]] \in [Jobs -> BOOLEAN]
    OBVIOUS
<1>4. disk' = [jobs |-> registry',
               status |-> [j \in Jobs |-> IF j \in registry' THEN status'[j] ELSE "none"],
               interrupted |-> [j \in Jobs |-> j \in registry' /\ interrupted'[j]],
               waiting |-> waiting', running |-> RunningIds', backlog |-> backlog']
    BY DEF Save, Saved
<1> QED
    BY <1>1, <1>2, <1>3, <1>4 DEF Files

\* append keeps what a list holds, and adds one thing to it.
LEMMA AppendElements ==
    ASSUME NEW S, NEW s \in Seq(S), NEW j \in S
    PROVE  Elements(Append(s, j)) = Elements(s) \cup {j}
<1>1. /\ Len(Append(s, j)) = Len(s) + 1 /\ DOMAIN Append(s, j) = 1 .. Len(s) + 1
      /\ \A i \in 1 .. Len(s) : Append(s, j)[i] = s[i]
      /\ Append(s, j)[Len(s) + 1] = j
    OBVIOUS
<1>2. Len(s) \in Nat /\ DOMAIN s = 1 .. Len(s)
    OBVIOUS
<1>3. \A i \in 1 .. Len(s) + 1 : i \in 1 .. Len(s) \/ i = Len(s) + 1
    BY <1>2
<1>4. 1 .. Len(s) \subseteq 1 .. Len(s) + 1 /\ Len(s) + 1 \in 1 .. Len(s) + 1
    BY <1>2
<1> QED
    BY <1>1, <1>2, <1>3, <1>4 DEF Elements

\* The handler goes on to what is left of its list, or ends.
LEMMA AdvanceFacts ==
    ASSUME TypeOK, NEW j \in Jobs, j \in api.todo, Advance(j)
    PROVE  /\ api' \in Handlers /\ (api'.op = "idle" <=> api'.todo = {})
           /\ api'.op \in {"idle", api.op}
<1>1. api.op # "idle"
    BY DEF TypeOK
<1>2. CASE api.todo = {j}
    BY <1>2 DEF Advance, Quiet, Handlers
<1>3. CASE api.todo # {j}
    <2>1. api' = [api EXCEPT !.todo = @ \ {j}] /\ api.todo \ {j} # {}
        BY <1>3 DEF Advance
    <2> QED
        BY <1>1, <2>1 DEF Handlers, TypeOK
<1> QED
    BY <1>2, <1>3

\* What a requeue writes is well formed.
LEMMA RequeueFacts ==
    ASSUME TypeOK, NEW j \in Jobs, Requeue(j)
    PROVE  /\ status' = [status EXCEPT ![j] = "pending"]
           /\ status' \in [Jobs -> Statuses] /\ interrupted' \in [Jobs -> BOOLEAN]
           /\ scrammed' \in [Jobs -> BOOLEAN] /\ backlog' \subseteq Jobs
           /\ waiting' \in Seq(Jobs) /\ pending' \in Seq(Jobs) /\ disk' \in Files
           /\ pending' = Append(pending, j)
           /\ \A i \in Elements(waiting) \cup {j} : i \in Elements(waiting')
           /\ unresumed' \subseteq Jobs
           /\ UNCHANGED <<registry, run, up, workDir, imported, created, ghosts, crashes>>
<1>1. /\ status' = [status EXCEPT ![j] = "pending"]
      /\ interrupted' = [interrupted EXCEPT ![j] = FALSE]
      /\ scrammed' = [scrammed EXCEPT ![j] = FALSE]
      /\ backlog' = backlog \ {j}
      /\ waiting' = Append(Dropped(waiting, j), j)
      /\ pending' = Append(pending, j)
      /\ UNCHANGED <<registry, run, up, workDir, imported, created, ghosts, crashes>>
    BY DEF Requeue
<1>2. Dropped(waiting, j) \in Seq(Jobs)
    BY DroppedSeq DEF TypeOK
<1>3. /\ status' \in [Jobs -> Statuses] /\ interrupted' \in [Jobs -> BOOLEAN]
      /\ scrammed' \in [Jobs -> BOOLEAN] /\ backlog' \subseteq Jobs
      /\ waiting' \in Seq(Jobs) /\ pending' \in Seq(Jobs)
    BY <1>1, <1>2 DEF TypeOK, Statuses, Active
<1>4. disk' \in Files
    BY <1>1, <1>3, SaveFacts DEF Requeue, TypeOK
<1>5. \A i \in Elements(waiting) \cup {j} : i \in Elements(waiting')
    <2>1. \A i \in Elements(waiting) \ {j} : i \in Elements(Dropped(waiting, j))
        BY DroppedSeq DEF TypeOK
    <2>2. \A i \in Elements(Dropped(waiting, j)) \cup {j} : i \in Elements(waiting')
        BY <1>1, <1>2, AppendElements
    <2> QED
        BY <2>1, <2>2
<1>6. unresumed' \subseteq Jobs
    BY DEF Requeue, TypeOK
<1> QED
    BY <1>1, <1>3, <1>4, <1>5, <1>6

\* The initial state is well formed.
LEMMA TypeInit == Init => TypeOK
<1> SUFFICES ASSUME Init PROVE TypeOK
    OBVIOUS
<1>1. api \in Handlers /\ (api.op = "idle" <=> api.todo = {})
    BY DEF Init, Quiet, Handlers
<1>2. disk \in Files /\ status \in [Jobs -> Statuses]
    BY DEF Init, Files, Statuses
<1> QED
    BY <1>1, <1>2 DEF Init, TypeOK, Runs

\* Every step keeps the state well formed.
LEMMA TypeInductive == TypeOK /\ [Next]_vars => TypeOK'
<1> SUFFICES ASSUME TypeOK, [Next]_vars PROVE TypeOK'
    OBVIOUS
<1> USE DEF jobVars, queueVars, diskVars, histVars
<1>a. {"pending", "processing", "failed", "aborted", "backlog", "completed", "none"} = Statuses
    BY DEF Statuses, Finished, Active
<1>c. Quiet \in Handlers /\ Quiet.op = "idle" /\ Quiet.todo = {}
    BY DEF Quiet, Handlers
\* API handlers.
<1>1. ASSUME NEW j \in Jobs, CreateJob(j) PROVE TypeOK'
    <2>1. /\ status' \in [Jobs -> Statuses] /\ registry' \subseteq Jobs
          /\ created' \in Seq(Jobs) /\ workDir' \in [Jobs -> BOOLEAN]
        BY <1>1, <1>a DEF CreateJob, SetStatus, TypeOK
    <2>2. api' \in Handlers /\ api'.op = "submit" /\ api'.todo = {j}
        BY <1>1, <1>c DEF CreateJob, Handlers
    <2>3. disk' \in Files
        BY <1>1, <2>1, SaveFacts DEF CreateJob, TypeOK
    <2> QED
        BY <1>1, <2>1, <2>2, <2>3 DEF CreateJob, TypeOK
<1>2. ASSUME NEW j \in Jobs, Submit(j) PROVE TypeOK'
    <2>1. backlog' \subseteq Jobs /\ waiting' \in Seq(Jobs) /\ pending' \in Seq(Jobs)
        BY <1>2 DEF Submit, TypeOK
    <2>2. api' \in Handlers /\ (api'.op = "idle" <=> api'.todo = {})
        BY <1>2, <1>c DEF Submit
    <2>3. disk' \in Files
        BY <1>2, <2>1, SaveFacts DEF Submit, TypeOK
    <2> QED
        BY <1>2, <2>1, <2>2, <2>3 DEF Submit, TypeOK
<1>3. ASSUME NEW j \in Jobs, RetryJob(j) PROVE TypeOK'
    <2>1. retries' \in Nat /\ api' = api
        BY <1>3 DEF RetryJob, TypeOK
    <2> QED
        BY <1>3, <2>1, RequeueFacts DEF RetryJob, TypeOK
<1>4. ASSUME NEW wanted, RetryAll(wanted) PROVE TypeOK'
    <2>1. api' \in Handlers /\ api'.op = "retryAll" /\ api'.todo # {}
        <3>1. PICK todo \in SUBSET registry :
                    todo # {} /\ api' = [Quiet EXCEPT !.op = "retryAll", !.todo = todo]
            BY <1>4 DEF RetryAll
        <3> QED
            BY <1>c, <3>1 DEF Handlers, TypeOK
    <2> QED
        BY <1>4, <2>1 DEF RetryAll, TypeOK
<1>5. ASSUME NEW j \in Jobs, RetryAllNext(j) PROVE TypeOK'
    <2>1. api' \in Handlers /\ (api'.op = "idle" <=> api'.todo = {})
        BY <1>5, AdvanceFacts DEF RetryAllNext
    <2>2. CASE Requeue(j) /\ UNCHANGED retries
        BY <2>1, <2>2, RequeueFacts DEF TypeOK
    <2>3. CASE UNCHANGED <<jobVars, queueVars, run, up, diskVars, histVars>>
        BY <2>1, <2>3 DEF TypeOK
    <2> QED
        BY <1>5, <2>2, <2>3 DEF RetryAllNext
<1>6. ASSUME NEW j \in Jobs, Scram(j) PROVE TypeOK'
    BY <1>6 DEF Scram, TypeOK
<1>7. ASSUME NEW j \in Jobs, CancelRunning(j) PROVE TypeOK'
    <2>1. disk' \in Files
        BY <1>7, SaveFacts DEF CancelRunning, TypeOK
    <2>2. scrammed' \in [Jobs -> BOOLEAN]
        <3>1. (scrammed[j] \/ status[j] \notin Finished) \in BOOLEAN
            OBVIOUS
        <3> QED
            BY <1>7, <3>1 DEF CancelRunning, TypeOK
    <2> QED
        BY <1>7, <2>1, <2>2 DEF CancelRunning, TypeOK
<1>8. ASSUME NEW j \in Jobs, CancelWaiting(j) PROVE TypeOK'
    <2>1. /\ status' \in [Jobs -> Statuses] /\ waiting' \in Seq(Jobs)
          /\ ghosts' \subseteq Jobs
        BY <1>8, <1>a, DroppedSeq DEF CancelWaiting, SetStatus, TypeOK
    <2>2. disk' \in Files
        BY <1>8, <2>1, SaveFacts DEF CancelWaiting, TypeOK
    <2> QED
        BY <1>8, <2>1, <2>2 DEF CancelWaiting, TypeOK
<1>9. ASSUME NEW j \in Jobs, CancelBacklog(j) PROVE TypeOK'
    <2>1. status' \in [Jobs -> Statuses] /\ backlog' \subseteq Jobs
        BY <1>9, <1>a DEF CancelBacklog, SetStatus, TypeOK
    <2>2. disk' \in Files
        BY <1>9, <2>1, SaveFacts DEF CancelBacklog, TypeOK
    <2> QED
        BY <1>9, <2>1, <2>2 DEF CancelBacklog, TypeOK
<1>10. ASSUME NEW j \in Jobs, DeleteJob(j) PROVE TypeOK'
    <2>1. disk' \in Files
        BY <1>10, SaveFacts DEF DeleteJob, TypeOK
    <2> QED
        BY <1>10, <2>1 DEF DeleteJob, TypeOK
<1>11. CASE ClearPast
    <2>1. disk' \in Files
        BY <1>11, SaveFacts DEF ClearPast, TypeOK
    <2> QED
        BY <1>11, <2>1 DEF ClearPast, TypeOK
\* Worker threads.
<1>b. ASSUME NEW w \in Workers, run[w].at # "idle",
             NEW s \in Statuses, SetStatus(run[w].job, s)
      PROVE  status' \in [Jobs -> Statuses]
    BY <1>b, BusyFacts DEF SetStatus, TypeOK
<1>12. ASSUME NEW w \in Workers, Pick(w) PROVE TypeOK'
    <2>1. Head(pending) \in Jobs /\ pending' \in Seq(Jobs) /\ waiting' \in Seq(Jobs)
        BY <1>12, DroppedSeq DEF Pick, TypeOK
    <2>2. [job |-> Head(pending), at |-> "picked"] \in Runs
        BY <2>1 DEF Runs, Running
    <2>3. run' \in [Workers -> Runs]
        BY <1>12, <2>2 DEF Pick, TypeOK
    <2>4. disk' \in Files
        BY <1>12, <2>1, <2>3, SaveFacts DEF Pick, TypeOK
    <2> QED
        BY <1>12, <2>1, <2>3, <2>4 DEF Pick, TypeOK
<1>13. ASSUME NEW w \in Workers, StartScrammed(w) PROVE TypeOK'
    BY <1>13, <1>a, <1>b, MoveToFacts DEF StartScrammed, At, TypeOK, Ending
<1>14. ASSUME NEW w \in Workers, StartRun(w) PROVE TypeOK'
    BY <1>14, <1>a, <1>b, MoveToFacts DEF StartRun, At, TypeOK, Running
<1>15. ASSUME NEW w \in Workers, FetchOk(w) PROVE TypeOK'
    <2>1. workDir' \in [Jobs -> BOOLEAN]
        BY <1>15 DEF FetchOk, TypeOK
    <2> QED
        BY <1>15, <1>a, <1>b, <2>1, MoveToFacts DEF FetchOk, At, TypeOK, Running
<1>16. ASSUME NEW w \in Workers, FetchBotCheck(w) PROVE TypeOK'
    BY <1>16, <1>a, <1>b, MoveToFacts DEF FetchBotCheck, At, TypeOK, Ending
<1>17. ASSUME NEW w \in Workers, NoteBacklog(w) PROVE TypeOK'
    BY <1>17, BusyFacts, MoveToFacts DEF NoteBacklog, At, TypeOK, Ending
<1>18. ASSUME NEW w \in Workers, Fail(w) PROVE TypeOK'
    <2>1. interrupted' \in [Jobs -> BOOLEAN] /\ run[w].at # "idle"
        BY <1>18 DEF Fail, TypeOK
    <2> QED
        BY <1>18, <1>a, <1>b, <2>1, MoveToFacts DEF Fail, TypeOK, Ending
<1>19. ASSUME NEW w \in Workers, Halt(w) PROVE TypeOK'
    BY <1>19, <1>a, <1>b, MoveToFacts DEF Halt, At, TypeOK, Ending
<1>20. ASSUME NEW w \in Workers, ReachImport(w) PROVE TypeOK'
    BY <1>20, MoveToFacts DEF ReachImport, At, TypeOK, Running
<1>21. ASSUME NEW w \in Workers, ImportCommit(w) PROVE TypeOK'
    BY <1>21, BusyFacts, MoveToFacts DEF ImportCommit, At, TypeOK, Running
<1>22. ASSUME NEW w \in Workers, Complete(w) PROVE TypeOK'
    BY <1>22, <1>a, <1>b, MoveToFacts DEF Complete, At, TypeOK, Ending
<1>23. ASSUME NEW w \in Workers, Raise(w) PROVE TypeOK'
    BY <1>23, MoveToFacts DEF Raise, TypeOK, Running
<1>24. ASSUME NEW w \in Workers, Cleanup(w) PROVE TypeOK'
    <2>1. workDir' \in [Jobs -> BOOLEAN]
        BY <1>24 DEF Cleanup, TypeOK
    <2> QED
        BY <1>24, <2>1, MoveToFacts DEF Cleanup, TypeOK, Running, Ending
<1>25. ASSUME NEW w \in Workers, FailCrashed(w) PROVE TypeOK'
    <2>1. interrupted' \in [Jobs -> BOOLEAN]
        BY <1>25 DEF FailCrashed, TypeOK
    <2> QED
        BY <1>25, <1>a, <1>b, <2>1, MoveToFacts DEF FailCrashed, At, TypeOK, Ending
<1>26. ASSUME NEW w \in Workers, Finish(w) PROVE TypeOK'
    <2>1. backlog' \subseteq Jobs /\ run' \in [Workers -> Runs]
        BY <1>26, BusyFacts DEF Finish, At, TypeOK, Runs
    <2>2. disk' \in Files
        BY <1>26, <2>1, SaveFacts DEF Finish, TypeOK
    <2> QED
        BY <1>26, <2>1, <2>2 DEF Finish, TypeOK
\* Crash, restart and resume.
<1>27. CASE Crash
    <2>1. api' \in Handlers /\ (api'.op = "idle" <=> api'.todo = {})
        BY <1>27, <1>c DEF Crash
    <2>2. status' \in [Jobs -> Statuses] /\ run' \in [Workers -> Runs]
        BY <1>27, <1>a DEF Crash, Runs
    <2>3. pending' \in Seq(Jobs) /\ waiting' \in Seq(Jobs) /\ crashes' \in Nat
        BY <1>27 DEF Crash, TypeOK
    <2> QED
        BY <1>27, <2>1, <2>2, <2>3 DEF Crash, TypeOK
<1>28. CASE Restart
    <2>1. disk \in Files
        BY DEF TypeOK
    <2>2. api' \in Handlers /\ (api'.op = "idle" <=> api'.todo = {})
        <3>1. Quiet \in Handlers /\ Quiet.op = "idle" /\ Quiet.todo = {}
            BY DEF Quiet, Handlers
        <3>2. Interrupted \subseteq Jobs /\ Landed(Interrupted) \subseteq Jobs
            BY <2>1 DEF Interrupted, Landed, Files
        <3>3. CASE api' = Quiet
            BY <3>1, <3>3
        <3>4. CASE /\ Interrupted # {}
                   /\ api' = [op |-> "resume", todo |-> Interrupted,
                              landed |-> Landed(Interrupted),
                              ran |-> disk.running, line |-> disk.waiting]
            BY <2>1, <3>2, <3>4 DEF Handlers, Files
        <3> QED
            BY <1>28, <3>3, <3>4 DEF Restart
    <2>5. unresumed' \subseteq Jobs
        <3>1. Interrupted \subseteq Jobs
            BY <2>1 DEF Interrupted, Files
        <3> QED
            BY <1>28, <3>1 DEF Restart, TypeOK
    <2>3. status' \in [Jobs -> Statuses] /\ interrupted' \in [Jobs -> BOOLEAN]
        BY <1>28, <1>a, <2>1 DEF Restart, WasActive, Files
    <2>4. registry' \subseteq Jobs /\ backlog' \subseteq Jobs /\ up' \in BOOLEAN
        BY <1>28, <2>1 DEF Restart, Files
    <2> QED
        BY <1>28, <2>2, <2>3, <2>4, <2>5 DEF Restart, TypeOK
<1>29. ASSUME NEW j \in Jobs, ResumeLanded(j) PROVE TypeOK'
    <2>1. api' \in Handlers /\ (api'.op = "idle" <=> api'.todo = {})
        BY <1>29, AdvanceFacts DEF ResumeLanded, Resuming
    <2>2. status' \in [Jobs -> Statuses] /\ interrupted' \in [Jobs -> BOOLEAN]
        BY <1>29, <1>a DEF ResumeLanded, SetStatus, TypeOK
    <2>3. disk' \in Files
        BY <1>29, <2>2, SaveFacts DEF ResumeLanded, TypeOK
    <2> QED
        BY <1>29, <2>1, <2>2, <2>3 DEF ResumeLanded, TypeOK
<1>30. ASSUME NEW j \in Jobs, ResumeRequeue(j) PROVE TypeOK'
    <2>1. api' \in Handlers /\ (api'.op = "idle" <=> api'.todo = {})
        BY <1>30, AdvanceFacts DEF ResumeRequeue, Resuming
    <2> QED
        BY <1>30, <2>1, RequeueFacts DEF ResumeRequeue, TypeOK
<1>31. CASE UNCHANGED vars
    BY <1>31 DEF vars, TypeOK
<1> QED
    BY <1>1, <1>2, <1>3, <1>4, <1>5, <1>6, <1>7, <1>8, <1>9, <1>10, <1>11, <1>12, <1>13, <1>14,
       <1>15, <1>16, <1>17, <1>18, <1>19, <1>20, <1>21, <1>22, <1>23, <1>24, <1>25, <1>26,
       <1>27, <1>28, <1>29, <1>30, <1>31
       DEF Next, UserStep, HandlerStep, WorkerStep

-----------------------------------------------------------------------------
(***************************************************************************)
(* What a step may do to a job's status, its queue entry and its worker.   *)
(* The invariants below need no more than these kinds of step.             *)
(***************************************************************************)
Others(w) == \A v \in Workers \ {w} : run'[v] = run[v]
Settled   == UNCHANGED <<pending, waiting, registry, api, up, ghosts, created>>

\* Worker w's run ends, and its job's status with it.
EndsRun(w) ==
    /\ run[w].at \in Running /\ run'[w].at \in Ending /\ run'[w].job = run[w].job
    /\ Others(w)
    /\ status'[run[w].job] \notin Active
    /\ \A j \in Jobs \ {run[w].job} : status'[j] = status[j]
    /\ up /\ Settled /\ UNCHANGED disk

\* Worker w's run goes on; its job may be marked as processing.
RunsOn(w) ==
    /\ run[w].at \in Running /\ run'[w].at \in Running /\ run'[w].job = run[w].job
    /\ Others(w)
    /\ status'[run[w].job] \in {status[run[w].job], "processing"}
    /\ \A j \in Jobs \ {run[w].job} : status'[j] = status[j]
    /\ up /\ Settled /\ UNCHANGED disk

\* Worker w is past its run's end.
WindsDown(w) ==
    /\ run[w].at \in Ending /\ run'[w] \in Runs /\ run'[w].at \notin Running
    /\ run'[w].job \in {run[w].job, NoJob}
    /\ Others(w)
    /\ up /\ Settled /\ UNCHANGED status

\* A job that is not active is queued again.
Requeues(j) ==
    /\ up /\ api.op # "submit" /\ api'.op # "submit"
    /\ status[j] \in Retryable
    /\ status' = [status EXCEPT ![j] = "pending"]
    /\ pending' = Append(pending, j)
    /\ \A i \in Elements(waiting) \cup {j} : i \in Elements(waiting')
    /\ UNCHANGED <<registry, run, up, ghosts, created>>

\* A job that no worker holds is settled by a handler; if it stood in line it becomes a ghost.
Settles(j) ==
    /\ up /\ api.op # "submit" /\ api'.op # "submit"
    /\ status' = [status EXCEPT ![j] = status'[j]] /\ status'[j] \notin Active
    /\ j \in registry \/ status[j] # "none"
    /\ \/ ghosts' = ghosts \cup {j}
       \/ ghosts' = ghosts /\ status[j] \notin Active
       \/ ghosts' = ghosts /\ j \notin Elements(waiting) /\ j \notin RunningIds
    /\ \A i \in Elements(waiting) \ {j} : i \in Elements(waiting')
    /\ UNCHANGED <<registry, pending, run, up, created>>

\* A step that touches none of it.
Elsewhere ==
    /\ api.op # "submit" /\ api'.op # "submit" /\ up
    /\ registry' \subseteq registry
    /\ UNCHANGED <<status, pending, waiting, run, up, ghosts, created>>

Handling(j) == CreateJob(j) \/ Submit(j) \/ Requeues(j) \/ Settles(j)
Working(w)  == Pick(w) \/ EndsRun(w) \/ RunsOn(w) \/ WindsDown(w)

\* A free event loop has no handler between two critical sections.
LEMMA ServingFacts == Serving => up /\ api.op = "idle"
    BY DEF Serving, Quiet

\* The kinds of status, spelt out.
LEMMA StatusFacts ==
    ASSUME TypeOK, NEW w \in Workers, run[w].at # "idle", NEW s, SetStatus(run[w].job, s)
    PROVE  /\ status'[run[w].job] = s
           /\ \A j \in Jobs \ {run[w].job} : status'[j] = status[j]
    BY BusyFacts DEF SetStatus, TypeOK

\* The steps that end a run are of that kind.
LEMMA EndsRunSteps ==
    ASSUME TypeOK, NEW w \in Workers,
           StartScrammed(w) \/ FetchBotCheck(w) \/ Fail(w) \/ Halt(w) \/ Complete(w)
             \/ FailCrashed(w)
    PROVE  EndsRun(w)
<1> USE DEF jobVars, queueVars, diskVars, histVars
<1>1. /\ up /\ run[w].at \in Running /\ Settled /\ UNCHANGED disk
      /\ \E s \in {"aborted", "backlog", "failed", "completed"} : SetStatus(run[w].job, s)
      /\ \E place \in Ending : MoveTo(w, place)
    BY DEF StartScrammed, FetchBotCheck, Fail, Halt, Complete, FailCrashed, At,
           Running, Ending, Settled
<1>2. run[w].at # "idle"
    BY <1>1 DEF Running
<1> QED
    BY <1>1, <1>2, StatusFacts, MoveToFacts DEF EndsRun, Others, Active

\* The steps with which a run goes on are of that kind.
LEMMA RunsOnSteps ==
    ASSUME TypeOK, NEW w \in Workers,
           StartRun(w) \/ FetchOk(w) \/ ReachImport(w) \/ ImportCommit(w) \/ Raise(w)
             \/ (Cleanup(w) /\ run[w].at = "raised")
    PROVE  RunsOn(w)
<1> USE DEF jobVars, queueVars, diskVars, histVars
<1>1. /\ up /\ run[w].at \in Running /\ Settled /\ UNCHANGED disk
      /\ UNCHANGED status \/ SetStatus(run[w].job, "processing")
      /\ \E place \in Running : MoveTo(w, place)
    BY DEF StartRun, FetchOk, ReachImport, ImportCommit, Raise, Cleanup, At, Running, Settled
<1>2. run[w].at # "idle"
    BY <1>1 DEF Running
<1> QED
    BY <1>1, <1>2, StatusFacts, MoveToFacts DEF RunsOn, Others

\* Every step is of one of the kinds above.
LEMMA StepKinds ==
    ASSUME TypeOK, [Next]_vars
    PROVE  \/ \E j \in Jobs : Handling(j)
           \/ \E w \in Workers : Working(w)
           \/ Elsewhere \/ Crash \/ Restart \/ UNCHANGED vars
<1> USE DEF jobVars, queueVars, diskVars, histVars
<1> DEFINE Goal == \/ \E j \in Jobs : Handling(j)
                   \/ \E w \in Workers : Working(w)
                   \/ Elsewhere \/ Crash \/ Restart \/ UNCHANGED vars
\* API handlers.
<1>1. ASSUME NEW j \in Jobs, CreateJob(j) \/ Submit(j) PROVE Goal
    BY <1>1 DEF Handling
<1>2. ASSUME NEW j \in Jobs, RetryJob(j) PROVE Goal
    <2>1. Requeues(j)
        BY <1>2, RequeueFacts, ServingFacts DEF RetryJob, Requeues
    <2> QED
        BY <2>1 DEF Handling
<1>3. ASSUME NEW wanted, RetryAll(wanted) PROVE Goal
    <2>1. api'.op = "retryAll"
        BY <1>3 DEF RetryAll, Quiet
    <2> QED
        BY <1>3, <2>1, ServingFacts DEF RetryAll, Elsewhere
<1>4. ASSUME NEW j \in Jobs, RetryAllNext(j) PROVE Goal
    <2>1. up /\ api.op # "submit" /\ api'.op # "submit"
        BY <1>4, AdvanceFacts DEF RetryAllNext
    <2>2. CASE status[j] \in Retryable /\ Requeue(j)
        <3>1. Requeues(j)
            BY <2>1, <2>2, RequeueFacts DEF Requeues
        <3> QED
            BY <3>1 DEF Handling
    <2>3. CASE UNCHANGED <<jobVars, queueVars, run, up, diskVars, histVars>>
        BY <2>1, <2>3 DEF Elsewhere
    <2> QED
        BY <1>4, <2>2, <2>3 DEF RetryAllNext
<1>5. ASSUME NEW j \in Jobs, Scram(j) \/ CancelRunning(j) \/ DeleteJob(j) PROVE Goal
    BY <1>5, ServingFacts DEF Scram, CancelRunning, DeleteJob, Elsewhere
<1>6. ASSUME NEW j \in Jobs, CancelWaiting(j) PROVE Goal
    <2>1. \A i \in Elements(waiting) \ {j} : i \in Elements(waiting')
        BY <1>6, DroppedSeq DEF CancelWaiting, TypeOK
    <2>2. status' = [status EXCEPT ![j] = status'[j]] /\ status'[j] \notin Active
        BY <1>6 DEF CancelWaiting, SetStatus, TypeOK, Active
    <2>3. Settles(j)
        BY <1>6, <2>1, <2>2, ServingFacts DEF CancelWaiting, Settles
    <2> QED
        BY <2>3 DEF Handling
<1>7. ASSUME NEW j \in Jobs, CancelBacklog(j) PROVE Goal
    <2>1. status' = [status EXCEPT ![j] = status'[j]] /\ status'[j] \notin Active
        BY <1>7 DEF CancelBacklog, SetStatus, TypeOK, Active
    <2>2. Settles(j)
        BY <1>7, <2>1, ServingFacts DEF CancelBacklog, Settles
    <2> QED
        BY <2>2 DEF Handling
<1>8. CASE ClearPast
    BY <1>8, ServingFacts DEF ClearPast, Elsewhere
<1>9. ASSUME NEW j \in Jobs, ResumeLanded(j) PROVE Goal
    <2>1. up /\ api.op # "submit" /\ api'.op # "submit" /\ status[j] = "failed"
        BY <1>9, AdvanceFacts DEF ResumeLanded, Resuming
    <2>2. status' = [status EXCEPT ![j] = status'[j]] /\ status'[j] \notin Active
        BY <1>9 DEF ResumeLanded, SetStatus, TypeOK, Active
    <2>3. Settles(j)
        BY <1>9, <2>1, <2>2 DEF ResumeLanded, Settles, Active
    <2> QED
        BY <2>3 DEF Handling
<1>10. ASSUME NEW j \in Jobs, ResumeRequeue(j) PROVE Goal
    <2>1. up /\ api.op # "submit" /\ api'.op # "submit" /\ status[j] = "failed"
        BY <1>10, AdvanceFacts DEF ResumeRequeue, Resuming
    <2>2. Requeues(j)
        BY <1>10, <2>1, RequeueFacts DEF ResumeRequeue, Requeues, Retryable
    <2> QED
        BY <2>2 DEF Handling
\* Worker threads.
<1>11. ASSUME NEW w \in Workers, Pick(w) PROVE Goal
    BY <1>11 DEF Working
<1>12. ASSUME NEW w \in Workers,
              StartScrammed(w) \/ FetchBotCheck(w) \/ Fail(w) \/ Halt(w) \/ Complete(w)
                \/ FailCrashed(w)
       PROVE  Goal
    BY <1>12, EndsRunSteps DEF Working
<1>13. ASSUME NEW w \in Workers,
              StartRun(w) \/ FetchOk(w) \/ ReachImport(w) \/ ImportCommit(w) \/ Raise(w)
                \/ (Cleanup(w) /\ run[w].at = "raised")
       PROVE  Goal
    BY <1>13, RunsOnSteps DEF Working
<1>14. ASSUME NEW w \in Workers, NoteBacklog(w) \/ (Cleanup(w) /\ run[w].at # "raised")
       PROVE  Goal
    <2>1. /\ up /\ run[w].at \in Ending /\ Settled /\ UNCHANGED status
          /\ \E place \in Ending : MoveTo(w, place)
        BY <1>14 DEF NoteBacklog, Cleanup, At, Ending, Settled
    <2>2. run[w].at # "idle"
        BY <2>1 DEF Ending
    <2>3. run'[w] \in Runs /\ run'[w].at \in Ending /\ run'[w].job = run[w].job /\ Others(w)
        BY <2>1, <2>2, MoveToFacts DEF Others
    <2>4. WindsDown(w)
        BY <2>1, <2>3 DEF WindsDown, Ending, Running
    <2> QED
        BY <2>4 DEF Working
<1>15. ASSUME NEW w \in Workers, Finish(w) PROVE Goal
    <2>1. /\ up /\ run[w].at \in Ending /\ Settled /\ UNCHANGED status
          /\ run' = [run EXCEPT ![w] = Idle]
        BY <1>15 DEF Finish, At, Ending, Settled
    <2>2. run'[w] = Idle /\ Others(w)
        BY <2>1 DEF Others, TypeOK
    <2>3. WindsDown(w)
        BY <2>1, <2>2 DEF WindsDown, Idle, Runs, Running
    <2> QED
        BY <2>3 DEF Working
<1> QED
    BY <1>1, <1>2, <1>3, <1>4, <1>5, <1>6, <1>7, <1>8, <1>9, <1>10, <1>11, <1>12, <1>13,
       <1>14, <1>15 DEF Next, UserStep, HandlerStep, WorkerStep

\* A step saves the queue, or changes nothing the file tells of but a held job's status.
LEMMA SavesOrKeeps ==
    ASSUME TypeOK, [Next]_vars
    PROVE  \/ Save
           \/ UNCHANGED <<status, disk, registry, ghosts, created>>
           \/ \E w \in Workers : EndsRun(w) \/ RunsOn(w)
           \/ Crash \/ Restart
<1> USE DEF jobVars, queueVars, diskVars, histVars
<1>1. ASSUME NEW j \in Jobs,
             CreateJob(j) \/ Submit(j) \/ RetryJob(j) \/ CancelRunning(j) \/ CancelWaiting(j)
                \/ CancelBacklog(j) \/ DeleteJob(j) \/ ResumeLanded(j) \/ ResumeRequeue(j)
      PROVE  Save
    BY <1>1 DEF CreateJob, Submit, RetryJob, CancelRunning, CancelWaiting, CancelBacklog,
                DeleteJob, ResumeLanded, ResumeRequeue, Requeue
<1>2. /\ \A j \in Jobs : Scram(j) => UNCHANGED <<status, disk, registry, ghosts, created>>
      /\ \A wanted : RetryAll(wanted) => UNCHANGED <<status, disk, registry, ghosts, created>>
    BY DEF Scram, RetryAll
<1>3. ASSUME NEW j \in Jobs, RetryAllNext(j)
      PROVE  Save \/ UNCHANGED <<status, disk, registry, ghosts, created>>
    BY <1>3 DEF RetryAllNext, Requeue
<1>4. ASSUME ClearPast PROVE Save
    BY <1>4 DEF ClearPast
<1>5. ASSUME NEW w \in Workers, Pick(w) \/ Finish(w) PROVE Save
    BY <1>5 DEF Pick, Finish
<1>6. ASSUME NEW w \in Workers, NoteBacklog(w) \/ Cleanup(w)
      PROVE  UNCHANGED <<status, disk, registry, ghosts, created>>
    BY <1>6 DEF NoteBacklog, Cleanup
<1>7. ASSUME NEW w \in Workers,
             StartScrammed(w) \/ FetchBotCheck(w) \/ Fail(w) \/ Halt(w) \/ Complete(w)
               \/ FailCrashed(w) \/ StartRun(w) \/ FetchOk(w) \/ ReachImport(w)
               \/ ImportCommit(w) \/ Raise(w)
      PROVE  EndsRun(w) \/ RunsOn(w)
    BY <1>7, EndsRunSteps, RunsOnSteps
<1>8. ASSUME UNCHANGED vars PROVE UNCHANGED <<status, disk, registry, ghosts, created>>
    BY <1>8 DEF vars
<1> QED
    BY <1>1, <1>2, <1>3, <1>4, <1>5, <1>6, <1>7, <1>8
    DEF Next, UserStep, HandlerStep, WorkerStep

-----------------------------------------------------------------------------
(***************************************************************************)
(* The queue entries: what submitting and picking do to them.              *)
(***************************************************************************)
LEMMA QueuedSame ==
    ASSUME pending' = pending
    PROVE  \A i : (Queued(i)' <=> Queued(i)) /\ (QueuedOnce(i)' <=> QueuedOnce(i))
    BY DEF Queued, QueuedOnce

\* Whose entries the queue has after one is appended.
LEMMA QueuedAppend ==
    ASSUME pending \in Seq(Jobs), NEW j \in Jobs, pending' = Append(pending, j)
    PROVE  /\ \A i \in Jobs : Queued(i)' <=> Queued(i) \/ i = j
           /\ \A i \in Jobs \ {j} : QueuedOnce(i) => QueuedOnce(i)'
           /\ ~Queued(j) => QueuedOnce(j)'
<1>1. /\ Len(pending) \in Nat /\ DOMAIN pending = 1 .. Len(pending)
      /\ DOMAIN pending' = 1 .. Len(pending) + 1
      /\ \A i \in 1 .. Len(pending) : pending'[i] = pending[i]
      /\ pending'[Len(pending) + 1] = j
    OBVIOUS
<1>2. /\ 1 .. Len(pending) \subseteq 1 .. Len(pending) + 1
      /\ Len(pending) + 1 \in 1 .. Len(pending) + 1
      /\ \A i \in 1 .. Len(pending) + 1 : i \in 1 .. Len(pending) \/ i = Len(pending) + 1
    BY <1>1
<1>3. \A i \in Jobs : Queued(i)' <=> Queued(i) \/ i = j
    BY <1>1, <1>2 DEF Queued
<1>4. \A i \in Jobs \ {j} : QueuedOnce(i) => QueuedOnce(i)'
    BY <1>1, <1>2 DEF QueuedOnce
<1>5. ~Queued(j) => QueuedOnce(j)'
    BY <1>1, <1>2 DEF Queued, QueuedOnce
<1> QED
    BY <1>3, <1>4, <1>5

\* Whose entries the queue has after its first is taken.
LEMMA QueuedTail ==
    ASSUME pending \in Seq(Jobs), pending # <<>>, pending' = Tail(pending)
    PROVE  /\ Head(pending) \in Jobs /\ Queued(Head(pending))
           /\ \A i \in Jobs : Queued(i)' => Queued(i)
           /\ \A i \in Jobs \ {Head(pending)} : Queued(i) => Queued(i)'
           /\ \A i \in Jobs : QueuedOnce(i) => QueuedOnce(i)'
           /\ \A h : h = Head(pending) /\ QueuedOnce(h) => ~Queued(h)'
<1>1. /\ Len(pending) \in Nat \ {0} /\ DOMAIN pending = 1 .. Len(pending)
      /\ DOMAIN pending' = 1 .. Len(pending) - 1
      /\ \A i \in 1 .. Len(pending) - 1 : pending'[i] = pending[i + 1]
      /\ Head(pending) = pending[1] /\ Head(pending) \in Jobs
    OBVIOUS
<1>2. /\ 1 \in 1 .. Len(pending)
      /\ \A i \in 1 .. Len(pending) - 1 : i + 1 \in 1 .. Len(pending) /\ i + 1 # 1
      /\ \A i, k \in 1 .. Len(pending) - 1 : i + 1 = k + 1 => i = k
      /\ \A i \in 1 .. Len(pending) :
            i = 1 \/ (i - 1 \in 1 .. Len(pending) - 1 /\ (i - 1) + 1 = i)
    BY <1>1
<1>3. Queued(Head(pending)) /\ \A i \in Jobs : Queued(i)' => Queued(i)
    BY <1>1, <1>2 DEF Queued
<1>4. \A i \in Jobs \ {Head(pending)} : Queued(i) => Queued(i)'
    <2> SUFFICES ASSUME NEW i \in Jobs, i # Head(pending), Queued(i) PROVE Queued(i)'
        OBVIOUS
    <2>1. PICK n \in 1 .. Len(pending) : pending[n] = i
        BY <1>1 DEF Queued
    <2>2. n - 1 \in 1 .. Len(pending) - 1 /\ (n - 1) + 1 = n
        BY <1>1, <1>2, <2>1
    <2>3. pending'[n - 1] = i
        BY <1>1, <2>1, <2>2
    <2> QED
        BY <1>1, <2>2, <2>3 DEF Queued
<1>5. \A i \in Jobs : QueuedOnce(i) => QueuedOnce(i)'
    BY <1>1, <1>2 DEF QueuedOnce
<1>6. ASSUME QueuedOnce(Head(pending)), NEW n \in DOMAIN pending'
      PROVE  pending'[n] # Head(pending)
    <2>1. n + 1 \in DOMAIN pending /\ 1 \in DOMAIN pending /\ n + 1 # 1
        BY <1>1, <1>2
    <2> QED
        BY <1>1, <1>6, <2>1 DEF QueuedOnce
<1>7. ASSUME NEW h, h = Head(pending), QueuedOnce(h)
      PROVE  ~Queued(h)'
    BY <1>6, <1>7 DEF Queued
<1> QED
    BY <1>1, <1>3, <1>4, <1>5, <1>7

-----------------------------------------------------------------------------
(***************************************************************************)
(* No job is lost.                                                         *)
(***************************************************************************)

\* A worker that keeps its job and stays in its run still holds it.
LEMMA HoldsOthers ==
    ASSUME NEW w \in Workers, Others(w)
    PROVE  \A v \in Workers \ {w}, j \in Jobs : Holds(v, j)' <=> Holds(v, j)
    BY DEF Others, Holds

\* What a handler does to Submitting: at most one job is between create_job and submit.
LEMMA SubmittingFacts ==
    ASSUME TypeOK
    PROVE  /\ api.op # "submit" => \A j \in Jobs : ~Submitting(j)
           /\ api'.op # "submit" => \A j \in Jobs : ~Submitting(j)'
           /\ api' = api => \A j \in Jobs : Submitting(j)' <=> Submitting(j)
           /\ \A c \in Jobs : CreateJob(c) =>
                 \A j \in Jobs : ~Submitting(j) /\ (Submitting(j)' <=> j = c)
           /\ \A c \in Jobs : Submit(c) =>
                 Submitting(c) /\ \A j \in Jobs : ~Submitting(j)'
<1>1. ASSUME NEW c \in Jobs, CreateJob(c)
      PROVE  \A j \in Jobs : ~Submitting(j) /\ (Submitting(j)' <=> j = c)
    <2>1. api = Quiet /\ api' = [Quiet EXCEPT !.op = "submit", !.todo = {c}]
        BY <1>1 DEF CreateJob, Serving
    <2>2. api.op = "idle" /\ api'.op = "submit" /\ api'.todo = {c}
        BY <2>1 DEF Quiet
    <2> QED
        BY <2>2 DEF Submitting
<1>2. ASSUME NEW c \in Jobs, Submit(c)
      PROVE  Submitting(c) /\ \A j \in Jobs : ~Submitting(j)'
    BY <1>2 DEF Submit, Submitting, Quiet
<1> QED
    BY <1>1, <1>2 DEF Submitting

\* One handler at a time, whose list has one job while it submits.
SubmitsOne == api.op = "submit" => \A i, j \in api.todo : i = j

\* Every job with a queue entry, a worker, a record or a status was created, so CreateJob makes
\* a new one; and an entry that is not a ghost's stands in line.
OnFile(j)   == j \in disk.jobs \/ disk.status[j] # "none"
Present(j) == Queued(j) \/ Submitting(j) \/ j \in registry \/ status[j] # "none"
KnownJob(j) ==
    /\ OnFile(j) \/ Present(j) => j \in Elements(created)
    /\ j \notin ghosts /\ Queued(j) => j \in Elements(waiting)
KnownWork == \A w \in Workers : run[w].at # "idle" => run[w].job \in Elements(created)

\* A dead server has no queue.
DownIsEmpty == ~up => pending = <<>> /\ api = Quiet /\ \A w \in Workers : run[w] = Idle

QueueShape == SubmitsOne /\ KnownWork /\ DownIsEmpty /\ \A j \in Jobs : KnownJob(j)

\* No step loses a job.
LEMMA LostInductive == TypeOK /\ QueueShape /\ NoLostJob /\ [Next]_vars => NoLostJob'
<1> SUFFICES ASSUME TypeOK, QueueShape, NoLostJob, [Next]_vars PROVE NoLostJob'
    OBVIOUS
<1>0. status \in [Jobs -> Statuses] /\ pending \in Seq(Jobs) /\ run \in [Workers -> Runs]
    BY DEF TypeOK
<1>1. ASSUME NEW c \in Jobs, CreateJob(c) PROVE NoLostJob'
    <2>1. /\ \A j \in Jobs \ {c} : status'[j] = status[j]
          /\ pending' = pending /\ run' = run
        BY <1>0, <1>1 DEF CreateJob, SetStatus
    <2> QED
        BY <1>1, <2>1, QueuedSame, SubmittingFacts DEF NoLostJob, Holds
<1>2. ASSUME NEW c \in Jobs, Submit(c) PROVE NoLostJob'
    <2>1. /\ status' = status /\ pending' = Append(pending, c) /\ run' = run
        BY <1>2 DEF Submit, jobVars
    <2>2. \A j \in Jobs : Submitting(j) => j = c
        BY <1>2 DEF Submit, Submitting, QueueShape, SubmitsOne
    <2> QED
        BY <1>0, <2>1, <2>2, QueuedAppend DEF NoLostJob, Holds
<1>3. ASSUME NEW c \in Jobs, Requeues(c) PROVE NoLostJob'
    <2>1. /\ \A j \in Jobs \ {c} : status'[j] = status[j]
          /\ pending' = Append(pending, c) /\ run' = run /\ api.op # "submit"
        BY <1>0, <1>3 DEF Requeues
    <2> QED
        BY <1>0, <2>1, QueuedAppend, SubmittingFacts DEF NoLostJob, Holds
<1>4. ASSUME NEW c \in Jobs, Settles(c) PROVE NoLostJob'
    <2>1. /\ \A j \in Jobs \ {c} : status'[j] = status[j]
          /\ status'[c] \notin Active
          /\ pending' = pending /\ run' = run /\ api.op # "submit"
        BY <1>0, <1>4 DEF Settles
    <2> QED
        BY <2>1, QueuedSame, SubmittingFacts DEF NoLostJob, Holds
<1>5. ASSUME NEW w \in Workers, Pick(w) PROVE NoLostJob'
    <2>0. PICK h \in Jobs : h = Head(pending)
        BY <1>0, <1>5, QueuedTail DEF Pick
    <2>1. /\ run' = [run EXCEPT ![w] = [job |-> h, at |-> "picked"]]
          /\ run[w].at = "idle"
          /\ pending # <<>> /\ pending' = Tail(pending)
          /\ status' = status /\ api' = api
        BY <1>5, <2>0 DEF Pick, At, jobVars
    <2>2. Holds(w, h)' /\ Others(w)
        BY <1>0, <2>1 DEF Holds, Running, Others
    <2>3. \A j \in Jobs : ~Holds(w, j)
        BY <2>1 DEF Holds, Running
    <2> QED
        BY <1>0, <2>0, <2>1, <2>2, <2>3, QueuedTail, HoldsOthers, SubmittingFacts DEF NoLostJob
<1>6. ASSUME NEW w \in Workers, EndsRun(w) PROVE NoLostJob'
    <2>1. \A j \in Jobs : Holds(w, j) => j = run[w].job
        BY DEF Holds
    <2> QED
        BY <1>6, <2>1, QueuedSame, HoldsOthers, SubmittingFacts
        DEF NoLostJob, EndsRun, Settled
<1>7. ASSUME NEW w \in Workers, RunsOn(w) PROVE NoLostJob'
    <2>1. \A j \in Jobs : Holds(w, j)' <=> Holds(w, j)
        BY <1>7 DEF Holds, RunsOn
    <2>2. Holds(w, run[w].job)
        BY <1>7 DEF Holds, RunsOn
    <2> QED
        BY <1>7, <2>1, <2>2, QueuedSame, HoldsOthers, SubmittingFacts
        DEF NoLostJob, RunsOn, Settled
<1>8. ASSUME NEW w \in Workers, WindsDown(w) PROVE NoLostJob'
    <2>1. \A j \in Jobs : ~Holds(w, j)
        BY <1>8 DEF Holds, WindsDown, Ending, Running
    <2> QED
        BY <1>8, <2>1, QueuedSame, HoldsOthers, SubmittingFacts
        DEF NoLostJob, WindsDown, Settled
<1>9. CASE Elsewhere
    BY <1>9, QueuedSame, SubmittingFacts DEF NoLostJob, Elsewhere, Holds
<1>10. CASE Crash
    BY <1>10 DEF Crash, NoLostJob, Active
<1>11. CASE Restart
    <2>1. \A j \in Jobs : status'[j] \notin Active
        BY <1>11 DEF Restart, WasActive, Active
    <2> QED
        BY <2>1 DEF NoLostJob
<1>12. CASE UNCHANGED vars
    BY <1>12, QueuedSame, SubmittingFacts DEF NoLostJob, vars, Holds
<1> QED
    BY <1>1, <1>2, <1>3, <1>4, <1>5, <1>6, <1>7, <1>8, <1>9, <1>10, <1>11, <1>12, StepKinds
    DEF Handling, Working

-----------------------------------------------------------------------------
(***************************************************************************)
(* The shape of the queue.                                                 *)
(***************************************************************************)
LEMMA SavedFile ==
    ASSUME Save
    PROVE  \A j \in Jobs : OnFile(j)' => j \in registry' \/ status'[j] # "none"
    BY DEF Save, Saved, OnFile

\* What the file tells of a job is news of it, or old news.
LEMMA FileFacts ==
    ASSUME TypeOK, [Next]_vars
    PROVE  \A j \in Jobs : OnFile(j)' => OnFile(j) \/ j \in registry' \/ status'[j] # "none"
<1>1. CASE Save
    BY <1>1, SavedFile
<1>2. CASE disk' = disk
    BY <1>2 DEF OnFile
<1> QED
    BY <1>1, <1>2, SavesOrKeeps DEF EndsRun, RunsOn, Crash, Restart, diskVars

\* Every step keeps the shape of the queue.
LEMMA ShapeInductive == TypeOK /\ QueueShape /\ NoDoubleRun /\ [Next]_vars => QueueShape'
<1> SUFFICES ASSUME TypeOK, QueueShape, NoDoubleRun, [Next]_vars PROVE QueueShape'
    OBVIOUS
<1>0. /\ SubmitsOne /\ KnownWork /\ DownIsEmpty /\ \A j \in Jobs : KnownJob(j)
      /\ status \in [Jobs -> Statuses]
      /\ pending \in Seq(Jobs) /\ run \in [Workers -> Runs] /\ created \in Seq(Jobs)
    BY DEF QueueShape, TypeOK
<1>a. \A j \in Jobs : OnFile(j)' => OnFile(j) \/ j \in registry' \/ status'[j] # "none"
    BY FileFacts
<1>1. ASSUME NEW c \in Jobs, CreateJob(c) PROVE QueueShape'
    <2>1. /\ up' /\ api' = [Quiet EXCEPT !.op = "submit", !.todo = {c}]
          /\ created' = Append(created, c)
          /\ \A j \in Jobs \ {c} : status'[j] = status[j]
          /\ registry' \subseteq registry \cup {c}
          /\ UNCHANGED <<pending, waiting, run, ghosts>>
        BY <1>1 DEF CreateJob, Serving, SetStatus, TypeOK
    <2>2. Elements(created') = Elements(created) \cup {c}
        BY <1>0, <2>1, AppendElements
    <2>3. SubmitsOne' /\ DownIsEmpty'
        BY <2>1 DEF SubmitsOne, DownIsEmpty, Quiet
    <2>4. KnownWork'
        BY <1>0, <2>1, <2>2 DEF KnownWork
    <2>5. \A j \in Jobs : KnownJob(j)'
        BY <1>0, <1>a, <1>1, <2>1, <2>2, QueuedSame, SubmittingFacts DEF KnownJob, Present
    <2> QED
        BY <2>3, <2>4, <2>5 DEF QueueShape
<1>2. ASSUME NEW c \in Jobs, Submit(c) PROVE QueueShape'
    <2>1. /\ up' /\ api' = Quiet /\ pending' = Append(pending, c)
          /\ waiting' = IF c \in Elements(waiting) THEN waiting ELSE Append(waiting, c)
          /\ UNCHANGED <<status, registry, created, run, ghosts>>
        BY <1>2 DEF Submit, histVars, jobVars
    <2>2. \A i \in Elements(waiting) \cup {c} : i \in Elements(waiting')
        BY <2>1, AppendElements DEF TypeOK
    <2>3. SubmitsOne' /\ DownIsEmpty' /\ KnownWork'
        BY <1>0, <2>1 DEF SubmitsOne, DownIsEmpty, KnownWork, Quiet
    <2>4. \A j \in Jobs : KnownJob(j)'
        BY <1>0, <1>a, <1>2, <2>1, <2>2, QueuedAppend, SubmittingFacts DEF KnownJob, Present
    <2> QED
        BY <2>3, <2>4 DEF QueueShape
<1>3. ASSUME NEW c \in Jobs, Requeues(c) PROVE QueueShape'
    <2>1. /\ up /\ up' = up /\ api.op # "submit" /\ api'.op # "submit" /\ status[c] \in Retryable
          /\ \A j \in Jobs \ {c} : status'[j] = status[j]
          /\ pending' = Append(pending, c)
          /\ \A i \in Elements(waiting) \cup {c} : i \in Elements(waiting')
          /\ UNCHANGED <<run, registry, ghosts, created>>
        BY <1>0, <1>3 DEF Requeues
    <2>2. SubmitsOne' /\ DownIsEmpty' /\ KnownWork'
        BY <1>0, <2>1 DEF SubmitsOne, DownIsEmpty, KnownWork
    <2>3. c \in Elements(created)
        BY <1>0, <2>1 DEF KnownJob, Present, Retryable
    <2>4. \A j \in Jobs : KnownJob(j)'
        BY <1>0, <1>a, <2>1, <2>3, QueuedAppend, SubmittingFacts DEF KnownJob, Present
    <2> QED
        BY <2>2, <2>4 DEF QueueShape
<1>4. ASSUME NEW c \in Jobs, Settles(c) PROVE QueueShape'
    <2>1. /\ up /\ up' = up /\ api.op # "submit" /\ api'.op # "submit"
          /\ \A j \in Jobs \ {c} : status'[j] = status[j]
          /\ c \in registry \/ status[c] # "none"
          /\ pending' = pending
          /\ \A i \in Elements(waiting) \ {c} : i \in Elements(waiting')
          /\ UNCHANGED <<run, registry, created>>
        BY <1>0, <1>4 DEF Settles
    <2>2. SubmitsOne' /\ DownIsEmpty' /\ KnownWork'
        BY <1>0, <2>1 DEF SubmitsOne, DownIsEmpty, KnownWork
    <2>3. c \in ghosts' \/ ~Queued(c)
        <3>1. c \notin ghosts /\ Queued(c) => status[c] = "pending" /\ c \in Elements(waiting)
            BY <1>0 DEF NoDoubleRun, KnownJob
        <3> QED
            BY <1>4, <3>1 DEF Settles, Active
    <2>4. \A j \in Jobs \ {c} : j \notin ghosts' => j \notin ghosts
        BY <1>4 DEF Settles
    <2>5. \A j \in Jobs : Present(j)' => Present(j)
        BY <2>1, QueuedSame, SubmittingFacts DEF Present
    <2>6. \A j \in Jobs : KnownJob(j)'
        BY <1>0, <1>a, <2>1, <2>3, <2>4, <2>5, QueuedSame DEF KnownJob, Present
    <2> QED
        BY <2>2, <2>6 DEF QueueShape
<1>5. ASSUME NEW w \in Workers, Pick(w) PROVE QueueShape'
    <2>0. PICK h \in Jobs : h = Head(pending)
        BY <1>0, <1>5, QueuedTail DEF Pick
    <2>1. /\ run' = [run EXCEPT ![w] = [job |-> h, at |-> "picked"]]
          /\ pending # <<>> /\ pending' = Tail(pending)
          /\ waiting' = Dropped(waiting, h)
          /\ up' /\ UNCHANGED <<status, registry, api, created, ghosts>>
        BY <1>5, <2>0 DEF Pick, At, jobVars, histVars
    <2>2. SubmitsOne' /\ DownIsEmpty'
        BY <1>0, <2>1 DEF SubmitsOne, DownIsEmpty
    <2>3. Queued(h) /\ h \in Elements(created)
        BY <1>0, <2>0, <2>1, QueuedTail DEF KnownJob, Present
    <2>4. KnownWork'
        BY <1>0, <2>1, <2>3 DEF KnownWork
    <2>5. \A i \in Elements(waiting) \ {h} : i \in Elements(waiting')
        BY <2>1, DroppedSeq DEF TypeOK
    <2>6. h \in ghosts \/ ~Queued(h)'
        BY <1>0, <2>0, <2>1, QueuedTail DEF NoDoubleRun
    <2>7. \A j \in Jobs : Present(j)' => Present(j)
        BY <1>0, <2>1, QueuedTail, SubmittingFacts DEF Present
    <2>8. \A j \in Jobs : KnownJob(j)'
        BY <1>0, <1>a, <2>1, <2>5, <2>6, <2>7, QueuedTail DEF KnownJob, Present
    <2> QED
        BY <2>2, <2>4, <2>8 DEF QueueShape
<1>b. ASSUME UNCHANGED <<pending, waiting, api, up, ghosts, created>>,
             registry' \subseteq registry,
             \A j \in Jobs : status'[j] # "none" => Present(j) \/ j \in Elements(created)
      PROVE  SubmitsOne' /\ \A j \in Jobs : KnownJob(j)'
    <2>1. \A j \in Jobs : Present(j)' => j \in Elements(created)
        BY <1>0, <1>b, QueuedSame, SubmittingFacts DEF Present, KnownJob
    <2>2. \A j \in Jobs : OnFile(j)' => j \in Elements(created)
        BY <1>0, <1>a, <1>b DEF KnownJob, Present
    <2> QED
        BY <1>0, <1>b, <2>1, <2>2, QueuedSame DEF SubmitsOne, KnownJob
<1>6. ASSUME NEW w \in Workers, EndsRun(w) \/ RunsOn(w) PROVE QueueShape'
    <2>1. /\ up /\ Settled /\ run[w].at # "idle" /\ run'[w].at # "idle"
          /\ run'[w].job = run[w].job /\ Others(w)
          /\ \A j \in Jobs \ {run[w].job} : status'[j] = status[j]
        BY <1>6 DEF EndsRun, RunsOn, Running, Ending
    <2>2. run[w].job \in Elements(created)
        BY <1>0, <2>1 DEF KnownWork
    <2>3. \A j \in Jobs : status'[j] # "none" => Present(j) \/ j \in Elements(created)
        BY <2>1, <2>2 DEF Present
    <2>4. SubmitsOne' /\ \A j \in Jobs : KnownJob(j)'
        BY <1>b, <2>1, <2>3 DEF Settled
    <2>5. KnownWork' /\ DownIsEmpty'
        BY <1>0, <2>1, <2>2 DEF KnownWork, DownIsEmpty, Settled, Others
    <2> QED
        BY <2>4, <2>5 DEF QueueShape
<1>7. ASSUME NEW w \in Workers, WindsDown(w) PROVE QueueShape'
    <2>1. /\ up /\ Settled /\ run[w].at # "idle" /\ UNCHANGED status
          /\ run'[w] \in Runs /\ run'[w].job \in {run[w].job, NoJob} /\ Others(w)
        BY <1>7 DEF WindsDown, Ending
    <2>2. run'[w].at # "idle" => run'[w].job = run[w].job
        BY <2>1, ConstantsAssumption DEF Runs, Idle
    <2>3. SubmitsOne' /\ \A j \in Jobs : KnownJob(j)'
        BY <1>b, <2>1 DEF Settled, Present
    <2>4. KnownWork' /\ DownIsEmpty'
        BY <1>0, <2>1, <2>2 DEF KnownWork, DownIsEmpty, Settled, Others
    <2> QED
        BY <2>3, <2>4 DEF QueueShape
<1>8. CASE Elsewhere
    <2>1. KnownWork' /\ DownIsEmpty' /\ SubmitsOne'
        BY <1>0, <1>8 DEF Elsewhere, KnownWork, DownIsEmpty, SubmitsOne
    <2>2. \A j \in Jobs : Present(j)' => Present(j)
        BY <1>8, QueuedSame, SubmittingFacts DEF Present, Elsewhere
    <2>3. \A j \in Jobs : KnownJob(j)'
        BY <1>0, <1>8, <1>a, <2>2, QueuedSame DEF Elsewhere, KnownJob, Present
    <2> QED
        BY <2>1, <2>3 DEF QueueShape
<1>9. CASE Crash
    <2>1. /\ api' = Quiet /\ pending' = <<>> /\ registry' = {} /\ ~up'
          /\ run' = [w \in Workers |-> Idle] /\ status' = [j \in Jobs |-> "none"]
          /\ UNCHANGED <<disk, created>>
        BY <1>9 DEF Crash, diskVars
    <2>2. KnownWork' /\ DownIsEmpty' /\ SubmitsOne'
        BY <2>1 DEF KnownWork, DownIsEmpty, SubmitsOne, Idle, Quiet
    <2>3. \A j \in Jobs : ~Queued(j)' /\ ~Present(j)'
        BY <2>1 DEF Present, Queued, Submitting, Quiet
    <2>4. \A j \in Jobs : KnownJob(j)'
        BY <1>0, <2>1, <2>3 DEF KnownJob, OnFile
    <2> QED
        BY <2>2, <2>4 DEF QueueShape
<1>10. CASE Restart
    <2>1. /\ ~up /\ up' /\ registry' = disk.jobs /\ api'.op # "submit"
          /\ \A j \in Jobs : status'[j] # "none" => disk.status[j] # "none"
          /\ UNCHANGED <<pending, run, disk, created>>
        BY <1>10 DEF Restart, WasActive, Active, Quiet, diskVars, histVars
    <2>2. pending = <<>> /\ \A w \in Workers : run[w] = Idle
        BY <1>0, <2>1 DEF DownIsEmpty
    <2>3. KnownWork' /\ DownIsEmpty' /\ SubmitsOne'
        BY <1>0, <2>1 DEF KnownWork, DownIsEmpty, SubmitsOne
    <2>4. \A j \in Jobs : ~Queued(j)' /\ ~Submitting(j)'
        BY <2>1, <2>2 DEF Queued, Submitting
    <2>5. \A j \in Jobs : KnownJob(j)'
        BY <1>0, <2>1, <2>4 DEF KnownJob, OnFile, Present
    <2> QED
        BY <2>3, <2>5 DEF QueueShape
<1>11. CASE UNCHANGED vars
    <2>1. KnownWork' /\ DownIsEmpty'
        BY <1>0, <1>11 DEF KnownWork, DownIsEmpty, vars
    <2> QED
        BY <1>11, <1>b, <2>1 DEF QueueShape, Present, vars
<1> QED
    BY <1>1, <1>2, <1>3, <1>4, <1>5, <1>6, <1>7, <1>8, <1>9, <1>10, <1>11, StepKinds
    DEF Handling, Working

-----------------------------------------------------------------------------
(***************************************************************************)
(* No job is run twice.                                                    *)
(***************************************************************************)

\* NoDoubleRun of one job: it has one queue entry, one worker or neither.
RunsOnce(j) ==
    /\ QueuedOnce(j)
    /\ \A v, w \in Workers : Holds(v, j) /\ Holds(w, j) => v = w
    /\ \A w \in Workers : ~(Queued(j) /\ Holds(w, j))
    /\ Submitting(j) => ~Queued(j) /\ \A w \in Workers : ~Holds(w, j)
    /\ Queued(j) \/ Submitting(j) => status[j] = "pending"
    /\ \A w \in Workers : Holds(w, j) => status[j] \in Active

\* NoDoubleRun, job by job.
LEMMA RunsOnceFacts == NoDoubleRun <=> \A j \in Jobs \ ghosts : RunsOnce(j)
    BY DEF NoDoubleRun, RunsOnce

\* A job whose queue entry, worker and status a step leaves alone.
LEMMA RunsOnceSame ==
    ASSUME NEW j \in Jobs, RunsOnce(j),
           Queued(j)' <=> Queued(j), QueuedOnce(j) => QueuedOnce(j)',
           Submitting(j)' => Submitting(j), status'[j] = status[j],
           \A w \in Workers : Holds(w, j)' => Holds(w, j)
    PROVE  RunsOnce(j)'
    BY DEF RunsOnce

\* A job that is nowhere in the queue.
LEMMA RunsOnceNowhere ==
    ASSUME NEW j \in Jobs,
           ~Queued(j)', ~Submitting(j)', \A w \in Workers : ~Holds(w, j)'
    PROVE  RunsOnce(j)'
    BY DEF RunsOnce, Queued, QueuedOnce

\* No step gives a job a second entry or a second worker.
LEMMA DoubleInductive == TypeOK /\ QueueShape /\ NoDoubleRun /\ [Next]_vars => NoDoubleRun'
<1> SUFFICES ASSUME TypeOK, QueueShape, NoDoubleRun, [Next]_vars,
                    NEW j \in Jobs, j \notin ghosts'
             PROVE  RunsOnce(j)'
    BY RunsOnceFacts DEF RunsOnce, NoDoubleRun
<1>0. /\ KnownWork /\ DownIsEmpty /\ \A i \in Jobs : KnownJob(i)
      /\ status \in [Jobs -> Statuses]
      /\ pending \in Seq(Jobs) /\ run \in [Workers -> Runs]
    BY DEF QueueShape, TypeOK
<1>a. j \notin ghosts => RunsOnce(j)
    BY RunsOnceFacts
<1>1. ASSUME NEW c \in Jobs, CreateJob(c) PROVE RunsOnce(j)'
    <2>1. /\ c \notin Elements(created)
          /\ status' = [status EXCEPT ![c] = "pending"]
          /\ UNCHANGED <<pending, run, ghosts>>
        BY <1>1 DEF CreateJob, SetStatus
    <2>2. \A w \in Workers, i \in Jobs : Holds(w, i)' <=> Holds(w, i)
        BY <2>1 DEF Holds
    <2>3. CASE j = c
        <3>1. ~Queued(c) /\ \A w \in Workers : ~Holds(w, c)
            BY <1>0, <2>1 DEF KnownJob, Present, KnownWork, Holds, Running
        <3>2. ~Queued(c)' /\ QueuedOnce(c)' /\ \A w \in Workers : ~Holds(w, c)'
            BY <2>1, <2>2, <3>1, QueuedSame DEF Queued, QueuedOnce
        <3>3. status'[c] = "pending"
            BY <1>0, <2>1
        <3> QED
            BY <2>3, <3>2, <3>3 DEF RunsOnce
    <2>4. CASE j # c
        <3>1. status'[j] = status[j] /\ ~Submitting(j)' /\ RunsOnce(j)
            BY <1>0, <1>a, <1>1, <2>1, <2>4, SubmittingFacts
        <3> QED
            BY <2>1, <2>2, <3>1, QueuedSame, RunsOnceSame
    <2> QED
        BY <2>3, <2>4
<1>2. ASSUME NEW c \in Jobs, Submit(c) PROVE RunsOnce(j)'
    <2>1. /\ status' = status /\ pending' = Append(pending, c)
          /\ UNCHANGED <<run, ghosts>>
        BY <1>2 DEF Submit, jobVars, histVars
    <2>2. \A w \in Workers, i \in Jobs : Holds(w, i)' <=> Holds(w, i)
        BY <2>1 DEF Holds
    <2>3. Submitting(c) /\ ~Submitting(j)' /\ RunsOnce(j)
        BY <1>a, <1>2, <2>1, SubmittingFacts
    <2>4. CASE j = c
        <3>1. ~Queued(c) /\ status[c] = "pending" /\ \A w \in Workers : ~Holds(w, c)
            BY <2>3, <2>4 DEF RunsOnce
        <3>2. QueuedOnce(c)' /\ status'[c] = "pending" /\ \A w \in Workers : ~Holds(w, c)'
            BY <1>0, <2>1, <2>2, <3>1, QueuedAppend
        <3> QED
            BY <2>3, <2>4, <3>2 DEF RunsOnce, Active
    <2>5. CASE j # c
        BY <1>0, <2>1, <2>2, <2>3, <2>5, QueuedAppend, RunsOnceSame
    <2> QED
        BY <2>4, <2>5
<1>3. ASSUME NEW c \in Jobs, Requeues(c) PROVE RunsOnce(j)'
    <2>1. /\ api.op # "submit" /\ api'.op # "submit" /\ status[c] \in Retryable
          /\ status' = [status EXCEPT ![c] = "pending"] /\ pending' = Append(pending, c)
          /\ UNCHANGED <<run, ghosts>>
        BY <1>3 DEF Requeues
    <2>2. \A w \in Workers, i \in Jobs : Holds(w, i)' <=> Holds(w, i)
        BY <2>1 DEF Holds
    <2>3. ~Submitting(j)' /\ RunsOnce(j)
        BY <1>a, <2>1, SubmittingFacts
    <2>4. CASE j = c
        <3>1. ~Queued(c) /\ \A w \in Workers : ~Holds(w, c)
            BY <2>1, <2>3, <2>4 DEF RunsOnce, Retryable, Active
        <3>2. QueuedOnce(c)' /\ status'[c] = "pending" /\ \A w \in Workers : ~Holds(w, c)'
            BY <1>0, <2>1, <2>2, <3>1, QueuedAppend
        <3> QED
            BY <2>3, <2>4, <3>2 DEF RunsOnce
    <2>5. CASE j # c
        <3>1. status'[j] = status[j]
            BY <1>0, <2>1, <2>5
        <3> QED
            BY <1>0, <2>1, <2>2, <2>3, <2>5, <3>1, QueuedAppend, RunsOnceSame
    <2> QED
        BY <2>4, <2>5
<1>4. ASSUME NEW c \in Jobs, Settles(c) PROVE RunsOnce(j)'
    <2>1. /\ api.op # "submit" /\ api'.op # "submit"
          /\ status' = [status EXCEPT ![c] = status'[c]]
          /\ UNCHANGED <<pending, run>> /\ ghosts \subseteq ghosts'
        BY <1>4 DEF Settles
    <2>2. \A w \in Workers, i \in Jobs : Holds(w, i)' <=> Holds(w, i)
        BY <2>1 DEF Holds
    <2>3. ~Submitting(j)' /\ RunsOnce(j)
        BY <1>a, <2>1, SubmittingFacts
    <2>4. CASE j = c
        <3>1. ~Queued(c) /\ \A w \in Workers : ~Holds(w, c)
            <4>1. CASE status[c] \notin Active
                BY <2>3, <2>4, <4>1 DEF RunsOnce, Active
            <4>2. CASE c \notin Elements(waiting) /\ c \notin RunningIds
                <5>1. c \notin ghosts
                    BY <2>1, <2>4
                <5> QED
                    BY <1>0, <4>2, <5>1 DEF KnownJob, RunningIds, Busy, Holds, Running
            <4> QED
                BY <1>4, <2>4, <4>1, <4>2 DEF Settles
        <3> QED
            BY <2>1, <2>2, <2>3, <2>4, <3>1, QueuedSame, RunsOnceNowhere
    <2>5. CASE j # c
        <3>1. status'[j] = status[j]
            BY <1>0, <2>1, <2>5
        <3> QED
            BY <2>1, <2>2, <2>3, <3>1, QueuedSame, RunsOnceSame
    <2> QED
        BY <2>4, <2>5
<1>5. ASSUME NEW w \in Workers, Pick(w) PROVE RunsOnce(j)'
    <2>0. PICK h \in Jobs : h = Head(pending)
        BY <1>0, <1>5, QueuedTail DEF Pick
    <2>1. /\ run' = [run EXCEPT ![w] = [job |-> h, at |-> "picked"]]
          /\ pending # <<>> /\ pending' = Tail(pending)
          /\ UNCHANGED <<status, api, ghosts>>
        BY <1>5, <2>0 DEF Pick, jobVars, histVars
    <2>2. run'[w] = [job |-> h, at |-> "picked"] /\ Others(w)
        BY <1>0, <2>1 DEF Others
    <2>3. /\ RunsOnce(j) /\ (Submitting(j)' <=> Submitting(j))
          /\ \A v \in Workers \ {w} : Holds(v, j)' <=> Holds(v, j)
        BY <1>a, <2>1, <2>2, SubmittingFacts, HoldsOthers
    <2>4. CASE j = h
        <3>1. /\ Queued(h) /\ status[h] = "pending" /\ ~Submitting(h)
              /\ \A v \in Workers : ~Holds(v, h)
            BY <1>0, <2>0, <2>1, <2>3, <2>4, QueuedTail DEF RunsOnce
        <3>2. ~Queued(h)' /\ QueuedOnce(h)' /\ ~Submitting(h)' /\ status'[h] \in Active
            BY <1>0, <2>0, <2>1, <2>3, <2>4, <3>1, QueuedTail DEF RunsOnce, Active
        <3>3. \A v \in Workers : Holds(v, h)' => v = w
            BY <2>3, <2>4, <3>1
        <3> QED
            BY <2>4, <3>2, <3>3 DEF RunsOnce
    <2>5. CASE j # h
        <3>1. ~Holds(w, j)'
            BY <2>2, <2>5 DEF Holds
        <3>2. (Queued(j)' <=> Queued(j)) /\ (QueuedOnce(j) => QueuedOnce(j)')
            BY <1>0, <2>0, <2>1, <2>5, QueuedTail
        <3> QED
            BY <2>1, <2>3, <3>1, <3>2, RunsOnceSame
    <2> QED
        BY <2>4, <2>5
<1>6. ASSUME NEW w \in Workers, EndsRun(w) PROVE RunsOnce(j)'
    <2>1. /\ UNCHANGED <<pending, api, ghosts>> /\ Others(w)
          /\ ~Holds(w, j)'
          /\ j # run[w].job => status'[j] = status[j]
        BY <1>6 DEF EndsRun, Settled, Holds, Ending, Running
    <2>2. /\ RunsOnce(j) /\ (Submitting(j)' <=> Submitting(j))
          /\ \A v \in Workers \ {w} : Holds(v, j)' <=> Holds(v, j)
        BY <1>a, <2>1, SubmittingFacts, HoldsOthers
    <2>3. CASE j = run[w].job
        <3>1. Holds(w, j)
            BY <1>6, <2>3 DEF EndsRun, Holds
        <3>2. ~Queued(j) /\ ~Submitting(j) /\ \A v \in Workers \ {w} : ~Holds(v, j)
            BY <2>2, <3>1 DEF RunsOnce
        <3> QED
            BY <2>1, <2>2, <3>2, QueuedSame, RunsOnceNowhere
    <2>4. CASE j # run[w].job
        BY <2>1, <2>2, <2>4, QueuedSame, RunsOnceSame
    <2> QED
        BY <2>3, <2>4
<1>7. ASSUME NEW w \in Workers, RunsOn(w) PROVE RunsOnce(j)'
    <2>1. /\ UNCHANGED <<pending, api, ghosts>> /\ Others(w)
          /\ (Holds(w, j)' <=> Holds(w, j))
          /\ status'[run[w].job] \in {status[run[w].job], "processing"}
          /\ j # run[w].job => status'[j] = status[j]
        BY <1>7 DEF RunsOn, Settled, Holds
    <2>2. /\ RunsOnce(j) /\ (Submitting(j)' <=> Submitting(j))
          /\ \A v \in Workers : Holds(v, j)' <=> Holds(v, j)
        BY <1>a, <2>1, SubmittingFacts, HoldsOthers
    <2>3. CASE j = run[w].job
        <3>1. Holds(w, j)
            BY <1>7, <2>3 DEF RunsOn, Holds
        <3>2. ~Queued(j) /\ ~Submitting(j) /\ status[j] \in Active
            BY <2>2, <3>1 DEF RunsOnce
        <3>3. status'[j] \in Active /\ ~Queued(j)' /\ ~Submitting(j)'
            BY <2>1, <2>2, <2>3, <3>2, QueuedSame DEF Active
        <3> QED
            BY <2>1, <2>2, <3>3, QueuedSame DEF RunsOnce
    <2>4. CASE j # run[w].job
        BY <2>1, <2>2, <2>4, QueuedSame, RunsOnceSame
    <2> QED
        BY <2>3, <2>4
<1>8. ASSUME NEW w \in Workers, WindsDown(w) PROVE RunsOnce(j)'
    <2>1. /\ UNCHANGED <<pending, api, ghosts, status>> /\ Others(w) /\ ~Holds(w, j)'
        BY <1>8 DEF WindsDown, Settled, Holds
    <2> QED
        BY <1>a, <2>1, SubmittingFacts, HoldsOthers, QueuedSame, RunsOnceSame
<1>9. CASE Elsewhere
    <2>1. UNCHANGED <<pending, run, ghosts, status>> /\ ~Submitting(j)'
        BY <1>9, SubmittingFacts DEF Elsewhere
    <2>2. \A w \in Workers : Holds(w, j)' <=> Holds(w, j)
        BY <2>1 DEF Holds
    <2> QED
        BY <1>a, <2>1, <2>2, QueuedSame, RunsOnceSame
<1>10. CASE Crash
    <2>1. /\ pending' = <<>> /\ api' = Quiet /\ \A w \in Workers : run'[w] = Idle
        BY <1>10 DEF Crash
    <2>2. ~Queued(j)' /\ ~Submitting(j)' /\ \A w \in Workers : ~Holds(w, j)'
        BY <2>1 DEF Queued, Submitting, Holds, Quiet, Idle, Running
    <2> QED
        BY <2>2, RunsOnceNowhere
<1>11. CASE Restart
    <2>1. ~up /\ api'.op # "submit" /\ UNCHANGED <<pending, run>>
        BY <1>11 DEF Restart, Quiet
    <2>2. pending' = <<>> /\ \A w \in Workers : run'[w] = Idle
        BY <1>0, <2>1 DEF DownIsEmpty
    <2>3. ~Queued(j)' /\ ~Submitting(j)' /\ \A w \in Workers : ~Holds(w, j)'
        BY <2>1, <2>2 DEF Queued, Submitting, Holds, Idle, Running
    <2> QED
        BY <2>3, RunsOnceNowhere
<1>12. CASE UNCHANGED vars
    <2>1. UNCHANGED <<pending, run, ghosts, status, api>>
        BY <1>12 DEF vars
    <2>2. \A w \in Workers : Holds(w, j)' <=> Holds(w, j)
        BY <2>1 DEF Holds
    <2> QED
        BY <1>a, <2>1, <2>2, QueuedSame, SubmittingFacts, RunsOnceSame
<1> QED
    BY <1>1, <1>2, <1>3, <1>4, <1>5, <1>6, <1>7, <1>8, <1>9, <1>10, <1>11, <1>12, StepKinds
    DEF Handling, Working

-----------------------------------------------------------------------------
(***************************************************************************)
(* A crash loses no accepted work.                                         *)
(***************************************************************************)
LEMMA DurableInductive ==
    TypeOK /\ QueueShape /\ NoDoubleRun /\ ActiveIsDurable /\ [Next]_vars => ActiveIsDurable'
<1> SUFFICES ASSUME TypeOK, NoDoubleRun, ActiveIsDurable, [Next]_vars
             PROVE  ActiveIsDurable'
    OBVIOUS
<1>1. CASE Save
    <2>1. registry' \subseteq Jobs
        BY TypeInductive DEF TypeOK
    <2> QED
        BY <1>1, <2>1 DEF Save, Saved, ActiveIsDurable
<1>2. CASE UNCHANGED <<status, disk, registry, ghosts, created>>
    BY <1>2 DEF ActiveIsDurable
<1>3. ASSUME NEW w \in Workers, EndsRun(w) \/ RunsOn(w) PROVE ActiveIsDurable'
    <2>1. UNCHANGED <<registry, ghosts, disk>>
        BY <1>3 DEF EndsRun, RunsOn, Settled
    <2> SUFFICES ASSUME NEW j \in registry \ ghosts, status'[j] \in Active
                 PROVE  j \in disk.jobs /\ disk.status[j] \in Active
        BY <2>1 DEF ActiveIsDurable
    <2>2. j \in Jobs
        BY DEF TypeOK
    <2>3. status[j] \in Active
        <3>1. CASE j # run[w].job
            BY <1>3, <2>2, <3>1 DEF EndsRun, RunsOn
        <3>2. CASE j = run[w].job
            <4>1. Holds(w, j)
                BY <1>3, <3>2 DEF EndsRun, RunsOn, Holds
            <4> QED
                BY <2>2, <4>1 DEF NoDoubleRun
        <3> QED
            BY <3>1, <3>2
    <2> QED
        BY <2>3 DEF ActiveIsDurable
<1>4. CASE Crash
    BY <1>4 DEF Crash, ActiveIsDurable
<1>5. CASE Restart
    <2>1. \A j \in Jobs : status'[j] \notin Active
        BY <1>5 DEF Restart, WasActive, Active
    <2>2. registry' \subseteq Jobs
        BY TypeInductive DEF TypeOK
    <2> QED
        BY <2>1, <2>2 DEF ActiveIsDurable
<1> QED
    BY <1>1, <1>2, <1>3, <1>4, <1>5, SavesOrKeeps

-----------------------------------------------------------------------------
(***************************************************************************)
(* A place in line is a place in the queue.                                *)
(***************************************************************************)
LEMMA AppendOnce ==
    ASSUME NEW S, NEW s \in Seq(S), NEW j \in S, Once(s), j \notin Elements(s)
    PROVE  Once(Append(s, j))
<1>1. /\ Len(s) \in Nat /\ DOMAIN s = 1 .. Len(s) /\ DOMAIN Append(s, j) = 1 .. Len(s) + 1
      /\ \A i \in 1 .. Len(s) : Append(s, j)[i] = s[i]
      /\ Append(s, j)[Len(s) + 1] = j
    OBVIOUS
<1>2. \A i \in 1 .. Len(s) + 1 : i \in 1 .. Len(s) \/ i = Len(s) + 1
    BY <1>1
<1> QED
    BY <1>1, <1>2 DEF Once, Elements

InLine == Once(waiting) /\ \A i \in Elements(waiting) : Queued(i)

\* InLine is WaitingHasEntry in the words the step lemma uses.
LEMMA InLineMeans == InLine <=> WaitingHasEntry
    BY DEF InLine, Once, WaitingHasEntry, Elements

\* Every step leaves each waiting job its one entry; this part is inductive by itself.
LEMMA WaitingInductive == TypeOK /\ WaitingHasEntry /\ [Next]_vars => WaitingHasEntry'
<1> SUFFICES ASSUME TypeOK, InLine, [Next]_vars PROVE InLine'
    <2>1. InLine' => WaitingHasEntry'
        BY DEF InLine, Once, WaitingHasEntry, Elements
    <2> QED
        BY <2>1, InLineMeans
<1> USE DEF jobVars, queueVars, diskVars, histVars
<1>0. waiting \in Seq(Jobs) /\ pending \in Seq(Jobs) /\ Elements(waiting) \subseteq Jobs
    BY DEF TypeOK, Elements
<1>1. ASSUME UNCHANGED <<waiting, pending>> PROVE InLine'
    BY <1>1, QueuedSame DEF InLine, Once, Elements
<1>2. ASSUME NEW j \in Jobs, Submit(j) PROVE InLine'
    <2>1. /\ pending' = Append(pending, j)
          /\ waiting' = IF j \in Elements(waiting) THEN waiting ELSE Append(waiting, j)
        BY <1>2 DEF Submit
    <2>2. Elements(waiting') = Elements(waiting) \cup {j}
        BY <1>0, <2>1, AppendElements
    <2>3. Once(waiting')
        BY <1>0, <2>1, AppendOnce DEF InLine
    <2> QED
        BY <1>0, <2>1, <2>2, <2>3, QueuedAppend DEF InLine
<1>3. ASSUME NEW j \in Jobs, Requeue(j) PROVE InLine'
    <2> DEFINE rest == Dropped(waiting, j)
    <2>1. pending' = Append(pending, j) /\ waiting' = Append(rest, j)
        BY <1>3 DEF Requeue
    <2>2. /\ rest \in Seq(Jobs) /\ Once(rest) /\ j \notin Elements(rest)
          /\ \A i \in Elements(rest) : i \in Elements(waiting)
        BY <1>0, DroppedSeq, DroppedOnce DEF InLine
    <2> HIDE DEF rest
    <2>3. Elements(waiting') = Elements(rest) \cup {j} /\ Once(waiting')
        BY <2>1, <2>2, AppendElements, AppendOnce
    <2> QED
        BY <1>0, <2>1, <2>2, <2>3, QueuedAppend DEF InLine
<1>4. ASSUME NEW j \in Jobs, CancelWaiting(j) PROVE InLine'
    <2>1. waiting' = Dropped(waiting, j) /\ pending' = pending
        BY <1>4 DEF CancelWaiting
    <2> QED
        BY <1>0, <2>1, DroppedOnce, QueuedSame DEF InLine
<1>5. ASSUME NEW w \in Workers, Pick(w) PROVE InLine'
    <2>1. PICK h \in Jobs : h = Head(pending)
        BY <1>0, <1>5, QueuedTail DEF Pick
    <2>2. waiting' = Dropped(waiting, h) /\ pending # <<>> /\ pending' = Tail(pending)
        BY <1>5, <2>1 DEF Pick
    <2>3. /\ Once(waiting') /\ h \notin Elements(waiting')
          /\ \A i \in Elements(waiting') : i \in Elements(waiting)
        BY <1>0, <2>2, DroppedOnce DEF InLine
    <2> QED
        BY <1>0, <2>1, <2>2, <2>3, QueuedTail DEF InLine
<1>6. CASE Crash
    BY <1>6 DEF Crash, InLine, Once, Elements
<1>7. ASSUME NEW j \in Jobs, CreateJob(j) \/ Scram(j) \/ DeleteJob(j) \/ CancelRunning(j)
                              \/ CancelBacklog(j) \/ ResumeLanded(j)
      PROVE  UNCHANGED <<waiting, pending>>
    BY <1>7 DEF CreateJob, Scram, DeleteJob, CancelRunning, CancelBacklog, ResumeLanded
<1>8. ASSUME NEW j \in Jobs, RetryJob(j) \/ RetryAllNext(j) \/ ResumeRequeue(j)
      PROVE  Requeue(j) \/ UNCHANGED <<waiting, pending>>
    BY <1>8 DEF RetryJob, RetryAllNext, ResumeRequeue
<1>9. /\ \A wanted : RetryAll(wanted) => UNCHANGED <<waiting, pending>>
      /\ ClearPast \/ Restart \/ UNCHANGED vars => UNCHANGED <<waiting, pending>>
    BY DEF RetryAll, ClearPast, Restart, vars
<1>10. ASSUME NEW w \in Workers, WorkerStep(w), ~Pick(w) PROVE UNCHANGED <<waiting, pending>>
    BY <1>10 DEF WorkerStep, StartScrammed, StartRun, FetchOk, FetchBotCheck, NoteBacklog, Fail,
       Halt, ReachImport, ImportCommit, Complete, Raise, Cleanup, FailCrashed, Finish
<1> QED
    BY <1>1, <1>2, <1>3, <1>4, <1>5, <1>6, <1>7, <1>8, <1>9, <1>10
    DEF Next, UserStep, HandlerStep

-----------------------------------------------------------------------------
(***************************************************************************)
(* What is completed is imported.                                          *)
(***************************************************************************)

\* The episode of a job is in the database, by this job's run or another's.
InDatabase(j) == \E i \in imported : EpisodeOf[i] = EpisodeOf[j]

\* A run past its commit was imported, and what the resume found landed is in the database.
CommitsAreImported ==
    /\ \A w \in Workers : run[w].at = "committed" => run[w].job \in imported
    /\ \A j \in api.landed : InDatabase(j)

\* An import once committed is never taken back.
LEMMA InDatabaseStays ==
    ASSUME imported \subseteq imported'
    PROVE  \A j : InDatabase(j) => InDatabase(j)'
    BY DEF InDatabase

\* A worker's step imports at most the job it holds, and completes one only past its commit.
LEMMA WorkerImports ==
    ASSUME TypeOK, NEW w \in Workers, WorkerStep(w)
    PROVE  /\ imported \subseteq imported' /\ api' = api
           /\ \A j \in Jobs : status'[j] = "completed" =>
                 \/ status[j] = "completed"
                 \/ run[w].at = "committed" /\ j = run[w].job
           /\ Others(w)
           /\ run'[w].at = "committed" => run'[w].job \in imported'
<1> USE DEF jobVars, queueVars, diskVars, histVars
<1>0. status \in [Jobs -> Statuses] /\ run \in [Workers -> Runs]
    BY DEF TypeOK
<1>1. CASE Pick(w)
    BY <1>0, <1>1 DEF Pick, Others
<1>2. CASE Finish(w)
    BY <1>0, <1>2 DEF Finish, Others, Idle
<1>3. CASE ImportCommit(w)
    <2>1. run[w].at # "idle" /\ MoveTo(w, "committed")
        BY <1>3 DEF ImportCommit, At
    <2> QED
        BY <1>3, <2>1, MoveToFacts DEF ImportCommit, Others, Running
<1>4. CASE ~(Pick(w) \/ Finish(w) \/ ImportCommit(w))
    <2>1. /\ imported' = imported /\ api' = api /\ run[w].at # "idle"
          /\ \E place \in (Running \cup Ending) \ {"committed"} : MoveTo(w, place)
          /\ \/ status' = status
             \/ \E s \in {"aborted", "processing", "backlog", "failed"} : SetStatus(run[w].job, s)
             \/ run[w].at = "committed" /\ SetStatus(run[w].job, "completed")
        BY <1>4 DEF WorkerStep, StartScrammed, StartRun, FetchOk, FetchBotCheck, NoteBacklog, Fail,
           Halt, ReachImport, Complete, Raise, Cleanup, FailCrashed, At, Running, Ending
    <2>2. /\ Others(w) /\ run'[w].at # "committed"
        BY <2>1, MoveToFacts DEF Others
    <2> QED
        BY <1>0, <2>1, <2>2, StatusFacts
<1> QED
    BY <1>1, <1>2, <1>3, <1>4

\* A saved file marks as completed what is completed.
LEMMA SavedCompleted ==
    ASSUME TypeOK, [Next]_vars
    PROVE  \A j \in Jobs : disk'.status[j] = "completed" =>
              disk.status[j] = "completed" \/ status'[j] = "completed"
<1>1. CASE Save
    BY <1>1 DEF Save, Saved
<1>2. CASE disk' = disk
    BY <1>2
<1> QED
    BY <1>1, <1>2, SavesOrKeeps DEF EndsRun, RunsOn, Crash, Restart, diskVars

\* No step says completed of a job whose episode is not in the database.
LEMMA ImportedInductive ==
    TypeOK /\ CommitsAreImported /\ CompletedIsImported /\ [Next]_vars
      => CommitsAreImported' /\ CompletedIsImported'
<1> SUFFICES ASSUME TypeOK, CommitsAreImported, CompletedIsImported, [Next]_vars
             PROVE  CommitsAreImported' /\ CompletedIsImported'
    OBVIOUS
<1> USE DEF jobVars, queueVars, diskVars, histVars
<1>0. status \in [Jobs -> Statuses] /\ \A j \in Jobs : disk'.status[j] = "completed" =>
              disk.status[j] = "completed" \/ status'[j] = "completed"
    BY SavedCompleted DEF TypeOK
<1> DEFINE Keeps == /\ imported \subseteq imported'
                    /\ \A j \in Jobs : status'[j] = "completed" =>
                          status[j] = "completed" \/ disk.status[j] = "completed" \/ InDatabase(j)
                    /\ \A w \in Workers : run'[w].at = "committed" => run'[w].job \in imported'
                    /\ \A j \in api'.landed : InDatabase(j)
<1>1. ASSUME Keeps PROVE CommitsAreImported' /\ CompletedIsImported'
    <2>1. \A j : InDatabase(j) => InDatabase(j)'
        BY <1>1, InDatabaseStays
    <2>2. CommitsAreImported'
        BY <1>1, <2>1 DEF CommitsAreImported
    <2>3. ASSUME NEW j \in Jobs, status'[j] = "completed" \/ disk'.status[j] = "completed"
          PROVE  InDatabase(j)'
        <3>1. status[j] = "completed" \/ disk.status[j] = "completed" \/ InDatabase(j)
            BY <1>0, <1>1, <2>3
        <3> QED
            BY <2>1, <3>1 DEF CompletedIsImported, InDatabase
    <2> QED
        BY <2>2, <2>3 DEF CompletedIsImported, InDatabase
<1>2. ASSUME NEW w \in Workers, WorkerStep(w) PROVE Keeps
    <2>1. ASSUME NEW j \in Jobs, run[w].at = "committed" /\ j = run[w].job PROVE InDatabase(j)
        BY <2>1 DEF CommitsAreImported, InDatabase
    <2>2. ASSUME NEW v \in Workers, run'[v].at = "committed" PROVE run'[v].job \in imported'
        BY <1>2, <2>2, WorkerImports DEF CommitsAreImported, Others
    <2> QED
        BY <1>2, <2>1, <2>2, WorkerImports DEF CommitsAreImported
<1>3. ASSUME UNCHANGED <<imported, run>>, api'.landed \in {{}, api.landed},
             \A j \in Jobs : status'[j] = "completed" => status[j] = "completed" \/ InDatabase(j)
      PROVE  Keeps
    BY <1>3 DEF CommitsAreImported
<1>4. ASSUME NEW j \in Jobs, Advance(j) PROVE api'.landed \in {{}, api.landed}
    BY <1>4 DEF Advance, Quiet, TypeOK, Handlers
<1>5. ASSUME NEW j \in Jobs, NEW s, SetStatus(j, s), s # "completed" \/ InDatabase(j)
      PROVE  \A i \in Jobs : status'[i] = "completed" => status[i] = "completed" \/ InDatabase(i)
    BY <1>0, <1>5 DEF SetStatus
<1>6. ASSUME NEW j \in Jobs, CreateJob(j) \/ CancelWaiting(j) \/ CancelBacklog(j) PROVE Keeps
    <2>1. /\ UNCHANGED <<imported, run>> /\ api'.landed \in {{}, api.landed}
          /\ SetStatus(j, "pending") \/ SetStatus(j, "aborted")
        BY <1>6 DEF CreateJob, CancelWaiting, CancelBacklog, Quiet
    <2> QED
        BY <1>3, <1>5, <2>1
<1>7. ASSUME NEW j \in Jobs, Requeue(j), api' = api \/ Advance(j) PROVE Keeps
    <2>1. UNCHANGED <<imported, run>> /\ SetStatus(j, "pending")
        BY <1>7 DEF Requeue, SetStatus
    <2> QED
        BY <1>3, <1>4, <1>5, <1>7, <2>1
<1>8. ASSUME NEW j \in Jobs, ResumeLanded(j) PROVE Keeps
    <2>1. /\ UNCHANGED <<imported, run>> /\ Advance(j) /\ SetStatus(j, "completed")
          /\ j \in api.landed
        BY <1>8 DEF ResumeLanded
    <2> QED
        BY <1>3, <1>4, <1>5, <2>1 DEF CommitsAreImported
<1>9. ASSUME NEW j \in Jobs, Submit(j) \/ Scram(j) \/ CancelRunning(j) \/ DeleteJob(j) PROVE Keeps
    <2>1. UNCHANGED <<imported, run, status>> /\ api'.landed \in {{}, api.landed}
        BY <1>9 DEF Submit, Scram, CancelRunning, DeleteJob, Quiet
    <2> QED
        BY <1>3, <2>1
<1>10. ASSUME NEW wanted, RetryAll(wanted) PROVE Keeps
    <2>1. UNCHANGED <<imported, run, status>> /\ api'.landed = {}
        BY <1>10 DEF RetryAll, Quiet
    <2> QED
        BY <1>3, <2>1
<1>11. ASSUME NEW j \in Jobs, RetryAllNext(j) PROVE Keeps
    <2>1. Advance(j) /\ (Requeue(j) \/ UNCHANGED <<imported, run, status>>)
        BY <1>11 DEF RetryAllNext
    <2> QED
        BY <1>3, <1>4, <1>7, <2>1
<1>12. ASSUME ClearPast \/ UNCHANGED vars PROVE Keeps
    <2>1. UNCHANGED <<imported, run, status, api>>
        BY <1>12 DEF ClearPast, vars
    <2> QED
        BY <1>3, <2>1
<1>13. ASSUME Crash PROVE Keeps
    BY <1>13 DEF Crash, Quiet, Idle
<1>14. ASSUME Restart PROVE Keeps
    <2>1. \A j \in Jobs : status'[j] = "completed" => disk.status[j] = "completed"
        BY <1>14 DEF Restart
    <2>2. UNCHANGED <<imported, run>> /\ \A j \in api'.landed : InDatabase(j)
        BY <1>14 DEF Restart, Landed, InDatabase, Quiet
    <2> QED
        BY <2>1, <2>2 DEF CommitsAreImported
<1>15. ASSUME NEW j \in Jobs, RetryJob(j) \/ ResumeRequeue(j) PROVE Keeps
    BY <1>7, <1>15 DEF RetryJob, ResumeRequeue
<1> HIDE DEF Keeps
<1> QED
    BY <1>1, <1>2, <1>6, <1>8, <1>9, <1>10, <1>11, <1>12, <1>13, <1>14, <1>15
    DEF Next, UserStep, HandlerStep

-----------------------------------------------------------------------------
(***************************************************************************)
(* The inductive invariant, and the theorems it gives.                     *)
(***************************************************************************)
IInv == /\ TypeOK /\ QueueShape /\ NoLostJob /\ NoDoubleRun /\ ActiveIsDurable
        /\ WaitingHasEntry /\ CommitsAreImported /\ CompletedIsImported

\* The invariant holds initially.
LEMMA InitInvariant == Init => IInv
<1> SUFFICES ASSUME Init PROVE IInv
    OBVIOUS
<1>1. TypeOK
    BY TypeInit
<1>2. /\ api.op = "idle" /\ pending = <<>> /\ registry = {} /\ up
      /\ disk.jobs = {} /\ \A j \in Jobs : status[j] = "none" /\ disk.status[j] = "none"
      /\ \A w \in Workers : run[w] = Idle
    BY DEF Init, Quiet
<1>3. \A j \in Jobs : ~Queued(j) /\ QueuedOnce(j) /\ ~Submitting(j)
    BY <1>2 DEF Queued, QueuedOnce, Submitting
<1>4. \A j \in Jobs, w \in Workers : ~Holds(w, j)
    BY <1>2 DEF Holds, Idle, Running
<1>5. QueueShape
    BY <1>2, <1>3 DEF QueueShape, SubmitsOne, KnownWork, DownIsEmpty, KnownJob, Present,
                      OnFile, Idle
<1>6. NoLostJob /\ NoDoubleRun /\ ActiveIsDurable
    BY <1>2, <1>3, <1>4 DEF NoLostJob, NoDoubleRun, ActiveIsDurable, Active
<1>7. WaitingHasEntry
    BY DEF Init, WaitingHasEntry
<1>8. CommitsAreImported /\ CompletedIsImported
    BY <1>2 DEF Init, Quiet, Idle, CommitsAreImported, CompletedIsImported
<1> QED
    BY <1>1, <1>5, <1>6, <1>7, <1>8 DEF IInv

\* Every step keeps the invariant.
LEMMA NextInvariant == IInv /\ [Next]_vars => IInv'
    BY TypeInductive, ShapeInductive, LostInductive, DoubleInductive, DurableInductive,
       WaitingInductive, ImportedInductive
    DEF IInv

\* The invariant holds in every reachable state.
LEMMA Invariance == Spec => []IInv
    BY InitInvariant, NextInvariant, PTL DEF Spec

\* The state of the queue is well formed, whatever the jobs, workers, settings and bounds:
\* __init__, _load_state and every critical section keep it so.
THEOREM TypeCorrect == Spec => []TypeOK
    BY Invariance, PTL DEF IInv

\* No job is lost between create_job, submit, retry_job, resume_interrupted and _drain: one
\* that says it is pending or processing is queued, held by a worker or being submitted.
THEOREM NoLostJobTheorem == Spec => []NoLostJob
    BY Invariance, PTL DEF IInv

\* No job is queued twice, run by two workers, or queued while it runs, by any number of
\* retries, "retry all"s, cancels and resumes (but for one cancelled while it waited).
THEOREM NoDoubleRunTheorem == Spec => []NoDoubleRun
    BY Invariance, PTL DEF IInv

\* _save_state is called often enough: at any moment a crash finds every pending or running
\* job in queue_state.json as one to resume.
THEOREM ActiveIsDurableTheorem == Spec => []ActiveIsDurable
    BY Invariance, PTL DEF IInv

\* _waiting, which the API answers from, never outlives the entry in _pending: Dropped takes
\* out the one entry there is, and every list.append is paired with one to _pending.
THEOREM WaitingHasEntryTheorem == Spec => []WaitingHasEntry
    BY Invariance, PTL DEF IInv

\* A job marked completed, by its run or by resume_interrupted, has its episode imported, for
\* any crashes between the commit, the mark and the save.
THEOREM CompletedIsImportedTheorem == Spec => []CompletedIsImported
    BY Invariance, PTL DEF IInv
=============================================================================
