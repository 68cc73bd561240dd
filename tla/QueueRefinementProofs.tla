----------------------- MODULE QueueRefinementProofs -----------------------
(***************************************************************************)
(* The ingestion queue implements JobBoard, for any jobs, workers, bounds  *)
(* and settings, and whether the restart resumes or not: the initial       *)
(* state is the board's, and every step of a handler, of a worker, of the  *)
(* crash and of the restart is a step of the board or leaves it as it is.  *)
(***************************************************************************)
EXTENDS QueueRefinement, IngestQueueProofs, FiniteSetTheorems

(***************************************************************************)
(* The kinds of step the mapping tells apart.                              *)
(***************************************************************************)
InHand(j) == Queued(j) \/ Submitting(j) \/ j \in RunningIds
NoSubmit  == api.op # "submit" /\ api'.op # "submit"

\* A handler puts a job back in line.
Requeued(j) ==
    /\ up /\ NoSubmit /\ Requeue(j)
    /\ j \in api.todo \/ j \in registry
    /\ status[j] \in Retryable
    /\ api'.todo \subseteq api.todo

\* A handler settles a job that is in nobody's hands.
LetsBe(j) ==
    /\ up /\ NoSubmit /\ Save
    /\ j \in Jobs
    /\ \/ j \in registry /\ j \notin RunningIds /\ j \notin Elements(waiting)
       \/ j \in api.todo /\ Cut(j)
    /\ status' \in {[status EXCEPT ![j] = "aborted"], [status EXCEPT ![j] = "completed"]}
    /\ interrupted' \in {interrupted, [interrupted EXCEPT ![j] = FALSE]}
    /\ UNCHANGED <<registry, pending, waiting, run, up, ghosts, created>>
    /\ api'.todo \subseteq api.todo

\* Jobs that are over are deleted or cleared.
Drops ==
    /\ Serving /\ Save
    /\ registry' \subseteq registry
    /\ \A j \in registry \ registry' : j \notin RunningIds /\ j \notin Elements(waiting)
    /\ UNCHANGED <<status, interrupted, pending, waiting, run, api, up, ghosts, created>>

\* A worker goes on with the job it has, and never back from the end of its run.
Proceeds(w) ==
    /\ up /\ run[w].at # "idle" /\ run'[w].at # "idle" /\ run'[w].job = run[w].job
    /\ run'[w].at \in Running => run[w].at \in Running
    /\ Others(w)
    /\ \A i \in Jobs \ {run[w].job} : status'[i] = status[i] /\ interrupted'[i] = interrupted[i]
    /\ interrupted'[run[w].job] => interrupted[run[w].job]
    /\ Settled /\ UNCHANGED disk

\* A step that says nothing new of any job.
Idles ==
    /\ UNCHANGED <<status, interrupted, registry, pending, waiting, run, disk, ghosts, created, up>>
    /\ UNCHANGED api \/ (up /\ NoSubmit /\ api'.todo \subseteq api.todo \cup registry)

\* A handler that is done with a job has only fewer left.
LEMMA AdvanceShrinks ==
    ASSUME TypeOK, NEW j \in Jobs, Advance(j)
    PROVE  api'.todo \subseteq api.todo
<1>1. CASE api' = Quiet
    BY <1>1 DEF Quiet
<1>2. CASE api' = [api EXCEPT !.todo = @ \ {j}]
    BY <1>2 DEF TypeOK, Handlers
<1> QED
    BY <1>1, <1>2 DEF Advance

\* What a worker's step is, besides taking a job and letting go of it.
LEMMA ProceedsSteps ==
    ASSUME TypeOK, NEW w \in Workers, WorkerStep(w), ~Pick(w), ~Finish(w)
    PROVE  Proceeds(w)
<1> USE DEF jobVars, queueVars, diskVars, histVars
<1>1. /\ up /\ run[w].at # "idle" /\ Settled /\ UNCHANGED disk
      /\ UNCHANGED status \/ \E s \in Statuses : SetStatus(run[w].job, s)
      /\ interrupted' \in {interrupted, [interrupted EXCEPT ![run[w].job] = FALSE]}
      /\ \E place \in Running \cup Ending :
            MoveTo(w, place) /\ (place \in Running => run[w].at \in Running)
    BY DEF WorkerStep, StartScrammed, StartRun, FetchOk, FetchBotCheck, NoteBacklog, Fail, Halt,
       ReachImport, ImportCommit, Complete, Raise, Cleanup, FailCrashed, At, Running, Ending,
       Settled, Statuses, Finished, Active
<1>2. run[w].job \in Jobs
    BY <1>1, BusyFacts
<1>3. /\ \A i \in Jobs \ {run[w].job} : status'[i] = status[i] /\ interrupted'[i] = interrupted[i]
      /\ interrupted'[run[w].job] => interrupted[run[w].job]
    BY <1>1, <1>2, StatusFacts DEF TypeOK
<1>4. PICK place \in Running \cup Ending :
            MoveTo(w, place) /\ (place \in Running => run[w].at \in Running)
    BY <1>1
<1>5. /\ run'[w].job = run[w].job /\ run'[w].at = place /\ Others(w)
    BY <1>1, <1>4, MoveToFacts DEF Others
<1>6. place # "idle"
    BY DEF Running, Ending
<1> QED
    BY <1>1, <1>3, <1>4, <1>5, <1>6 DEF Proceeds

\* Every step of the queue is of one of the kinds above.
LEMMA BoardKinds ==
    ASSUME TypeOK, [Next]_vars
    PROVE  \/ \E j \in Jobs : \/ CreateJob(j) \/ Submit(j) \/ CancelWaiting(j)
                              \/ Requeued(j) \/ LetsBe(j)
           \/ \E w \in Workers : Pick(w) \/ Proceeds(w) \/ Finish(w)
           \/ Drops \/ Idles \/ Crash \/ Restart
<1> USE DEF jobVars, queueVars, diskVars, histVars
<1> DEFINE Goal == \/ \E j \in Jobs : \/ CreateJob(j) \/ Submit(j) \/ CancelWaiting(j)
                                      \/ Requeued(j) \/ LetsBe(j)
                   \/ \E w \in Workers : Pick(w) \/ Proceeds(w) \/ Finish(w)
                   \/ Drops \/ Idles \/ Crash \/ Restart
<1>0. Serving => up /\ api.op # "submit" /\ api.todo = {}
    BY DEF Serving, Quiet
<1>1. ASSUME NEW j \in Jobs, RetryJob(j) PROVE Goal
    <2>1. Requeued(j)
        BY <1>0, <1>1 DEF RetryJob, Requeued, NoSubmit
    <2> QED
        BY <2>1
<1>2. ASSUME NEW wanted, RetryAll(wanted) PROVE Goal
    <2>1. /\ api' = [Quiet EXCEPT !.op = "retryAll", !.todo = {j \in registry : status[j] \in wanted}]
          /\ Serving /\ UNCHANGED <<jobVars, queueVars, run, up, diskVars, created, ghosts>>
        BY <1>2 DEF RetryAll
    <2>2. api'.op = "retryAll" /\ api'.todo \subseteq registry
        BY <2>1 DEF Quiet
    <2>3. Idles
        BY <1>0, <2>1, <2>2 DEF Idles, NoSubmit
    <2> QED
        BY <2>3
<1>3. ASSUME NEW j \in Jobs, RetryAllNext(j) PROVE Goal
    <2>1. up /\ NoSubmit /\ api'.todo \subseteq api.todo /\ j \in api.todo
        BY <1>3, AdvanceFacts, AdvanceShrinks DEF RetryAllNext, NoSubmit
    <2>2. CASE status[j] \in Retryable /\ Requeue(j)
        <3>1. Requeued(j)
            BY <2>1, <2>2 DEF Requeued
        <3> QED
            BY <3>1
    <2>3. CASE UNCHANGED <<jobVars, queueVars, run, up, diskVars, histVars>>
        <3>1. Idles
            BY <2>1, <2>3 DEF Idles
        <3> QED
            BY <3>1
    <2> QED
        BY <1>3, <2>2, <2>3 DEF RetryAllNext
<1>4. ASSUME NEW j \in Jobs, Scram(j) PROVE Goal
    <2>1. Idles
        BY <1>4 DEF Scram, Idles
    <2> QED
        BY <2>1
<1>5. ASSUME NEW j \in Jobs, CancelRunning(j) PROVE Goal
    <2>1. Serving /\ Save /\ UNCHANGED <<status, interrupted, registry, pending, waiting, run, api, up, ghosts, created>>
        BY <1>5 DEF CancelRunning
    <2>2. Drops
        BY <2>1 DEF Drops
    <2> QED
        BY <2>2
<1>6. ASSUME NEW j \in Jobs, CancelBacklog(j) PROVE Goal
    <2>1. LetsBe(j)
        BY <1>0, <1>6 DEF CancelBacklog, LetsBe, NoSubmit, SetStatus
    <2> QED
        BY <2>1
<1>7. ASSUME NEW j \in Jobs, DeleteJob(j) PROVE Goal
    <2>1. Drops
        BY <1>7 DEF DeleteJob, Drops
    <2> QED
        BY <2>1
<1>8. ASSUME ClearPast PROVE Goal
    <2>1. Drops
        BY <1>8 DEF ClearPast, Drops, Discardable
    <2> QED
        BY <2>1
<1>9. ASSUME NEW j \in Jobs, ResumeLanded(j) PROVE Goal
    <2>1. up /\ NoSubmit /\ api'.todo \subseteq api.todo /\ j \in api.todo /\ Cut(j)
        BY <1>9, AdvanceFacts, AdvanceShrinks DEF ResumeLanded, Resuming, NoSubmit, Cut
    <2>2. LetsBe(j)
        BY <1>9, <2>1 DEF ResumeLanded, LetsBe, SetStatus
    <2> QED
        BY <2>2
<1>10. ASSUME NEW j \in Jobs, ResumeRequeue(j) PROVE Goal
    <2>1. up /\ NoSubmit /\ api'.todo \subseteq api.todo /\ j \in api.todo /\ status[j] = "failed"
        BY <1>10, AdvanceFacts, AdvanceShrinks DEF ResumeRequeue, Resuming, NoSubmit
    <2>2. Requeued(j)
        BY <1>10, <2>1 DEF ResumeRequeue, Requeued, Retryable
    <2> QED
        BY <2>2
<1>11. ASSUME NEW w \in Workers, WorkerStep(w) PROVE Goal
    BY <1>11, ProceedsSteps
<1>12. ASSUME UNCHANGED vars PROVE Goal
    <2>1. Idles
        BY <1>12 DEF vars, Idles
    <2> QED
        BY <2>1
<1>13. ASSUME NEW j \in Jobs, CreateJob(j) \/ Submit(j) \/ CancelWaiting(j) PROVE Goal
    BY <1>13
<1>14. ASSUME Crash \/ Restart PROVE Goal
    BY <1>14
<1> HIDE DEF Goal
<1>15. Goal
    BY <1>1, <1>2, <1>3, <1>4, <1>5, <1>6, <1>7, <1>8, <1>9, <1>10, <1>11, <1>12, <1>13, <1>14
    DEF Next, UserStep, HandlerStep
<1> QED
    BY <1>15 DEF Goal

-----------------------------------------------------------------------------
(***************************************************************************)
(* The inductive invariant the mapping needs, besides IInv.                *)
(***************************************************************************)

\* Only a job that was created is cancelled or cut.
Traced == /\ ghosts \subseteq Elements(created) /\ (~up => ghosts = {})
          /\ \A j \in Jobs : interrupted[j] \/ disk.interrupted[j] => j \in Elements(created)
\* The file lists the jobs there are.
Listed == up => registry = disk.jobs
\* A job in somebody's hands is listed, and its crash is forgotten.
HandsListed == \A j \in Jobs \ ghosts : InHand(j) => j \in registry /\ ~interrupted[j]
\* What a handler has left to do is listed.
ToDoListed == api.todo \subseteq registry
\* Of a job in nobody's hands, the file tells what memory does.
RestOnDisk == up => \A j \in registry \ ghosts : ~InHand(j) => (Cut(j) <=> CutOnDisk(j))

RInv == IInv /\ Traced /\ Listed /\ HandsListed /\ ToDoListed /\ RestOnDisk

\* A job in hand shows it: in line it is pending, and held it is active.
LEMMA HandsShow ==
    ASSUME IInv, NEW j \in Jobs \ ghosts
    PROVE  /\ Queued(j) \/ Submitting(j) => status[j] = "pending"
           /\ \A w \in Workers : Holds(w, j) => status[j] \in Active
           /\ \A w \in Workers : Holds(w, j) => ~Queued(j) /\ ~Submitting(j)
           /\ \A v, w \in Workers : Holds(v, j) /\ Holds(w, j) => v = w
           /\ Queued(j) => j \in Elements(waiting)
           /\ status[j] \in Active => InHand(j)
<1>1. \A w \in Workers : Holds(w, j) => j \in RunningIds
    BY DEF Holds, RunningIds, Busy, Running
<1> QED
    BY <1>1 DEF IInv, NoDoubleRun, NoLostJob, QueueShape, KnownJob, InHand

\* What a step that leaves the queue, the workers and the handler's submission alone does to
\* the hands a job is in.
LEMMA SameHands ==
    ASSUME UNCHANGED <<pending, run>>, api' = api \/ NoSubmit
    PROVE  /\ \A j \in Jobs : Submitting(j)' <=> Submitting(j)
           /\ \A j \in Jobs : InHand(j)' <=> InHand(j)
           /\ RunningIds' = RunningIds
           /\ \A w \in Workers, j \in Jobs : Holds(w, j)' <=> Holds(w, j)
<1>1. \A j \in Jobs : Submitting(j)' <=> Submitting(j)
    BY DEF Submitting, NoSubmit
<1>2. RunningIds' = RunningIds
    BY DEF RunningIds, Busy
<1> QED
    BY <1>1, <1>2, QueuedSame DEF InHand, Holds

\* A worker that goes on keeps its job in the same hands.
LEMMA ProceedsHands ==
    ASSUME TypeOK, NEW w \in Workers, Proceeds(w)
    PROVE  /\ \A j \in Jobs : (Submitting(j)' <=> Submitting(j)) /\ (Queued(j)' <=> Queued(j))
           /\ \A j \in Jobs : InHand(j)' <=> InHand(j)
           /\ RunningIds' = RunningIds /\ run[w].job \in RunningIds
           /\ \A v \in Workers, j \in Jobs : Holds(v, j)' => Holds(v, j)
           /\ \A v \in Workers, j \in Jobs : Holds(v, j) /\ v # w => Holds(v, j)'
<1>1. UNCHANGED <<pending, api>>
    BY DEF Proceeds, Settled
<1>2. Busy' = Busy /\ w \in Busy /\ \A v \in Busy : run'[v].job = run[v].job
    BY DEF Proceeds, Busy, Others
<1>3. RunningIds' = RunningIds /\ run[w].job \in RunningIds
    BY <1>2 DEF RunningIds
<1>4. /\ \A v \in Workers, j \in Jobs : Holds(v, j)' => Holds(v, j)
      /\ \A v \in Workers, j \in Jobs : Holds(v, j) /\ v # w => Holds(v, j)'
    BY DEF Holds, Proceeds, Others
<1> QED
    BY <1>1, <1>3, <1>4, QueuedSame DEF InHand, Submitting

\* Taking a job out of line.
LEMMA PickHands ==
    ASSUME TypeOK, NEW w \in Workers, Pick(w)
    PROVE  \E h \in Jobs :
              /\ h = Head(pending) /\ Queued(h) /\ Holds(w, h)'
              /\ RunningIds' = RunningIds \cup {h}
              /\ \A j \in Jobs : Submitting(j)' <=> Submitting(j)
              /\ \A j \in Jobs : Queued(j)' => Queued(j)
              /\ \A j \in Jobs \ {h} : (Queued(j)' <=> Queued(j)) /\ (InHand(j)' <=> InHand(j))
              /\ \A v \in Workers, j \in Jobs \ {h} : Holds(v, j)' <=> Holds(v, j)
<1>0. pending \in Seq(Jobs) /\ run \in [Workers -> Runs]
    BY DEF TypeOK
<1>1. PICK h \in Jobs : h = Head(pending)
    BY <1>0, QueuedTail DEF Pick
<1>2. /\ run' = [run EXCEPT ![w] = [job |-> h, at |-> "picked"]]
      /\ run[w].at = "idle" /\ pending # <<>> /\ pending' = Tail(pending) /\ api' = api
    BY <1>1 DEF Pick, At
<1>3. run'[w].job = h /\ run'[w].at = "picked" /\ Others(w)
    BY <1>0, <1>2 DEF Others
<1>4. Busy' = Busy \cup {w} /\ w \notin Busy
    BY <1>2, <1>3 DEF Busy, Others
<1>5. \A v \in Busy : run'[v] = run[v]
    BY <1>3, <1>4 DEF Busy, Others
<1>6. RunningIds' = RunningIds \cup {h}
    BY <1>3, <1>4, <1>5 DEF RunningIds
<1>7. /\ Queued(h) /\ \A j \in Jobs : Queued(j)' => Queued(j)
      /\ \A j \in Jobs \ {h} : Queued(j) => Queued(j)'
    BY <1>0, <1>1, <1>2, QueuedTail
<1>8. /\ Holds(w, h)' /\ \A j \in Jobs \ {h} : ~Holds(w, j)' /\ ~Holds(w, j)
    BY <1>2, <1>3 DEF Holds, Running
<1>9. \A v \in Workers, j \in Jobs \ {h} : Holds(v, j)' <=> Holds(v, j)
    BY <1>3, <1>8, HoldsOthers
<1>10. \A j \in Jobs : Submitting(j)' <=> Submitting(j)
    BY <1>2 DEF Submitting
<1>11. \A j \in Jobs \ {h} : InHand(j)' <=> InHand(j)
    BY <1>6, <1>7, <1>10 DEF InHand
<1> QED
    BY <1>1, <1>6, <1>7, <1>8, <1>9, <1>10, <1>11

\* Letting go of a job: another worker may still be at the end of a run of it.
LEMMA FinishHands ==
    ASSUME TypeOK, NEW w \in Workers, Finish(w)
    PROVE  /\ run[w].job \in Jobs /\ run[w].job \in RunningIds
           /\ \A j \in Jobs : (Submitting(j)' <=> Submitting(j)) /\ (Queued(j)' <=> Queued(j))
           /\ RunningIds' \subseteq RunningIds
           /\ \A j \in RunningIds \ {run[w].job} : j \in RunningIds'
           /\ \A v \in Workers, j \in Jobs : Holds(v, j)' <=> Holds(v, j)
<1>1. /\ run' = [run EXCEPT ![w] = Idle] /\ run[w].at = "finally" /\ UNCHANGED <<pending, api>>
    BY DEF Finish, At
<1>2. run'[w] = Idle /\ Others(w)
    BY <1>1 DEF Others, TypeOK
<1>3. Busy' = Busy \ {w} /\ w \in Busy
    BY <1>1, <1>2 DEF Busy, Others, Idle
<1>4. \A v \in Busy \ {w} : run'[v] = run[v]
    BY <1>2 DEF Others, Busy
<1>5. /\ RunningIds' \subseteq RunningIds
      /\ \A j \in RunningIds \ {run[w].job} : j \in RunningIds'
      /\ run[w].job \in RunningIds
    BY <1>3, <1>4 DEF RunningIds
<1>6. \A j \in Jobs : ~Holds(w, j) /\ ~Holds(w, j)'
    BY <1>1, <1>2 DEF Holds, Running, Idle
<1>7. \A v \in Workers, j \in Jobs : Holds(v, j)' <=> Holds(v, j)
    BY <1>2, <1>6, HoldsOthers
<1>8. run[w].job \in Jobs
    BY <1>1, BusyFacts
<1> QED
    BY <1>1, <1>5, <1>7, <1>8, QueuedSame DEF Submitting

\* Putting a job back in line.
LEMMA RequeuedHands ==
    ASSUME TypeOK, NEW c \in Jobs, Requeued(c)
    PROVE  /\ \A j \in Jobs : (Queued(j)' <=> Queued(j) \/ j = c) /\ ~Submitting(j) /\ ~Submitting(j)'
           /\ \A j \in Jobs : InHand(j)' <=> InHand(j) \/ j = c
           /\ RunningIds' = RunningIds
           /\ \A w \in Workers, j \in Jobs : Holds(w, j)' <=> Holds(w, j)
           /\ \A j \in Jobs \ {c} : status'[j] = status[j] /\ interrupted'[j] = interrupted[j]
           /\ ~interrupted'[c] /\ UNCHANGED <<registry, up, ghosts, created>>
<1>1. /\ pending' = Append(pending, c) /\ UNCHANGED <<registry, up, ghosts, created, run>>
      /\ status' = [status EXCEPT ![c] = "pending"]
      /\ interrupted' = [interrupted EXCEPT ![c] = FALSE]
    BY DEF Requeued, Requeue
<1>2. \A j \in Jobs : Queued(j)' <=> Queued(j) \/ j = c
    BY <1>1, QueuedAppend DEF TypeOK
<1>3. \A j \in Jobs : ~Submitting(j) /\ ~Submitting(j)'
    BY DEF Requeued, NoSubmit, Submitting
<1>4. RunningIds' = RunningIds
    BY <1>1 DEF RunningIds, Busy
<1>5. /\ \A j \in Jobs \ {c} : status'[j] = status[j] /\ interrupted'[j] = interrupted[j]
      /\ ~interrupted'[c]
    BY <1>1 DEF TypeOK
<1> QED
    BY <1>1, <1>2, <1>3, <1>4, <1>5 DEF InHand, Holds

\* A new job.
LEMMA CreateHands ==
    ASSUME RInv, NEW c \in Jobs, CreateJob(c)
    PROVE  /\ \A j \in Jobs : (Queued(j)' <=> Queued(j)) /\ ~Submitting(j) /\ (Submitting(j)' <=> j = c)
           /\ \A j \in Jobs : InHand(j)' <=> InHand(j) \/ j = c
           /\ RunningIds' = RunningIds
           /\ \A w \in Workers, j \in Jobs : Holds(w, j)' <=> Holds(w, j)
           /\ \A j \in Jobs \ {c} : status'[j] = status[j]
           /\ UNCHANGED <<interrupted, ghosts, up>> /\ up
           /\ registry' = (registry \ Evicted) \cup {c}
           /\ c \notin Elements(created) /\ Elements(created') = Elements(created) \cup {c}
           /\ c \notin ghosts /\ c \notin registry /\ ~InHand(c) /\ ~interrupted[c]
           /\ \A j \in Evicted : j \in registry /\ Discardable(j)
<1>0. TypeOK /\ QueueShape /\ Traced
    BY DEF RInv, IInv
<1>1. /\ c \notin Elements(created) /\ created' = Append(created, c)
      /\ registry' = (registry \ Evicted) \cup {c} /\ up
      /\ UNCHANGED <<interrupted, pending, run, ghosts, up>>
      /\ SetStatus(c, "pending")
    BY DEF CreateJob, Serving
<1>2. Elements(created') = Elements(created) \cup {c}
    BY <1>0, <1>1, AppendElements DEF TypeOK
<1>3. \A j \in Jobs : (Queued(j)' <=> Queued(j)) /\ ~Submitting(j) /\ (Submitting(j)' <=> j = c)
    BY <1>0, <1>1, QueuedSame, SubmittingFacts
<1>4. RunningIds' = RunningIds
    BY <1>1 DEF RunningIds, Busy
<1>5. \A j \in Jobs \ {c} : status'[j] = status[j]
    BY <1>0, <1>1 DEF SetStatus, TypeOK
<1>6. c \notin ghosts /\ c \notin registry /\ ~InHand(c) /\ ~interrupted[c]
    <2>1. c \notin RunningIds
        BY <1>0, <1>1 DEF QueueShape, KnownWork, RunningIds, Busy
    <2> QED
        BY <1>0, <1>1, <2>1 DEF QueueShape, KnownJob, Present, InHand, Traced
<1>7. \A j \in Evicted : j \in registry /\ Discardable(j)
    BY DEF Evicted
<1> QED
    BY <1>1, <1>2, <1>3, <1>4, <1>5, <1>6, <1>7 DEF InHand, Holds

\* The queue entry made of a submission.
LEMMA SubmitHands ==
    ASSUME IInv, NEW c \in Jobs, Submit(c)
    PROVE  /\ \A j \in Jobs : (Queued(j)' \/ Submitting(j)') <=> (Queued(j) \/ Submitting(j))
           /\ \A j \in Jobs : InHand(j)' <=> InHand(j)
           /\ RunningIds' = RunningIds
           /\ \A w \in Workers, j \in Jobs : Holds(w, j)' <=> Holds(w, j)
           /\ UNCHANGED <<status, interrupted, registry, up, ghosts, created>> /\ up
           /\ api'.todo = {} /\ Save
<1>0. TypeOK /\ SubmitsOne
    BY DEF IInv, QueueShape
<1>1. /\ pending' = Append(pending, c) /\ run' = run /\ up /\ Save /\ api' = Quiet
      /\ UNCHANGED <<status, interrupted, registry, up, ghosts, created>>
    BY DEF Submit, jobVars, histVars
<1>2. \A j \in Jobs : Queued(j)' <=> Queued(j) \/ j = c
    BY <1>0, <1>1, QueuedAppend DEF TypeOK
<1>3. \A j \in Jobs : (Submitting(j) <=> j = c) /\ ~Submitting(j)'
    BY <1>0, SubmittingFacts DEF SubmitsOne, Submitting
<1>4. RunningIds' = RunningIds
    BY <1>1 DEF RunningIds, Busy
<1>5. api'.todo = {}
    BY <1>1 DEF Quiet
<1> QED
    BY <1>1, <1>2, <1>3, <1>4, <1>5 DEF InHand, Holds

-----------------------------------------------------------------------------
(***************************************************************************)
(* Every step keeps it.                                                    *)
(***************************************************************************)
LEMMA TracedInductive == RInv /\ [Next]_vars => Traced'
<1> SUFFICES ASSUME RInv, [Next]_vars PROVE Traced'
    OBVIOUS
<1> USE DEF jobVars, queueVars, diskVars, histVars
<1>0. TypeOK /\ QueueShape /\ Traced /\ TypeOK'
    BY TypeInductive DEF RInv, IInv
<1>1. Elements(created) \subseteq Elements(created')
    <2>1. ASSUME NEW c \in Jobs, CreateJob(c) PROVE Elements(created') = Elements(created) \cup {c}
        BY <2>1, CreateHands
    <2>2. ASSUME UNCHANGED created PROVE Elements(created') = Elements(created)
        BY <2>2
    <2> QED
        BY <1>0, <2>1, <2>2, BoardKinds DEF Submit, CancelWaiting, Requeued, Requeue, LetsBe, Pick,
           Proceeds, Settled, Finish, Drops, Idles, Crash, Restart
<1>2. \A j \in Jobs : j \in registry \/ disk.status[j] # "none" => j \in Elements(created)
    BY <1>0 DEF QueueShape, KnownJob, Present, OnFile
<1>3. ghosts' \subseteq Elements(created')
    <2>1. ASSUME NEW c \in Jobs, CancelWaiting(c) PROVE ghosts' \subseteq Elements(created)
        BY <1>0, <1>2, <2>1 DEF CancelWaiting, Traced
    <2>2. ASSUME ghosts' \in {{}, ghosts} PROVE ghosts' \subseteq Elements(created)
        BY <1>0, <2>2 DEF Traced
    <2> QED
        BY <1>0, <1>1, <2>1, <2>2, BoardKinds DEF CreateJob, Submit, Requeued, Requeue, LetsBe, Pick,
           Proceeds, Settled, Finish, Drops, Idles, Crash, Restart
<1>4. ASSUME NEW j \in Jobs, interrupted'[j] PROVE j \in Elements(created')
    <2>1. CASE interrupted[j]
        BY <1>0, <1>1, <2>1 DEF Traced
    <2>2. CASE Restart
        <3>1. WasActive(j) \/ disk.interrupted[j]
            BY <1>4, <2>2 DEF Restart
        <3>2. WasActive(j) => disk.status[j] # "none"
            BY DEF WasActive, Active
        <3> QED
            BY <1>0, <1>1, <1>2, <3>1, <3>2 DEF Traced
    <2>3. ASSUME NEW c \in Jobs, CreateJob(c) \/ Submit(c) \/ CancelWaiting(c) \/ Requeued(c) \/ LetsBe(c)
          PROVE  interrupted[j]
        <3>1. interrupted' \in {interrupted, [interrupted EXCEPT ![c] = FALSE]}
            BY <2>3 DEF CreateJob, Submit, CancelWaiting, Requeued, Requeue, LetsBe
        <3> QED
            BY <1>0, <1>4, <3>1 DEF TypeOK
    <2>4. ASSUME NEW w \in Workers, Pick(w) \/ Proceeds(w) \/ Finish(w) PROVE interrupted[j]
        BY <1>4, <2>4 DEF Pick, Proceeds, Finish
    <2>5. ASSUME Drops \/ Idles \/ Crash PROVE interrupted[j]
        BY <1>4, <2>5 DEF Drops, Idles, Crash
    <2> QED
        BY <1>0, <2>1, <2>2, <2>3, <2>4, <2>5, BoardKinds
<1>5. ASSUME NEW j \in Jobs, disk'.interrupted[j] PROVE j \in Elements(created')
    <2>1. CASE Save
        <3>1. interrupted'[j]
            BY <1>5, <2>1 DEF Save, Saved
        <3> QED
            BY <1>4, <3>1
    <2>2. CASE disk' = disk
        BY <1>0, <1>1, <1>5, <2>2 DEF Traced
    <2> QED
        BY <1>0, <2>1, <2>2, SavesOrKeeps DEF EndsRun, RunsOn, Crash, Restart
<1>6. ~up' => ghosts' = {}
    <2>1. ASSUME NEW c \in Jobs, CreateJob(c) \/ Submit(c) \/ CancelWaiting(c) \/ Requeued(c)
                                  \/ LetsBe(c)
          PROVE  up'
        BY <2>1 DEF CreateJob, Serving, Submit, CancelWaiting, Requeued, Requeue, LetsBe
    <2>2. ASSUME NEW w \in Workers, Pick(w) \/ Proceeds(w) \/ Finish(w) PROVE up'
        BY <2>2 DEF Pick, At, Proceeds, Settled, Finish
    <2>3. Drops \/ Restart => up'
        BY DEF Drops, Serving, Restart
    <2>4. Idles => UNCHANGED <<up, ghosts>>
        BY DEF Idles
    <2> QED
        BY <1>0, <2>1, <2>2, <2>3, <2>4, BoardKinds DEF Traced, Crash
<1> QED
    BY <1>3, <1>4, <1>5, <1>6 DEF Traced

\* Every step leaves the file listing the jobs there are.
LEMMA ListedInductive == TypeOK /\ Listed /\ [Next]_vars => Listed'
<1> SUFFICES ASSUME TypeOK, Listed, [Next]_vars PROVE Listed'
    OBVIOUS
<1>1. CASE Save
    BY <1>1 DEF Save, Saved, Listed
<1>2. CASE UNCHANGED <<registry, disk, up>>
    BY <1>2 DEF Listed
<1>3. CASE Crash \/ Restart
    BY <1>3 DEF Crash, Restart, diskVars, Listed
<1>4. ASSUME NEW j \in Jobs, CreateJob(j) \/ Submit(j) \/ CancelWaiting(j) \/ Requeued(j) \/ LetsBe(j)
      PROVE  Save
    BY <1>4 DEF CreateJob, Submit, CancelWaiting, Requeued, Requeue, LetsBe
<1>5. ASSUME NEW w \in Workers, Pick(w) \/ Proceeds(w) \/ Finish(w)
      PROVE  Save \/ UNCHANGED <<registry, disk, up>>
    BY <1>5 DEF Pick, Finish, Proceeds, Settled
<1>6. Drops \/ Idles => Save \/ UNCHANGED <<registry, disk, up>>
    BY DEF Drops, Idles
<1> QED
    BY <1>1, <1>2, <1>3, <1>4, <1>5, <1>6, BoardKinds

\* Every step keeps what a handler has still to do among the registered jobs.
LEMMA ToDoInductive == RInv /\ [Next]_vars => ToDoListed'
<1> SUFFICES ASSUME RInv, [Next]_vars PROVE ToDoListed'
    OBVIOUS
<1> USE DEF jobVars, queueVars, diskVars, histVars
<1>0. TypeOK /\ api.todo \subseteq registry
    BY DEF RInv, IInv, ToDoListed
<1>1. ASSUME NEW c \in Jobs, CreateJob(c) PROVE ToDoListed'
    <2>1. api'.todo = {c} /\ c \in registry'
        BY <1>1 DEF CreateJob, Quiet
    <2> QED
        BY <2>1 DEF ToDoListed
<1>2. ASSUME NEW c \in Jobs, Submit(c) PROVE ToDoListed'
    BY <1>2, SubmitHands DEF RInv, ToDoListed
<1>3. ASSUME registry' = registry, api'.todo \subseteq api.todo \cup registry PROVE ToDoListed'
    BY <1>0, <1>3 DEF ToDoListed
<1>4. ASSUME NEW c \in Jobs, CancelWaiting(c) \/ Requeued(c) \/ LetsBe(c)
      PROVE  registry' = registry /\ api'.todo \subseteq api.todo
    BY <1>4 DEF CancelWaiting, Requeued, Requeue, LetsBe
<1>5. ASSUME NEW w \in Workers, Pick(w) \/ Proceeds(w) \/ Finish(w)
      PROVE  registry' = registry /\ api' = api
    BY <1>5 DEF Pick, Proceeds, Settled, Finish
<1>6. CASE Drops
    <2>1. api'.todo = {}
        BY <1>6 DEF Drops, Serving, Quiet
    <2> QED
        BY <2>1 DEF ToDoListed
<1>7. Idles => registry' = registry /\ api'.todo \subseteq api.todo \cup registry
    BY DEF Idles
<1>8. CASE Crash
    BY <1>8 DEF Crash, Quiet, ToDoListed
<1>9. CASE Restart
    <2>1. registry' = disk.jobs /\ api'.todo \in {{}, Interrupted}
        BY <1>9 DEF Restart, Quiet
    <2> QED
        BY <2>1 DEF ToDoListed, Interrupted
<1> QED
    BY <1>0, <1>1, <1>2, <1>3, <1>4, <1>5, <1>6, <1>7, <1>8, <1>9, BoardKinds

\* Every step keeps a job in hand listed, and its crash forgotten.
LEMMA HandsInductive == RInv /\ [Next]_vars => HandsListed'
<1> SUFFICES ASSUME RInv, [Next]_vars PROVE HandsListed'
    OBVIOUS
<1> USE DEF jobVars, queueVars, diskVars, histVars
<1>0. /\ IInv /\ TypeOK /\ Traced /\ ToDoListed
      /\ \A j \in Jobs \ ghosts : InHand(j) => j \in registry /\ ~interrupted[j]
    BY DEF RInv, IInv, HandsListed
<1>1. ASSUME \A j \in Jobs \ ghosts' : InHand(j)' => j \in registry' /\ ~interrupted'[j]
      PROVE  HandsListed'
    BY <1>1 DEF HandsListed
<1>2. ASSUME NEW c \in Jobs, CreateJob(c) PROVE HandsListed'
    <2>1. ASSUME NEW j \in Jobs \ ghosts, InHand(j) PROVE j \notin Evicted
        <3>1. CASE j \in RunningIds
            BY <1>2, <3>1, CreateHands DEF Discardable
        <3>2. CASE Queued(j) \/ Submitting(j)
            BY <1>0, <1>2, <3>2, HandsShow, CreateHands DEF Discardable, Finished
        <3> QED
            BY <2>1, <3>1, <3>2 DEF InHand
    <2> QED
        BY <1>0, <1>1, <1>2, <2>1, CreateHands
<1>3. ASSUME NEW c \in Jobs, Submit(c) PROVE HandsListed'
    BY <1>0, <1>1, <1>3, SubmitHands
<1>4. ASSUME NEW c \in Jobs, CancelWaiting(c) PROVE HandsListed'
    <2>1. UNCHANGED <<pending, run, api, registry, interrupted>> /\ ghosts' = ghosts \cup {c}
        BY <1>4 DEF CancelWaiting
    <2> QED
        BY <1>0, <1>1, <2>1, SameHands
<1>5. ASSUME NEW c \in Jobs, Requeued(c) PROVE HandsListed'
    <2>1. c \in registry
        BY <1>0, <1>5 DEF Requeued, ToDoListed
    <2> QED
        BY <1>0, <1>1, <1>5, <2>1, RequeuedHands
<1>6. ASSUME NEW c \in Jobs, LetsBe(c) PROVE HandsListed'
    <2>1. UNCHANGED <<pending, run, registry, ghosts>> /\ NoSubmit
        BY <1>6 DEF LetsBe
    <2>2. \A j \in Jobs : interrupted'[j] => interrupted[j]
        BY <1>0, <1>6 DEF LetsBe, TypeOK
    <2> QED
        BY <1>0, <1>1, <2>1, <2>2, SameHands
<1>7. CASE Drops
    <2>1. UNCHANGED <<pending, run, api, interrupted, ghosts>> /\ api = Quiet
        BY <1>7 DEF Drops, Serving
    <2>2. ASSUME NEW j \in Jobs \ ghosts, InHand(j) PROVE j \notin registry \ registry'
        <3>1. ~Submitting(j)
            BY <2>1 DEF Submitting, Quiet
        <3> QED
            BY <1>0, <1>7, <2>2, <3>1, HandsShow DEF InHand, Drops
    <2> QED
        BY <1>0, <1>1, <2>1, <2>2, SameHands
<1>8. ASSUME NEW w \in Workers, Pick(w) PROVE HandsListed'
    <2>1. UNCHANGED <<registry, interrupted, ghosts>>
        BY <1>8 DEF Pick
    <2>2. PICK h \in Jobs : /\ Queued(h)
                            /\ \A j \in Jobs \ {h} : InHand(j)' <=> InHand(j)
        BY <1>0, <1>8, PickHands
    <2>3. InHand(h)
        BY <2>2 DEF InHand
    <2> QED
        BY <1>0, <1>1, <2>1, <2>2, <2>3
<1>9. ASSUME NEW w \in Workers, Proceeds(w) PROVE HandsListed'
    <2>1. /\ UNCHANGED <<registry, ghosts>>
          /\ \A j \in Jobs : interrupted'[j] => interrupted[j]
        BY <1>9 DEF Proceeds, Settled
    <2> QED
        BY <1>0, <1>1, <1>9, <2>1, ProceedsHands
<1>10. ASSUME NEW w \in Workers, Finish(w) PROVE HandsListed'
    <2>1. UNCHANGED <<registry, interrupted, ghosts>>
        BY <1>10 DEF Finish
    <2>2. \A j \in Jobs : InHand(j)' => InHand(j)
        BY <1>0, <1>10, FinishHands DEF InHand
    <2> QED
        BY <1>0, <1>1, <2>1, <2>2
<1>11. CASE Idles
    BY <1>0, <1>1, <1>11, SameHands DEF Idles
<1>12. CASE Crash \/ Restart
    <2>1. pending' = <<>> /\ api'.op # "submit" /\ \A w \in Workers : run'[w] = Idle
        BY <1>0, <1>12 DEF Crash, Restart, Quiet, IInv, QueueShape, DownIsEmpty
    <2>2. \A j \in Jobs : ~InHand(j)'
        BY <2>1 DEF InHand, Queued, Submitting, RunningIds, Busy, Idle
    <2> QED
        BY <1>1, <2>2
<1> QED
    BY <1>0, <1>2, <1>3, <1>4, <1>5, <1>6, <1>7, <1>8, <1>9, <1>10, <1>11, <1>12, BoardKinds

\* A saved file tells of a job in nobody's hands what memory does.
LEMMA SavedAtRest ==
    ASSUME TypeOK', NoLostJob', Save, NEW j \in registry', ~InHand(j)'
    PROVE  Cut(j)' <=> CutOnDisk(j)'
<1>1. j \in Jobs
    BY DEF TypeOK
<1>2. disk'.status[j] = status'[j] /\ disk'.interrupted[j] = interrupted'[j]
    BY <1>1 DEF Save, Saved, TypeOK
<1>3. status'[j] \notin Active
    BY <1>1 DEF NoLostJob, InHand, Holds, RunningIds, Busy, Running
<1> QED
    BY <1>2, <1>3 DEF Cut, CutOnDisk, WasActive

\* What is at rest stands on disk as it stands in memory, after every step.
LEMMA RestInductive == RInv /\ [Next]_vars => RestOnDisk'
<1> SUFFICES ASSUME RInv, [Next]_vars PROVE RestOnDisk'
    OBVIOUS
<1> USE DEF jobVars, queueVars, diskVars, histVars
<1>0. /\ IInv /\ TypeOK /\ TypeOK' /\ NoLostJob'
      /\ up => \A j \in registry \ ghosts : ~InHand(j) => (Cut(j) <=> CutOnDisk(j))
    BY NextInvariant DEF RInv, IInv, RestOnDisk
<1>1. CASE Save
    BY <1>0, <1>1, SavedAtRest DEF RestOnDisk
<1>2. ASSUME NEW w \in Workers, Proceeds(w) PROVE RestOnDisk'
    <2> SUFFICES ASSUME NEW j \in registry' \ ghosts', ~InHand(j)'
                 PROVE  Cut(j)' <=> CutOnDisk(j)'
        BY DEF RestOnDisk
    <2>1. j \in Jobs /\ j \in registry \ ghosts /\ up /\ disk' = disk
        BY <1>0, <1>2 DEF Proceeds, Settled, TypeOK
    <2>2. ~InHand(j) /\ j # run[w].job
        BY <1>0, <1>2, <2>1, ProceedsHands DEF InHand
    <2>3. status'[j] = status[j] /\ interrupted'[j] = interrupted[j]
        BY <1>2, <2>1, <2>2 DEF Proceeds
    <2> QED
        BY <1>0, <2>1, <2>2, <2>3 DEF Cut, CutOnDisk, WasActive
<1>3. CASE Idles
    <2> SUFFICES ASSUME NEW j \in registry' \ ghosts', ~InHand(j)', up'
                 PROVE  Cut(j)' <=> CutOnDisk(j)'
        BY DEF RestOnDisk
    <2>1. j \in Jobs /\ j \in registry \ ghosts /\ up /\ UNCHANGED <<disk, status, interrupted>>
        BY <1>0, <1>3 DEF Idles, TypeOK
    <2>2. ~InHand(j)
        BY <1>3, <2>1, SameHands DEF Idles
    <2> QED
        BY <1>0, <2>1, <2>2 DEF Cut, CutOnDisk, WasActive
<1>4. CASE Crash
    BY <1>4 DEF Crash, RestOnDisk
<1>5. CASE Restart
    <2>1. ASSUME NEW j \in registry' PROVE Cut(j)' <=> CutOnDisk(j)'
        <3>1. j \in Jobs /\ disk' = disk /\ disk.interrupted[j] \in BOOLEAN
            BY <1>0, <1>5 DEF Restart, TypeOK, Files
        <3>2. /\ status'[j] = IF WasActive(j) THEN "failed" ELSE disk.status[j]
              /\ interrupted'[j] = (WasActive(j) \/ disk.interrupted[j])
            BY <1>5, <3>1 DEF Restart
        <3> QED
            BY <3>1, <3>2 DEF Cut, CutOnDisk, WasActive
    <2> QED
        BY <2>1 DEF RestOnDisk
<1>6. ASSUME NEW j \in Jobs, CreateJob(j) \/ Submit(j) \/ CancelWaiting(j) \/ Requeued(j) \/ LetsBe(j)
      PROVE  Save
    BY <1>6 DEF CreateJob, Submit, CancelWaiting, Requeued, Requeue, LetsBe
<1>7. /\ \A w \in Workers : Pick(w) \/ Finish(w) => Save
      /\ Drops => Save
    BY DEF Pick, Finish, Drops
<1> QED
    BY <1>0, <1>1, <1>2, <1>3, <1>4, <1>5, <1>6, <1>7, BoardKinds

\* Every step keeps the invariant of the mapping.
LEMMA RInvInductive == RInv /\ [Next]_vars => RInv'
    BY NextInvariant, TracedInductive, ListedInductive, ToDoInductive, HandsInductive,
       RestInductive DEF RInv, IInv

\* The invariant of the mapping holds initially.
LEMMA RInvInit == Init => RInv
<1> SUFFICES ASSUME Init PROVE RInv
    OBVIOUS
<1>1. IInv
    BY InitInvariant
<1>2. /\ up /\ registry = {} /\ ghosts = {} /\ disk.jobs = {} /\ api.todo = {} /\ api.op = "idle"
      /\ \A j \in Jobs : ~interrupted[j] /\ ~disk.interrupted[j]
      /\ pending = <<>> /\ \A w \in Workers : run[w] = Idle
    BY DEF Init, Quiet
<1>3. \A j \in Jobs : ~InHand(j)
    BY <1>2 DEF InHand, Queued, Submitting, RunningIds, Busy, Idle
<1> QED
    BY <1>1, <1>2, <1>3 DEF RInv, Traced, Listed, HandsListed, ToDoListed, RestOnDisk

\* The invariant of the mapping holds in every reachable state.
LEMMA RInvariance == Spec => []RInv
    BY RInvInit, RInvInductive, PTL DEF Spec

-----------------------------------------------------------------------------
(***************************************************************************)
(* Every step is one of the board's.                                       *)
(***************************************************************************)
Held(j)  == \E w \in Workers : Holds(w, j)
Lined(j) == Queued(j) \/ Submitting(j)

\* Where a job stands, said with these words.
LEMMA Stands ==
    ASSUME NEW j \in Jobs
    PROVE  InMemory(j) = IF j \in ghosts THEN "off"
                         ELSE IF Held(j) THEN "run"
                         ELSE IF Lined(j) THEN "line"
                         ELSE IF j \in RunningIds THEN "closing"
                         ELSE IF j \in registry THEN (IF Cut(j) THEN "cut" ELSE "ended")
                         ELSE IF j \in Elements(created) THEN "gone" ELSE "none"
    BY DEF InMemory, Held, Lined

\* A job that its hands, its record and its mark leave alone stands where it stood.
Alike(j) ==
    /\ j \in ghosts' <=> j \in ghosts
    /\ j \in ghosts \/ ( /\ Held(j)' <=> Held(j)
                         /\ Lined(j)' <=> Lined(j)
                         /\ j \in RunningIds' <=> j \in RunningIds
                         /\ j \in registry' <=> j \in registry
                         /\ Cut(j)' <=> Cut(j)
                         /\ j \in Elements(created') <=> j \in Elements(created))

\* A job whose entries, worker and status are as before stands where it stood.
LEMMA AlikeStands ==
    ASSUME NEW j \in Jobs, Alike(j)
    PROVE  InMemory(j)' = InMemory(j)
    BY DEF Alike, InMemory, Held, Lined

\* While the server is up one job moves on the board, or none does.
LEMMA PutStep ==
    ASSUME up, up', NEW c \in Jobs, NEW place, InMemory(c)' = place,
           \A j \in Jobs \ {c} : InMemory(j)' = InMemory(j)
    PROVE  Board!Put(c, place) /\ Phase[c] = InMemory(c)
    BY DEF Board!Put, Phase

\* When every job stands where it stood, the board stutters.
LEMMA StayStep ==
    ASSUME up, up', \A j \in Jobs : InMemory(j)' = InMemory(j)
    PROVE  UNCHANGED Board!board
    BY DEF Board!board, Phase

\* A job in nobody's hands is over.
LEMMA OverStands ==
    ASSUME NEW j \in Jobs, j \in registry, j \notin ghosts, ~InHand(j)
    PROVE  InMemory(j) = IF Cut(j) THEN "cut" ELSE "ended"
<1>1. ~Held(j) /\ ~Lined(j) /\ j \notin RunningIds
    BY DEF InHand, Held, Holds, Lined, RunningIds, Busy, Running
<1> QED
    BY <1>1, Stands

\* Creating a job is Accept, with the evicted dropped.
LEMMA CreateSteps ==
    ASSUME RInv, NEW c \in Jobs, CreateJob(c)
    PROVE  Board!Accept(c)
<1> DEFINE old == Evicted \ ghosts
<1>0. /\ IInv /\ TypeOK /\ Evicted \subseteq registry /\ registry \subseteq Elements(created) /\ registry \subseteq Jobs
    BY CreateHands DEF RInv, IInv, TypeOK, QueueShape, KnownJob, Present
<1>1. up /\ up' /\ ~Held(c) /\ ~Lined(c)
    BY CreateHands DEF InHand, Held, Lined, Holds, RunningIds, Busy, Running
<1>2. InMemory(c) = "none"
    BY <1>1, CreateHands, Stands DEF InHand
<1>3. InMemory(c)' = "line"
    <2>1. c \notin ghosts' /\ ~Held(c)' /\ Lined(c)'
        BY <1>1, CreateHands DEF Held, Lined
    <2> QED
        BY <2>1 DEF InMemory, Held, Lined
<1>4. ASSUME NEW j \in old PROVE InMemory(j) \in {"cut", "ended"} /\ InMemory(j)' = "gone"
    <2>1. j \in Jobs /\ j \in registry /\ j \notin ghosts /\ j # c /\ Discardable(j)
        BY <1>0, CreateHands
    <2>2. ~InHand(j)
        BY <1>0, <2>1, HandsShow, CreateHands DEF Discardable, Finished, InHand
    <2>3. ~InHand(j)' /\ j \notin registry' /\ j \notin ghosts' /\ j \in Elements(created')
        BY <1>0, <2>1, <2>2, CreateHands
    <2>4. ~Held(j)' /\ ~Lined(j)' /\ j \notin RunningIds'
        BY <2>3 DEF InHand, Held, Holds, Lined, RunningIds, Busy, Running
    <2>5. InMemory(j)' = "gone"
        BY <2>3, <2>4 DEF InMemory, Held, Lined
    <2> QED
        BY <2>1, <2>2, <2>5, OverStands
<1>5. ASSUME NEW j \in Jobs, j # c, j \notin old PROVE InMemory(j)' = InMemory(j)
    <2>1. Alike(j)
        BY <1>5, CreateHands DEF Alike, Held, Lined, Cut
    <2> QED
        BY <2>1, AlikeStands
<1>6. Phase' = [i \in Jobs |-> IF i = c THEN "line" ELSE IF i \in old THEN "gone" ELSE Phase[i]]
    BY <1>1, <1>3, <1>4, <1>5 DEF Phase
<1>7. old \in SUBSET Board!Over
    BY <1>0, <1>1, <1>4 DEF Board!Over, Board!In, Phase
<1> HIDE DEF old
<1> QED
    BY <1>1, <1>2, <1>6, <1>7 DEF Board!Accept, Phase

\* Deleting and clearing are Drop.
LEMMA DropSteps ==
    ASSUME RInv, Drops
    PROVE  Board!Drop
<1> DEFINE old == (registry \ registry') \ ghosts
<1>0. /\ IInv /\ TypeOK /\ registry \subseteq Elements(created) /\ registry \subseteq Jobs
    BY DEF RInv, IInv, TypeOK, QueueShape, KnownJob, Present
<1>1. /\ up /\ up' /\ registry' \subseteq registry /\ api = Quiet
      /\ UNCHANGED <<status, interrupted, pending, run, api, ghosts, created>>
    BY DEF Drops, Serving
<1>2. \A j \in Jobs : ~Submitting(j) /\ (InHand(j)' <=> InHand(j))
    BY <1>1, SameHands DEF Submitting, Quiet
<1>3. ASSUME NEW j \in old PROVE InMemory(j) \in {"cut", "ended"} /\ InMemory(j)' = "gone"
    <2>1. j \in Jobs /\ j \in registry /\ j \notin ghosts /\ j \notin registry' /\ j \in Elements(created)
        BY <1>0
    <2>2. ~InHand(j)
        BY <1>0, <1>2, <2>1, HandsShow DEF InHand, Drops
    <2>3. ~InHand(j)'
        BY <1>2, <2>1, <2>2
    <2>4. ~Held(j)' /\ ~Lined(j)' /\ j \notin RunningIds'
        BY <2>3 DEF InHand, Held, Holds, Lined, RunningIds, Busy, Running
    <2>5. InMemory(j)' = "gone"
        BY <1>1, <2>1, <2>4 DEF InMemory, Held, Lined
    <2> QED
        BY <2>1, <2>2, <2>5, OverStands
<1>4. ASSUME NEW j \in Jobs, j \notin old PROVE InMemory(j)' = InMemory(j)
    <2>1. Alike(j)
        BY <1>1, <1>4, SameHands, QueuedSame DEF Alike, Held, Lined, Cut
    <2> QED
        BY <2>1, AlikeStands
<1>5. Phase' = [i \in Jobs |-> IF i \in old THEN "gone" ELSE Phase[i]]
    BY <1>1, <1>3, <1>4 DEF Phase
<1>6. old \in SUBSET Board!Over
    BY <1>0, <1>1, <1>3 DEF Board!Over, Board!In, Phase
<1> HIDE DEF old
<1> QED
    BY <1>1, <1>5, <1>6 DEF Board!Drop

\* Submitting moves nothing: the job is in line from its creation.
LEMMA SubmitSteps ==
    ASSUME RInv, NEW c \in Jobs, Submit(c)
    PROVE  UNCHANGED Board!board
<1>1. IInv /\ up /\ up' /\ UNCHANGED <<status, interrupted, registry, ghosts, created>>
    BY SubmitHands DEF RInv
<1>2. ASSUME NEW j \in Jobs PROVE Alike(j)
    BY <1>1, SubmitHands DEF Alike, Held, Lined, Cut
<1> QED
    BY <1>1, <1>2, AlikeStands, StayStep

\* Cancelling a waiting job is Withdraw.
LEMMA WithdrawSteps ==
    ASSUME RInv, NEW c \in Jobs, CancelWaiting(c)
    PROVE  Board!Withdraw(c) \/ UNCHANGED Board!board
<1>1. /\ IInv /\ WaitingHasEntry /\ status \in [Jobs -> Statuses]
      /\ up /\ up' /\ ghosts' = ghosts \cup {c} /\ c \in Elements(waiting) /\ c \notin RunningIds
      /\ status' = [status EXCEPT ![c] = "aborted"]
      /\ UNCHANGED <<interrupted, pending, run, api, registry, created>>
    BY DEF CancelWaiting, Serving, SetStatus, RInv, IInv, TypeOK
<1>2. ASSUME NEW j \in Jobs, j # c \/ c \in ghosts PROVE InMemory(j)' = InMemory(j)
    <2>1. Alike(j)
        BY <1>1, <1>2, SameHands, QueuedSame DEF Alike, Held, Lined, Cut
    <2> QED
        BY <2>1, AlikeStands
<1>3. CASE c \in ghosts
    BY <1>1, <1>2, <1>3, StayStep
<1>4. CASE c \notin ghosts
    <2>1. Lined(c) /\ ~Held(c)
        BY <1>1 DEF WaitingHasEntry, Elements, Lined, Held, Holds, RunningIds, Busy, Running
    <2>2. InMemory(c) = "line"
        BY <1>4, <2>1, Stands
    <2>3. InMemory(c)' = "off"
        BY <1>1 DEF InMemory
    <2> QED
        BY <1>1, <1>2, <2>2, <2>3, PutStep DEF Board!Withdraw
<1> QED
    BY <1>3, <1>4

\* A requeue is Again.
LEMMA AgainSteps ==
    ASSUME RInv, NEW c \in Jobs, Requeued(c)
    PROVE  Board!Again(c) \/ UNCHANGED Board!board
<1>1. /\ IInv /\ c \in registry /\ up /\ up' /\ status[c] \in Retryable
    BY RequeuedHands DEF Requeued, Requeue, RInv, IInv, ToDoListed
<1>2. ASSUME NEW j \in Jobs, j # c \/ c \in ghosts PROVE InMemory(j)' = InMemory(j)
    <2>1. Alike(j)
        BY <1>1, <1>2, RequeuedHands DEF Alike, Held, Lined, Cut, RInv, IInv
    <2> QED
        BY <2>1, AlikeStands
<1>3. CASE c \in ghosts
    BY <1>1, <1>2, <1>3, StayStep
<1>4. CASE c \notin ghosts
    <2>1. ~Held(c) /\ ~Lined(c)
        BY <1>1, <1>4, HandsShow DEF Held, Lined, Retryable, Active
    <2>2. InMemory(c) \in {"closing", "cut", "ended"}
        BY <1>1, <1>4, <2>1, Stands
    <2>3. c \notin ghosts' /\ ~Held(c)' /\ Lined(c)'
        BY <1>4, <2>1, RequeuedHands DEF Held, Lined, RInv, IInv
    <2>4. InMemory(c)' = "line"
        BY <2>3 DEF InMemory, Held, Lined
    <2> QED
        BY <1>1, <1>2, <2>2, <2>4, PutStep DEF Board!Again
<1> QED
    BY <1>3, <1>4

\* Settling a job in nobody's hands is LetBe, or moves nothing.
LEMMA LetBeSteps ==
    ASSUME RInv, NEW c \in Jobs, LetsBe(c)
    PROVE  Board!LetBe(c) \/ UNCHANGED Board!board
<1>1. /\ IInv /\ TypeOK /\ NoSubmit /\ up /\ up' /\ c \in registry
      /\ UNCHANGED <<registry, pending, run, ghosts, created>>
    BY DEF LetsBe, RInv, IInv, ToDoListed
<1>2. ASSUME NEW j \in Jobs, j # c \/ c \in ghosts PROVE InMemory(j)' = InMemory(j)
    <2>1. j # c => status'[j] = status[j] /\ interrupted'[j] = interrupted[j]
        BY <1>1 DEF LetsBe, TypeOK
    <2>2. Alike(j)
        BY <1>1, <1>2, <2>1, SameHands, QueuedSame DEF Alike, Held, Lined, Cut
    <2> QED
        BY <2>2, AlikeStands
<1>3. CASE c \in ghosts
    BY <1>1, <1>2, <1>3, StayStep
<1>4. CASE c \notin ghosts
    <2>1. ~InHand(c)
        <3>1. CASE c \notin RunningIds /\ c \notin Elements(waiting)
            BY <1>1, <1>4, <3>1, HandsShow DEF InHand, NoSubmit, Submitting
        <3>2. CASE Cut(c)
            BY <1>4, <3>2 DEF Cut, RInv, HandsListed
        <3> QED
            BY <3>1, <3>2 DEF LetsBe
    <2>2. InMemory(c) = IF Cut(c) THEN "cut" ELSE "ended"
        BY <1>1, <1>4, <2>1, OverStands
    <2>3. ~InHand(c)' /\ ~Cut(c)' /\ c \in registry' /\ c \notin ghosts'
        <3>1. status'[c] # "failed"
            BY <1>1 DEF LetsBe, TypeOK
        <3> QED
            BY <1>1, <1>4, <2>1, <3>1, SameHands DEF Cut
    <2>4. ~Held(c)' /\ ~Lined(c)' /\ c \notin RunningIds'
        BY <2>3 DEF InHand, Held, Holds, Lined, RunningIds, Busy, Running
    <2>5. InMemory(c)' = "ended"
        BY <2>3, <2>4 DEF InMemory, Held, Lined
    <2>6. CASE Cut(c)
        BY <1>1, <1>2, <2>2, <2>5, <2>6, PutStep DEF Board!LetBe
    <2>7. CASE ~Cut(c)
        BY <1>1, <1>2, <2>2, <2>5, <2>7, StayStep
    <2> QED
        BY <2>6, <2>7
<1> QED
    BY <1>3, <1>4

\* A worker that goes on with its run moves nothing, or is End.
LEMMA ProceedSteps ==
    ASSUME RInv, NEW w \in Workers, Proceeds(w)
    PROVE  Board!End(run[w].job) \/ UNCHANGED Board!board
<1>0. PICK c \in Jobs : c = run[w].job
    BY BusyFacts DEF Proceeds, RInv, IInv
<1>1. /\ IInv /\ TypeOK /\ c \in RunningIds /\ up /\ up'
      /\ UNCHANGED <<registry, ghosts, created>>
    BY <1>0, ProceedsHands DEF Proceeds, Settled, RInv, IInv
<1>2. ASSUME NEW j \in Jobs, j # c \/ c \in ghosts PROVE InMemory(j)' = InMemory(j)
    <2>1. j # c => /\ \A v \in Workers : Holds(v, j)' <=> Holds(v, j)
                   /\ status'[j] = status[j] /\ interrupted'[j] = interrupted[j]
        <3>1. ~Holds(w, j) \/ j = c
            BY <1>0 DEF Holds
        <3> QED
            BY <1>0, <1>1, <3>1, ProceedsHands DEF Proceeds
    <2>2. Alike(j)
        BY <1>1, <1>2, <2>1, ProceedsHands DEF Alike, Held, Lined, Cut
    <2> QED
        BY <2>2, AlikeStands
<1>3. CASE c \in ghosts
    BY <1>1, <1>2, <1>3, StayStep
<1>4. CASE c \notin ghosts
    <2>1. (Lined(c)' <=> Lined(c)) /\ c \in RunningIds' /\ c \notin ghosts'
        BY <1>1, <1>4, ProceedsHands DEF Lined
    <2>2. CASE Held(c)' \/ ~Held(c)
        <3>1. Held(c)' <=> Held(c)
            BY <1>1, <2>2, ProceedsHands DEF Held
        <3>2. InMemory(c)' = InMemory(c)
            BY <1>1, <1>4, <2>1, <3>1 DEF InMemory, Held, Lined
        <3> QED
            BY <1>1, <1>2, <3>2, StayStep
    <2>3. CASE Held(c) /\ ~Held(c)'
        <3>1. ~Lined(c) /\ ~Lined(c)'
            BY <1>1, <1>4, <2>1, <2>3, HandsShow DEF Held, Lined
        <3>2. InMemory(c) = "run"
            BY <1>1, <1>4, <2>3, Stands
        <3>3. InMemory(c)' = "closing"
            BY <2>1, <2>3, <3>1 DEF InMemory, Held, Lined
        <3>4. Board!End(c)
            BY <1>1, <1>2, <3>2, <3>3, PutStep DEF Board!End
        <3> QED
            BY <1>0, <3>4
    <2> QED
        BY <2>2, <2>3
<1> QED
    BY <1>3, <1>4

\* The last critical section of a run is Rest.
LEMMA FinishSteps ==
    ASSUME RInv, NEW w \in Workers, Finish(w)
    PROVE  Board!Rest(run[w].job) \/ UNCHANGED Board!board
<1>0. PICK c \in Jobs : c = run[w].job
    BY FinishHands DEF RInv, IInv
<1>1. /\ IInv /\ TypeOK /\ c \in RunningIds /\ up /\ up'
      /\ UNCHANGED <<status, interrupted, registry, ghosts, created>>
    BY <1>0, FinishHands DEF Finish, At, RInv, IInv, jobVars, histVars
<1>2. ASSUME NEW j \in Jobs, j # c \/ c \in ghosts PROVE InMemory(j)' = InMemory(j)
    <2>1. j # c => (j \in RunningIds' <=> j \in RunningIds)
        BY <1>0, <1>1, FinishHands
    <2>2. Alike(j)
        BY <1>1, <1>2, <2>1, FinishHands DEF Alike, Held, Lined, Cut
    <2> QED
        BY <2>2, AlikeStands
<1>3. CASE c \in ghosts
    BY <1>1, <1>2, <1>3, StayStep
<1>4. CASE c \notin ghosts
    <2>1. (Lined(c)' <=> Lined(c)) /\ (Held(c)' <=> Held(c)) /\ c \notin ghosts'
        BY <1>1, <1>4, FinishHands DEF Lined, Held
    <2>2. c \in registry /\ ~Cut(c)' /\ c \in registry'
        BY <1>1, <1>4 DEF RInv, HandsListed, InHand, Cut
    <2>3. CASE Held(c) \/ Lined(c) \/ c \in RunningIds'
        <3>1. InMemory(c)' = InMemory(c)
            BY <1>1, <1>4, <2>1, <2>3 DEF InMemory, Held, Lined
        <3> QED
            BY <1>1, <1>2, <3>1, StayStep
    <2>4. CASE ~Held(c) /\ ~Lined(c) /\ c \notin RunningIds'
        <3>1. InMemory(c) = "closing"
            BY <1>1, <1>4, <2>4, Stands
        <3>2. InMemory(c)' = "ended"
            BY <2>1, <2>2, <2>4 DEF InMemory, Held, Lined
        <3>3. Board!Rest(c)
            BY <1>1, <1>2, <3>1, <3>2, PutStep DEF Board!Rest
        <3> QED
            BY <1>0, <3>3
    <2> QED
        BY <2>3, <2>4
<1> QED
    BY <1>3, <1>4

\* The board counts as the queue does.
LEMMA BoardCardinality == \A S : Board!Cardinality(S) = Cardinality(S)
    BY DEF Board!Cardinality, Cardinality

\* No more jobs run than there are busy workers.
LEMMA RunBound ==
    ASSUME TypeOK, up
    PROVE  /\ Cardinality(Board!In({"run"})) \in Nat
           /\ Cardinality(Board!In({"run"})) <= Cardinality(Busy)
<1> DEFINE job == [w \in Busy |-> run[w].job]
<1>1. IsFiniteSet(Busy)
    BY ConstantsAssumption, FS_Subset DEF Busy
<1>2. job \in Surjection(Busy, RunningIds)
    BY DEF RunningIds, Surjection
<1>3. IsFiniteSet(RunningIds) /\ Cardinality(RunningIds) <= Cardinality(Busy)
    <2> HIDE DEF job
    <2> QED
        BY <1>1, <1>2, FS_Surjection
<1>4. Board!In({"run"}) \subseteq RunningIds
    <2> SUFFICES ASSUME NEW j \in Jobs, InMemory(j) = "run" PROVE j \in RunningIds
        BY DEF Board!In, Phase
    <2>1. Held(j)
        BY Stands
    <2> QED
        BY <2>1 DEF Held, Holds, RunningIds, Busy, Running
<1>5. /\ Cardinality(Board!In({"run"})) \in Nat /\ Cardinality(RunningIds) \in Nat
      /\ Cardinality(Busy) \in Nat
      /\ Cardinality(Board!In({"run"})) <= Cardinality(RunningIds)
    BY <1>1, <1>3, <1>4, FS_Subset, FS_CardinalityType
<1> QED
    BY <1>3, <1>5

\* Taking a job out of the queue is Start, under the limit.
LEMMA PickSteps ==
    ASSUME RInv, NEW w \in Workers, Pick(w)
    PROVE  (\E c \in Jobs : Board!Start(c)) \/ UNCHANGED Board!board
<1>1. /\ IInv /\ TypeOK /\ up /\ up' /\ UNCHANGED <<status, interrupted, registry, ghosts, created>>
      /\ Cardinality(Busy) < MaxJobs
    BY DEF Pick, At, RInv, IInv, jobVars, histVars
<1>2. PICK c \in Jobs :
          /\ Queued(c) /\ Holds(w, c)' /\ RunningIds' = RunningIds \cup {c}
          /\ \A j \in Jobs : Submitting(j)' <=> Submitting(j)
          /\ \A j \in Jobs \ {c} : Queued(j)' <=> Queued(j)
          /\ \A v \in Workers, j \in Jobs \ {c} : Holds(v, j)' <=> Holds(v, j)
    BY <1>1, PickHands
<1>3. ASSUME NEW j \in Jobs, j # c \/ c \in ghosts PROVE InMemory(j)' = InMemory(j)
    <2>1. Alike(j)
        BY <1>1, <1>2, <1>3 DEF Alike, Held, Lined, Cut
    <2> QED
        BY <2>1, AlikeStands
<1>4. CASE c \in ghosts
    BY <1>1, <1>3, <1>4, StayStep
<1>5. CASE c \notin ghosts
    <2>1. ~Held(c) /\ Lined(c)
        BY <1>1, <1>2, <1>5, HandsShow DEF Held, Lined
    <2>2. InMemory(c) = "line"
        BY <1>5, <2>1, Stands
    <2>3. Held(c)' /\ c \notin ghosts'
        BY <1>1, <1>2, <1>5 DEF Held
    <2>4. InMemory(c)' = "run"
        BY <2>3 DEF InMemory, Held
    <2>5. Cardinality(Board!In({"run"})) < MaxJobs
        <3>1. Cardinality(Busy) \in Nat
            BY ConstantsAssumption, FS_Subset, FS_CardinalityType DEF Busy
        <3> QED
            BY <1>1, <3>1, RunBound, ConstantsAssumption
    <2>6. Board!Start(c)
        BY <1>1, <1>3, <2>2, <2>4, <2>5, PutStep, BoardCardinality DEF Board!Start
    <2> QED
        BY <2>6
<1> QED
    BY <1>4, <1>5

\* A step that says nothing new of any job moves nothing.
LEMMA IdleSteps ==
    ASSUME Idles
    PROVE  UNCHANGED Board!board
<1>1. UNCHANGED <<status, interrupted, registry, pending, run, disk, ghosts, created, up>>
    BY DEF Idles
<1>2. ASSUME NEW j \in Jobs PROVE InMemory(j)' = InMemory(j)
    <2>1. Alike(j)
        BY <1>1, SameHands, QueuedSame DEF Idles, Alike, Held, Lined, Cut
    <2> QED
        BY <2>1, AlikeStands
<1>3. ASSUME NEW j \in Jobs PROVE OnDisk(j)' = OnDisk(j)
    BY <1>1 DEF OnDisk, CutOnDisk, WasActive
<1> QED
    BY <1>1, <1>2, <1>3 DEF Board!board, Phase

\* A crash of the queue is a crash of the board.
LEMMA CrashSteps ==
    ASSUME RInv, Crash
    PROVE  Board!Crash
<1>1. /\ IInv /\ up /\ ~up' /\ UNCHANGED <<disk, created>> /\ registry = disk.jobs
      /\ registry \subseteq Jobs /\ up' \in BOOLEAN
    BY DEF Crash, diskVars, RInv, IInv, TypeOK, Listed
<1>2. ASSUME NEW j \in Jobs PROVE OnDisk(j)' = OnDisk(j)
    BY <1>1 DEF OnDisk, CutOnDisk, WasActive
<1>3. ASSUME NEW j \in Jobs PROVE OnDisk(j) \in Board!AfterCrash(InMemory(j))
    <2>0. j \in registry => j \in Elements(created)
        BY <1>1, <1>3 DEF IInv, QueueShape, KnownJob, Present
    <2>1. CASE j \in ghosts
        <3>1. InMemory(j) = "off"
            BY <2>1, Stands
        <3>2. OnDisk(j) \in {"gone", "cut", "ended"}
            BY <2>1 DEF OnDisk, RInv, Traced
        <3> QED
            BY <3>1, <3>2 DEF Board!AfterCrash
    <2>2. CASE j \notin ghosts /\ (Held(j) \/ Lined(j))
        <3>1. InMemory(j) \in {"run", "line"}
            BY <2>2, Stands
        <3>2. InHand(j) /\ status[j] \in Active
            BY <1>1, <2>2, HandsShow DEF Held, Lined, Active, InHand, Holds, RunningIds, Busy, Running
        <3>3. j \in registry
            BY <2>2, <3>2 DEF RInv, HandsListed
        <3>4. OnDisk(j) = "cut"
            BY <1>1, <2>0, <2>2, <3>2, <3>3 DEF IInv, ActiveIsDurable, OnDisk, CutOnDisk, WasActive
        <3> QED
            BY <3>1, <3>4 DEF Board!AfterCrash
    <2>3. CASE j \notin ghosts /\ ~Held(j) /\ ~Lined(j) /\ j \in RunningIds
        <3>1. InMemory(j) = "closing"
            BY <2>3, Stands
        <3>2. j \in registry
            BY <2>3 DEF RInv, HandsListed, InHand
        <3>3. OnDisk(j) \in {"cut", "ended"}
            BY <1>1, <2>0, <3>2 DEF OnDisk
        <3> QED
            BY <3>1, <3>3 DEF Board!AfterCrash
    <2>4. CASE j \notin ghosts /\ ~Held(j) /\ ~Lined(j) /\ j \notin RunningIds
        <3>1. ~InHand(j)
            BY <2>4 DEF InHand, Lined
        <3>2. j \in registry => (Cut(j) <=> CutOnDisk(j))
            BY <1>1, <2>4, <3>1 DEF RInv, RestOnDisk
        <3>3. InMemory(j) = OnDisk(j)
            BY <1>1, <2>0, <2>4, <3>2, Stands DEF OnDisk
        <3>4. InMemory(j) \in {"cut", "ended", "gone", "none"}
            BY <2>4, Stands
        <3> QED
            BY <3>3, <3>4 DEF Board!AfterCrash
    <2> QED
        BY <2>1, <2>2, <2>3, <2>4
<1>4. \A j \in Jobs : OnDisk(j) \in {"none", "gone", "cut", "ended"}
    BY DEF OnDisk
<1>5. Phase' \in [Jobs -> Board!Phases]
    BY <1>1, <1>2, <1>4 DEF Phase, Board!Phases
<1>6. \A j \in Jobs : Phase'[j] \in Board!AfterCrash(Phase[j])
    BY <1>1, <1>2, <1>3 DEF Phase
<1> QED
    BY <1>1, <1>5, <1>6 DEF Board!Crash

\* The restart finds every job where the disk left it.
LEMMA RestartSteps ==
    ASSUME RInv, RInv', Restart
    PROVE  Board!Restart
<1>1. /\ IInv /\ ~up /\ up' /\ UNCHANGED <<disk, created, ghosts>> /\ registry' = disk.jobs
      /\ ghosts = {} /\ UNCHANGED <<pending, run>> /\ api'.op # "submit"
      /\ registry' \subseteq Jobs
    BY DEF Restart, diskVars, histVars, Quiet, RInv, IInv, TypeOK, Traced
<1>2. pending' = <<>> /\ \A w \in Workers : run'[w] = Idle
    BY <1>1 DEF IInv, QueueShape, DownIsEmpty
<1>3. ASSUME NEW j \in Jobs PROVE InMemory(j)' = OnDisk(j)
    <2>1. /\ j \notin ghosts' /\ ~Held(j)' /\ ~Lined(j)' /\ j \notin RunningIds' /\ ~InHand(j)'
        BY <1>1, <1>2 DEF Held, Holds, Lined, Queued, Submitting, RunningIds, Busy, InHand, Idle,
           Running
    <2>2. j \in registry' => (Cut(j)' <=> CutOnDisk(j)')
        BY <1>1, <2>1 DEF RInv, RestOnDisk
    <2>3. CutOnDisk(j)' <=> CutOnDisk(j)
        BY <1>1 DEF CutOnDisk, WasActive
    <2>4. j \in disk.jobs => j \in Elements(created)
        BY <1>1 DEF IInv, QueueShape, KnownJob, OnFile
    <2> QED
        BY <1>1, <2>1, <2>2, <2>3, <2>4 DEF InMemory, OnDisk, Held, Lined
<1>4. Phase' = Phase
    BY <1>1, <1>3 DEF Phase
<1> QED
    BY <1>1, <1>4 DEF Board!Restart

\* Every step of the queue is a step of the board, or none.
LEMMA StepRefines ==
    ASSUME RInv, RInv', [Next]_vars
    PROVE  [Board!Next]_(Board!board)
<1>0. TypeOK
    BY DEF RInv, IInv
<1>1. ASSUME NEW c \in Jobs, CreateJob(c) \/ CancelWaiting(c) \/ Requeued(c) \/ LetsBe(c) \/ Submit(c)
      PROVE  Board!Next \/ UNCHANGED Board!board
    BY <1>1, CreateSteps, WithdrawSteps, AgainSteps, LetBeSteps, SubmitSteps DEF Board!Next
<1>2. ASSUME NEW w \in Workers, Proceeds(w) \/ Finish(w) PROVE Board!Next \/ UNCHANGED Board!board
    <2>1. run[w].job \in Jobs
        BY <1>0, <1>2, BusyFacts, FinishHands DEF Proceeds
    <2> QED
        BY <1>2, <2>1, ProceedSteps, FinishSteps DEF Board!Next
<1>3. ASSUME NEW w \in Workers, Pick(w) PROVE Board!Next \/ UNCHANGED Board!board
    BY <1>3, PickSteps DEF Board!Next
<1>4. ASSUME Drops \/ Crash \/ Restart PROVE Board!Next
    BY <1>4, DropSteps, CrashSteps, RestartSteps DEF Board!Next
<1>5. Idles => UNCHANGED Board!board
    BY IdleSteps
<1> QED
    BY <1>0, <1>1, <1>2, <1>3, <1>4, <1>5, BoardKinds

\* Before anything is submitted the board is empty.
LEMMA InitRefines == Init => Board!Init
<1> SUFFICES ASSUME Init PROVE Board!Init
    OBVIOUS
<1>1. /\ up /\ ghosts = {} /\ registry = {} /\ created = <<>> /\ pending = <<>>
      /\ api.op = "idle" /\ \A w \in Workers : run[w] = Idle
    BY DEF Init, Quiet
<1>2. ASSUME NEW j \in Jobs PROVE InMemory(j) = "none"
    <2>1. /\ ~Held(j) /\ ~Lined(j) /\ j \notin RunningIds /\ j \notin Elements(created)
        BY <1>1 DEF Held, Holds, Lined, Queued, Submitting, RunningIds, Busy, Elements, Idle, Running
    <2> QED
        BY <1>1, <2>1, Stands
<1> QED
    BY <1>1, <1>2 DEF Board!Init, Phase

\* The queue implements the board.  Where a job stands, read from its entries, its worker, the
\* handler that has it and the file, moves only as JobBoard lets it: whatever the handlers, the
\* workers, a crash and the restart do to the statuses, lists and files behind it.
THEOREM QueueKeepsTheBoard == Spec => KeepsTheBoard
<1>1. RInv /\ RInv' /\ [Next]_vars => [Board!Next]_(Board!board)
    BY StepRefines
<1>2. Init => Board!Init
    BY InitRefines
<1> QED
    BY <1>1, <1>2, RInvariance, PTL DEF Spec, KeepsTheBoard, Board!Spec
=============================================================================
