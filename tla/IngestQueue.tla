---------------------------- MODULE IngestQueue ----------------------------
(***************************************************************************)
(* The ingestion queue: services/ingest/manager.py (IngestionManager), the *)
(* life cycle of a job (services/ingest/job.py), the endings of a run      *)
(* (run_pipeline and _run_stages in services/ingest/pipeline.py), and what *)
(* a crash of the server and the restart after it (main.py, _lifespan) do  *)
(* to them.                                                                *)
(*                                                                         *)
(* Three kinds of thread meet here.  The API handlers are coroutines that  *)
(* never await while they use the manager, so they run one after another,  *)
(* on the event loop; `api` is the handler (or the resume at startup) that *)
(* is between two of its critical sections.  Each worker thread runs       *)
(* _drain; run[w] is the job it holds and how far the run has come.  Every *)
(* critical section under _lock is one step; a job's status is written     *)
(* without the lock, by steps of their own.                                *)
(*                                                                         *)
(* Abstracted: the stages before the import are the one place "work",      *)
(* since every _halted check among them has the same effect; logs,         *)
(* progress, summaries and events are left out.                            *)
(***************************************************************************)
EXTENDS Naturals, Sequences, FiniteSets, SequencesExt

CONSTANTS
    Jobs,               \* job ids that may ever be created (uuid4 in the code)
    UrlJobs,            \* those started from a URL; the others uploaded a file
    Episodes,           \* episode ids
    EpisodeOf,          \* job -> the episode it ingests
    Workers,            \* runner threads
    MaxJobs,            \* settings.ingest.max_concurrent_jobs
    MaxFinished,        \* MAX_FINISHED_JOBS
    ResumeInterrupted,  \* settings.ingest.resume_interrupted
    MaxRetries,         \* bound: requeues asked for by a person
    MaxCrashes,         \* bound: crashes of the server
    NoJob               \* the job of an idle worker

ASSUME ConstantsAssumption ==
    /\ UrlJobs \subseteq Jobs
    /\ EpisodeOf \in [Jobs -> Episodes]
    /\ IsFiniteSet(Workers)
    /\ MaxJobs \in Nat
    /\ MaxFinished \in Nat
    /\ ResumeInterrupted \in BOOLEAN
    /\ MaxRetries \in Nat
    /\ MaxCrashes \in Nat
    /\ NoJob \notin Jobs

VARIABLES
    \* IngestJob objects in memory
    status,      \* job -> its status; "none" while there is no such object
    interrupted, \* job -> error = INTERRUPTED
    scrammed,    \* job -> the _scram event is set
    \* IngestionManager, in memory
    registry,    \* the keys of _jobs; their insertion order is the order of `created`
    pending,     \* _pending
    waiting,     \* _waiting
    backlog,     \* _backlog
    run,         \* worker -> [job, at]; _running holds the jobs of busy workers
    api,         \* the handler between two critical sections
    up,          \* the server process is alive
    \* durable
    disk,        \* queue_state.json
    workDir,     \* job -> its work directory still holds what the run needs
    imported,    \* jobs whose run committed an import to the database
    \* history and bounds
    created,     \* ids already used, in the order of their created_at
    ghosts,      \* jobs this process cancelled while they waited
    unresumed,   \* jobs a failed resume left failed, and nobody has retried since
    retries, crashes

jobVars   == <<status, interrupted, scrammed>>
queueVars == <<registry, pending, waiting, backlog>>
diskVars  == <<disk, workDir, imported>>
histVars  == <<created, ghosts, unresumed, retries, crashes>>
vars == <<status, interrupted, scrammed, registry, pending, waiting, backlog, run, api, up,
          disk, workDir, imported, created, ghosts, unresumed, retries, crashes>>

-----------------------------------------------------------------------------
Finished  == {"completed", "failed", "aborted"}
Active    == {"pending", "processing"}
Unfinished == {"failed", "aborted", "backlog", "processing"}
Retryable == {"failed", "aborted", "backlog"}
Statuses  == Finished \cup Active \cup {"backlog", "none"}

\* Where a worker's run is.  "finally" is the last critical section of _drain.
Running == {"picked", "fetch", "work", "import", "committed", "raised", "crashed"}
Ending  == {"note", "cleanup", "finally"}
Idle    == [job |-> NoJob, at |-> "idle"]
Quiet   == [op |-> "idle", todo |-> {}, landed |-> {}, ran |-> {}, line |-> <<>>]

Elements(s) == {s[i] : i \in DOMAIN s}
Precedes(s, i, j) == \E a, b \in DOMAIN s : a < b /\ s[a] = i /\ s[b] = j
Older(i, j) == Precedes(created, i, j)
Busy        == {w \in Workers : run[w].at # "idle"}
RunningIds  == {run[w].job : w \in Busy}
\* What _save_state writes.  The order of _running is abstracted to a set.
Saved == [jobs |-> registry,
          status |-> [j \in Jobs |-> IF j \in registry THEN status[j] ELSE "none"],
          interrupted |-> [j \in Jobs |-> j \in registry /\ interrupted[j]],
          waiting |-> waiting, running |-> RunningIds, backlog |-> backlog]
\* Every critical section saves what it has just done; SaveEarly would save what it found.
SaveEarly == disk' = Saved
Save      == disk' = Saved'

\* list.remove, on a list without duplicates (see WaitingHasEntry).
Undropped(s, j) == s
Dropped(s, j)   ==
    IF j \in Elements(s) THEN RemoveAt(s, CHOOSE i \in DOMAIN s : s[i] = j) ELSE s
At(w, place)      == up /\ run[w].at = place
MoveTo(w, place)  == run' = [run EXCEPT ![w].at = place]
SetStatus(j, s)   == status' = [status EXCEPT ![j] = s]
Discardable(j) ==
    /\ status[j] \in Finished
    /\ j \notin RunningIds /\ j \notin Elements(waiting) /\ j \notin backlog

Init ==
    /\ status = [j \in Jobs |-> "none"]
    /\ interrupted = [j \in Jobs |-> FALSE]
    /\ scrammed = [j \in Jobs |-> FALSE]
    /\ registry = {} /\ pending = <<>> /\ waiting = <<>> /\ backlog = {}
    /\ run = [w \in Workers |-> Idle]
    /\ api = Quiet
    /\ up = TRUE
    /\ disk = [jobs |-> {}, status |-> [j \in Jobs |-> "none"],
               interrupted |-> [j \in Jobs |-> FALSE],
               waiting |-> <<>>, running |-> {}, backlog |-> {}]
    /\ workDir = [j \in Jobs |-> FALSE]
    /\ imported = {}
    /\ created = <<>> /\ ghosts = {} /\ unresumed = {} /\ retries = 0 /\ crashes = 0

-----------------------------------------------------------------------------
(***************************************************************************)
(* API handlers.  Serving: the event loop is free to start a handler.      *)
(***************************************************************************)
Serving == up /\ api = Quiet

\* _evict_finished drops the oldest finished jobs over the limit.
Evicted ==
    LET past == {j \in registry : Discardable(j)}
    IN  {j \in past : Cardinality({i \in past : Older(i, j)}) + MaxFinished < Cardinality(past)}

\* The work directory is made and an upload's file written before create_job.
CreateJob(j) ==
    /\ Serving /\ j \notin Elements(created)
    /\ created' = Append(created, j)
    /\ workDir' = [workDir EXCEPT ![j] = j \notin UrlJobs]
    /\ SetStatus(j, "pending")
    /\ registry' = (registry \ Evicted) \cup {j}
    /\ api' = [Quiet EXCEPT !.op = "submit", !.todo = {j}]
    /\ UNCHANGED <<interrupted, scrammed, pending, waiting, backlog, run, up, imported,
                   ghosts, unresumed, retries, crashes>>
    /\ Save

Submit(j) ==
    /\ up /\ api.op = "submit" /\ j \in api.todo
    /\ backlog' = backlog \ {j}
    /\ waiting' = IF j \in Elements(waiting) THEN waiting ELSE Append(waiting, j)
    /\ pending' = Append(pending, j)
    /\ api' = Quiet
    /\ UNCHANGED <<jobVars, registry, run, up, workDir, imported, histVars>>
    /\ Save

\* The critical section of retry_job, once the status allows it.
Requeue(j) ==
    /\ status' = [status EXCEPT ![j] = "pending"]
    /\ interrupted' = [interrupted EXCEPT ![j] = FALSE]
    /\ scrammed' = [scrammed EXCEPT ![j] = FALSE]
    /\ backlog' = backlog \ {j}
    /\ waiting' = Append(Dropped(waiting, j), j)
    /\ pending' = Append(pending, j)
    /\ unresumed' = unresumed \ {j}
    /\ UNCHANGED <<registry, run, up, workDir, imported, created, ghosts, crashes>>
    /\ Save

RetryJob(j) ==
    /\ Serving /\ j \in registry /\ status[j] \in Retryable
    /\ retries < MaxRetries /\ retries' = retries + 1
    /\ Requeue(j)
    /\ UNCHANGED api

\* retry_all lists its candidates in one critical section and requeues each in another.
RetryAll(wanted) ==
    /\ Serving /\ retries < MaxRetries
    /\ LET todo == {j \in registry : status[j] \in wanted} IN
        /\ todo # {}
        /\ api' = [Quiet EXCEPT !.op = "retryAll", !.todo = todo]
    /\ retries' = retries + 1
    /\ UNCHANGED <<jobVars, queueVars, run, up, diskVars, created, ghosts, unresumed, crashes>>

\* The rest of the jobs being requeued; the handler ends with the last.
Rest(j)    == api' = [api EXCEPT !.todo = @ \ {j}]
Advance(j) == api' = IF api.todo = {j} THEN Quiet ELSE [api EXCEPT !.todo = @ \ {j}]

RetryAllNext(j) ==
    /\ up /\ api.op = "retryAll" /\ j \in api.todo
    /\ \A i \in api.todo : ~Older(i, j)
    /\ \/ status[j] \in Retryable /\ Requeue(j) /\ UNCHANGED retries
       \/ /\ status[j] \notin Retryable
          /\ UNCHANGED <<jobVars, queueVars, run, up, diskVars, histVars>>
    /\ Advance(j)

\* IngestJob.scram, from the endpoint: nothing is saved.
Scram(j) ==
    /\ Serving /\ j \in registry
    /\ status[j] \notin Finished /\ ~scrammed[j]
    /\ scrammed' = [scrammed EXCEPT ![j] = TRUE]
    /\ UNCHANGED <<status, interrupted, queueVars, run, api, up, diskVars, histVars>>

\* cancel_job: what it does depends on where the job is, asked in this order.
CancelRunning(j) ==
    /\ Serving /\ j \in registry /\ j \in RunningIds
    /\ scrammed' = [scrammed EXCEPT ![j] = @ \/ status[j] \notin Finished]
    /\ UNCHANGED <<status, interrupted, queueVars, run, api, up, workDir, imported, histVars>>
    /\ Save

CancelWaiting(j) ==
    /\ Serving /\ j \in registry /\ j \notin RunningIds
    /\ j \in Elements(waiting)
    /\ waiting' = Dropped(waiting, j)
    /\ SetStatus(j, "aborted")
    /\ ghosts' = ghosts \cup {j}
    /\ UNCHANGED <<interrupted, scrammed, registry, pending, backlog, run, api, up,
                   workDir, imported, created, unresumed, retries, crashes>>
    /\ Save

CancelBacklog(j) ==
    /\ Serving /\ j \in registry /\ j \notin RunningIds
    /\ j \notin Elements(waiting) /\ j \in backlog
    /\ backlog' = backlog \ {j}
    /\ SetStatus(j, "aborted")
    /\ UNCHANGED <<interrupted, scrammed, registry, pending, waiting, run, api, up,
                   workDir, imported, histVars>>
    /\ Save

DeleteJob(j) ==
    /\ Serving /\ j \in registry /\ j \notin RunningIds
    /\ j \notin Elements(waiting) /\ j \notin backlog
    /\ registry' = registry \ {j}
    /\ UNCHANGED <<jobVars, pending, waiting, backlog, run, api, up,
                   workDir, imported, histVars>>
    /\ Save

ClearPast ==
    /\ Serving
    /\ \E j \in registry : Discardable(j)
    /\ registry' = {j \in registry : ~Discardable(j)}
    /\ UNCHANGED <<jobVars, pending, waiting, backlog, run, api, up,
                   workDir, imported, histVars>>
    /\ Save

-----------------------------------------------------------------------------
(***************************************************************************)
(* Worker threads: _drain, and the run of the pipeline inside it.          *)
(***************************************************************************)
Pick(w) ==
    /\ At(w, "idle")
    /\ pending # <<>> /\ Cardinality(Busy) < MaxJobs
    /\ run' = [run EXCEPT ![w] = [job |-> Head(pending), at |-> "picked"]]
    /\ pending' = Tail(pending)
    /\ waiting' = Dropped(waiting, Head(pending))
    /\ UNCHANGED <<jobVars, registry, backlog, api, up, workDir, imported, histVars>>
    /\ Save

\* _drain looks at the scram flag once, and never at the status.
StartScrammed(w) ==
    /\ At(w, "picked") /\ scrammed[run[w].job]
    /\ SetStatus(run[w].job, "aborted")
    /\ MoveTo(w, "finally")
    /\ UNCHANGED <<interrupted, scrammed, queueVars, api, up, diskVars, histVars>>

StartRun(w) ==
    /\ At(w, "picked") /\ ~scrammed[run[w].job]
    /\ SetStatus(run[w].job, "processing")
    /\ MoveTo(w, IF run[w].job \in UrlJobs THEN "fetch" ELSE "work")
    /\ UNCHANGED <<interrupted, scrammed, queueVars, api, up, diskVars, histVars>>

FetchOk(w) ==
    /\ At(w, "fetch")
    /\ workDir' = [workDir EXCEPT ![run[w].job] = TRUE]
    /\ SetStatus(run[w].job, "processing")
    /\ MoveTo(w, "work")
    /\ UNCHANGED <<interrupted, scrammed, queueVars, api, up, disk, imported, histVars>>

\* A bot check: job.backlog(), then _note_backlog under the lock, with no save.
FetchBotCheck(w) ==
    /\ At(w, "fetch")
    /\ SetStatus(run[w].job, "backlog")
    /\ MoveTo(w, "note")
    /\ UNCHANGED <<interrupted, scrammed, queueVars, api, up, diskVars, histVars>>

NoteBacklog(w) ==
    /\ At(w, "note")
    /\ backlog' = backlog \cup {run[w].job}
    /\ MoveTo(w, "cleanup")
    /\ UNCHANGED <<jobVars, registry, pending, waiting, api, up, diskVars, histVars>>

\* job.fail from the download, from any stage, or from the import's rollback.
Fail(w) ==
    /\ up /\ run[w].at \in {"fetch", "work", "import"}
    /\ SetStatus(run[w].job, "failed")
    /\ interrupted' = [interrupted EXCEPT ![run[w].job] = FALSE]
    /\ MoveTo(w, "cleanup")
    /\ UNCHANGED <<scrammed, queueVars, api, up, diskVars, histVars>>

\* _halted at a stage boundary.
Halt(w) ==
    /\ At(w, "work") /\ scrammed[run[w].job]
    /\ SetStatus(run[w].job, "aborted")
    /\ MoveTo(w, "cleanup")
    /\ UNCHANGED <<interrupted, scrammed, queueVars, api, up, diskVars, histVars>>

\* The stages are done and the last _halted check saw no scram.
ReachImport(w) ==
    /\ At(w, "work") /\ ~scrammed[run[w].job] /\ workDir[run[w].job]
    /\ MoveTo(w, "import")
    /\ UNCHANGED <<jobVars, queueVars, api, up, diskVars, histVars>>

ImportCommit(w) ==
    /\ At(w, "import") /\ workDir[run[w].job]
    /\ imported' = imported \cup {run[w].job}
    /\ MoveTo(w, "committed")
    /\ UNCHANGED <<jobVars, queueVars, api, up, disk, workDir, histVars>>

Complete(w) ==
    /\ At(w, "committed")
    /\ SetStatus(run[w].job, "completed")
    /\ MoveTo(w, "cleanup")
    /\ UNCHANGED <<interrupted, scrammed, queueVars, api, up, diskVars, histVars>>

\* An exception no stage catches leaves through run_pipeline's finally (which removes the
\* work directory) and only then is turned into a failure by _drain.
Raise(w) ==
    /\ up /\ run[w].at \in {"fetch", "work"}
    /\ MoveTo(w, "raised")
    /\ UNCHANGED <<jobVars, queueVars, api, up, diskVars, histVars>>

Cleanup(w) ==
    /\ up /\ run[w].at \in {"cleanup", "raised"}
    /\ workDir' = [workDir EXCEPT ![run[w].job] = FALSE]
    /\ MoveTo(w, IF run[w].at = "raised" THEN "crashed" ELSE "finally")
    /\ UNCHANGED <<jobVars, queueVars, api, up, disk, imported, histVars>>

\* (DropCrashed is _drain without its except clause.)
DropCrashed(w) ==
    /\ At(w, "crashed")
    /\ MoveTo(w, "finally")
    /\ UNCHANGED <<jobVars, queueVars, api, up, diskVars, histVars>>
FailCrashed(w) ==
    /\ At(w, "crashed")
    /\ SetStatus(run[w].job, "failed")
    /\ interrupted' = [interrupted EXCEPT ![run[w].job] = FALSE]
    /\ MoveTo(w, "finally")
    /\ UNCHANGED <<scrammed, queueVars, api, up, diskVars, histVars>>

Finish(w) ==
    /\ At(w, "finally")
    /\ backlog' = IF status[run[w].job] = "backlog" THEN backlog \cup {run[w].job} ELSE backlog
    /\ run' = [run EXCEPT ![w] = Idle]
    /\ UNCHANGED <<jobVars, registry, pending, waiting, api, up, workDir, imported, histVars>>
    /\ Save

-----------------------------------------------------------------------------
(***************************************************************************)
(* Crash, restart and resume.                                              *)
(***************************************************************************)
Crash ==
    /\ up /\ crashes < MaxCrashes
    /\ crashes' = crashes + 1
    /\ up' = FALSE
    /\ status' = [j \in Jobs |-> "none"]
    /\ interrupted' = [j \in Jobs |-> FALSE]
    /\ scrammed' = [j \in Jobs |-> FALSE]
    /\ registry' = {} /\ pending' = <<>> /\ waiting' = <<>> /\ backlog' = {}
    /\ run' = [w \in Workers |-> Idle]
    /\ api' = Quiet
    /\ ghosts' = {}
    /\ UNCHANGED <<diskVars, created, unresumed, retries>>

WasActive(j)   == disk.status[j] \in Active
\* What _load_state collects to be resumed (InterruptedInLine: only what was in line).
InterruptedInLine == {j \in disk.jobs : WasActive(j) /\ j \in Elements(disk.waiting)}
Interrupted       == {j \in disk.jobs : WasActive(j)}
\* Its order: what was running (in any order), then the queue, then by created_at.
ResumesBefore(i, j) ==
    LET inLine == Elements(api.line) \ api.ran
    IN  IF j \in api.ran THEN FALSE
        ELSE IF j \in inLine THEN i \in api.ran \/ Precedes(api.line, i, j)
        ELSE i \in api.ran \cup inLine \/ Older(i, j)

\* _already_imported, of jobs about to be resumed; not of those whose files are gone.
Cleaned(ids) == {j \in ids : ~workDir[j]}
Landed(ids)  == {j \in ids : \E i \in imported : EpisodeOf[i] = EpisodeOf[j]}

\* _load_state, then the part of resume_interrupted that looks the episodes up.  By then it has
\* given up its list of what to resume: should the database not answer, _lifespan logs that and
\* serves, and the interrupted jobs stay failed.
Restart ==
    /\ ~up
    /\ up' = TRUE
    /\ registry' = disk.jobs
    /\ status' = [j \in Jobs |-> IF WasActive(j) THEN "failed" ELSE disk.status[j]]
    /\ interrupted' = [j \in Jobs |-> WasActive(j) \/ disk.interrupted[j]]
    /\ backlog' = disk.backlog \cap disk.jobs
    /\ \/ /\ ResumeInterrupted /\ Interrupted # {}
          /\ api' = [op |-> "resume", todo |-> Interrupted, landed |-> Landed(Interrupted),
                     ran |-> disk.running, line |-> disk.waiting]
          /\ UNCHANGED unresumed
       \/ /\ ResumeInterrupted /\ Interrupted # {}
          /\ api' = Quiet /\ unresumed' = unresumed \cup Interrupted
       \/ /\ ~(ResumeInterrupted /\ Interrupted # {})
          /\ api' = Quiet /\ UNCHANGED unresumed
    /\ UNCHANGED <<scrammed, pending, waiting, run, diskVars, created, ghosts, retries, crashes>>

Resuming(j) ==
    /\ up /\ api.op = "resume" /\ j \in api.todo
    /\ \A i \in api.todo : ~ResumesBefore(i, j)
    /\ status[j] = "failed" /\ interrupted[j]

\* Its episode is in the database: the crash came between the commit and the end of the run.
ResumeLanded(j) ==
    /\ Resuming(j) /\ j \in api.landed
    /\ SetStatus(j, "completed")
    /\ interrupted' = [interrupted EXCEPT ![j] = FALSE]
    /\ Advance(j)
    /\ UNCHANGED <<scrammed, queueVars, run, up, workDir, imported, histVars>>
    /\ Save

ResumeRequeue(j) ==
    /\ Resuming(j) /\ j \notin api.landed
    /\ Requeue(j)
    /\ Advance(j)
    /\ UNCHANGED retries

-----------------------------------------------------------------------------
WorkerStep(w) ==
    \/ Pick(w) \/ StartScrammed(w) \/ StartRun(w)
    \/ FetchOk(w) \/ FetchBotCheck(w) \/ NoteBacklog(w)
    \/ Fail(w) \/ Halt(w) \/ ReachImport(w) \/ ImportCommit(w) \/ Complete(w)
    \/ Raise(w) \/ Cleanup(w) \/ FailCrashed(w) \/ Finish(w)

HandlerStep ==
    \E j \in Jobs : Submit(j) \/ RetryAllNext(j) \/ ResumeLanded(j) \/ ResumeRequeue(j)

UserStep ==
    \/ \E j \in Jobs :
        \/ CreateJob(j) \/ RetryJob(j) \/ Scram(j) \/ DeleteJob(j)
        \/ CancelRunning(j) \/ CancelWaiting(j) \/ CancelBacklog(j)
    \/ \E wanted \in {Retryable, {"failed"}, {"backlog"}} : RetryAll(wanted)
    \/ ClearPast

Next ==
    \/ UserStep \/ HandlerStep
    \/ \E w \in Workers : WorkerStep(w)
    \/ Crash \/ Restart

Spec == Init /\ [][Next]_vars

\* Every thread keeps running while the process lives: a run's external calls all have
\* timeouts, and a dead server is started again.
FairSpec ==
    /\ Spec
    /\ \A w \in Workers : WF_vars(WorkerStep(w))
    /\ WF_vars(HandlerStep) /\ WF_vars(Restart)

-----------------------------------------------------------------------------
(***************************************************************************)
(* Properties.                                                             *)
(***************************************************************************)
Queued(j)     == \E i \in DOMAIN pending : pending[i] = j
QueuedOnce(j) == \A i, k \in DOMAIN pending : pending[i] = j /\ pending[k] = j => i = k
Holds(w, j)   == run[w].job = j /\ run[w].at \in Running
Submitting(j) == api.op = "submit" /\ j \in api.todo

Runs     == {Idle} \cup [job : Jobs, at : Running \cup Ending]
Handlers == [op : {"idle", "submit", "retryAll", "resume"}, todo : SUBSET Jobs,
             landed : SUBSET Jobs, ran : SUBSET Jobs, line : Seq(Jobs)]
Files    == [jobs : SUBSET Jobs, status : [Jobs -> Statuses], interrupted : [Jobs -> BOOLEAN],
             waiting : Seq(Jobs), running : SUBSET Jobs, backlog : SUBSET Jobs]

\* The state is well formed: every id a job's, every worker at a place of its run, and a
\* handler between two critical sections has one left to do.
TypeOK ==
    /\ status \in [Jobs -> Statuses]
    /\ interrupted \in [Jobs -> BOOLEAN] /\ scrammed \in [Jobs -> BOOLEAN]
    /\ registry \subseteq Jobs /\ pending \in Seq(Jobs) /\ waiting \in Seq(Jobs)
    /\ backlog \subseteq Jobs
    /\ run \in [Workers -> Runs]
    /\ api \in Handlers /\ (api.op = "idle" <=> api.todo = {})
    /\ up \in BOOLEAN
    /\ disk \in Files
    /\ workDir \in [Jobs -> BOOLEAN] /\ imported \subseteq Jobs
    /\ created \in Seq(Jobs) /\ ghosts \subseteq Jobs /\ unresumed \subseteq Jobs
    /\ retries \in Nat /\ crashes \in Nat

\* No job is lost: one that says it is pending or processing is in the queue, held by a
\* worker, or about to be submitted by the request that created it (create_job, submit,
\* retry_job and _drain hand it from one to the next).
NoLostJob ==
    \A j \in Jobs : status[j] \in Active =>
        Queued(j) \/ Submitting(j) \/ \E w \in Workers : Holds(w, j)

\* No job is run twice at once or again after it ended: it has one queue entry or one
\* worker, and only while it is pending or processing.  Retry only takes a job that has
\* neither.  The exception is a job cancelled while it waited, whose entry stays in
\* _pending (see CancelledIsNotRun).
NoDoubleRun ==
    \A j \in Jobs \ ghosts :
        /\ QueuedOnce(j)
        /\ \A v, w \in Workers : Holds(v, j) /\ Holds(w, j) => v = w
        /\ \A w \in Workers : ~(Queued(j) /\ Holds(w, j))
        /\ Submitting(j) => ~Queued(j) /\ \A w \in Workers : ~Holds(w, j)
        /\ Queued(j) \/ Submitting(j) => status[j] = "pending"
        /\ \A w \in Workers : Holds(w, j) => status[j] \in Active

\* A crash loses no accepted work: whatever is queued or running is, in queue_state.json,
\* a job the next start finds interrupted, although the workers change statuses without
\* saving them.
ActiveIsDurable ==
    \A j \in registry \ ghosts : status[j] \in Active =>
        j \in disk.jobs /\ disk.status[j] \in Active

\* A job that says completed, in memory or on disk, has its episode in the database, across
\* crashes and the resume that marks landed jobs complete without running them.
CompletedIsImported ==
    \A j \in Jobs : status[j] = "completed" \/ disk.status[j] = "completed" =>
        \E i \in imported : EpisodeOf[i] = EpisodeOf[j]

\* A job told its place in the queue really is in the queue, at one place: _waiting never
\* outlives the entry in _pending it describes, and names no job twice.
WaitingHasEntry ==
    \A i \in DOMAIN waiting :
        Queued(waiting[i]) /\ \A k \in DOMAIN waiting : waiting[k] = waiting[i] => k = i

\* Every accepted job comes to an end (completed, failed, aborted or backlogged).
EveryJobSettles == \A j \in Jobs : status[j] \in Active ~> status[j] \notin Active

\* A job that a crash interrupted is queued again, or found already imported, by the
\* restart; nobody has to notice it (D93).  Only where the database did not answer the
\* restart is it left to a person, failed but in the list, where a retry takes it.
InterruptedRunsAgain ==
    \A j \in Jobs : ~up /\ WasActive(j) ~>
        up /\ \/ status[j] \in {"pending", "completed"}
              \/ j \in unresumed /\ j \in registry /\ status[j] = "failed"

\* cancel_job says a waiting job it aborts is "cancelled": no worker then takes it up.
CancelledIsNotRun ==
    \A w \in Workers : run[w].at = "picked" /\ status[run[w].job] = "aborted" =>
        scrammed[run[w].job]

\* The scram endpoint promises that "a scrammed run imports nothing".
ScrammedImportsNothing == \A j \in Jobs : scrammed[j] => j \notin imported

\* resume_interrupted queues again whatever was running or waiting: once it is done, no job
\* is left as the crash marked it (as long as no resume has failed).
NoneForgotten ==
    Serving /\ ResumeInterrupted /\ unresumed = {} =>
        \A j \in registry : ~interrupted[j]
=============================================================================
