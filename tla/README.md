# Verification of the labelling harness

TLA+ models of the parts of this repository where concurrency, failure or a long history of
requests decides whether the data can be trusted, the TLC runs that check them, and the theorems
TLAPS proves about them. The code modelled is the Python backend under `src/backend/app`.

| file | what it is |
| --- | --- |
| `IngestQueue.tla` | the ingestion queue: manager, jobs, workers, saved state, crash and resume |
| `IngestQueueProofs.tla` | its inductive invariant and six theorems |
| `ProviderGate.tla` | the rate-limit gate of one provider and the requests that go through it |
| `ProviderGateProofs.tla` | its inductive invariant and five theorems |
| `JobBoard.tla`, `QueueRefinement.tla` | what the queue promises, without lists, locks or files, and the mapping by which it keeps the promise |
| `QueueRefinementProofs.tla` | the proof that it does |
| `PaidResults.tla` | the transcription and fusion stages of a run, their checkpoint and the record of what they cost |
| `PaidResultsProofs.tla` | its four inductive invariants and six theorems |
| `FusionWindows.tla` | how an episode is cut into fusion requests |
| `FusionWindowsProofs.tla` | induction over data, what every plan and every halved window ask for, and where they are even |
| `Labeling.tla` | tasks, labels and pots, as database transactions that overlap |
| `LabelingProofs.tla` | its two inductive invariants and eight theorems |
| `Corpus.tla` | clips as rows and as stored objects, under imports, deletions and crashes |
| `Voices.tla` | diarization runs and the voices that link their speakers, by the server and by scripts beside it |
| `Segmentation.tla` | how speech turns become segments |
| `WordAlignment.tla` | the word alignment behind every error rate |
| `WordSlots.tla` | how the words of several recognisers are grouped into moments |
| `AudioProofs.tla` | three theorems about `Voices` and `Segmentation` |
| `EpisodeProofs.tla` | the inductive invariant of `Corpus` with two theorems, three about `WordSlots` and `WordAlignment`, and four about the examples of the run `MCEpisode` |
| `MC*.tla`, `MC*.cfg` | the instances TLC checks |
| `PROJECT.json` | components, runs, mutants, source map, hazards, findings, theorems |

## 1. Inventory

| component | state | operations | what makes it hard | what makes it correct |
| --- | --- | --- | --- | --- |
| ingest queue (`services/ingest/manager.py`, `job.py`, `api/ingest.py`, `main.py`) | `_jobs`, `_pending`, `_waiting`, `_backlog`, `_running`, each job's status, error and scram flag; `queue_state.json` | create, submit, retry, retry-all, scram, cancel, delete, clear, evict; the worker loop; load and resume | handlers on the event loop, worker threads, statuses written without the lock; a crash anywhere | no job lost, none run twice, what is active is durable, completed means imported, what was stopped stays stopped |
| ingest pipeline (`pipeline.py`, `checkpoint.py`, `fusion.py`, `llm/fusion.py`) | the run's stage, its work directory, its checkpoint, the windows still to fuse, the flushed and committed `llm_requests` rows | fetch, transcribe, fuse, import, clean up | failures of each stage, segment workers on one session, writes the database refuses, a scram, a crash between paying, committing and saving | all of an episode or nothing; nothing is bought twice; what is replayed is on record and current; a scram stops the spending |
| provider gates (`utils/rate_limit.py`, `llm/base.py`) | in flight, working limit, strikes, cooldown, spacing; each request's counts of refusals and failures | slot, succeeded, throttled, configure; the retry loop | a condition variable with timed and untimed waits, shared by every job; the limit changes under it | capacity, no lost wake-up, cooldowns honoured, progress |
| labels and tasks (`services/labeling.py`, `api/tasks.py`) | `annotation_tasks`, `segment_labels`, `segments.pipeline_status` | next, decide, skip, bulk accept, reopen | transactions without locks, ORM rows that go stale, repeated requests | one label per task, an edit is never undone, a second listen is a listen |
| pots (`services/pots.py`) | `segments.pot` | move a clip | a check in one request, the write in another | gold holds only what was listened to |
| queue builder (`services/queue_builder.py`) | tasks it creates and refreshes | `build_queue` | plans over rows that others change | an unlabelled clip always comes back, a labelled one never as a fresh clip |
| speakers (`speaker_attribution.py`, `speaker_lanes.py`) | speakers tasks, per-speaker labels | queue, attribute, reopen | two kinds of label for one clip | the single-stream lifecycle is left alone |
| importer, segments, episodes, storage (`services/importer.py`, `api/segments.py`, `api/episodes.py`, `storage/`) | rows and objects | import, delete one, delete many, delete an episode | two stores, no common transaction | no row without its audio, or with another cut's |
| segmentation (`services/silero_vad.py`) | none | turns to slices | four rules that each keep a bound of their own; floats at the minimum | no speech lost, bounds kept |
| scoring and hazards (`scoring.py`, `hazards.py`, `flags.py`, `consensus.py`) | none | pure functions | numeric edges, scans that stop early | bounds and monotonicity, the scan agrees with the full search |
| voices, diarization, episode metadata (and `scripts/diarize_episode.py`, `scripts/link_voices.py`) | voice links, runs, turns | import a run, link it, relink all, delete an episode's | identity across episodes, kept by numbering; scripts that do not know the server's lock | speakers told apart stay apart, a voice is one person, no link is changed later |
| export, statistics, inventory, costs | none of their own | aggregate | which label is the current one | what is exported was approved |
| model evaluation, error mining, folds, alignment | runs and errors of models | import, score, mine | alignment with free merges and folds | minimal edit scripts |
| transliteration, playground, demo data, scripts, notebooks, frontend | little | | | |

How they interact. The browser calls the API. An ingest request makes a job and queues it with
the manager; a worker thread runs the pipeline for it, whose provider calls, and those of every
other job, pass through one gate per provider; the last stage imports the episode and calls
`build_queue` for it in one transaction. From then on a clip is in the hands of the annotator:
tasks are served, decided, skipped and reopened, and clips move between the pots, each request
one database transaction. Export reads the labels and pots.

`PROJECT.json` lists the components with their files, and under `hazards` each thing that is hard
to test, at its line, with the properties that watch it or the reason there is none yet.

## 2. The models

### IngestQueue

| in the module | in the code |
| --- | --- |
| `status`, `interrupted`, `scrammed` | fields of each `IngestJob`; `interrupted` is `error == INTERRUPTED` |
| `registry`, `pending`, `waiting`, `backlog` | `_jobs`, `_pending`, `_waiting`, `_backlog` |
| `run[w]` | what worker `w` has in hand in `_drain`, and how far `run_pipeline` has come; `_running` is the set of these jobs |
| `api` | the request handler, or the resume at startup, that stands between two critical sections |
| `disk` | `queue_state.json`; `Save` is `_save_state` |
| `workDir`, `imported` | the job's files; the episodes whose import was committed |

Every critical section under `_lock` is one action, with the `_save_state` inside it. Handlers
are coroutines that never await inside the manager, so one runs at a time; a handler with several
critical sections (`create_job` then `submit`, `retry_all`, the resume) is interleaved with the
workers between them. What a run does without the lock (a status, the removal of the work
directory, the commit of the import) is an action of its own. All stages before the import are one
place, `work`: each `_halted` between them has the same effect. `Crash` clears memory and keeps
the disk, the work directories and the database; `Restart` is `_load_state` with what `_lifespan`
does before it serves. The resume gives up its list of interrupted jobs before it asks the database
which of their episodes are in (manager.py:246-250); when that raises, `_lifespan` logs it and
serves (main.py:29-34), and every interrupted job stays failed: `Restart` has that outcome too, and
`unresumed` remembers the jobs until someone retries them.

Assumed: the file is replaced as a whole (`write_durably` renames a flushed copy), a save does
not fail (`_save_state` logs an error of the disk and goes on), the work directory of a retried job
can be made (manager.py:325, after the job was set pending), a retry inside the resume does not
raise, and `max_concurrent_jobs` and `resume_interrupted` do not change while the model runs. In the
instances each job has an episode of its own; the theorems do not assume it.

`JobBoard` says what whoever submits work may rely on: a job is accepted, started out of the line
under the limit, ends, and stays ended unless somebody asks for it again. A crash cuts what was in
line or running; a restart by itself moves nothing, and what was cut stays cut until it is taken
up again (`Again`), found finished or given up (`LetBe`), or dropped with the jobs that are over.
An end that is not on disk yet (`closing`) may be found cut instead. Only a job cancelled in the
line (`off`) is promised nothing, as finding `queue_cancel` requires. `QueueRefinement` reads a
job's place from its entries, its worker and the handler that has it (`InMemory`), with the status
only to tell an end from a cut one; while the server is down, from `disk` (`OnDisk`). The backlog
and the work directory do not appear on the board.

### PaidResults, FusionWindows

| in the module | in the code |
| --- | --- |
| `clip[s]`, `heard`, `refused` | how far `_process_segment` is with a segment, its `clip_results`, its `route_failures` |
| `windows`, `tries`, `asking`, `reply`, `fused`, `unfused` | the windows of `fuse` still to run (its recursion flattened, current one first), the attempts of `run`, the request out, the answer that `complete_once` has in hand, the outcome |
| `disk` | the checkpoint: entries under the key of their request |
| `flushed`, `committed` | `llm_requests` rows of the run's session before and after a commit |
| `broken` | stage 3's session has had a flush or a commit refused, and nobody calls its rollback |
| `answers`, `unsaved`, `unrecorded`, `out` | history: what was paid for, what a failure kept from disk or record, what was out at the scram |

A request is what its key is made from: a clip and a route, or the targets, the transcripts shown
and the texts carried over. An answer is its request and a number, since a model asked twice answers
twice; that number is what makes a stale replay visible. Stage 3 has `SegmentWorkers` segments at
work, whose commits on the one locked session commit each other's rows. Each segment's routes answer
or fail in any order; then its commit, the saving of its transcripts, and its record or its discard.
The analysis may raise before that commit (`AnalysisRaises`), and the database may refuse a write:
the flush of an attempt's row (`RowRefused`), whose route then counts as failed even if it had
answered and was paid for, or the commit (`CommitRefused`), also that of a segment already being
discarded. A refusal takes back whatever was only flushed, other segments' rows among it, and as
nothing in the stage rolls the session back, it refuses all that follows (`broken`) until the stage
closes it. Stage 4 asks one window after the other: the scram flag, the checkpoint, the route,
`session.commit()`, the save, and then a text kept, the one retry, the halving or the giving up; or
it fails outright (`FusionBreaks`: its own commit or flush, or anything else that is no failed
request), and the episode goes on without fused texts. `Outage` forgets memory and what was only
flushed, and the run begins again on the same disk. The look at the scram flag and the sending are
one step here, two in the code: a request that passed the look just before the scram counts as sent.

`FusionWindows` is `plan_windows` and `Window.split` as functions; `PaidResults` uses both.

### ProviderGate

One gate and the callers of it. `slot()` is `Ask`, then `Enter` or `Wait` (asleep without a
timeout, dozing with one) and `Wake`; the end of the `with` block is `Release`; `Succeed`,
`Retry`, `GiveUp`, `Fail` and `Resend` are the retry loop of `_send_with_retries`, with
`succeeded()` and `throttled()` inside. `BotCheck` and `Lookup` are the YouTube uses, `Configure`
is a changed limit. Time is what is left of it: `cool` and `gap` are the cooldown and the spacing
still to go, and `Tick` takes one unit off each and off every timed wait. A backoff carries up to
a quarter of jitter in the code; the model takes every value of that range. `since` and `peak` are
history variables that only properties read.

### Labeling

A request is a transaction: `...Load` reads the rows (the ORM keeps them as they were),
`...Check` runs the guards (whose queries see what is committed by then), `...Commit` writes the
attributes that differ from the rows as loaded (`Written`), and fails as a whole if it would break
the unique index on active tasks. Steps of different requests interleave freely: READ COMMITTED,
and no row is ever locked. Labels are appended, and ordered by `created_at`, which PostgreSQL
takes from the start of the transaction: a label goes below those of transactions that began later
and committed earlier (`newer`, `open`).

`labels` are a clip's single-stream labels; a per-speaker label is remembered by the task whose
decision wrote it (`attributed`). The code keeps labels per `label_version` and asks for the newest
of one version (pots.py:92-103, stats.py:41-64); the model has one version of each kind, as the
settings name one, and says nothing of a change of version.

Texts, scores and priorities are left out; the review, audit and error queues are one, since no
rule tells them apart. A bulk accept is modelled for one task only.

### Corpus

A clip is a row with a checksum (the cut it was made by) and an object under a key that is its
name, so that two ingests of one episode write the same keys. An import plans (every clip with a
row must have its checksum), stores clip after clip, and commits all rows at once; it holds
`_IMPORT_LOCK` and may be rolled back at any point, leaving its objects. The three deletions are
the handlers' steps: `delete_segment` and `delete_episode` take the objects and then commit,
`bulk_delete_segments` commits and then takes the objects by key. `delete_objects` takes as many
as storage lets it, its failures being logged only. `Die` ends every open transaction. `stranded`
is a history variable: the clips that a deletion took the object of without, or before, taking the
row.

### Voices

`runs` is the table of diarization runs. `ImportRun` is `import_diarization` with the
`link_voices` in its transaction, under `_IMPORT_LOCK`: pairs of a speaker and a voice above
`LINK_THRESHOLD`, closest first, each speaker and each voice once, and new numbers after the
highest for the others. `scripts/diarize_episode.py` and `scripts/link_voices.py --relink` do the
same in processes of their own, where that lock does not reach: `DiarizeEpisode` and `Relink` read
the runs committed so far and write into `draft`, which imports do not see until `CommitScript`.
Only the script's transaction is taken apart, since of two that overlap neither sees what the other
writes, whichever began first; one script runs at a time. `DropRuns` is the cascade of a deleted
episode, which shrinks or removes voices; it waits for the rows the script has written, as the
database does. Prints are integer points on a circle (of length 13: (13,0), (12,5), (5,12), (0,13),
(-12,5)), so that cosines are compared exactly. Two voices at the very same cosine of a speaker are
taken in the order of their numbers.

### Segmentation, WordAlignment, WordSlots

Pure functions. `Segmentation!Slices` gives every way `segment_audio_to_slices` may cut given turns,
the quiet moment of each cut being any tick its search admits. The code compares differences of
floats, and 2.3 - 0.3 is a little below 2.0: whether a span as long as the minimum is below it is
chosen freely each time (`ReadsShort`), unless it begins at 0, where the difference is exact. At the
other bounds a tick more or less stands for the two readings. `WordAlignment!Align` is the dynamic
programme of `fold.align` with its tie-breaks and its backtracking, table and path being recursive
functions of the cell; it is compared with `LeastErrors`, the least number of errors from its
definition. A word is a few letters, with a class of letters that sound alike across scripts, in
place of the tables of spellings. `WordSlots!BuildSlots` is `consensus.build_slots`; `AllSlots` is
the same with a scan that never stops early.

## 3. What is checked

Runs that pass:

| run | bounds | shows |
| --- | --- | --- |
| `queue_safety` | 2 jobs (one from a URL, one upload), 2 workers (after the crash one at a time, `MCBound`), 1 request to retry, 1 crash; 1.8 million states | `TypeOK`, `NoLostJob`, `NoDoubleRun`, `WaitingHasEntry`, `ActiveIsDurable` and `CompletedIsImported` in every interleaving, the crash, the restart and the resume among them |
| `queue_crash` | 2 jobs, 1 worker, no request to retry, 1 crash, fair; 36 thousand states | `KeepsTheBoard`, that the queue implements `JobBoard`; `NoLostJob` where jobs stand in line for the only worker; `EveryJobSettles`, and `InterruptedRunsAgain` but for the jobs of a resume that failed as a whole (`unresumed`) |
| `labeling` | 1 clip, 1 request at a time, 4 tasks, 4 labels | the rules of labels over long histories, and `DoneTaskHasLabel` where a clip has labels of several tasks |
| `labeling_pairs` | 1 clip, 2 overlapping requests, 2 tasks, 1 label; 1.1 million states | `DoneTaskHasLabel`, `UnlabelledComesBack` with stale writes |
| `gate` | 2 callers, limits 1 and 2, spacing 2, cooldowns up to 4, 2 refusals and 2 failures per request | capacity, wake-ups, cooldowns and progress |
| `episode` | see below; 157 thousand states and examples | what happens to an episode: paid results, corpus, voices, and the four functions |

`episode` puts seven things side by side that share no state: `part` says which of the three
machines moves, or which function the example is for, so that the run's states are the sum and not
the product of its parts.

| part | bounds | properties |
| --- | --- | --- |
| `paid` | 2 clips, 2 routes, 2 workers, one window of 2 that may be halved once, 2 mishaps (crash, failed call, bad answer, failed save, refused flush or commit, raising analysis, fusion failing outright, scram) | `KeptIsOnRecord`, `EveryAnswerOnRecord`, `BoughtOnce`, `FusedFromCurrent`, `ScramStopsSpending`, `EachClipSettlesOnce` |
| `corpus` | 2 clips of one episode, 2 cuts, 2 imports, 1 deletion open at a time | `ObjectMatchesRow`, `ClipIsPlayable` |
| `voices` | 2 episodes, 6 answers of the diarizer with 1 to 3 speakers, 3 runs, of which a script may import or relink some in a transaction of its own | `SpeakersKeptApart`, `LinkingIsSound` |
| `plan` | up to 5 segments of 0, 1 or 3 words, targets 1, 2, 4, caps 1, 2, 3, 6 | `EveryPlanIsSound` |
| `cut` | a recording of 20 ticks, minimum 2, maximum 9, snap 1; any 1 or 2 turns, and 3 of length 1 or 5 | `EveryCutIsSound` |
| `align` | transcripts of up to 3 and 2 words from 5, merges of up to 3 | `EveryFoldedCountIsLeast` |
| `slots` | 3 recognisers with up to 2, 2 and 1 words in 4 ticks | `EveryScanReachesAll` |

Why these bounds are enough to meet the hazards. Two jobs and two workers are what it takes for one
job to be run by two workers, or for a queue of one to be overtaken; both kinds of job take their
different ways through a run. With `MaxFinished = 0` the eviction happens at the second submission.
One crash falls on every step, the steps of `retry_all` and of a run included; the resume after it
is itself interleaved with the worker and with retries, or fails before it has begun. After the
crash `MCBound` lets one worker have a job at a time: before two could have the same one it would
stand in line twice, or in line while a worker has it, and `NoDoubleRun` forbids that as well. Four
labels of a clip hold edit, reopening, accept and attribution in any order. A label's rules concern
one clip at a time, and every property of `Labeling` is a conjunction over clips, so one clip is
enough; the requests, not the clips, interfere. A gate with limit 2 can be halved, won back and
reconfigured under a sleeper, and its cooldown reaches the ceiling.

Two mishaps let a crash fall between paying and saving and a second one between the resumed purchase
and its use, or a scram meet a failure. Two clips are the least for one segment's commit to take
another's rows, for a carryover, and for a halving. Two cuts of the same clips and two imports are
what an object under the wrong row needs; three runs let a voice be made, used elsewhere and lose
the episode it came from, and an import fall inside a script's transaction. A cap of 6 is one that
no window of the plans reaches, which is where the shares are even. `Routes` and `Jobs` are
symmetric: the code treats them alike, and `LinkingIsSound`, which is the only action property of
the run, is about neither. The `queue_crash` run has no symmetry, since its properties are about
behaviours. With a retry as well `KeepsTheBoard` is a theorem (section 4).

`MaxRetries`, `MaxCrashes`, `MaxMishaps`, `MaxRuns`, `MaxTasks`, `MaxLabels` and `MaxStrikes` are
the bounds that only the models have. `CHECK_DEADLOCK FALSE`: each system may come to rest, when
every job has ended and no request is open, or at a bound.

Runs that end in a counterexample, each against a sentence of the repository (`findings`):

| run | the code | the sentence |
| --- | --- | --- |
| `queue_cancel` | a job cancelled while it waits keeps its entry in `_pending` and is run | "Cancel a waiting/running job" (manager.py:364) |
| `queue_scram` | a scram accepted after the last checkpoint does not stop the import | "a scrammed run imports nothing" (api/ingest.py:474) |
| `queue_forget` | a crash during the resume leaves jobs that are not resumed again | "queues again whatever was running or waiting" (manager.py:60) |
| `labeling_gold` | a move into gold and a screened decision that overlap both commit | "Gold only holds what was listened to" (pots.py:12) |
| `gate_youtube` | a download that worked, between two refusals, does not end the backoff streak: the second refusal is counted on the first | "It doubles for each further refusal without a success in between" (config.py:345) |
| `episode_refused` | a commit that the database refuses, on the session that all segment workers share and nobody rolls back, costs every segment after it | "costs one segment, never the episode", of causes among which is "the per-segment commit" (pipeline.py:777-780) |

`NoneForgotten`, which `queue_forget` refutes, is claimed only while no resume has failed as a whole
(`unresumed = {}`): the comment at main.py:33 accepts that the jobs of such a resume stay failed.

`OneLabelPerTask`, `LifecycleFollowsLabel`, `AcceptNeverUndoesEdit` and `SecondLabelIsListenedTo`
are claims about requests that follow one another: with two overlapping decisions on one task they
do not hold, since no lock is taken. The comment at tasks.py:277 describes one such window; the
harness is written for one annotator. The hazards list says so at the lines concerned.

Every property has a mutant: a definition changed the way a plausible bug would change it, for
which the same run then fails.

### Fairness

`IngestQueue.FairSpec`: weak fairness of each worker's step (a thread is scheduled, and every
external call of a run has a timeout), of the handler that has begun, and of the restart (a dead
server is started again). Users are not fair: nobody has to retry, cancel or submit.
`ProviderGate.FairSpec`: time passes, and a caller's thread goes on; the answer to a request
arrives or times out. Nothing forces a success. `EveryRequestEnds` holds with weak fairness only
because the retries are counted, in the code as in the model. `Labeling` has no fairness.

## 4. What is proved

`IngestQueueProofs`, for any jobs and finitely many workers, limits and bounds:

- `TypeCorrect`, `NoLostJobTheorem`, `NoDoubleRunTheorem`, `ActiveIsDurableTheorem`,
  `WaitingHasEntryTheorem`, `CompletedIsImportedTheorem`: `Spec => []` of the properties they are
  named for.

None is inductive alone. `IInv` is their conjunction with two more. `QueueShape`: the submitting
handler has one job; a job with a queue entry, a worker, a record or a status was created, so that
a new job really is new; an entry that is not of a cancelled job stands in `_waiting`; a dead
server has no queue, handler or worker. `CommitsAreImported`: a run past
its commit was imported, and what the resume found landed is in the database.
`NoDoubleRun` needs `NoLostJob` (a retried job was neither queued nor held, since its status was
not active), and `ActiveIsDurable` needs `NoDoubleRun` (the status a worker writes without saving
is of a job whose saved status is already active). The actions fall into a few kinds of step
(requeueing, settling, a run going on, ending or winding down, and steps that touch nothing the
invariant reads), and each kind has its lemma.

`QueueRefinementProofs`, for the same and with the resume on or off: `QueueKeepsTheBoard`, that the
queue implements `JobBoard` (`KeepsTheBoard`). The initial state maps to the board's, and each step
of a handler, a worker, the crash and the restart to a step of the board or to none. It needs
`RInv`, which is `IInv` with: only a job that was created is cancelled or cut (`Traced`); the file
lists the jobs there are (`Listed`), those in somebody's hands and those a handler still has to do
among them (`HandsListed`, `ToDoListed`); and of a job in nobody's hands the file tells what memory
does (`RestOnDisk`). Writing the proof showed the board of an earlier version to be wrong: with
`resume_interrupted` off and two crashes a job that had been given up came back as cut, so that
"ended" was promised too early. The instances TLC checks had one crash.

`ProviderGateProofs`, for any finite set of callers and any limits and times:

- `TypeCorrect`, `CapacityTheorem`, `NoStrandedWaiterTheorem`, `NoOversleepTheorem`,
  `ToldIsKeptTheorem`.

The strengthening ties `inFlight` to the number of callers that are sending, bounds `allowed` by
the limit and from below by one, and keeps every told cooldown within the one that is running.

`EpisodeProofs`, about `Corpus`, for any clips, episodes, cuts and jobs: `ObjectTheorem`
(`ObjectMatchesRow`) and `PlayableTheorem` (`ClipIsPlayable`). Neither is inductive: both are about
rows, and what breaks them happens before there is a row. `CorpusInv` adds that there is one import
at a time, that it is about clips of its episode without a row, that what it has stored is its own
cut or was taken by a deletion, and whose clips the open request is for. The lock is needed for the
first of these, and the order "store, then commit" for the second theorem.

`PaidResultsProofs`, for any numbers of segments, routes, workers, depths and mishaps, the flushes and
commits the database refuses among them:

- `ScramTheorem` (`ScramStopsSpending`). From a scram on the requests that are out only become
  fewer. `SInv` adds what that rests on: stage 4 begins when every worker is idle, and has either
  a request out or an answer in hand. The request out is the same when its answer comes, because
  nothing it is made from changes meanwhile (`RequestStays`).
- `KeptTheorem` (`KeptIsOnRecord`) and `RecordTheorem` (`EveryAnswerOnRecord`). `RInv` says which
  answers are in hand: the transcripts of segments still `sent` and the reply are flushed or
  committed; those of a segment whose commit is done (`paid`) are committed, so what it saves
  afterwards is. What a refused flush or commit takes back goes into `unrecorded` in the same step
  (`RecordRefused`), and as its segment is discarded none of it reaches the disk. It needs the
  numbering of answers (the same request and number are one answer), for which the set of answers
  must be finite.
- `BoughtOnceTheorem` (`BoughtOnce`). `BInv` says that answers are numbered in the order they
  were bought, that while the run lasts every answer not given up is on disk or in hand (`InPlay`),
  that a key has one entry, that a segment at work holds what the disk has of it (`HeldIsKnown`), and
  that the fusion request out has no entry (`AskedAfresh`). So a request that is sent has lost every
  answer it had before, and nobody else can get it one meanwhile.
- `SettlesOnceTheorem` (`EachClipSettlesOnce`) and `FusedTheorem` (`FusedFromCurrent`). `FInv` says
  that what the windows left ask for, end to end, is a list without repetitions, apart from what is
  fused and given up, and with them all there is; it begins with the plan (`PlannedCovers`), loses
  the front of the list with each window done with (`AskedFirst`, `ConcatInjective`) and does not
  change when a window is halved (`AskedInHalves`). That a window's clips are not fused yet is what
  keeps the texts carried over by earlier answers as they were.

`FusionWindowsProofs`, for any episode, target, lookahead and cap: `PlanTheorem` (`PlanCovers`): a
plan asks for every segment once and in the order of the episode, no window is empty, each shows the
segments that follow what it asks for, as many as the lookahead or as there are (`AfterIsShown`),
and its halves ask for what it did, the first one shown where the second begins. This is an
induction over data. The library's induction theorems take an operator as a parameter, which the
provers cannot instantiate, so the module proves the principles it needs for sets instead
(`EveryNumber`, `EverySequence`), by the least member of a set of numbers. `FoldLeft` and
`FlattenSeq` choose some function that satisfies a recursive equation; `FoldExists`, `ListExists`
and `JoinsOnce` show that there is one and what it must be. Then the groups are those dealt one
segment after the other (`GroupsAreDealt`), each deal keeps the segments in order (`DealInOrder`),
and the halves of a window fit together (`Halves`).

`BalanceTheorem` (`PlanIsBalanced`) is about the same deals: a plan has no more windows than it
counts on, none but the last asks for more segments than the cap, and where no window has as many
segments as the cap each is within one segment, the longest, of its even share of the words, above
and below. What a deal keeps is `Balanced`: unless some group reached the cap, the groups are within
that distance of their shares, and those already closed hold, together, their shares but for half a
longest segment either way, which is how near to the ideal boundary a group is closed. The
second part, which the property does not mention, is what keeps the last group, the one that takes
all that is left, from growing or starving (`LastShareKept`). Once the cap cuts a window short the
theorem says nothing of the words: the windows after it get what is left, the last one without a
cap. The sums are followed as prefix sums (`TotalIsSum`, `SumsGrow`), and shares as
products, never as fractions.

`AudioProofs`, for any episodes, prints and number of runs: `KeptApartTheorem` (`SpeakersKeptApart`)
and `LinkingTheorem` (`LinkingIsSound`). `VInv` says of each run that its voices are numbers, as
many as its speakers, and all different, and the same of the rows a script has written and not
committed (`LinkedOK`, `RunOf`, `Kept`). That an import keeps it rests on what `assign_voices`
returns (`VoicesAssigned`): the pairs taken, round by round, share no speaker and no voice
(`RoundsTakePairs`), none that was free is left when the rounds end (`MatchedInRounds`), and the new
numbers lie above the voices of all runs and count up over the speakers without one (`NewCounts`).
There is a closest pair in each round because closeness is an order on the finitely many pairs
(`CloserOrders`, `FirstOfAll`); it compares products of whole numbers, as the model does. A
relinking goes through the runs in order, each linked among those before it (`RelinkedInOrder`).
`LinkingTheorem` speaks of the runs that a linking's transaction sees, and of no others: the
server's lock does not keep the scripts out.

`AudioProofs` also has `CutsTheorem` (`CutsAreSound`), for any turns in the order of their start
inside a recording of any length (`Detected`, what the detector answers) and any bounds that
`SegmentationAssumption` admits. The turns are followed through the four rules, with an invariant of
the slices so far (`Sliced`): they start one after the other, none ends after the turns dealt with,
all their speech is in one, and one that overlaps the next was lengthened. Within a long turn the
pieces are followed in the same way (`CutKeeps`), where the bounds of a piece come from the ideal
cuts lying at least twice the minimum apart (`IdealCuts`, `PieceBounds`). The last pass then changes
only slices below the minimum (`BoundedFacts`), or as long as the minimum and read as shorter, in
floats: `CleanFacts` holds for every set of them so read (`Readings`), and the theorem excepts the
first moments of a turn whose slice is that short.

`EpisodeProofs` has `ScanTheorem` (`ScanReachesAll`), for any finite set of words of any recognisers
and any threshold of at least one percent. When no word lies within another's, later words end
later, so the slots so far are in the order of their ends too, and a word overlaps the last slot or
has begun after all of them: what could take it is the last slot or none (`LastFits`), and that one
the short scan reaches (`OpenReachesLast`). Both scans therefore make the same step (`SameStep`).

`FoldedTheorem` (`FoldedIsLeast`) and `RawTheorem` (`RawLeavesOutSpellings`) are about the word
alignment of any two transcripts, with any alphabet, any classes of sounds and any widest merge. The
cells of the table are a graph, with an edge for each step at its price, and every edge leads
upwards. `align` works out what a cell costs from the first one (`TableCosts`); the definition of
the least count works out what it costs to the last one (`RestCosts`); and on such a graph the two
agree (`BothWays`), whichever of the cheapest options the tie-break takes (`FirstIs`). That the count
is the same with the transcripts exchanged, and that folding never raises it, are both maps of one
graph into another on which no edge gets dearer (`NoDearer`). What the operations say is followed
along the path (`PathReads`): it reads both transcripts as far as its cell, and its errors are what
the cell costs; in the raw mode its errors and its respelt words are. `Table`, the path and the
definition are recursive functions of the cells, which TLA+ has as some function that satisfies its
equation: `DefinedBelow` shows there is one, for anything worked out from lower cells alone, and
`FromBelow` that it is the only one.

Four theorems are about the examples of the run `MCEpisode`: `PlansTheorem` (`EveryPlanIsSound`),
`EveryCutTheorem` (`EveryCutIsSound`), `EveryFoldedCountTheorem` (`EveryFoldedCountIsLeast`) and
`EveryScanTheorem` (`EveryScanReachesAll`). They add nothing to the theorems for all inputs but that
the examples satisfy their hypotheses and that no step changes the example (`PartsOfSpec`); the
exceptions are the same.

`LabelingProofs`, for any clips, requests and bounds:

- `TypeCorrect`, `FinishedTasksHaveLabels` (`DoneTaskHasLabel`: a done task has the label, of the
  clip or of its speakers, that its own decision wrote) and `UnlabelledClipsComeBack`
  (`UnlabelledComesBack`), however requests overlap. The invariant `OInv` is `TInv` (the tables and
  what every open request has read are well formed, and rows once read are still there) with
  `UniqueActive`, `SpeakersAreLabelled` (a clip queued for its speakers or attributed has a label),
  `FinishedIsLabelled` (so has one past `queued`, or with a finished task) and `DoneTaskHasLabel`.
- `GoldStaysListenedTo`, `EditsAreKept`, `SecondLabelsAreListenedTo`, `LifecyclesFollowLabels` and
  `OneLabelOfATask`, for the behaviours in which no two open requests are about one clip
  (`[]OneRequestPerClip`); requests about different clips overlap as they may. The hypothesis is
  needed: without it the code breaks the first, as finding `labeling_gold` shows, and two decisions
  on one task the others. It describes one annotator at one clip, which is what the harness is
  written for. `CInv` gives each clip the rules of its labels and tasks, and each open request what
  it has read and still holds (`Upheld`).

Assumptions: only the named `ASSUME`s of the modules, which TLC evaluates on its instances. Most
type the limits and bounds; `SegmentsAssumption` keeps the name of no clip out of the clips,
`EpisodeAssumption` makes the episode's length a number, and callers and workers are finite.
`SegmentationAssumption` has twice the minimum and four snaps below the maximum, which is what lets
two cuts that move towards each other leave a piece longer than the minimum: the code has 2 and 20
seconds and a snap of 0.75 (silero_vad.py:29), and no caller passes others. `SlotsAssumption` is a
threshold between 1 and 100 percent; the code has 45. `AlignmentAssumption` makes the widest merge a
number; the code has 3.

Checked by TLC and not proved: liveness (`EveryJobSettles`, `InterruptedRunsAgain`,
`EveryRequestEnds`), which is beyond the prover. Every other property of a passing run is a theorem.

## 5. Seen while modelling

Where the code and a sentence about it part ways without a run of their own, or where a property
had to be stated with an exception; `hazards` has them at their lines.

- `fold.align`: "without it, only identical strings match and it is a plain Levenshtein WER alignment"
  (fold.py:1038-1039) is not so. Two words with one spelling key cost 1 in the table and are then named
  a match (fold.py:1078), in the raw mode too, so that the raw count of two spellings of one word is 0.
  No run states the docstring's claim; `RawTheorem` proves by how much it fails: the raw count and the
  words matched in another spelling make up the Levenshtein count.
- `build_slots`: "only slots that have not finished before this one begins can still overlap it.
  Scanning back over those is enough" (consensus.py:131-132) is not so where a word lies within
  another's: the scan stops at a slot that had ended while an earlier one is open. With one
  recogniser's word at 1..2 inside another's 0..4, a third at 2..4 has a slot of its own, although it
  overlaps 0..4 by half. `EveryScanReachesAll` is stated for words not contained in one another only.
- `segment_audio_to_slices` guarantees its minimum, but its maximum only up to one snap: a cut
  moved back lengthens the next piece. A short turn lengthened to the minimum may overlap the next
  one, and a last turn too near the end may be dropped. `EveryCutIsSound` allows just these,
  and one thing more. "Short turns (< min_seg) are merged with adjacent turns or padded to min_seg if
  isolated" (silero_vad.py:352), but the last pass (silero_vad.py:427-432) compares the difference of
  two floats with the minimum: a short turn at 0.3 is padded to 0.3..2.3, whose length is
  1.9999999999999998, padding it again gives the same end, and it is dropped with its speech, in the
  middle of a recording.
- The last window of `plan_windows` may exceed `max_segments`, "Hard cap on targets per window,
  whatever their duration" (llm/fusion.py:364), since it takes all that is left (llm/fusion.py:220), for
  instance with words 1, 0, 0, 0, target 1 and cap 2.
- The retry of a fusion window whose answer was unusable finds that answer in the checkpoint and
  replays it: it never asks again. The halves are new requests.
- When the analysis of a segment raises, its branch (pipeline.py:777) does not commit: its rows
  stay flushed until another commit takes them (`unrecorded`), and its transcripts are not kept.
- When the database refuses one flush or commit of stage 3, the rows flushed beside it are lost from
  the record, and every later segment is paid for and discarded (`broken`); `EveryAnswerOnRecord`
  and `BoughtOnce` except what was lost so. What this costs in segments is finding `episode_refused`.
- "A speaker whose embedding is within LINK_THRESHOLD cosine of a known voice's centroid is that voice;
  anyone else is a new one" (voices.py:5-6) holds among the runs a linking sees. The scripts link
  without the import lock (scripts/diarize_episode.py:68-75, scripts/link_voices.py:26): beside an
  import both hand out the number after the highest, and two unlike speakers become one voice.
- A resume that fails as a whole (main.py:29-34) leaves every interrupted job failed, as the comment
  there says; nothing resumes them at the next start either.
- A bulk deletion takes objects by key after its commit: an import of the same episode in between
  loses its objects. Single and episode deletions take them before: a crash in between leaves rows
  without. The gold check of the bulk deletion and a move into gold may overlap. (`stranded`.)
- The number of a voice is free again when the episode that made the highest one is deleted, and a
  row of `voice_attributes` under it would then describe another person.

## 6. Not modelled

Signal processing, forced alignment, prompts, parsing and prices; the contents of labels and
reports; the scores and the tables of spellings and sounds; export, inventory and statistics, which
are single queries over the state of `Labeling` and `Corpus`; transliteration, playground, demo
data, the other scripts, the frontend and the notebooks. Of what is modelled, these are left out:
the event streams, audit and event rows, the order of `_running` within the saved file (a set here),
the wait and the notify of the queue's condition (an idle worker may take what is pending at any
time), the change of `max_concurrent_jobs` with each submission; the checkpoint's marker of the
download and its diarization answer; the waits on a quota inside one fusion request; the episode's
own audio object; hypotheses and scores of an import; the topic call, which is paid for after the
last look at the scram flag (pipeline.py:847, 860), so that `ScramStopsSpending` says nothing of it;
label versions; the reading of `voice_attributes`; two scripts that run at once.

Most of the repository's lines are of these kinds: 24 thousand of them are the notebooks' analysis
and training code, which have no state a property could be about, and much of the backend is
request and response schemas, queries, prompts and rule tables. A map of those lines would be
wider and say no more; the modules keep to the code that has control to get wrong.

## 7. Plan

Built so far, in this order because an episode lost or paid for twice, a job that cannot be
stopped and a benchmark that is not what it claims are the costliest failures: `IngestQueue`,
`ProviderGate`, `Labeling` and the proofs of the first two; then `JobBoard` and the refinement,
`PaidResults` and `Corpus` with their proofs, `Voices` and the four functions; then `LabelingProofs`,
the proof of the refinement, and for the paid results `BoughtOnce`, `EachClipSettlesOnce` and
`FusedFromCurrent` with the induction over the episode they rest on; the theorems about
`Voices` and about every plan, cut, scan and alignment; last the writes the database refuses, the
resume that fails as a whole, the linking by scripts beside the server, and the floats at the minimum,
each in the models and in their proofs. Left:

1. The diarization answer in the checkpoint, whose thread may outlive its run.
2. The event streams of a job.
