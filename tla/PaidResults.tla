---------------------------- MODULE PaidResults ----------------------------
(***************************************************************************)
(* Stages 3 and 4 of an ingest run and what they pay for: the segments'    *)
(* transcripts (_process_segment in services/ingest/pipeline.py), the      *)
(* fusion windows (_checkpointed in services/ingest/fusion.py, fuse in     *)
(* llm/fusion.py), the checkpoint in the work directory                    *)
(* (services/ingest/checkpoint.py) and the llm_requests rows that say what *)
(* was spent.  The server may die at any step; the run resumed after it    *)
(* rebuilds its requests and finds on disk what it already bought.         *)
(*                                                                         *)
(* An answer is its request and a number, 1 for the first time that        *)
(* request was bought: asked twice, a model answers twice.  A fusion       *)
(* request is the transcripts it shows and the fused texts carried over.   *)
(*                                                                         *)
(* Abstracted: alignment, scores and flags; the waits and retries inside   *)
(* one call (ProviderGate); segmentation, which cuts the same clips again  *)
(* after a restart; the carryover is never too long for its seconds.       *)
(***************************************************************************)
EXTENDS FusionWindows, FiniteSets

CONSTANTS
    Segments,       \* number of clips, 1..Segments in time order
    Routes,         \* the recognisers every clip is sent to
    SegmentWorkers, \* max_segment_concurrency
    TargetWords,    \* fusion.window_target_words; every clip counts one word
    MaxWindow,      \* fusion.max_window_segments
    MaxDepth,       \* fusion.max_depth
    MaxMishaps      \* bound: restarts, failed calls, unusable answers, failed saves, refused
                    \* writes of the database and analyses that raise, together

ASSUME EpisodeAssumption == Segments \in Nat

VARIABLES
    stage,      \* "asr", "fusing" or "over"
    scrammed,   \* AZ-5 was hit
    clip,       \* segment -> how far its worker is
    heard,      \* segment -> route -> number of the transcript in memory, 0 for none
    refused,    \* segment -> the routes that failed on it
    windows,    \* fusion windows still to be fused, the current one first
    tries,      \* requests made for the current window
    asking,     \* the current window's request is out
    reply,      \* the answer in hand, not yet on record: at most one
    fused,      \* segment -> the answer its text was taken from
    unfused,    \* segments the fuser left alone
    disk,       \* the checkpoint's entries
    flushed,    \* answers whose llm_requests row is only flushed
    committed,  \* answers whose llm_requests row is committed
    broken      \* a flush or commit of stage 3's session has been refused

\* What the properties remember: every answer paid for, those a failure kept from the disk or
\* the record, what was out at the scram, and how much has gone wrong.
VARIABLES answers, unsaved, unrecorded, out, mishaps

memory   == <<stage, scrammed, clip, heard, refused, windows, tries, asking, reply, fused, unfused>>
transcribing == <<clip, heard, refused>>
fusing   == <<windows, tries, asking, reply, fused, unfused>>
ledger   == <<flushed, committed, broken>>
history  == <<answers, unsaved, unrecorded, out, mishaps>>
paidVars == <<memory, disk, ledger, history>>

-----------------------------------------------------------------------------
EpisodeClips == 1..Segments
Whole == {s \in EpisodeClips : clip[s] = "done"}

\* request_key: what was sent, and on which route.
Transcript(s, r) == [kind |-> "asr", clip |-> s, route |-> r]

\* carryover_for: the segments just before the window, as far back as all are fused.
Carryover(w) ==
    LET behind == {p \in Whole : p < Head(w.targets)}
        near   == {p \in behind : \A q \in behind : q >= p => q \in DOMAIN fused}
    IN  [p \in near |-> fused[p]]

Request(w) ==
    [kind |-> "fusion", targets |-> w.targets,
     shows |-> [s \in Range(w.targets \o w.after) |-> heard[s]], carries |-> Carryover(w)]

\* Had a window been looked up by the segments it asks for alone.
LoadByTargets(request) ==
    {a \in disk : IF request.kind = "asr" THEN a.request = request
                  ELSE a.request.kind = "fusion" /\ a.request.targets = request.targets}

\* Checkpoint.load: the entry under this request's key, if there is one.
Load(request) == {a \in disk : a.request = request}

\* Checkpoint.save: an entry replaces the one under its key.
Save(new) == disk' = {a \in disk : \A b \in new : a.request # b.request} \cup new

NewAnswer(request, verdict) ==
    [request |-> request, verdict |-> verdict,
     n |-> Cardinality({a \in answers : a.request = request}) + 1]

\* An answer arrives: it is paid for, and its row flushed.
Pay(a) ==
    /\ answers' = answers \cup {a}
    /\ flushed' = flushed \cup {a}

Mishap(n) == mishaps + n <= MaxMishaps /\ mishaps' = mishaps + n

\* Had the answer been kept without its commit.
NoCommit == UNCHANGED <<committed, flushed>>

Commit == committed' = committed \cup flushed /\ flushed' = {}

\* The database refuses a flush or a commit.  The session is rolled back, with every row that
\* was only flushed, and as nothing in stage 3 resets it, it refuses all that follows.
Refuse(lost) ==
    /\ Mishap(IF broken THEN 0 ELSE 1)
    /\ broken' = TRUE /\ flushed' = {}
    /\ unsaved' = unsaved \cup lost
    /\ unrecorded' = unrecorded \cup flushed \cup (lost \ committed)

\* The transcripts a segment bought in this run, as opposed to those it found on disk.
Fresh(s) == {a \in answers \ disk :
                \E r \in Routes : a.request = Transcript(s, r) /\ a.n = heard[s][r]}

AtWork == {"sent", "paid"}
Nothing == [r \in Routes |-> 0]

\* A process with nothing of the run in memory; what was only flushed is rolled back.
Forget(to) ==
    /\ stage' = to /\ scrammed' = FALSE
    /\ clip' = [s \in EpisodeClips |-> "todo"]
    /\ heard' = [s \in EpisodeClips |-> Nothing]
    /\ refused' = [s \in EpisodeClips |-> {}]
    /\ windows' = <<>> /\ tries' = 0 /\ asking' = FALSE /\ reply' = {}
    /\ fused' = <<>> /\ unfused' = {}
    /\ flushed' = {} /\ broken' = FALSE

PaidInit ==
    /\ stage = "asr" /\ scrammed = FALSE
    /\ clip = [s \in EpisodeClips |-> "todo"]
    /\ heard = [s \in EpisodeClips |-> Nothing]
    /\ refused = [s \in EpisodeClips |-> {}]
    /\ windows = <<>> /\ tries = 0 /\ asking = FALSE /\ reply = {}
    /\ fused = <<>> /\ unfused = {}
    /\ disk = {} /\ flushed = {} /\ committed = {} /\ broken = FALSE
    /\ answers = {} /\ unsaved = {} /\ unrecorded = {} /\ out = [asked |-> {}, had |-> {}]
    /\ mishaps = 0

-----------------------------------------------------------------------------
(* Stage 3: the segments, taken in order by SegmentWorkers threads. *)

\* Had the workers of a pool that is stopping gone on with the next segment.
DispatchRegardless(s) ==
    /\ stage = "asr" /\ clip[s] = "todo" /\ \A t \in 1..s - 1 : clip[t] # "todo"
    /\ Cardinality({t \in EpisodeClips : clip[t] \in AtWork}) < SegmentWorkers
    /\ clip' = [clip EXCEPT ![s] = "sent"]
    /\ UNCHANGED <<stage, scrammed, heard, refused, fusing, disk, ledger, history>>

\* A free worker takes the next segment.  Under a scram it sends nothing; otherwise a route
\* whose transcript of this clip is on disk is not asked again.
Dispatch(s) ==
    /\ stage = "asr" /\ clip[s] = "todo" /\ \A t \in 1..s - 1 : clip[t] # "todo"
    /\ Cardinality({t \in EpisodeClips : clip[t] \in AtWork}) < SegmentWorkers
    /\ \/ scrammed /\ clip' = [clip EXCEPT ![s] = "skipped"] /\ UNCHANGED heard
       \/ /\ ~scrammed
          /\ clip' = [clip EXCEPT ![s] = "sent"]
          /\ heard' = [heard EXCEPT ![s] = [r \in Routes |->
                IF Load(Transcript(s, r)) = {} THEN 0
                ELSE (CHOOSE a \in Load(Transcript(s, r)) : TRUE).n]]
    /\ UNCHANGED <<stage, scrammed, refused, fusing, disk, ledger, history>>

Unanswered(s) == {r \in Routes : heard[s][r] = 0 /\ r \notin refused[s]}

Transcribed(s, r) ==
    /\ clip[s] = "sent" /\ r \in Unanswered(s) /\ ~broken
    /\ LET a == NewAnswer(Transcript(s, r), "ok")
       IN  Pay(a) /\ heard' = [heard EXCEPT ![s][r] = a.n]
    /\ UNCHANGED <<stage, scrammed, clip, refused, fusing, disk, committed, broken,
                   unsaved, unrecorded, out, mishaps>>

RouteFailed(s, r) ==
    /\ clip[s] = "sent" /\ r \in Unanswered(s) /\ ~broken
    /\ refused' = [refused EXCEPT ![s] = @ \cup {r}]
    /\ Mishap(1)
    /\ UNCHANGED <<stage, scrammed, clip, heard, fusing, disk, ledger,
                   answers, unsaved, unrecorded, out>>

\* The flush of an attempt's row is refused: the route has failed, whether it had answered, and
\* was paid for, or not.
RowRefused(s, r) ==
    /\ clip[s] = "sent" /\ r \in Unanswered(s)
    /\ refused' = [refused EXCEPT ![s] = @ \cup {r}]
    /\ \E paid \in {{}, {NewAnswer(Transcript(s, r), "ok")}} :
         answers' = answers \cup paid /\ Refuse(paid)
    /\ UNCHANGED <<stage, scrammed, clip, heard, fusing, disk, committed, out>>

\* Had a segment that goes no further not been committed.
CommitCompleteSegment(s) ==
    /\ clip[s] = "sent" /\ Unanswered(s) = {} /\ ~broken
    /\ clip' = [clip EXCEPT ![s] = "paid"]
    /\ IF refused[s] = {} THEN Commit ELSE UNCHANGED <<committed, flushed>>
    /\ UNCHANGED <<stage, scrammed, heard, refused, fusing, disk, broken, history>>

\* Every route has answered or failed: the segment's commit, which on the one session all
\* workers share commits the rows of every other segment too.
CommitSegment(s) ==
    /\ clip[s] = "sent" /\ Unanswered(s) = {} /\ ~broken
    /\ clip' = [clip EXCEPT ![s] = "paid"]
    /\ Commit
    /\ UNCHANGED <<stage, scrammed, heard, refused, fusing, disk, broken, history>>

\* job.discard: one transcript short of a full set, the segment is dropped whole.
Discard(s) ==
    /\ clip' = [clip EXCEPT ![s] = "discarded"]
    /\ heard' = [heard EXCEPT ![s] = Nothing]
    /\ refused' = [refused EXCEPT ![s] = {}]

\* Alignment or analysis raises before that commit: the segment goes, and its transcripts with it.
AnalysisRaises(s) ==
    /\ clip[s] = "sent" /\ Unanswered(s) = {} /\ refused[s] = {}
    /\ Mishap(1)
    /\ Discard(s)
    /\ unsaved' = unsaved \cup Fresh(s)
    /\ unrecorded' = unrecorded \cup Fresh(s)
    /\ UNCHANGED <<stage, scrammed, fusing, disk, ledger, answers, out>>

\* That commit raises, and costs its segment the same; one with a failed route is dropped for it
\* already, and loses its other transcripts now.
CommitRefused(s) ==
    /\ clip[s] = "sent" /\ Unanswered(s) = {}
    /\ Discard(s)
    /\ Refuse(Fresh(s))
    /\ UNCHANGED <<stage, scrammed, fusing, disk, committed, answers, out>>

\* Had a discarded segment's transcripts not been kept.
KeepUseful(s) ==
    /\ clip[s] = "paid"
    /\ \/ refused[s] = {} /\ Save(Fresh(s)) /\ clip' = [clip EXCEPT ![s] = "done"] /\ UNCHANGED <<heard, refused>>
       \/ refused[s] # {} /\ Discard(s) /\ UNCHANGED disk
    /\ UNCHANGED <<stage, scrammed, fusing, ledger, history>>

\* _keep_paid, on a discarded segment as well; any of the writes may fail, which is only logged.
KeepPaid(s) ==
    /\ clip[s] = "paid"
    /\ \E failed \in SUBSET Fresh(s) :
         /\ Mishap(Cardinality(failed))
         /\ Save(Fresh(s) \ failed)
         /\ unsaved' = unsaved \cup failed
    /\ \/ refused[s] = {} /\ clip' = [clip EXCEPT ![s] = "done"] /\ UNCHANGED <<heard, refused>>
       \/ refused[s] # {} /\ Discard(s)
    /\ UNCHANGED <<stage, scrammed, fusing, ledger, answers, unrecorded, out>>

\* shutil.rmtree of the work directory, at whatever end the run comes to.
End == Forget("over") /\ disk' = {} /\ UNCHANGED committed

\* Some clips, in time order.
Ordered(S) ==
    CHOOSE order \in [1..Cardinality(S) -> S] :
        \A i, j \in 1..Cardinality(S) : i < j => order[i] < order[j]

\* plan_windows over the segments with a record, their positions read as segments again.
Planned ==
    LET order == Ordered(Whole)
        Segs(positions) == [k \in DOMAIN positions |-> order[positions[k]]]
        plan == PlanWindows([i \in DOMAIN order |-> 1], TargetWords, Segments, MaxWindow)
    IN  [g \in DOMAIN plan |-> [targets |-> Segs(plan[g].targets), after |-> Segs(plan[g].after),
                               depth   |-> plan[g].depth]]

\* The session closes, and what no commit has taken goes back.
EndTranscribing ==
    /\ stage = "asr" /\ \A s \in EpisodeClips : clip[s] \in {"done", "discarded", "skipped"}
    /\ \/ (scrammed \/ Whole = {}) /\ End
       \/ /\ ~scrammed /\ Whole # {}
          /\ stage' = "fusing" /\ windows' = Planned /\ flushed' = {} /\ broken' = FALSE
          /\ UNCHANGED <<scrammed, transcribing, tries, asking, reply, fused, unfused,
                         disk, committed>>
    /\ UNCHANGED history

-----------------------------------------------------------------------------
(* Stage 4: the windows, one request after the other. *)

Current == Head(windows)

\* What becomes of the window once its request is answered: its texts are kept; it is asked
\* again, once, unless the answer was cut short; it is halved; or it is left unfused.
Settle(result) ==
    LET w == Current
        again == \A a \in result : a.verdict # "cut"
    IN  \/ /\ \E a \in result : a.verdict = "ok" /\
                 fused' = [s \in Range(w.targets) \cup DOMAIN fused |->
                              IF s \in Range(w.targets) THEN a ELSE fused[s]]
           /\ windows' = Tail(windows) /\ tries' = 0 /\ UNCHANGED unfused
        \/ /\ \A a \in result : a.verdict # "ok"
           /\ UNCHANGED fused
           /\ \/ again /\ tries = 0 /\ tries' = 1 /\ UNCHANGED <<windows, unfused>>
              \/ /\ ~(again /\ tries = 0) /\ tries' = 0
                 /\ IF w.depth >= MaxDepth \/ Len(w.targets) < 2
                    THEN windows' = Tail(windows) /\ unfused' = unfused \cup Range(w.targets)
                    ELSE windows' = Split(w) \o Tail(windows) /\ UNCHANGED unfused

\* should_stop, before every request; then the checkpoint; then the route.
AskFuser ==
    /\ stage = "fusing" /\ windows # <<>> /\ ~asking /\ reply = {}
    /\ \/ /\ scrammed
          /\ windows' = Tail(windows) /\ unfused' = unfused \cup Range(Current.targets) /\ tries' = 0
          /\ UNCHANGED <<asking, fused>>
       \/ /\ ~scrammed /\ Load(Request(Current)) # {}
          /\ Settle(Load(Request(Current)))
          /\ UNCHANGED asking
       \/ /\ ~scrammed /\ Load(Request(Current)) = {}
          /\ asking' = TRUE
          /\ UNCHANGED <<windows, unfused, tries, fused>>
    /\ UNCHANGED <<stage, scrammed, transcribing, reply, disk, ledger, history>>

\* An answer that keeps to the contract, one that breaks it, or one cut short at its budget.
FuserAnswers(verdict) ==
    /\ asking /\ asking' = FALSE
    /\ LET a == NewAnswer(Request(Current), verdict)
       IN  Pay(a) /\ reply' = {a}
    /\ Mishap(IF verdict = "ok" THEN 0 ELSE 1)
    /\ UNCHANGED <<stage, scrammed, transcribing, windows, tries, fused, unfused, disk,
                   committed, broken, unsaved, unrecorded, out>>

FuserFails ==
    /\ asking /\ asking' = FALSE
    /\ Settle({})
    /\ Mishap(1)
    /\ UNCHANGED <<stage, scrammed, transcribing, reply, disk, ledger,
                   answers, unsaved, unrecorded, out>>

\* session.commit(), then the save, whatever the answer was worth; then fuse reads it.
KeepAnswer ==
    /\ reply # {} /\ reply' = {}
    /\ Commit
    /\ \/ Save(reply) /\ UNCHANGED <<unsaved, mishaps>>
       \/ Mishap(1) /\ unsaved' = unsaved \cup reply /\ UNCHANGED disk
    /\ Settle(reply)
    /\ UNCHANGED <<stage, scrammed, transcribing, asking, broken, answers, unrecorded, out>>

\* The run leaves stage 4: aborted if scrammed, on to the import otherwise.
EndFusing ==
    /\ stage = "fusing" /\ windows = <<>>
    /\ End
    /\ UNCHANGED history

\* The stage fails outright: the row of an answer just paid for is refused, or its commit, or
\* something else raises.  The clips go on to the import without fused texts.
FusionBreaks ==
    /\ stage = "fusing" /\ Mishap(1)
    /\ \E paid \in IF asking THEN {{}, {NewAnswer(Request(Current), "ok")}} ELSE {reply} :
         /\ answers' = answers \cup paid
         /\ unsaved' = unsaved \cup paid
         /\ unrecorded' = unrecorded \cup paid
    /\ End
    /\ UNCHANGED out

-----------------------------------------------------------------------------
Outstanding ==
    {Transcript(s, r) : s \in {s \in EpisodeClips : clip[s] = "sent"}, r \in Routes}
        \cup (IF asking THEN {Request(Current)} ELSE {})

Scram ==
    /\ stage # "over" /\ ~scrammed /\ scrammed' = TRUE
    /\ out' = [asked |-> Outstanding, had |-> answers]
    /\ Mishap(1)
    /\ UNCHANGED <<stage, transcribing, fusing, disk, ledger,
                   answers, unsaved, unrecorded>>

\* The server dies with what it held in memory and what it had not committed; what is on
\* disk stays, and the run begins again.
Outage ==
    /\ stage # "over" /\ Mishap(1)
    /\ LET inHand == reply \cup UNION {Fresh(s) : s \in {s \in EpisodeClips : clip[s] \in AtWork}}
       IN  unsaved' = unsaved \cup inHand /\ unrecorded' = unrecorded \cup (inHand \ committed)
    /\ Forget("asr")
    /\ UNCHANGED <<disk, committed, answers, out>>
-----------------------------------------------------------------------------
PaidNext ==
    \/ \E s \in EpisodeClips :
          \/ Dispatch(s) \/ CommitSegment(s) \/ AnalysisRaises(s) \/ CommitRefused(s) \/ KeepPaid(s)
          \/ \E r \in Routes : Transcribed(s, r) \/ RouteFailed(s, r) \/ RowRefused(s, r)
    \/ EndTranscribing
    \/ AskFuser \/ FuserFails \/ KeepAnswer \/ EndFusing \/ FusionBreaks
    \/ \E verdict \in {"ok", "bad", "cut"} : FuserAnswers(verdict)
    \/ Scram \/ Outage

PaidSpec == PaidInit /\ [][PaidNext]_paidVars

-----------------------------------------------------------------------------
\* A kept transcript or fusion answer has a committed llm_requests row: the run a crash resumes
\* never replays an answer whose cost is on no record.
KeptIsOnRecord == disk \subseteq committed

\* The row of every answer is committed or about to be, the discarded segments' too, unless the
\* server died or the analysis raised before the segment's commit, or the database refused to
\* take it.
EveryAnswerOnRecord == answers \subseteq committed \cup flushed \cup unrecorded

\* No request is bought twice, across restarts and by whichever worker, unless its answer was
\* in hand when the server died, its row was refused, its save failed, or its segment's analysis
\* or commit raised.
BoughtOnce == \A a, b \in answers : a.request = b.request /\ a.n < b.n => a \in unsaved

\* Every fused text answers the request that this run's transcripts and fused texts make:
\* nothing is fused from a transcript or a carryover that a restart has replaced.
FusedFromCurrent ==
    \A s \in DOMAIN fused :
        LET asked == fused[s].request
        IN  /\ s \in Range(asked.targets)
            /\ \A t \in DOMAIN asked.shows : asked.shows[t] = heard[t]
            /\ \A p \in DOMAIN asked.carries : p \in DOMAIN fused /\ fused[p] = asked.carries[p]

\* After a scram the run pays for nothing but what had passed its check of the flag, and so is
\* sent, when it was hit.
ScramStopsSpending ==
    scrammed => \A a \in answers \ out.had : a.request \in out.asked

\* Through halving, retries and a stop, every segment with a record is fused, given up or still
\* to be asked for, and only one of these.
EachClipSettlesOnce ==
    stage = "fusing" =>
        LET asked == Asked(windows)
        IN  /\ IsInjective(asked)
            /\ Whole = Range(asked) \cup DOMAIN fused \cup unfused
            /\ Range(asked) \cap (DOMAIN fused \cup unfused) = {}
            /\ DOMAIN fused \cap unfused = {}

\* A failure in stage 3 costs one segment, never the episode: no more of them are discarded than
\* things have gone wrong.
EachFailureCostsOneSegment ==
    Cardinality({s \in EpisodeClips : clip[s] = "discarded"}) <= mishaps
=============================================================================
