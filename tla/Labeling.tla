------------------------------ MODULE Labeling ------------------------------
(***************************************************************************)
(* Labelling: tasks, labels, pots and the requests that move them.         *)
(* services/labeling.py, api/tasks.py, services/pots.py, api/pots.py,      *)
(* services/queue_builder.py (build_queue) and the three ways a labelled   *)
(* clip gets another task (services/speaker_attribution.py, labeling.py).  *)
(*                                                                         *)
(* A request is a database transaction under READ COMMITTED, with no row   *)
(* locked: it loads its rows (the ORM keeps them, however stale), runs its *)
(* checks (whose queries see what is committed by then), and commits.  The *)
(* commit writes only the attributes that differ from the rows as loaded,  *)
(* and fails as a whole if it would break the unique index on active       *)
(* tasks.  The three steps of two requests interleave.                     *)
(*                                                                         *)
(* Abstracted: texts, scores and priorities; the review, audit and error   *)
(* queues are one queue, since no rule tells them apart.                   *)
(***************************************************************************)
EXTENDS Naturals, SequencesExt

CONSTANTS
    Segments,   \* clips
    Requests,   \* requests that may be open at once
    MaxTasks,   \* bound: rows of annotation_tasks
    MaxLabels   \* bound: labels of one clip

ASSUME BoundsAssumption == MaxTasks \in Nat /\ MaxLabels \in Nat
\* "" stands for no clip.
ASSUME SegmentsAssumption == "" \notin Segments

VARIABLES
    seg,        \* segments: clip -> [pipe, pot]
    tasks,      \* annotation_tasks, by id
    labels,     \* clip -> its single-stream segment_labels, ordered by (created_at, id)
    attributed, \* tasks whose decision wrote a per-speaker label
    req,        \* request -> what it loaded and how far it is
    open        \* requests in the order their transactions began

vars == <<seg, tasks, labels, attributed, req, open>>

-----------------------------------------------------------------------------
ActiveStatuses == {"pending", "in_progress"}
Approvals      == {"accept", "edit", "attribute"}
Decisions      == Approvals \cup {"flag"}
Tiers          == {"verified", "screened"}
Pots           == {"gold", "train"}

\* A task reads hazard "gate" when build_queue found one, "relabel" when it was reopened.
QueuedTask(s, queue, hazard) ==
    [s |-> s, queue |-> queue, hazard |-> hazard, status |-> "queued"]
Task(s, queue, hazard) == [s |-> s, queue |-> queue, hazard |-> hazard, status |-> "pending"]

Active(s)   == {t \in DOMAIN tasks : tasks[t].s = s /\ tasks[t].status \in ActiveStatuses}
Done(s)     == {t \in DOMAIN tasks : tasks[t].s = s /\ tasks[t].status = "done"}
\* latest_label: the newest label, if there is one.
Current(s)  == {labels[s][i] : i \in DOMAIN labels[s] \cap {Len(labels[s])}}
Labelled(s) == Current(s) # {}
Approved(s) == \E l \in Current(s) : l.op \in Approvals
Screened(s) == \E l \in Current(s) : l.tier = "screened"
\* latest_speakers_label: the clip has a per-speaker label.
Attributed(s) == \E t \in attributed : tasks[t].s = s

NoRow == [s |-> "", queue |-> "", hazard |-> "", status |-> ""]
Idle  == [at |-> "idle", op |-> "", s |-> "", t |-> 0, arg |-> "",
          row |-> NoRow, clip |-> [pipe |-> "", pot |-> ""], newer |-> 0]

\* A request that has loaded clip s, and task t of it unless t = 0.
Loaded(at, op, s, t, arg) ==
    [at |-> at, op |-> op, s |-> s, t |-> t, arg |-> arg,
     row |-> IF t = 0 THEN NoRow ELSE tasks[t], clip |-> seg[s], newer |-> 0]

Begin(r, q) ==
    /\ req[r].at = "idle"
    /\ req' = [req EXCEPT ![r] = q]
    /\ open' = Append(open, r)
    /\ UNCHANGED <<seg, tasks, labels, attributed>>

\* The request ends, committed, refused (409) or rolled back.
Closed(r) ==
    /\ req' = [req EXCEPT ![r] = Idle]
    /\ open' = RemoveFirst(open, r)

\* A check passes, or the request is refused.
Pass(r, allowed) ==
    /\ req[r].at = "loaded"
    /\ \/ allowed /\ req' = [req EXCEPT ![r].at = "checked"] /\ UNCHANGED open
       \/ ~allowed /\ Closed(r)
    /\ UNCHANGED <<seg, tasks, labels, attributed>>

\* What the ORM writes: an attribute set to the value it was loaded with is left alone.
Written(new, loaded, now) == IF new = loaded THEN now ELSE new

\* uq_annotation_tasks_active_segment
UniqueActive(rows) ==
    \A t, u \in DOMAIN rows :
        rows[t].s = rows[u].s /\ {rows[t].status, rows[u].status} \subseteq ActiveStatuses => t = u

CommitTasks(rows) == tasks' = IF UniqueActive(rows) THEN rows ELSE tasks

Init ==
    /\ seg = [s \in Segments |-> [pipe |-> "imported", pot |-> "train"]]
    /\ tasks = <<>>
    /\ labels = [s \in Segments |-> <<>>]
    /\ attributed = {}
    /\ req = [r \in Requests |-> Idle]
    /\ open = <<>>

-----------------------------------------------------------------------------
(***************************************************************************)
(* Decisions: accept, label, flag and attribute, through record_decision.  *)
(***************************************************************************)
DecideLoad(r, t, op, tier) ==
    /\ Len(labels[tasks[t].s]) < MaxLabels
    /\ Begin(r, Loaded("loaded", op, tasks[t].s, t, tier))

\* The guards of record_decision, _check_speaker_words and record_attribution.  Unchecked is
\* what each would be, were it left out.
Unchecked(q)     == TRUE
Unfinished(q)    == q.row.status \in ActiveStatuses
GoldIsHeard(q)   == q.arg = "screened" => q.clip.pot # "gold"
HazardIsHeard(q) == q.arg = "screened" => q.row.hazard = "none"
LanesAreHeard(q) ==
    /\ q.op = "attribute" => q.row.queue = "speakers"
    /\ q.row.queue = "speakers" => q.arg = "verified" /\ q.op \in {"flag", "attribute"}
EditIsKept(q)    == q.op = "accept" => \A l \in Current(q.s) : l.op # "edit"

DecisionAllowed(q) ==
    Unfinished(q) /\ GoldIsHeard(q) /\ HazardIsHeard(q) /\ LanesAreHeard(q) /\ EditIsKept(q)

DecideCheck(r) == req[r].op \in Decisions /\ Pass(r, DecisionAllowed(req[r]))

\* The lifecycle a decision leaves its clip in.
AnyOutcome(op) == "labeled"
Outcome(op)    == IF op \in Approvals THEN "labeled" ELSE "excluded"

\* Had a clip's first per-speaker label been its only one.
FirstAttribution(q) == IF Attributed(q.s) THEN attributed ELSE attributed \cup {q.t}
\* A per-speaker label is added to those the clip has.
Attributing(q)      == attributed \cup {q.t}

\* A label is ordered by created_at, the start of its transaction: it goes below the labels
\* that transactions begun later have committed meanwhile.
DecideCommit(r) ==
    LET q == req[r] IN
    /\ q.at = "checked" /\ q.op \in Decisions
    /\ tasks' = [tasks EXCEPT ![q.t].status = "done"]
    /\ \/ /\ q.row.queue = "speakers"
          /\ attributed' = Attributing(q)
          /\ Closed(r)
          /\ UNCHANGED <<seg, labels>>
       \/ /\ q.row.queue # "speakers"
          /\ labels' = [labels EXCEPT ![q.s] =
                InsertAt(@, Len(@) + 1 - q.newer, [op |-> q.op, tier |-> q.arg, task |-> q.t])]
          /\ seg' = [seg EXCEPT ![q.s].pipe = Written(Outcome(q.op), q.clip.pipe, @)]
          /\ LET older == {p \in Requests : \E i, k \in DOMAIN open :
                              i < k /\ open[i] = p /\ open[k] = r /\ req[p].s = q.s}
             IN  req' = [p \in Requests |->
                            IF p = r THEN Idle
                            ELSE IF p \in older THEN [req[p] EXCEPT !.newer = @ + 1]
                            ELSE req[p]]
          /\ open' = RemoveFirst(open, r)
          /\ UNCHANGED attributed

SkipLoad(r, t)  == Begin(r, Loaded("loaded", "skip", tasks[t].s, t, ""))
SkipCheck(r)    == req[r].op = "skip" /\ Pass(r, Unfinished(req[r]))
\* The status a skip leaves its task in, unlike a decision's.
Decided == "done"
Skipped == "skipped"
SkipCommit(r) ==
    /\ req[r].at = "checked" /\ req[r].op = "skip"
    /\ tasks' = [tasks EXCEPT ![req[r].t].status = Skipped]
    /\ Closed(r)
    /\ UNCHANGED <<seg, labels, attributed>>

\* Which active task next_task serves first (one in progress, of the episode asked for, by
\* priority) is left open: no rule depends on it.
NextLoad(r, t) ==
    /\ tasks[t].status \in ActiveStatuses
    /\ Begin(r, Loaded("checked", "next", tasks[t].s, t, ""))
NextCommit(r) ==
    LET q == req[r] IN
    /\ q.at = "checked" /\ q.op = "next"
    /\ CommitTasks([tasks EXCEPT ![q.t].status = Written("in_progress", q.row.status, @)])
    /\ Closed(r)
    /\ UNCHANGED <<seg, labels, attributed>>

-----------------------------------------------------------------------------
(***************************************************************************)
(* Pots: set_segment_pot.                                                  *)
(***************************************************************************)
PotLoad(r, s, pot) ==
    /\ pot # seg[s].pot
    /\ Begin(r, Loaded("loaded", "pot", s, 0, pot))
PotCheck(r) ==
    /\ req[r].op = "pot"
    /\ Pass(r, req[r].arg = "gold" => ~Screened(req[r].s))
PotCommit(r) ==
    /\ req[r].at = "checked" /\ req[r].op = "pot"
    /\ seg' = [seg EXCEPT ![req[r].s].pot = req[r].arg]
    /\ Closed(r)
    /\ UNCHANGED <<tasks, labels, attributed>>

-----------------------------------------------------------------------------
(***************************************************************************)
(* New tasks: build_queue over one episode (here, one clip), and the tasks *)
(* a labelled clip is given.                                               *)
(***************************************************************************)
\* The first query of build_queue; with requeue_done it takes as many clips as without, unless
\* it takes every clip.
EveryClip(s, requeueDone) ==
    requeueDone \/ (seg[s].pipe \in {"imported", "queued"} /\ Done(s) = {})
Considered(s, requeueDone) ==
    /\ seg[s].pipe \in {"imported", "queued"}
    /\ requeueDone \/ Done(s) = {}

BuildLoad(r, s, requeueDone, hazard) ==
    /\ Considered(s, requeueDone)
    /\ Begin(r, Loaded("loaded", "build", s, 0, hazard))
\* The second: the clip's active task, to be refreshed.
BuildCheck(r) ==
    LET q == req[r] IN
    /\ q.at = "loaded" /\ q.op = "build"
    /\ \E t \in IF Active(q.s) = {} THEN {0} ELSE Active(q.s) :
        req' = [req EXCEPT ![r] = [q EXCEPT !.at = "checked", !.t = t,
                                            !.row = IF t = 0 THEN NoRow ELSE tasks[t]]]
    /\ UNCHANGED <<seg, tasks, labels, attributed, open>>
BuildRefresh(r) ==
    LET q == req[r] IN
    /\ q.at = "checked" /\ q.op = "build" /\ q.t # 0
    /\ tasks' = [tasks EXCEPT ![q.t].queue = Written("review", q.row.queue, @),
                              ![q.t].hazard = Written(q.arg, q.row.hazard, @)]
    /\ Closed(r)
    /\ UNCHANGED <<seg, labels, attributed>>
BuildCreate(r) ==
    LET q == req[r] IN
    /\ q.at = "checked" /\ q.op = "build" /\ q.t = 0 /\ Len(tasks) < MaxTasks
    /\ CommitTasks(Append(tasks, Task(q.s, "review", q.arg)))
    /\ seg' = IF tasks' # tasks /\ q.clip.pipe = "imported"
              THEN [seg EXCEPT ![q.s].pipe = "queued"] ELSE seg
    /\ Closed(r)
    /\ UNCHANGED <<labels, attributed>>

\* reopen_for_relabel, queue_for_speakers (with rank_for_speakers' choice, of whichever
\* pot it is asked for) and reopen_for_speakers: their checks, then one more task.
Reopenable(s, op) ==
    /\ Active(s) = {}
    /\ op = "relabel" => Approved(s)
    /\ op = "queueSpeakers" => Approved(s) /\ ~Attributed(s)
    /\ op = "reopenSpeakers" => Attributed(s)

ReopenCheck(r, s, op) == Reopenable(s, op) /\ Begin(r, Loaded("checked", op, s, 0, ""))
ReopenCommit(r) ==
    LET q == req[r] IN
    /\ q.at = "checked" /\ q.op \in {"relabel", "queueSpeakers", "reopenSpeakers"}
    /\ Len(tasks) < MaxTasks
    /\ CommitTasks(Append(tasks, IF q.op = "relabel" THEN Task(q.s, "review", "relabel")
                                 ELSE Task(q.s, "speakers", "none")))
    /\ Closed(r)
    /\ UNCHANGED <<seg, labels, attributed>>

-----------------------------------------------------------------------------
Start(r) ==
    \/ \E t \in DOMAIN tasks :
        \/ \E op \in Decisions, tier \in Tiers : DecideLoad(r, t, op, tier)
        \/ SkipLoad(r, t) \/ NextLoad(r, t)
    \/ \E s \in Segments :
        \/ \E pot \in Pots : PotLoad(r, s, pot)
        \/ \E requeueDone \in BOOLEAN, hazard \in {"none", "gate"} :
            BuildLoad(r, s, requeueDone, hazard)
        \/ \E op \in {"relabel", "queueSpeakers", "reopenSpeakers"} : ReopenCheck(r, s, op)

Check(r)  == DecideCheck(r) \/ SkipCheck(r) \/ PotCheck(r) \/ BuildCheck(r)
Commit(r) == \/ DecideCommit(r) \/ SkipCommit(r) \/ NextCommit(r) \/ PotCommit(r)
             \/ BuildRefresh(r) \/ BuildCreate(r) \/ ReopenCommit(r)

Next == \E r \in Requests : Start(r) \/ Check(r) \/ Commit(r)
Spec == Init /\ [][Next]_vars

-----------------------------------------------------------------------------
(***************************************************************************)
(* Properties.                                                             *)
(***************************************************************************)
Rows == [s : Segments, queue : {"review", "speakers"}, hazard : {"none", "gate", "relabel"},
         status : ActiveStatuses \cup {"done", "skipped"}]
Clips == [pipe : {"imported", "queued", "labeled", "excluded"}, pot : Pots]

\* The tables hold rows of their types, and each open request is between two of its steps.
TypeOK ==
    /\ seg \in [Segments -> Clips]
    /\ tasks \in Seq(Rows)
    /\ labels \in [Segments -> Seq([op : Decisions, tier : Tiers, task : Nat])]
    /\ attributed \subseteq DOMAIN tasks
    /\ \A r \in Requests : req[r] = Idle \/
        /\ req[r].at \in {"loaded", "checked"} /\ req[r].s \in Segments
        /\ req[r].t \in {0} \cup DOMAIN tasks /\ req[r].clip \in Clips
        /\ req[r].newer \in 0..Len(labels[req[r].s])

\* Gold only holds what was listened to: the current label of a gold clip is never a screened
\* one, whichever of the label and the move came first (pots.py, record_decision).
GoldIsListenedTo ==
    \A s \in Segments : seg[s].pot = "gold" => ~Screened(s)

\* Accepting a seed never undoes an edit: no accepted label comes right after an edited one
\* (D114), though the clip was reopened, refreshed or queued in between.
AcceptNeverUndoesEdit ==
    \A s \in Segments : \A i \in 1 .. Len(labels[s]) - 1 :
        labels[s][i].op = "edit" => labels[s][i + 1].op # "accept"

\* A second listen is a listen: only a clip's first label may be screened.  build_queue must
\* never refresh a relabel task, nor open an ordinary one on a labelled clip.
SecondLabelIsListenedTo ==
    \A s \in Segments : \A i \in 2 .. Len(labels[s]) : labels[s][i].tier = "verified"

\* The lifecycle of a clip is that of its current label: labeled when it is approved, excluded
\* when it is flagged, and neither before there is one.
LifecycleFollowsLabel ==
    \A s \in Segments :
        /\ Labelled(s) <=> seg[s].pipe \in {"labeled", "excluded"}
        /\ Labelled(s) => (Approved(s) <=> seg[s].pipe = "labeled")

\* A task is decided at most once: no two labels come from one task, however often its
\* request is repeated.
OneLabelPerTask ==
    \A s \in Segments : \A i, k \in DOMAIN labels[s] :
        labels[s][i].task = labels[s][k].task => i = k

\* A finished task says so only when its own decision was recorded, as a label of the clip or a
\* per-speaker one, whatever requests overlapped: a skip, a refresh or a stale write never
\* makes a task look decided, on a clip with other labels either.
DoneTaskHasLabel ==
    \A t \in DOMAIN tasks : tasks[t].status = "done" =>
        \/ t \in attributed
        \/ \E i \in DOMAIN labels[tasks[t].s] : labels[tasks[t].s][i].task = t

\* A skipped clip comes back (D14): until it has its first label, the next queue build takes
\* every clip, whatever was skipped, served or refused before, and whatever overlapped.
UnlabelledComesBack == \A s \in Segments : ~Labelled(s) => Considered(s, FALSE)
=============================================================================
