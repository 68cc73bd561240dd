--------------------------- MODULE LabelingProofs ---------------------------
(***************************************************************************)
(* Proofs about Labeling, for any clips, requests and bounds.              *)
(*                                                                         *)
(* Whatever requests overlap: the tables keep their types, a finished task *)
(* has the label of its own decision, and an unlabelled clip comes back    *)
(* with the next queue build.                                              *)
(*                                                                         *)
(* The rules of a label (gold is listened to, an edit is never undone by   *)
(* an accept, a second label is a listen, the lifecycle, one label of a    *)
(* task) do not survive every overlap, as the run labeling_gold shows for  *)
(* one of them.  They are proved for the behaviours in which no two open   *)
(* requests are about the same clip, requests about different clips        *)
(* overlapping as they may.                                                *)
(***************************************************************************)
EXTENDS Labeling, SequenceTheorems, TLAPS

(***************************************************************************)
(* The invariants.                                                         *)
(***************************************************************************)
NoClip == [pipe |-> "", pot |-> ""]

QueryArgs == {"none", "gate"}
Ops == Decisions \cup {"skip", "next", "pot", "build", "relabel", "queueSpeakers", "reopenSpeakers"}

LabelRows == [op : Decisions, tier : Tiers, task : Nat]

RequestRows ==
    [at : {"idle", "loaded", "checked"}, op : Ops \cup {""}, s : Segments \cup {""}, t : Nat,
     arg : Tiers \cup Pots \cup QueryArgs \cup {""}, row : Rows \cup {NoRow},
     clip : Clips \cup {NoClip}, newer : Nat]

\* What an open request remembers, of the types its operation gives it, against the tasks and
\* the labels there are.
WellFormed(q, rows, lists) ==
    /\ q.at \in {"loaded", "checked"} /\ q.op \in Ops
    /\ q.s \in Segments /\ q.clip \in Clips
    /\ q.t \in {0} \cup DOMAIN rows
    /\ q.newer \in 0 .. Len(lists[q.s])
    /\ q.t # 0 => q.row \in Rows /\ q.row.s = q.s /\ rows[q.t].s = q.s
    /\ q.op \in Decisions => q.t # 0 /\ q.arg \in Tiers
    /\ q.op \in {"skip", "next"} => q.t # 0
    /\ q.op = "pot" => q.arg \in Pots
    /\ q.op = "build" => q.arg \in QueryArgs
    /\ q.op = "next" => q.row.status \in ActiveStatuses

TInv ==
    /\ seg \in [Segments -> Clips]
    /\ tasks \in Seq(Rows)
    /\ labels \in [Segments -> Seq(LabelRows)]
    /\ attributed \subseteq DOMAIN tasks
    /\ req \in [Requests -> RequestRows]
    /\ \A r \in Requests : req[r] = Idle \/ WellFormed(req[r], tasks, labels)

\* Clip s has a label in these lists.
HasLabel(lists, s) == Len(lists[s]) # 0

\* Only a labelled clip is queued for its speakers, or had a task of its speakers decided.
SpeakersAreLabelled ==
    /\ \A t \in DOMAIN tasks : tasks[t].queue = "speakers" => HasLabel(labels, tasks[t].s)
    /\ \A t \in attributed : HasLabel(labels, tasks[t].s)
    /\ \A r \in Requests : req[r].at # "idle" =>
        /\ req[r].t # 0 /\ req[r].row.queue = "speakers" => HasLabel(labels, req[r].s)
        /\ req[r].op \in {"queueSpeakers", "reopenSpeakers"} => HasLabel(labels, req[r].s)

\* A clip past its queue, or with a finished task, is labelled.
FinishedIsLabelled ==
    /\ \A s \in Segments : seg[s].pipe \notin {"imported", "queued"} => HasLabel(labels, s)
    /\ \A t \in DOMAIN tasks : tasks[t].status = "done" => HasLabel(labels, tasks[t].s)

OInv == TInv /\ UniqueActive(tasks) /\ SpeakersAreLabelled /\ FinishedIsLabelled /\ DoneTaskHasLabel

-----------------------------------------------------------------------------
\* No two open requests are about the same clip.
OneRequestPerClip ==
    \A p, q \in Requests :
        req[p].at # "idle" /\ req[q].at # "idle" /\ req[p].s = req[q].s => p = q

\* What a request has loaded is still what its clip's rows hold, and its checks would still pass.
Upheld(q, clip, list, rows) ==
    /\ q.clip = clip
    /\ q.t # 0 => q.row = rows[q.t]
    /\ q.newer = 0
    /\ q.op = "build" => Len(list) = 0
    /\ q.at = "checked" /\ q.op \in Decisions =>
        /\ Unfinished(q) /\ GoldIsHeard(q) /\ HazardIsHeard(q) /\ LanesAreHeard(q)
        /\ q.op = "accept" /\ Len(list) # 0 => list[Len(list)].op # "edit"
    /\ q.at = "checked" /\ q.op = "skip" => Unfinished(q)
    /\ q.at = "checked" /\ q.op = "pot" /\ q.arg = "gold" /\ Len(list) # 0 =>
        list[Len(list)].tier # "screened"

\* The labels of a clip, against its row.
LabelRules(clip, list) ==
    /\ clip.pot = "gold" /\ Len(list) # 0 => list[Len(list)].tier # "screened"
    /\ \A i \in 1 .. Len(list) - 1 : list[i].op = "edit" => list[i + 1].op # "accept"
    /\ \A i \in 2 .. Len(list) : list[i].tier = "verified"
    /\ Len(list) # 0 <=> clip.pipe \in {"labeled", "excluded"}
    /\ Len(list) # 0 => (list[Len(list)].op \in Approvals <=> clip.pipe = "labeled")
    /\ \A i, k \in 1 .. Len(list) : list[i].task = list[k].task => i = k

\* Its labels against its tasks: a label comes from a finished task of the clip, and once the
\* clip is labelled, an active review task of it is one that must be listened to.
TaskRules(s, list, rows) ==
    /\ \A i \in 1 .. Len(list) :
        /\ list[i].task \in DOMAIN rows
        /\ rows[list[i].task].s = s /\ rows[list[i].task].status = "done"
    /\ Len(list) # 0 => \A t \in DOMAIN rows :
        rows[t].s = s /\ rows[t].status \in ActiveStatuses /\ rows[t].queue = "review" =>
            rows[t].hazard # "none"

CInv ==
    /\ \A s \in Segments : LabelRules(seg[s], labels[s]) /\ TaskRules(s, labels[s], tasks)
    /\ \A r \in Requests : req[r].at # "idle" =>
        Upheld(req[r], seg[req[r].s], labels[req[r].s], tasks)

-----------------------------------------------------------------------------
(***************************************************************************)
(* What the operators on rows and labels return.                           *)
(***************************************************************************)
Statuses == ActiveStatuses \cup {"done", "skipped"}
Queues   == {"review", "speakers"}
Hazards  == {"none", "gate", "relabel"}

\* Writing the status of one row.
LEMMA StatusWritten ==
    ASSUME NEW rows \in Seq(Rows), NEW t \in DOMAIN rows, NEW st \in Statuses
    PROVE  /\ [rows EXCEPT ![t].status = st] \in Seq(Rows)
           /\ Len([rows EXCEPT ![t].status = st]) = Len(rows)
           /\ \A u \in DOMAIN rows : [rows EXCEPT ![t].status = st][u] =
                IF u = t THEN [rows[t] EXCEPT !.status = st] ELSE rows[u]
<1> DEFINE row == [rows[t] EXCEPT !.status = st]
<1>1. t \in 1 .. Len(rows) /\ DOMAIN rows = 1 .. Len(rows)
  BY LenProperties
<1>2. row \in Rows
  <2>1. rows[t] \in Rows
    BY <1>1, ElementOfSeq
  <2> QED
    BY <2>1 DEF Rows, Statuses
<1>3. [rows EXCEPT ![t].status = st] = [rows EXCEPT ![t] = row]
  OBVIOUS
<1> HIDE DEF row
<1> QED
  BY <1>1, <1>2, <1>3, ExceptSeq DEF row

\* new is rows with the queue and the hazard of row t replaced.
IsRefreshed(new, rows, t, queue, hazard) ==
    /\ new \in Seq(Rows)
    /\ Len(new) = Len(rows)
    /\ \A u \in DOMAIN rows : new[u] =
         IF u = t THEN [rows[t] EXCEPT !.queue = queue, !.hazard = hazard] ELSE rows[u]

\* Refreshing a row's queue and hazard.
LEMMA Refreshed ==
    ASSUME NEW rows \in Seq(Rows), NEW t \in DOMAIN rows,
           NEW queue \in Queues, NEW hazard \in Hazards
    PROVE  IsRefreshed([rows EXCEPT ![t].queue = queue, ![t].hazard = hazard],
                       rows, t, queue, hazard)
<1> DEFINE row == [rows[t] EXCEPT !.queue = queue, !.hazard = hazard]
<1>1. t \in 1 .. Len(rows) /\ DOMAIN rows = 1 .. Len(rows)
  BY LenProperties
<1>2. row \in Rows
  <2>1. rows[t] \in Rows
    BY <1>1, ElementOfSeq
  <2> QED
    BY <2>1 DEF Rows, Queues, Hazards
<1>3. [rows EXCEPT ![t].queue = queue, ![t].hazard = hazard] = [rows EXCEPT ![t] = row]
  BY <1>1, LenProperties
<1> HIDE DEF row
<1> QED
  BY <1>1, <1>2, <1>3, ExceptSeq DEF row, IsRefreshed

\* new is s with e put in at place k.
IsInserted(new, s, k, e) ==
    /\ Len(new) = Len(s) + 1
    /\ \A i \in 1 .. Len(s) + 1 :
        new[i] = IF i < k THEN s[i] ELSE IF i = k THEN e ELSE s[i - 1]

\* What InsertAt returns.
LEMMA Inserted ==
    ASSUME NEW S, NEW s \in Seq(S), NEW k \in 1 .. Len(s) + 1, NEW e \in S
    PROVE  InsertAt(s, k, e) \in Seq(S) /\ IsInserted(InsertAt(s, k, e), s, k, e)
<1> DEFINE before == SubSeq(s, 1, k - 1)
           after  == SubSeq(s, k, Len(s))
           middle == <<e>>
<1>1. Len(s) \in Nat /\ k \in 1 .. Len(s) + 1 /\ \A i \in 1 .. Len(s) : s[i] \in S
  BY LenProperties
<1>2. /\ before \in Seq(S) /\ Len(before) = k - 1
      /\ \A i \in 1 .. k - 1 : before[i] = s[i]
  BY <1>1, SubSeqProperties
<1>3. /\ after \in Seq(S) /\ Len(after) = Len(s) + 1 - k
      /\ \A i \in 1 .. Len(s) + 1 - k : after[i] = s[k + i - 1]
  BY <1>1, SubSeqProperties
<1>4. middle \in Seq(S) /\ Len(middle) = 1 /\ middle[1] = e
  OBVIOUS
<1>5. InsertAt(s, k, e) = (before \o middle) \o after
  BY DEF InsertAt
<1> HIDE DEF before, after, middle
<1>6. /\ before \o middle \in Seq(S) /\ Len(before \o middle) = k
      /\ \A i \in 1 .. k : (before \o middle)[i] = IF i < k THEN s[i] ELSE e
  <2>1. /\ before \o middle \in Seq(S)
        /\ Len(before \o middle) = Len(before) + Len(middle)
        /\ \A i \in 1 .. Len(before) + Len(middle) : (before \o middle)[i] =
              IF i <= Len(before) THEN before[i] ELSE middle[i - Len(before)]
    BY <1>2, <1>4, ConcatProperties
  <2>2. Len(before) + Len(middle) = k
    BY <1>1, <1>2, <1>4
  <2> QED
    BY <1>1, <1>2, <1>4, <2>1, <2>2
<1> DEFINE front == before \o middle
<1>7. front \in Seq(S) /\ InsertAt(s, k, e) = front \o after
  BY <1>5, <1>6
<1> HIDE DEF front
<1>8. /\ InsertAt(s, k, e) \in Seq(S)
      /\ Len(InsertAt(s, k, e)) = Len(front) + Len(after)
      /\ \A i \in 1 .. Len(front) + Len(after) : InsertAt(s, k, e)[i] =
            IF i <= Len(front) THEN front[i] ELSE after[i - Len(front)]
  <2>1. /\ front \o after \in Seq(S)
        /\ Len(front \o after) = Len(front) + Len(after)
        /\ \A i \in 1 .. Len(front) + Len(after) :
              (front \o after)[i] = IF i <= Len(front) THEN front[i] ELSE after[i - Len(front)]
    BY <1>3, <1>7, ConcatProperties
  <2> QED
    BY <1>7, <2>1
<1>9. Len(front) = k /\ Len(front) + Len(after) = Len(s) + 1
  BY <1>1, <1>3, <1>6 DEF front
<1>10. ASSUME NEW i \in 1 .. Len(s) + 1
      PROVE  InsertAt(s, k, e)[i] = IF i < k THEN s[i] ELSE IF i = k THEN e ELSE s[i - 1]
  <2>1. CASE i <= k
    <3>1. front[i] = IF i < k THEN s[i] ELSE e
      BY <1>1, <1>6, <2>1 DEF front
    <3>2. InsertAt(s, k, e)[i] = front[i]
      BY <1>1, <1>8, <1>9, <2>1
    <3> QED
      BY <1>1, <2>1, <3>1, <3>2
  <2>2. CASE i > k
    <3>1. i - k \in 1 .. Len(s) + 1 - k /\ k + (i - k) - 1 = i - 1
      BY <1>1, <2>2
    <3>2. after[i - k] = s[k + (i - k) - 1]
      BY <1>3, <3>1
    <3>3. InsertAt(s, k, e)[i] = after[i - k]
      BY <1>1, <1>8, <1>9, <2>2
    <3> QED
      BY <1>1, <2>2, <3>1, <3>2, <3>3
  <2> QED
    BY <1>1, <2>1, <2>2
<1> QED
  BY <1>8, <1>9, <1>10 DEF IsInserted

\* A clip is labelled when it has a label, and its current label is the last one.
LEMMA LastLabel ==
    ASSUME NEW s \in Segments, labels[s] \in Seq(LabelRows)
    PROVE  /\ Labelled(s) <=> Len(labels[s]) # 0
           /\ Len(labels[s]) # 0 => Current(s) = {labels[s][Len(labels[s])]}
           /\ Len(labels[s]) = 0 => Current(s) = {}
<1>1. Len(labels[s]) \in Nat /\ DOMAIN labels[s] = 1 .. Len(labels[s])
  BY LenProperties
<1>2. CASE Len(labels[s]) = 0
  BY <1>1, <1>2 DEF Labelled, Current
<1>3. CASE Len(labels[s]) # 0
  <2>1. DOMAIN labels[s] \cap {Len(labels[s])} = {Len(labels[s])}
    BY <1>1, <1>3
  <2> QED
    BY <1>3, <2>1 DEF Labelled, Current
<1> QED
  BY <1>2, <1>3

-----------------------------------------------------------------------------
(***************************************************************************)
(* What each commit does to the rows.                                      *)
(***************************************************************************)
\* Task t is given a status.
StatusSet(t, st) ==
    /\ tasks' \in Seq(Rows)
    /\ t \in DOMAIN tasks
    /\ DOMAIN tasks' = DOMAIN tasks
    /\ \A u \in DOMAIN tasks :
        /\ tasks'[u].s = tasks[u].s /\ tasks'[u].queue = tasks[u].queue
        /\ tasks'[u].hazard = tasks[u].hazard
        /\ tasks'[u].status = IF u = t THEN st ELSE tasks[u].status
        /\ u # t => tasks'[u] = tasks[u]

\* Task t is refreshed.
QueueSet(t, queue, hazard) ==
    /\ tasks' \in Seq(Rows)
    /\ t \in DOMAIN tasks
    /\ DOMAIN tasks' = DOMAIN tasks
    /\ \A u \in DOMAIN tasks :
        /\ tasks'[u].s = tasks[u].s /\ tasks'[u].status = tasks[u].status
        /\ tasks'[u].queue = IF u = t THEN queue ELSE tasks[u].queue
        /\ tasks'[u].hazard = IF u = t THEN hazard ELSE tasks[u].hazard
        /\ u # t => tasks'[u] = tasks[u]

\* A task is added, and no other is active on its clip.
TaskAdded(row) ==
    /\ tasks' \in Seq(Rows)
    /\ Len(tasks) + 1 \notin DOMAIN tasks
    /\ DOMAIN tasks' = DOMAIN tasks \cup {Len(tasks) + 1}
    /\ \A u \in DOMAIN tasks : tasks'[u] = tasks[u]
    /\ tasks'[Len(tasks) + 1] = row
    /\ UniqueActive(tasks')

\* Clip s is given a label, below those of the n transactions that began later.
LabelAdded(s, n, label) ==
    /\ labels' \in [Segments -> Seq(LabelRows)]
    /\ \A c \in Segments \ {s} : labels'[c] = labels[c]
    /\ Len(labels'[s]) = Len(labels[s]) + 1
    /\ \A i \in 1 .. Len(labels[s]) + 1 : labels'[s][i] =
         IF i < Len(labels[s]) + 1 - n THEN labels[s][i]
         ELSE IF i = Len(labels[s]) + 1 - n THEN label ELSE labels[s][i - 1]

\* A task's row.
LEMMA TaskRow ==
    ASSUME TInv, NEW t \in DOMAIN tasks
    PROVE  /\ t \in Nat /\ t # 0 /\ tasks[t] \in Rows
           /\ tasks[t].s \in Segments /\ tasks[t].queue \in Queues
           /\ tasks[t].hazard \in Hazards /\ tasks[t].status \in Statuses
<1>1. tasks \in Seq(Rows)
  BY DEF TInv
<1>2. t \in 1 .. Len(tasks) /\ Len(tasks) \in Nat
  BY <1>1, LenProperties
<1>3. tasks[t] \in Rows
  BY <1>1, <1>2, ElementOfSeq
<1> QED
  BY <1>2, <1>3 DEF Rows, Queues, Hazards, Statuses

\* A request that is not idle is well formed, and its task is a row of the table.
LEMMA OpenRequest ==
    ASSUME TInv, NEW r \in Requests, req[r].at # "idle"
    PROVE  /\ WellFormed(req[r], tasks, labels) /\ req[r] \in RequestRows
           /\ req[r].t # 0 => req[r].t \in DOMAIN tasks /\ tasks[req[r].t] \in Rows
           /\ Len(labels[req[r].s]) \in Nat
           /\ labels[req[r].s] \in Seq(LabelRows)
<1>1. WellFormed(req[r], tasks, labels)
  <2>1. Idle.at = "idle"
    BY DEF Idle
  <2> QED
    BY <2>1 DEF TInv
<1>2. req[r] \in RequestRows
  BY DEF TInv
<1>3. labels[req[r].s] \in Seq(LabelRows)
  BY <1>1 DEF TInv, WellFormed
<1>4. ASSUME req[r].t # 0
      PROVE  req[r].t \in DOMAIN tasks /\ tasks[req[r].t] \in Rows
  <2>1. req[r].t \in DOMAIN tasks
    BY <1>1, <1>4 DEF WellFormed
  <2> QED
    BY <2>1, ElementOfSeq, LenProperties DEF TInv
<1> QED
  BY <1>1, <1>2, <1>3, <1>4, LenProperties

\* One row's status.
LEMMA StatusSetBy ==
    ASSUME TInv, NEW t \in DOMAIN tasks, NEW st \in Statuses,
           tasks' = [tasks EXCEPT ![t].status = st]
    PROVE  StatusSet(t, st)
<1>1. tasks \in Seq(Rows)
  BY DEF TInv
<1>2. /\ tasks' \in Seq(Rows) /\ Len(tasks') = Len(tasks)
      /\ \A u \in DOMAIN tasks :
           tasks'[u] = IF u = t THEN [tasks[t] EXCEPT !.status = st] ELSE tasks[u]
  BY <1>1, StatusWritten
<1>3. DOMAIN tasks' = 1 .. Len(tasks') /\ DOMAIN tasks = 1 .. Len(tasks)
  BY <1>1, <1>2, LenProperties
<1>4. tasks[t] \in Rows
  BY <1>1, <1>3, ElementOfSeq
<1>5. LET row == [tasks[t] EXCEPT !.status = st]
      IN  /\ row.s = tasks[t].s /\ row.queue = tasks[t].queue /\ row.hazard = tasks[t].hazard
          /\ row.status = st
  BY <1>4 DEF Rows
<1> QED
  BY <1>2, <1>3, <1>5 DEF StatusSet

\* One row more, unless the unique index refuses it.
LEMMA TaskAddedBy ==
    ASSUME TInv, NEW row \in Rows, CommitTasks(Append(tasks, row))
    PROVE  tasks' = tasks \/ TaskAdded(row)
<1> SUFFICES ASSUME tasks' # tasks PROVE TaskAdded(row)
  OBVIOUS
<1>1. tasks \in Seq(Rows)
  BY DEF TInv
<1>2. tasks' = Append(tasks, row) /\ UniqueActive(tasks')
  BY DEF CommitTasks
<1>3. Len(tasks) \in Nat /\ DOMAIN tasks = 1 .. Len(tasks)
  BY <1>1, LenProperties
<1>4. tasks' \in Seq(Rows) /\ Len(tasks') = Len(tasks) + 1
  BY <1>1, <1>2
<1>5. DOMAIN tasks' = 1 .. Len(tasks) + 1
  BY <1>4, LenProperties
<1>6. tasks'[Len(tasks) + 1] = row /\ \A u \in 1 .. Len(tasks) : tasks'[u] = tasks[u]
  BY <1>1, <1>2, AppendProperties
<1>7. Len(tasks) + 1 \notin 1 .. Len(tasks) /\ 1 .. Len(tasks) + 1 = (1 .. Len(tasks)) \cup {Len(tasks) + 1}
  BY <1>3
<1> QED
  BY <1>2, <1>3, <1>4, <1>5, <1>6, <1>7 DEF TaskAdded

\* What a committed decision writes: the label, the lifecycle, the row of its task.
LEMMA DecideCommitFacts ==
    ASSUME TInv, NEW r \in Requests, DecideCommit(r)
    PROVE  /\ StatusSet(req[r].t, "done")
           /\ tasks[req[r].t].s = req[r].s
           /\ req[r].row.queue # "speakers" =>
                /\ LabelAdded(req[r].s, req[r].newer,
                              [op |-> req[r].op, tier |-> req[r].arg, task |-> req[r].t])
                /\ attributed' = attributed
                /\ seg' = [seg EXCEPT ![req[r].s].pipe =
                                Written(Outcome(req[r].op), req[r].clip.pipe, @)]
           /\ req[r].row.queue = "speakers" =>
                seg' = seg /\ labels' = labels /\ attributed' = attributed \cup {req[r].t}
<1> DEFINE q == req[r]
           label == [op |-> q.op, tier |-> q.arg, task |-> q.t]
<1>1. q.at = "checked" /\ q.op \in Decisions /\ tasks' = [tasks EXCEPT ![q.t].status = "done"]
  BY DEF DecideCommit
<1>2. WellFormed(q, tasks, labels) /\ q.t \in DOMAIN tasks /\ q.t \in Nat
  BY <1>1, OpenRequest DEF WellFormed, RequestRows
<1>3. StatusSet(q.t, "done")
  BY <1>1, <1>2, StatusSetBy DEF Statuses
<1>4. ASSUME q.row.queue # "speakers"
      PROVE  LabelAdded(q.s, q.newer, label)
  <2>1. labels' = [labels EXCEPT ![q.s] = InsertAt(@, Len(@) + 1 - q.newer, label)]
    BY <1>4 DEF DecideCommit
  <2>2. label \in LabelRows
    BY <1>1, <1>2 DEF WellFormed, LabelRows
  <2>3. labels[q.s] \in Seq(LabelRows) /\ q.newer \in 0 .. Len(labels[q.s]) /\ q.s \in Segments
    BY <1>2 DEF TInv, WellFormed
  <2>4. labels'[q.s] = InsertAt(labels[q.s], Len(labels[q.s]) + 1 - q.newer, label)
    BY <2>1, <2>3 DEF TInv
  <2> HIDE DEF label
  <2>5. /\ labels'[q.s] \in Seq(LabelRows) /\ Len(labels'[q.s]) = Len(labels[q.s]) + 1
        /\ \A i \in 1 .. Len(labels[q.s]) + 1 : labels'[q.s][i] =
             IF i < Len(labels[q.s]) + 1 - q.newer THEN labels[q.s][i]
             ELSE IF i = Len(labels[q.s]) + 1 - q.newer THEN label ELSE labels[q.s][i - 1]
    <3> DEFINE old == labels[q.s]
               k   == Len(old) + 1 - q.newer
    <3>1. old \in Seq(LabelRows) /\ k \in 1 .. Len(old) + 1 /\ labels'[q.s] = InsertAt(old, k, label)
      BY <2>3, <2>4, LenProperties
    <3> HIDE DEF old, k
    <3>2. labels'[q.s] \in Seq(LabelRows) /\ IsInserted(labels'[q.s], old, k, label)
      BY <2>2, <3>1, Inserted
    <3> QED
      BY <3>2 DEF old, k, IsInserted
  <2>6. labels' \in [Segments -> Seq(LabelRows)] /\ \A c \in Segments \ {q.s} : labels'[c] = labels[c]
    BY <2>1, <2>3, <2>4, <2>5 DEF TInv
  <2> QED
    BY <2>5, <2>6 DEF LabelAdded
<1>5. tasks[q.t].s = q.s
  BY <1>1, <1>2 DEF WellFormed, Decisions, Approvals
<1> QED
  BY <1>3, <1>4, <1>5 DEF DecideCommit, Attributing

\* What a committed skip writes: the status of its task and no more.
LEMMA SkipCommitFacts ==
    ASSUME TInv, NEW r \in Requests, SkipCommit(r)
    PROVE  StatusSet(req[r].t, "skipped") /\ tasks[req[r].t].s = req[r].s
<1>1. req[r].at = "checked" /\ req[r].op = "skip"
  BY DEF SkipCommit
<1>2. WellFormed(req[r], tasks, labels) /\ req[r].t \in DOMAIN tasks
  BY <1>1, OpenRequest DEF WellFormed
<1>3. tasks[req[r].t].s = req[r].s
  BY <1>1, <1>2 DEF WellFormed
<1> QED
  BY <1>2, <1>3, StatusSetBy DEF SkipCommit, Skipped, Statuses

\* What serving a task writes: its status at most, and never a second active task.
LEMMA NextCommitFacts ==
    ASSUME TInv, UniqueActive(tasks), NEW r \in Requests, NextCommit(r)
    PROVE  /\ UniqueActive(tasks')
           /\ tasks[req[r].t].s = req[r].s
           /\ \/ tasks' = tasks
              \/ /\ req[r].row.status # "in_progress"
                 /\ StatusSet(req[r].t, "in_progress")
<1> DEFINE q == req[r]
<1>1. q.at = "checked" /\ q.op = "next"
  BY DEF NextCommit
<1>2. WellFormed(q, tasks, labels) /\ q.t \in DOMAIN tasks
  BY <1>1, OpenRequest DEF WellFormed
<1>3. tasks[q.t].s = q.s
  BY <1>1, <1>2 DEF WellFormed
<1>4. CommitTasks([tasks EXCEPT ![q.t].status = Written("in_progress", q.row.status, @)])
  BY DEF NextCommit
<1>5. UniqueActive(tasks')
  BY <1>4 DEF CommitTasks
<1>6. CASE q.row.status = "in_progress"
  <2>1. [tasks EXCEPT ![q.t].status = Written("in_progress", q.row.status, @)] = tasks
    <3>1. [tasks EXCEPT ![q.t].status = tasks[q.t].status] = tasks
      <4>1. tasks \in [1 .. Len(tasks) -> Rows] /\ q.t \in 1 .. Len(tasks)
        BY <1>2, LenProperties DEF TInv
      <4>2. [tasks[q.t] EXCEPT !.status = tasks[q.t].status] = tasks[q.t]
        BY <4>1 DEF Rows
      <4> QED
        BY <4>1, <4>2
    <3> QED
      BY <1>6, <3>1 DEF Written
  <2> QED
    BY <1>3, <1>4, <1>5, <2>1 DEF CommitTasks
<1>7. CASE q.row.status # "in_progress" /\ tasks' # tasks
  <2>1. tasks' = [tasks EXCEPT ![q.t].status = "in_progress"]
    BY <1>4, <1>7 DEF CommitTasks, Written
  <2> QED
    BY <1>2, <1>3, <1>5, <1>7, <2>1, StatusSetBy DEF Statuses, ActiveStatuses
<1> QED
  BY <1>3, <1>5, <1>6, <1>7

\* What the queue builder writes over an active task: its queue and hazard.
LEMMA RefreshFacts ==
    ASSUME TInv, NEW r \in Requests, BuildRefresh(r)
    PROVE  /\ QueueSet(req[r].t, Written("review", req[r].row.queue, tasks[req[r].t].queue),
                                 Written(req[r].arg, req[r].row.hazard, tasks[req[r].t].hazard))
           /\ tasks[req[r].t].s = req[r].s
<1> DEFINE q == req[r]
           queue == Written("review", q.row.queue, tasks[q.t].queue)
           hazard == Written(q.arg, q.row.hazard, tasks[q.t].hazard)
<1>1. q.at = "checked" /\ q.op = "build" /\ q.t # 0
  BY DEF BuildRefresh
<1>2. WellFormed(q, tasks, labels) /\ q.t \in DOMAIN tasks /\ tasks[q.t] \in Rows
  BY <1>1, OpenRequest
<1>3. tasks[q.t].s = q.s
  BY <1>1, <1>2 DEF WellFormed
<1>4. queue \in Queues /\ hazard \in Hazards
  BY <1>1, <1>2 DEF WellFormed, Rows, Written, QueryArgs, Queues, Hazards
<1>5. tasks' = [tasks EXCEPT ![q.t].queue = queue, ![q.t].hazard = hazard]
  BY <1>2, LenProperties DEF BuildRefresh, TInv, Rows
<1> HIDE DEF queue, hazard
<1>6. IsRefreshed(tasks', tasks, q.t, queue, hazard)
  <2>1. tasks \in Seq(Rows)
    BY DEF TInv
  <2> QED
    BY <1>2, <1>4, <1>5, <2>1, Refreshed
<1>7. DOMAIN tasks' = DOMAIN tasks
  BY <1>6, LenProperties DEF TInv, IsRefreshed
<1>8. LET row == [tasks[q.t] EXCEPT !.queue = queue, !.hazard = hazard]
      IN  /\ row.s = tasks[q.t].s /\ row.status = tasks[q.t].status
          /\ row.queue = queue /\ row.hazard = hazard
  BY <1>2 DEF Rows
<1>9. QueueSet(q.t, queue, hazard)
  BY <1>2, <1>6, <1>7, <1>8 DEF QueueSet, IsRefreshed
<1> QED
  BY <1>3, <1>9 DEF queue, hazard

\* What the queue builder writes for a clip without an active task: one more row.
LEMMA CreateFacts ==
    ASSUME TInv, NEW r \in Requests, BuildCreate(r)
    PROVE  \/ tasks' = tasks /\ seg' = seg
           \/ /\ TaskAdded(Task(req[r].s, "review", req[r].arg))
              /\ \/ seg' = seg
                 \/ seg' = [seg EXCEPT ![req[r].s].pipe = "queued"]
<1>1. req[r].at = "checked" /\ req[r].op = "build"
  BY DEF BuildCreate
<1>2. WellFormed(req[r], tasks, labels)
  BY <1>1, OpenRequest
<1>3. Task(req[r].s, "review", req[r].arg) \in Rows
  BY <1>1, <1>2 DEF WellFormed, Rows, QueryArgs, Task, ActiveStatuses
<1> QED
  BY <1>3, TaskAddedBy DEF BuildCreate

\* The task a labelled clip is given.
NewTask(q) == IF q.op = "relabel" THEN Task(q.s, "review", "relabel")
              ELSE Task(q.s, "speakers", "none")

\* What a return to the queue writes: one more row, or none.
LEMMA ReopenFacts ==
    ASSUME TInv, NEW r \in Requests, ReopenCommit(r)
    PROVE  tasks' = tasks \/ TaskAdded(NewTask(req[r]))
<1>1. req[r].at = "checked"
  BY DEF ReopenCommit
<1>2. WellFormed(req[r], tasks, labels)
  BY <1>1, OpenRequest
<1>3. NewTask(req[r]) \in Rows
  BY <1>2 DEF WellFormed, Rows, NewTask, Task, ActiveStatuses
<1> QED
  BY <1>3, TaskAddedBy DEF ReopenCommit, NewTask

-----------------------------------------------------------------------------
(***************************************************************************)
(* Type correctness, and the unique index.                                 *)
(***************************************************************************)
\* The tables keep their types, no row changes its clip, no row and no label goes away.
TablesStay ==
    /\ seg' \in [Segments -> Clips]
    /\ tasks' \in Seq(Rows)
    /\ \A t \in DOMAIN tasks : t \in DOMAIN tasks' /\ tasks'[t].s = tasks[t].s
    /\ labels' \in [Segments -> Seq(LabelRows)]
    /\ \A s \in Segments : Len(labels'[s]) \in Nat /\ Len(labels'[s]) >= Len(labels[s])
    /\ attributed' \subseteq DOMAIN tasks'
    /\ UniqueActive(tasks')

\* A step that leaves the tables alone keeps them typed, and their active tasks.
LEMMA SameTablesStay ==
    ASSUME TInv, UniqueActive(tasks), UNCHANGED <<seg, labels, attributed>>,
           tasks' \in Seq(Rows), UniqueActive(tasks'),
           \A t \in DOMAIN tasks : t \in DOMAIN tasks' /\ tasks'[t].s = tasks[t].s
    PROVE  TablesStay
<1>1. \A s \in Segments : Len(labels[s]) \in Nat
  BY LenProperties DEF TInv
<1>2. attributed' \subseteq DOMAIN tasks'
  BY DEF TInv
<1> QED
  BY <1>1, <1>2 DEF TablesStay, TInv

\* A task that stops being active, or is refreshed, leaves its clip with no more active tasks.
LEMMA UniqueKept ==
    ASSUME TInv, UniqueActive(tasks), NEW t,
           \/ StatusSet(t, "done") \/ StatusSet(t, "skipped")
           \/ \E queue, hazard : QueueSet(t, queue, hazard)
    PROVE  /\ UniqueActive(tasks')
           /\ tasks' \in Seq(Rows)
           /\ \A u \in DOMAIN tasks : u \in DOMAIN tasks' /\ tasks'[u].s = tasks[u].s
<1>1. /\ tasks' \in Seq(Rows) /\ DOMAIN tasks' = DOMAIN tasks
      /\ \A u \in DOMAIN tasks : tasks'[u].s = tasks[u].s
  BY DEF StatusSet, QueueSet
<1>2. \A u \in DOMAIN tasks : tasks'[u].status \in ActiveStatuses => tasks[u].status \in ActiveStatuses
  BY DEF StatusSet, QueueSet, ActiveStatuses
<1> QED
  BY <1>1, <1>2 DEF UniqueActive

\* A committed decision keeps the tables typed and the index unique.
LEMMA DecideTables ==
    ASSUME TInv, UniqueActive(tasks), NEW r \in Requests, DecideCommit(r)
    PROVE  TablesStay
<1> DEFINE q == req[r]
<1>1. q.at = "checked" /\ q.op \in Decisions
  BY DEF DecideCommit
<1>2. WellFormed(q, tasks, labels)
  BY <1>1, OpenRequest
<1>3. q.s \in Segments /\ q.clip \in Clips
  BY <1>2 DEF WellFormed
<1>4. /\ UniqueActive(tasks') /\ tasks' \in Seq(Rows)
      /\ \A u \in DOMAIN tasks : u \in DOMAIN tasks' /\ tasks'[u].s = tasks[u].s
  BY DecideCommitFacts, UniqueKept
<1>5. \A s \in Segments : Len(labels[s]) \in Nat
  BY LenProperties DEF TInv
<1>6. CASE q.row.queue = "speakers"
  <2>1. seg' = seg /\ labels' = labels /\ attributed' = attributed \cup {q.t}
    BY <1>6, DecideCommitFacts
  <2>2. q.t \in DOMAIN tasks
    BY <1>1, <1>2 DEF WellFormed
  <2>3. attributed' \subseteq DOMAIN tasks'
    BY <1>4, <2>1, <2>2 DEF TInv
  <2> QED
    BY <1>3, <1>4, <1>5, <2>1, <2>3 DEF TablesStay, TInv
<1>7. CASE q.row.queue # "speakers"
  <2>1. /\ LabelAdded(q.s, q.newer, [op |-> q.op, tier |-> q.arg, task |-> q.t])
        /\ attributed' = attributed
        /\ seg' = [seg EXCEPT ![q.s].pipe = Written(Outcome(q.op), q.clip.pipe, @)]
    BY <1>7, DecideCommitFacts
  <2>2. seg' \in [Segments -> Clips]
    BY <1>3, <2>1 DEF TInv, Clips, Written, Outcome
  <2>3. \A s \in Segments : Len(labels'[s]) \in Nat /\ Len(labels'[s]) >= Len(labels[s])
    BY <1>3, <1>5, <2>1 DEF LabelAdded
  <2>4. attributed' \subseteq DOMAIN tasks'
    BY <1>4, <2>1 DEF TInv
  <2> QED
    BY <1>4, <2>1, <2>2, <2>3, <2>4 DEF TablesStay, TInv, LabelAdded
<1> QED
  BY <1>6, <1>7

\* One more row, of a clip without an active one, keeps the index unique.
LEMMA CreateTables ==
    ASSUME TInv, UniqueActive(tasks), NEW r \in Requests, BuildCreate(r)
    PROVE  TablesStay
<1>1. req[r].at = "checked"
  BY DEF BuildCreate
<1>2. req[r].s \in Segments
  BY <1>1, OpenRequest DEF WellFormed
<1>3. seg' \in [Segments -> Clips]
  <2>1. [seg EXCEPT ![req[r].s].pipe = "queued"] \in [Segments -> Clips]
    BY <1>2 DEF TInv, Clips
  <2>2. seg \in [Segments -> Clips]
    BY DEF TInv
  <2> QED
    BY <2>1, <2>2, CreateFacts
<1>4. /\ tasks' \in Seq(Rows) /\ UniqueActive(tasks')
      /\ \A t \in DOMAIN tasks : t \in DOMAIN tasks' /\ tasks'[t].s = tasks[t].s
  BY CreateFacts DEF TaskAdded, TInv
<1>5. \A s \in Segments : Len(labels[s]) \in Nat
  BY LenProperties DEF TInv
<1>6. UNCHANGED <<labels, attributed>>
  BY DEF BuildCreate
<1>7. attributed' \subseteq DOMAIN tasks'
  BY <1>4, <1>6 DEF TInv
<1> QED
  BY <1>3, <1>4, <1>5, <1>6, <1>7 DEF TablesStay, TInv

\* Every step keeps the tables typed and the index unique.
LEMMA TablesKept ==
    ASSUME TInv, UniqueActive(tasks), [Next]_vars
    PROVE  TablesStay
<1>1. CASE UNCHANGED <<seg, tasks, labels, attributed>>
  <2>1. UniqueActive(tasks') /\ tasks' \in Seq(Rows)
    BY <1>1 DEF TInv
  <2> QED
    BY <1>1, <2>1, SameTablesStay
<1>2. ASSUME NEW r \in Requests, Start(r) \/ Check(r)
      PROVE  UNCHANGED <<seg, tasks, labels, attributed>>
  BY <1>2 DEF Start, DecideLoad, SkipLoad, NextLoad, PotLoad, BuildLoad, ReopenCheck, Begin,
              Check, DecideCheck, SkipCheck, PotCheck, BuildCheck, Pass
<1>3. ASSUME NEW r \in Requests, Commit(r)
      PROVE  TablesStay
  <2>1. CASE DecideCommit(r)
    BY <2>1, DecideTables
  <2>2. CASE SkipCommit(r)
    <3>1. UNCHANGED <<seg, labels, attributed>>
      BY <2>2 DEF SkipCommit
    <3> QED
      BY <2>2, <3>1, SkipCommitFacts, UniqueKept, SameTablesStay
  <2>3. CASE NextCommit(r)
    <3>1. UNCHANGED <<seg, labels, attributed>> /\ UniqueActive(tasks')
      BY <2>3, NextCommitFacts DEF NextCommit
    <3>2. /\ tasks' \in Seq(Rows)
          /\ \A t \in DOMAIN tasks : t \in DOMAIN tasks' /\ tasks'[t].s = tasks[t].s
      BY <2>3, NextCommitFacts DEF StatusSet, TInv
    <3> QED
      BY <3>1, <3>2, SameTablesStay
  <2>4. CASE PotCommit(r)
    <3>1. req[r].at = "checked" /\ req[r].op = "pot" /\ UNCHANGED <<tasks, labels, attributed>>
          /\ seg' = [seg EXCEPT ![req[r].s].pot = req[r].arg]
      BY <2>4 DEF PotCommit
    <3>2. req[r].s \in Segments /\ req[r].arg \in Pots
      BY <3>1, OpenRequest DEF WellFormed
    <3>3. seg' \in [Segments -> Clips]
      BY <3>1, <3>2 DEF TInv, Clips
    <3>4. \A s \in Segments : Len(labels[s]) \in Nat
      BY LenProperties DEF TInv
    <3>5. UniqueActive(tasks') /\ tasks' \in Seq(Rows)
      BY <3>1 DEF TInv
    <3> QED
      BY <3>1, <3>3, <3>4, <3>5 DEF TablesStay, TInv
  <2>5. CASE BuildRefresh(r)
    <3>1. UNCHANGED <<seg, labels, attributed>>
      BY <2>5 DEF BuildRefresh
    <3>2. \E queue, hazard : QueueSet(req[r].t, queue, hazard)
      BY <2>5, RefreshFacts
    <3> QED
      BY <3>1, <3>2, UniqueKept, SameTablesStay
  <2>6. CASE BuildCreate(r)
    BY <2>6, CreateTables
  <2>7. CASE ReopenCommit(r)
    <3>1. UNCHANGED <<seg, labels, attributed>>
      BY <2>7 DEF ReopenCommit
    <3>2. /\ tasks' \in Seq(Rows) /\ UniqueActive(tasks')
          /\ \A t \in DOMAIN tasks : t \in DOMAIN tasks' /\ tasks'[t].s = tasks[t].s
      BY <2>7, ReopenFacts DEF TaskAdded, TInv
    <3> QED
      BY <3>1, <3>2, SameTablesStay
  <2> QED
    BY <1>3, <2>1, <2>2, <2>3, <2>4, <2>5, <2>6, <2>7 DEF Commit
<1> QED
  BY <1>1, <1>2, <1>3 DEF Next, vars

\* A request stays well formed while the tables stay.
LEMMA StaysWellFormed ==
    ASSUME TInv, TablesStay, NEW q, WellFormed(q, tasks, labels)
    PROVE  WellFormed(q, tasks', labels')
<1>1. q.s \in Segments /\ q.newer \in 0 .. Len(labels[q.s])
  BY DEF WellFormed
<1>2. Len(labels[q.s]) \in Nat
  BY <1>1, LenProperties DEF TInv
<1>3. q.newer \in 0 .. Len(labels'[q.s])
  BY <1>1, <1>2 DEF TablesStay
<1>4. q.t \in {0} \cup DOMAIN tasks' /\ (q.t # 0 => tasks'[q.t].s = tasks[q.t].s)
  BY DEF TablesStay, WellFormed
<1> QED
  BY <1>3, <1>4 DEF WellFormed

\* No request is a request row.
LEMMA IdleTyped == Idle \in RequestRows
BY DEF Idle, RequestRows, NoClip

\* A step that changes one request, to one that is idle or well formed.
LEMMA OneRequestTyped ==
    ASSUME TInv, TablesStay, NEW r \in Requests, NEW q \in RequestRows,
           q = Idle \/ WellFormed(q, tasks', labels'),
           req' = [req EXCEPT ![r] = q]
    PROVE  TInv'
<1>1. req' \in [Requests -> RequestRows]
  BY DEF TInv
<1>2. ASSUME NEW p \in Requests
      PROVE  req'[p] = Idle \/ WellFormed(req'[p], tasks', labels')
  BY StaysWellFormed DEF TInv
<1> QED
  BY <1>1, <1>2 DEF TInv, TablesStay

\* Closing a request keeps the others well formed.
LEMMA ClosedTyped ==
    ASSUME TInv, TablesStay, NEW r \in Requests, Closed(r)
    PROVE  TInv'
BY IdleTyped, OneRequestTyped DEF Closed

\* What a request may begin with.
Suitable(at, op, s, t, arg) ==
    /\ at \in {"loaded", "checked"} /\ op \in Ops /\ s \in Segments
    /\ t = 0 \/ (t \in DOMAIN tasks /\ tasks[t].s = s)
    /\ op \in Decisions => t # 0 /\ arg \in Tiers
    /\ op \in {"skip", "next"} => t # 0
    /\ op = "next" => tasks[t].status \in ActiveStatuses
    /\ op = "pot" => arg \in Pots
    /\ op = "build" => arg \in QueryArgs
    /\ arg \in Tiers \cup Pots \cup QueryArgs \cup {""}

\* A request begins: what it loads has the types of the tables.
LEMMA BeginsTyped ==
    ASSUME TInv, TablesStay, NEW r \in Requests,
           NEW at, NEW op, NEW s, NEW t, NEW arg, Suitable(at, op, s, t, arg),
           Begin(r, Loaded(at, op, s, t, arg))
    PROVE  TInv'
<1> DEFINE q == Loaded(at, op, s, t, arg)
<1>1. UNCHANGED <<tasks, labels>> /\ req' = [req EXCEPT ![r] = q]
  BY DEF Begin
<1>2. /\ s \in Segments /\ at \in {"loaded", "checked"} /\ op \in Ops
      /\ t = 0 \/ (t \in DOMAIN tasks /\ tasks[t].s = s)
      /\ arg \in Tiers \cup Pots \cup QueryArgs \cup {""}
  BY DEF Suitable
<1>3. t \in Nat /\ (t # 0 => tasks[t] \in Rows)
  <2>1. CASE t = 0
    BY <2>1
  <2>2. CASE t \in DOMAIN tasks
    BY <2>2, TaskRow
  <2> QED
    BY <1>2, <2>1, <2>2
<1>4. seg[s] \in Clips /\ 0 \in 0 .. Len(labels[s])
  <2>1. seg[s] \in Clips /\ labels[s] \in Seq(LabelRows)
    BY <1>2 DEF TInv
  <2>2. Len(labels[s]) \in Nat
    BY <2>1, LenProperties
  <2> QED
    BY <2>1, <2>2
<1>5. (IF t = 0 THEN NoRow ELSE tasks[t]) \in Rows \cup {NoRow}
  BY <1>3
<1>6. q \in RequestRows
  BY <1>2, <1>3, <1>4, <1>5 DEF Loaded, RequestRows
<1>7. /\ q.at = at /\ q.op = op /\ q.s = s /\ q.t = t /\ q.arg = arg /\ q.clip = seg[s]
      /\ q.newer = 0 /\ (t # 0 => q.row = tasks[t])
  BY DEF Loaded
<1> HIDE DEF q
<1>8. WellFormed(q, tasks, labels)
  <2>1. q.clip \in Clips /\ q.newer \in 0 .. Len(labels[q.s])
    BY <1>4, <1>7
  <2>2. t # 0 => q.row \in Rows /\ q.row.s = s /\ tasks[t].s = s
    BY <1>2, <1>3, <1>7
  <2> QED
    BY <1>2, <1>7, <2>1, <2>2 DEF WellFormed, Suitable
<1> QED
  BY <1>1, <1>6, <1>8, OneRequestTyped

\* A request that begins is well formed.
LEMMA StartTyped ==
    ASSUME TInv, TablesStay, NEW r \in Requests, Start(r)
    PROVE  TInv'
<1>1. \A t \in DOMAIN tasks : t # 0 /\ tasks[t].s \in Segments
  BY TaskRow
<1>2. ASSUME NEW t \in DOMAIN tasks, NEW op \in Decisions, NEW tier \in Tiers, DecideLoad(r, t, op, tier)
      PROVE  TInv'
  <2>1. Suitable("loaded", op, tasks[t].s, t, tier)
    BY <1>1 DEF Suitable, Ops, Decisions, Approvals
  <2> QED
    BY <1>2, <2>1, BeginsTyped DEF DecideLoad
<1>3. ASSUME NEW t \in DOMAIN tasks, SkipLoad(r, t)
      PROVE  TInv'
  <2>1. Suitable("loaded", "skip", tasks[t].s, t, "")
    BY <1>1 DEF Suitable, Ops, Decisions, Approvals
  <2> QED
    BY <1>3, <2>1, BeginsTyped DEF SkipLoad
<1>4. ASSUME NEW t \in DOMAIN tasks, NextLoad(r, t)
      PROVE  TInv'
  <2>1. Suitable("checked", "next", tasks[t].s, t, "")
    BY <1>1, <1>4 DEF Suitable, Ops, Decisions, Approvals, NextLoad
  <2> QED
    BY <1>4, <2>1, BeginsTyped DEF NextLoad
<1>5. ASSUME NEW s \in Segments, NEW pot \in Pots, PotLoad(r, s, pot)
      PROVE  TInv'
  <2>1. Suitable("loaded", "pot", s, 0, pot)
    BY DEF Suitable, Ops, Decisions, Approvals
  <2> QED
    BY <1>5, <2>1, BeginsTyped DEF PotLoad
<1>6. ASSUME NEW s \in Segments, NEW requeueDone \in BOOLEAN, NEW hazard \in {"none", "gate"},
             BuildLoad(r, s, requeueDone, hazard)
      PROVE  TInv'
  <2>1. Suitable("loaded", "build", s, 0, hazard)
    BY DEF Suitable, Ops, Decisions, Approvals, QueryArgs
  <2> QED
    BY <1>6, <2>1, BeginsTyped DEF BuildLoad
<1>7. ASSUME NEW s \in Segments, NEW op \in {"relabel", "queueSpeakers", "reopenSpeakers"},
             ReopenCheck(r, s, op)
      PROVE  TInv'
  <2>1. Suitable("checked", op, s, 0, "")
    BY DEF Suitable, Ops, Decisions, Approvals
  <2> QED
    BY <1>7, <2>1, BeginsTyped DEF ReopenCheck
<1> QED
  BY <1>2, <1>3, <1>4, <1>5, <1>6, <1>7 DEF Start

\* A request that passes its check stays well formed; one that fails is closed.
LEMMA PassTyped ==
    ASSUME TInv, TablesStay, NEW r \in Requests, NEW allowed, Pass(r, allowed)
    PROVE  TInv'
<1>1. CASE Closed(r)
  BY <1>1, ClosedTyped
<1>2. CASE req' = [req EXCEPT ![r].at = "checked"] /\ req[r].at = "loaded"
  <2> DEFINE q == [req[r] EXCEPT !.at = "checked"]
  <2>1. WellFormed(req[r], tasks, labels) /\ req[r] \in RequestRows
    BY <1>2, OpenRequest
  <2>2. q \in RequestRows
    BY <2>1 DEF RequestRows
  <2>3. /\ q.at = "checked" /\ q.op = req[r].op /\ q.s = req[r].s /\ q.t = req[r].t
        /\ q.arg = req[r].arg /\ q.row = req[r].row /\ q.clip = req[r].clip /\ q.newer = req[r].newer
    BY <2>1 DEF RequestRows
  <2>4. req' = [req EXCEPT ![r] = q]
    BY <1>2
  <2> HIDE DEF q
  <2>5. WellFormed(q, tasks, labels)
    BY <2>1, <2>3 DEF WellFormed
  <2> QED
    BY <2>2, <2>4, <2>5, StaysWellFormed, OneRequestTyped
<1> QED
  BY <1>1, <1>2 DEF Pass

\* What the queue builder finds is a task of its clip, or none.
LEMMA BuildCheckTyped ==
    ASSUME TInv, TablesStay, NEW r \in Requests, BuildCheck(r)
    PROVE  TInv'
<1>1. PICK t \in IF Active(req[r].s) = {} THEN {0} ELSE Active(req[r].s) :
        req' = [req EXCEPT ![r] = [req[r] EXCEPT !.at = "checked", !.t = t,
                                                 !.row = IF t = 0 THEN NoRow ELSE tasks[t]]]
  BY DEF BuildCheck
<1> DEFINE q == [req[r] EXCEPT !.at = "checked", !.t = t,
                               !.row = IF t = 0 THEN NoRow ELSE tasks[t]]
<1>2. req[r].at = "loaded" /\ req[r].op = "build"
  BY DEF BuildCheck
<1>3. WellFormed(req[r], tasks, labels) /\ req[r] \in RequestRows
  BY <1>2, OpenRequest
<1>4. t \in {0} \cup DOMAIN tasks /\ (t # 0 => tasks[t].s = req[r].s)
  BY DEF Active
<1>5. t \in Nat /\ (t # 0 => tasks[t] \in Rows)
  BY <1>4, TaskRow
<1>6. (IF t = 0 THEN NoRow ELSE tasks[t]) \in Rows \cup {NoRow}
  BY <1>5
<1>7. q \in RequestRows
  BY <1>3, <1>5, <1>6 DEF RequestRows
<1>8. /\ q.at = "checked" /\ q.op = "build" /\ q.s = req[r].s /\ q.t = t
      /\ q.arg = req[r].arg /\ (t # 0 => q.row = tasks[t]) /\ q.clip = req[r].clip
      /\ q.newer = req[r].newer
  BY <1>2, <1>3 DEF RequestRows
<1> HIDE DEF q
<1>9. WellFormed(q, tasks, labels)
  BY <1>2, <1>3, <1>4, <1>5, <1>8 DEF WellFormed, Decisions, Approvals
<1> QED
  BY <1>1, <1>7, <1>9, StaysWellFormed, OneRequestTyped DEF q

\* A committed decision ends its request; the others on its clip learn of a newer label.
LEMMA DecideTyped ==
    ASSUME TInv, TablesStay, NEW r \in Requests, DecideCommit(r)
    PROVE  TInv'
<1> DEFINE q == req[r]
<1>1. q.at = "checked" /\ q.op \in Decisions
  BY DEF DecideCommit
<1>2. WellFormed(q, tasks, labels)
  BY <1>1, OpenRequest
<1>3. q.s \in Segments
  BY <1>2 DEF WellFormed
<1>4. CASE Closed(r)
  BY <1>4, ClosedTyped
<1>5. CASE q.row.queue # "speakers"
  <2> DEFINE older == {p \in Requests : \E i, k \in DOMAIN open :
                          i < k /\ open[i] = p /\ open[k] = r /\ req[p].s = q.s}
  <2>1. req' = [p \in Requests |-> IF p = r THEN Idle
                                   ELSE IF p \in older THEN [req[p] EXCEPT !.newer = @ + 1]
                                   ELSE req[p]]
    BY <1>5 DEF DecideCommit
  <2>2. Len(labels'[q.s]) = Len(labels[q.s]) + 1 /\ Len(labels[q.s]) \in Nat
    BY <1>1, <1>5, DecideCommitFacts, OpenRequest DEF LabelAdded
  <2>3. ASSUME NEW p \in Requests
        PROVE  /\ req'[p] \in RequestRows
               /\ req'[p] = Idle \/ WellFormed(req'[p], tasks', labels')
    <3>1. CASE p = r
      BY <2>1, <3>1, IdleTyped
    <3>2. CASE p # r /\ p \in older
      <4> DEFINE new == [req[p] EXCEPT !.newer = @ + 1]
      <4>1. req[p] \in RequestRows /\ req[p].s = q.s
        BY <3>2 DEF TInv
      <4>2. WellFormed(req[p], tasks, labels)
        <5>1. Idle.s = ""
          BY DEF Idle
        <5> QED
          BY <1>3, <4>1, <5>1, SegmentsAssumption DEF TInv
      <4>3. WellFormed(req[p], tasks', labels')
        BY <4>2, StaysWellFormed
      <4>4. new \in RequestRows
        <5> DEFINE n == req[p].newer + 1
        <5>1. n \in Nat
          <6>1. req[p].newer \in Nat
            BY <4>1 DEF RequestRows
          <6> HIDE DEF older
          <6> QED
            BY <6>1
        <5> HIDE DEF n, older
        <5>2. [req[p] EXCEPT !.newer = n] \in RequestRows
          BY <4>1, <5>1 DEF RequestRows
        <5> QED
          BY <5>2 DEF n
      <4>5. /\ new.at = req[p].at /\ new.op = req[p].op /\ new.s = req[p].s /\ new.t = req[p].t
            /\ new.arg = req[p].arg /\ new.row = req[p].row /\ new.clip = req[p].clip
            /\ new.newer = req[p].newer + 1
        BY <4>1 DEF RequestRows
      <4>6. req'[p] = new
        BY <2>1, <3>2
      <4> HIDE DEF new
      <4>7. new.newer \in 0 .. Len(labels'[new.s])
        BY <2>2, <4>1, <4>2, <4>5 DEF WellFormed
      <4>8. WellFormed(new, tasks', labels')
        BY <4>3, <4>5, <4>7 DEF WellFormed
      <4> QED
        BY <4>4, <4>6, <4>8
    <3>3. CASE p # r /\ p \notin older
      <4>1. req'[p] = req[p]
        BY <2>1, <3>3
      <4> QED
        BY <4>1, StaysWellFormed DEF TInv
    <3> QED
      BY <3>1, <3>2, <3>3
  <2>4. req' \in [Requests -> RequestRows]
    BY <2>1, <2>3
  <2> QED
    BY <2>3, <2>4 DEF TInv, TablesStay
<1> QED
  BY <1>4, <1>5 DEF DecideCommit

\* Types and the unique index survive every step.
LEMMA TypeInductive ==
    ASSUME TInv, UniqueActive(tasks), [Next]_vars
    PROVE  TInv' /\ UniqueActive(tasks')
<1>1. TablesStay
  BY TablesKept
<1>2. CASE UNCHANGED vars
  BY <1>1, <1>2 DEF vars, TInv, TablesStay
<1>3. ASSUME NEW r \in Requests, Check(r)
      PROVE  TInv'
  BY <1>1, <1>3, PassTyped, BuildCheckTyped DEF Check, DecideCheck, SkipCheck, PotCheck
<1>4. ASSUME NEW r \in Requests, Commit(r)
      PROVE  TInv'
  BY <1>1, <1>4, DecideTyped, ClosedTyped
    DEF Commit, SkipCommit, NextCommit, PotCommit, BuildRefresh, BuildCreate, ReopenCommit
<1>5. UniqueActive(tasks')
  BY <1>1 DEF TablesStay
<1> QED
  BY <1>1, <1>2, <1>3, <1>4, <1>5, StartTyped DEF Next

\* The tables start typed, with no task twice.
LEMMA TypeInit == Init => TInv /\ UniqueActive(tasks)
<1> SUFFICES ASSUME Init PROVE TInv /\ UniqueActive(tasks)
  OBVIOUS
<1>1. seg \in [Segments -> Clips]
  BY DEF Init, Clips, Pots
<1>2. tasks \in Seq(Rows) /\ DOMAIN tasks = {}
  BY LenProperties DEF Init
<1>3. labels \in [Segments -> Seq(LabelRows)]
  BY DEF Init
<1>4. req \in [Requests -> RequestRows]
  BY IdleTyped DEF Init
<1>5. UniqueActive(tasks)
  BY <1>2 DEF UniqueActive
<1> QED
  BY <1>1, <1>2, <1>3, <1>4, <1>5 DEF Init, TInv

\* The tables hold rows of their types, and each open request is between two of its steps.
THEOREM TypeCorrect == Spec => []TypeOK
<1>1. Init => TInv /\ UniqueActive(tasks)
  BY TypeInit
<1>2. TInv /\ UniqueActive(tasks) /\ [Next]_vars => (TInv /\ UniqueActive(tasks))'
  BY TypeInductive
<1>3. TInv => TypeOK
  BY DEF TInv, TypeOK, WellFormed, LabelRows
<1> QED
  BY <1>1, <1>2, <1>3, PTL DEF Spec

-----------------------------------------------------------------------------
(***************************************************************************)
(* What holds whatever requests overlap.                                   *)
(***************************************************************************)
\* A clip that counts as labelled has a label in its list.
LEMMA LabelledHasLabel ==
    ASSUME TInv, NEW s \in Segments
    PROVE  Labelled(s) <=> HasLabel(labels, s)
BY LastLabel DEF TInv, HasLabel

\* A labelled clip stays labelled.
LEMMA StaysLabelled ==
    ASSUME TInv, TablesStay, NEW s \in Segments, HasLabel(labels, s)
    PROVE  HasLabel(labels', s)
<1>1. Len(labels[s]) \in Nat
  BY LenProperties DEF TInv
<1> QED
  BY <1>1 DEF TablesStay, HasLabel

\* A commit ends its request; what the others loaded stays as it is.
LEMMA OthersStay ==
    ASSUME TInv, NEW r \in Requests, Commit(r)
    PROVE  /\ req'[r] = Idle
           /\ \A p \in Requests \ {r} :
                /\ req'[p].at = req[p].at /\ req'[p].op = req[p].op /\ req'[p].s = req[p].s
                /\ req'[p].t = req[p].t /\ req'[p].arg = req[p].arg /\ req'[p].row = req[p].row
                /\ req'[p].clip = req[p].clip
<1>1. CASE Closed(r)
  BY <1>1 DEF Closed, TInv
<1>2. CASE DecideCommit(r) /\ req[r].row.queue # "speakers"
  <2> DEFINE older == {p \in Requests : \E i, k \in DOMAIN open :
                          i < k /\ open[i] = p /\ open[k] = r /\ req[p].s = req[r].s}
  <2>1. req' = [p \in Requests |-> IF p = r THEN Idle
                                   ELSE IF p \in older THEN [req[p] EXCEPT !.newer = @ + 1]
                                   ELSE req[p]]
    BY <1>2 DEF DecideCommit
  <2> HIDE DEF older
  <2>2. ASSUME NEW p \in Requests \ {r}
        PROVE  req'[p] = req[p] \/ req'[p] = [req[p] EXCEPT !.newer = @ + 1]
    BY <2>1
  <2>3. \A p \in Requests : req[p] \in RequestRows
    BY DEF TInv
  <2>4. ASSUME NEW q \in RequestRows, NEW n
        PROVE  LET new == [q EXCEPT !.newer = n]
               IN  /\ new.at = q.at /\ new.op = q.op /\ new.s = q.s /\ new.t = q.t
                   /\ new.arg = q.arg /\ new.row = q.row /\ new.clip = q.clip
    BY DEF RequestRows
  <2> QED
    BY <2>1, <2>2, <2>3, <2>4
<1> QED
  BY <1>1, <1>2
    DEF Commit, DecideCommit, SkipCommit, NextCommit, PotCommit, BuildRefresh, BuildCreate, ReopenCommit

\* A request that commits is at its last step.
LEMMA CommitsChecked ==
    ASSUME NEW r \in Requests, Commit(r)
    PROVE  req[r].at = "checked"
BY DEF Commit, DecideCommit, SkipCommit, NextCommit, PotCommit, BuildRefresh, BuildCreate, ReopenCommit

\* A decision leaves its clip labelled, by this label or an earlier one.
LEMMA DecidedIsLabelled ==
    ASSUME TInv, TablesStay, SpeakersAreLabelled, NEW r \in Requests, DecideCommit(r)
    PROVE  HasLabel(labels', req[r].s)
<1> DEFINE q == req[r]
<1>1. q.at = "checked" /\ q.op \in Decisions
  BY DEF DecideCommit
<1>2. WellFormed(q, tasks, labels) /\ Len(labels[q.s]) \in Nat
  BY <1>1, OpenRequest
<1>3. q.s \in Segments /\ q.t # 0
  BY <1>1, <1>2 DEF WellFormed
<1>4. CASE q.row.queue = "speakers"
  <2>1. HasLabel(labels, q.s)
    BY <1>1, <1>3, <1>4 DEF SpeakersAreLabelled
  <2> QED
    BY <1>3, <2>1, StaysLabelled
<1>5. CASE q.row.queue # "speakers"
  <2>1. Len(labels'[q.s]) = Len(labels[q.s]) + 1
    BY <1>5, DecideCommitFacts DEF LabelAdded
  <2> QED
    BY <1>2, <2>1 DEF HasLabel
<1> QED
  BY <1>4, <1>5

\* What every row of the tasks is, after a commit: the row it was, one whose status or queue
\* was written, or a new one.
LEMMA RowAfterCommit ==
    ASSUME TInv, UniqueActive(tasks), NEW r \in Requests, Commit(r), NEW t \in DOMAIN tasks'
    PROVE  \/ /\ t \in DOMAIN tasks /\ tasks'[t].s = tasks[t].s
              /\ tasks'[t].queue = "speakers" => tasks[t].queue = "speakers"
              /\ \/ tasks'[t].status \in {tasks[t].status, "skipped", "in_progress"}
                 \/ DecideCommit(r) /\ t = req[r].t /\ tasks'[t].status = "done"
           \/ /\ BuildCreate(r) \/ ReopenCommit(r)
              /\ tasks'[t].s = req[r].s /\ tasks'[t].status = "pending"
              /\ tasks'[t].queue = "speakers" => req[r].op \in {"queueSpeakers", "reopenSpeakers"}
<1>1. CASE DecideCommit(r)
  BY <1>1, DecideCommitFacts DEF StatusSet
<1>2. CASE SkipCommit(r)
  BY <1>2, SkipCommitFacts DEF StatusSet
<1>3. CASE NextCommit(r)
  BY <1>3, NextCommitFacts DEF StatusSet
<1>4. CASE PotCommit(r)
  BY <1>4 DEF PotCommit
<1>5. CASE BuildRefresh(r)
  <2>1. PICK queue, hazard :
          QueueSet(req[r].t, queue, hazard) /\ queue = Written("review", req[r].row.queue, tasks[req[r].t].queue)
    BY <1>5, RefreshFacts
  <2>2. tasks'[t].queue = "speakers" => tasks[t].queue = "speakers"
    BY <2>1 DEF QueueSet, Written
  <2> QED
    BY <2>1, <2>2 DEF QueueSet
<1>6. CASE BuildCreate(r)
  <2>1. CASE tasks' = tasks
    BY <2>1
  <2>2. CASE TaskAdded(Task(req[r].s, "review", req[r].arg))
    BY <1>6, <2>2 DEF TaskAdded, Task
  <2> QED
    BY <1>6, <2>1, <2>2, CreateFacts
<1>7. CASE ReopenCommit(r)
  <2>1. CASE tasks' = tasks
    BY <2>1
  <2>2. CASE TaskAdded(NewTask(req[r]))
    <3>1. /\ NewTask(req[r]).s = req[r].s /\ NewTask(req[r]).status = "pending"
          /\ NewTask(req[r]).queue = "speakers" => req[r].op # "relabel"
      BY DEF NewTask, Task
    <3>2. req[r].op \in {"relabel", "queueSpeakers", "reopenSpeakers"}
      BY <1>7 DEF ReopenCommit
    <3> QED
      BY <1>7, <2>2, <3>1, <3>2 DEF TaskAdded
  <2> QED
    BY <1>7, <2>1, <2>2, ReopenFacts
<1> QED
  BY <1>1, <1>2, <1>3, <1>4, <1>5, <1>6, <1>7 DEF Commit

\* Only a decision writes the labels, and the lifecycle of a clip past its queue.
LEMMA OthersWriteNoLabel ==
    ASSUME NEW r \in Requests, Commit(r), ~DecideCommit(r)
    PROVE  UNCHANGED <<labels, attributed>>
BY DEF Commit, SkipCommit, NextCommit, PotCommit, BuildRefresh, BuildCreate, ReopenCommit

\* A speakers request is only ever open on a labelled clip.
LEMMA SpeakersInductive ==
    ASSUME TInv, TablesStay, UniqueActive(tasks), SpeakersAreLabelled,
           NEW r \in Requests, Commit(r)
    PROVE  SpeakersAreLabelled'
<1>1. req[r].at = "checked" /\ req[r].s \in Segments
  BY CommitsChecked, OpenRequest DEF WellFormed
<1>2. \A s \in Segments : HasLabel(labels, s) => HasLabel(labels', s)
  BY StaysLabelled
<1>3. ASSUME NEW t \in DOMAIN tasks', tasks'[t].queue = "speakers"
      PROVE  HasLabel(labels', tasks'[t].s)
  <2>1. CASE t \in DOMAIN tasks /\ tasks'[t].s = tasks[t].s /\ tasks[t].queue = "speakers"
    BY <1>2, <2>1, TaskRow DEF SpeakersAreLabelled
  <2>2. CASE tasks'[t].s = req[r].s /\ req[r].op \in {"queueSpeakers", "reopenSpeakers"}
    BY <1>1, <1>2, <2>2 DEF SpeakersAreLabelled
  <2> QED
    BY <1>3, <2>1, <2>2, RowAfterCommit
<1>4. ASSUME NEW t \in attributed'
      PROVE  HasLabel(labels', tasks'[t].s)
  <2>1. \A u \in attributed : HasLabel(labels', tasks'[u].s)
    <3>1. ASSUME NEW u \in attributed
          PROVE  u \in DOMAIN tasks /\ tasks'[u].s = tasks[u].s /\ tasks[u].s \in Segments
      BY TaskRow DEF TInv, TablesStay
    <3> QED
      BY <1>2, <3>1 DEF SpeakersAreLabelled
  <2>2. CASE DecideCommit(r)
    <3>1. attributed' \subseteq attributed \cup {req[r].t} /\ tasks'[req[r].t].s = req[r].s
      BY <2>2, DecideCommitFacts DEF StatusSet
    <3> QED
      BY <2>1, <2>2, <3>1, DecidedIsLabelled
  <2>3. CASE ~DecideCommit(r)
    BY <2>1, <2>3, OthersWriteNoLabel
  <2> QED
    BY <2>2, <2>3
<1>5. ASSUME NEW p \in Requests, req'[p].at # "idle"
      PROVE  /\ req'[p].t # 0 /\ req'[p].row.queue = "speakers" => HasLabel(labels', req'[p].s)
             /\ req'[p].op \in {"queueSpeakers", "reopenSpeakers"} => HasLabel(labels', req'[p].s)
  <2>1. p # r
    <3>1. Idle.at = "idle"
      BY DEF Idle
    <3> QED
      BY <1>5, <3>1, OthersStay
  <2>2. /\ req'[p].at = req[p].at /\ req'[p].op = req[p].op /\ req'[p].s = req[p].s
        /\ req'[p].t = req[p].t /\ req'[p].row = req[p].row
    BY <2>1, OthersStay
  <2>3. req[p].s \in Segments
    BY <1>5, <2>2, OpenRequest DEF WellFormed
  <2> QED
    BY <1>2, <1>5, <2>2, <2>3 DEF SpeakersAreLabelled
<1> QED
  BY <1>3, <1>4, <1>5 DEF SpeakersAreLabelled

\* A clip whose task is finished stays labelled.
LEMMA FinishedInductive ==
    ASSUME TInv, TablesStay, UniqueActive(tasks), SpeakersAreLabelled, FinishedIsLabelled,
           NEW r \in Requests, Commit(r)
    PROVE  FinishedIsLabelled'
<1>1. req[r].s \in Segments
  BY CommitsChecked, OpenRequest DEF WellFormed
<1>2. \A s \in Segments : HasLabel(labels, s) => HasLabel(labels', s)
  BY StaysLabelled
<1>3. ASSUME NEW t \in DOMAIN tasks', tasks'[t].status = "done"
      PROVE  HasLabel(labels', tasks'[t].s)
  <2>1. CASE t \in DOMAIN tasks /\ tasks'[t].s = tasks[t].s /\ tasks[t].status = "done"
    BY <1>2, <2>1, TaskRow DEF FinishedIsLabelled
  <2>2. CASE DecideCommit(r) /\ t = req[r].t
    <3>1. tasks'[t].s = req[r].s
      BY <2>2, DecideCommitFacts DEF StatusSet
    <3> QED
      BY <2>2, <3>1, DecidedIsLabelled
  <2> QED
    BY <1>3, <2>1, <2>2, RowAfterCommit
<1>4. ASSUME NEW s \in Segments, seg'[s].pipe \notin {"imported", "queued"}
      PROVE  HasLabel(labels', s)
  <2>1. CASE DecideCommit(r)
    <3>1. s = req[r].s \/ seg'[s] = seg[s]
      BY <2>1, DecideCommitFacts DEF TInv
    <3> QED
      BY <1>2, <1>4, <2>1, <3>1, DecidedIsLabelled DEF FinishedIsLabelled
  <2>2. CASE PotCommit(r)
    <3>1. seg' = [seg EXCEPT ![req[r].s].pot = req[r].arg]
      BY <2>2 DEF PotCommit
    <3>2. seg'[s].pipe = seg[s].pipe
      BY <1>1, <3>1 DEF TInv, Clips
    <3> QED
      BY <1>2, <1>4, <3>2 DEF FinishedIsLabelled
  <2>3. CASE BuildCreate(r)
    <3>1. seg'[s].pipe \in {seg[s].pipe, "queued"}
      <4>1. [seg EXCEPT ![req[r].s].pipe = "queued"][s].pipe \in {seg[s].pipe, "queued"}
        BY <1>1 DEF TInv, Clips
      <4> QED
        BY <2>3, <4>1, CreateFacts
    <3> QED
      BY <1>2, <1>4, <3>1 DEF FinishedIsLabelled
  <2>4. CASE seg' = seg
    BY <1>2, <1>4, <2>4 DEF FinishedIsLabelled
  <2> QED
    BY <2>1, <2>2, <2>3, <2>4 DEF Commit, SkipCommit, NextCommit, BuildRefresh, ReopenCommit
<1> QED
  BY <1>3, <1>4 DEF FinishedIsLabelled

\* A label stays a label of its clip.
LEMMA LabelStays ==
    ASSUME TInv, NEW r \in Requests, Commit(r), NEW s \in Segments, NEW i \in DOMAIN labels[s]
    PROVE  \E k \in DOMAIN labels'[s] : labels'[s][k] = labels[s][i]
<1>1. CASE labels' = labels
  BY <1>1
<1>2. CASE DecideCommit(r) /\ req[r].row.queue # "speakers"
  <2> DEFINE q == req[r]
  <2>1. q.at = "checked" /\ WellFormed(q, tasks, labels) /\ labels[q.s] \in Seq(LabelRows)
    BY CommitsChecked, OpenRequest
  <2>2. LabelAdded(q.s, q.newer, [op |-> q.op, tier |-> q.arg, task |-> q.t])
    BY <1>2, DecideCommitFacts
  <2>3. CASE s # q.s
    BY <2>2, <2>3 DEF LabelAdded
  <2>4. CASE s = q.s
    <3> DEFINE n == Len(labels[s])
               old == labels[s]
               new == labels'[s]
    <3>1. i \in 1 .. n /\ n \in Nat
      BY <2>1, <2>4, LenProperties
    <3>2. DOMAIN new = 1 .. n + 1
      BY <2>2, <2>4, LenProperties DEF LabelAdded
    <3>3. q.newer \in 0 .. n
      BY <2>1, <2>4 DEF WellFormed
    <3>4. \A k \in 1 .. n + 1 : \/ k = n + 1 - q.newer
                                \/ new[k] = IF k < n + 1 - q.newer THEN old[k] ELSE old[k - 1]
      BY <2>2, <2>4 DEF LabelAdded
    <3> HIDE DEF n, old, new
    <3>5. CASE i < n + 1 - q.newer
      BY <3>1, <3>2, <3>3, <3>4, <3>5 DEF old, new
    <3>6. CASE ~(i < n + 1 - q.newer)
      <4>1. i + 1 \in 1 .. n + 1 /\ ~(i + 1 < n + 1 - q.newer) /\ i + 1 # n + 1 - q.newer /\ (i + 1) - 1 = i
        BY <3>1, <3>3, <3>6
      <4>2. new[i + 1] = old[(i + 1) - 1]
        BY <3>4, <4>1
      <4> QED
        BY <3>2, <4>1, <4>2 DEF old, new
    <3> QED
      BY <3>5, <3>6
  <2> QED
    BY <2>3, <2>4
<1> QED
  BY <1>1, <1>2, OthersWriteNoLabel, DecideCommitFacts

\* The label a decision of the words leaves.
LEMMA NewLabel ==
    ASSUME TInv, NEW r \in Requests, DecideCommit(r), req[r].row.queue # "speakers"
    PROVE  \E k \in DOMAIN labels'[req[r].s] : labels'[req[r].s][k].task = req[r].t
<1> DEFINE q == req[r]
           n == Len(labels[q.s])
<1>1. q.at = "checked"
  BY DEF DecideCommit
<1>2. WellFormed(q, tasks, labels) /\ n \in Nat
  BY <1>1, OpenRequest
<1>3. q.newer \in 0 .. n /\ q.s \in Segments
  BY <1>2 DEF WellFormed
<1>4. LabelAdded(q.s, q.newer, [op |-> q.op, tier |-> q.arg, task |-> q.t])
  BY DecideCommitFacts
<1>5. DOMAIN labels'[q.s] = 1 .. n + 1
  BY <1>3, <1>4, LenProperties DEF LabelAdded
<1> HIDE DEF n
<1>6. n + 1 - q.newer \in 1 .. n + 1
  BY <1>2, <1>3
<1>7. labels'[q.s][n + 1 - q.newer] = [op |-> q.op, tier |-> q.arg, task |-> q.t]
  BY <1>2, <1>3, <1>4, <1>6 DEF LabelAdded, n
<1> QED
  BY <1>5, <1>6, <1>7

\* A task that says labelled keeps the label it was finished with.
LEMMA DoneInductive ==
    ASSUME TInv, TablesStay, UniqueActive(tasks), DoneTaskHasLabel, NEW r \in Requests, Commit(r)
    PROVE  DoneTaskHasLabel'
<1>1. \A t \in attributed : t \in attributed'
  BY OthersWriteNoLabel, DecideCommitFacts
<1>2. ASSUME NEW t \in DOMAIN tasks', tasks'[t].status = "done"
      PROVE  \/ t \in attributed'
             \/ \E i \in DOMAIN labels'[tasks'[t].s] : labels'[tasks'[t].s][i].task = t
  <2>1. CASE t \in DOMAIN tasks /\ tasks'[t].s = tasks[t].s /\ tasks[t].status = "done"
    <3>1. CASE t \in attributed
      BY <1>1, <3>1
    <3>2. CASE \E i \in DOMAIN labels[tasks[t].s] : labels[tasks[t].s][i].task = t
      <4>1. PICK i \in DOMAIN labels[tasks[t].s] : labels[tasks[t].s][i].task = t
        BY <3>2
      <4>2. tasks[t].s \in Segments
        BY <2>1, TaskRow
      <4>3. PICK k \in DOMAIN labels'[tasks[t].s] : labels'[tasks[t].s][k] = labels[tasks[t].s][i]
        BY <4>2, LabelStays
      <4> QED
        BY <2>1, <4>1, <4>3
    <3> QED
      BY <2>1, <3>1, <3>2 DEF DoneTaskHasLabel
  <2>2. CASE DecideCommit(r) /\ t = req[r].t
    <3>1. tasks'[t].s = req[r].s
      BY <2>2, DecideCommitFacts DEF StatusSet
    <3>2. CASE req[r].row.queue = "speakers"
      BY <2>2, <3>1, <3>2, DecideCommitFacts
    <3>3. CASE req[r].row.queue # "speakers"
      BY <2>2, <3>1, <3>3, NewLabel
    <3> QED
      BY <3>2, <3>3
  <2> QED
    BY <1>2, <2>1, <2>2, RowAfterCommit
<1> QED
  BY <1>2 DEF DoneTaskHasLabel

\* The steps that commit nothing: a speakers request is only begun on a labelled clip.
LEMMA SpeakersBegin ==
    ASSUME TInv, SpeakersAreLabelled, NEW r \in Requests, Start(r) \/ Check(r)
    PROVE  SpeakersAreLabelled'
<1>1. UNCHANGED <<seg, tasks, labels, attributed>>
  BY DEF Start, DecideLoad, SkipLoad, NextLoad, PotLoad, BuildLoad, ReopenCheck, Begin,
         Check, DecideCheck, SkipCheck, PotCheck, BuildCheck, Pass
<1> DEFINE Fine(q) == q.at # "idle" =>
              /\ q.t # 0 /\ q.row.queue = "speakers" => HasLabel(labels, q.s)
              /\ q.op \in {"queueSpeakers", "reopenSpeakers"} => HasLabel(labels, q.s)
<1>2. \A p \in Requests : Fine(req[p]) /\ req[p] \in RequestRows
  BY DEF SpeakersAreLabelled, TInv
<1>3. Fine(Idle)
  BY DEF Idle
<1>4. \A t \in DOMAIN tasks : tasks[t].queue = "speakers" => HasLabel(labels, tasks[t].s)
  BY DEF SpeakersAreLabelled
<1>5. ASSUME NEW at, NEW op, NEW s, NEW t, NEW arg, Begin(r, Loaded(at, op, s, t, arg)),
             t # 0 => t \in DOMAIN tasks /\ tasks[t].s = s,
             op \in {"queueSpeakers", "reopenSpeakers"} => HasLabel(labels, s)
      PROVE  \A p \in Requests : Fine(req'[p])
  <2>1. Fine(Loaded(at, op, s, t, arg))
    BY <1>4, <1>5 DEF Loaded
  <2> HIDE DEF Fine
  <2> QED
    BY <1>2, <1>5, <2>1 DEF Begin, TInv
<1>6. ASSUME NEW allowed, Pass(r, allowed)
      PROVE  \A p \in Requests : Fine(req'[p])
  <2>1. req[r].at = "loaded" => Fine([req[r] EXCEPT !.at = "checked"])
    BY <1>2 DEF RequestRows
  <2> HIDE DEF Fine
  <2> QED
    BY <1>2, <1>3, <1>6, <2>1 DEF Pass, Closed, TInv
<1>7. ASSUME BuildCheck(r)
      PROVE  \A p \in Requests : Fine(req'[p])
  <2>1. PICK t \in IF Active(req[r].s) = {} THEN {0} ELSE Active(req[r].s) :
          req' = [req EXCEPT ![r] = [req[r] EXCEPT !.at = "checked", !.t = t,
                                                   !.row = IF t = 0 THEN NoRow ELSE tasks[t]]]
    BY <1>7 DEF BuildCheck
  <2>2. t = 0 \/ (t \in DOMAIN tasks /\ tasks[t].s = req[r].s)
    BY DEF Active
  <2> DEFINE q == [req[r] EXCEPT !.at = "checked", !.t = t,
                                 !.row = IF t = 0 THEN NoRow ELSE tasks[t]]
  <2>3. q.op = "build" /\ q.t = t /\ q.s = req[r].s /\ (t # 0 => q.row = tasks[t])
    BY <1>2, <1>7 DEF RequestRows, BuildCheck
  <2> HIDE DEF q
  <2>4. Fine(q)
    BY <1>4, <2>2, <2>3
  <2> HIDE DEF Fine
  <2> QED
    BY <1>1, <1>2, <2>1, <2>4 DEF q, TInv
<1>8. \A p \in Requests : Fine(req'[p])
  <2> HIDE DEF Fine
  <2>1. CASE Check(r)
    BY <1>6, <1>7, <2>1 DEF Check, DecideCheck, SkipCheck, PotCheck
  <2>2. ASSUME NEW t \in DOMAIN tasks, NEW op \in Decisions, NEW tier \in Tiers, DecideLoad(r, t, op, tier)
        PROVE  \A p \in Requests : Fine(req'[p])
    <3>1. op \notin {"queueSpeakers", "reopenSpeakers"}
      BY DEF Decisions, Approvals
    <3> QED
      BY <1>5, <2>2, <3>1 DEF DecideLoad
  <2>3. ASSUME NEW t \in DOMAIN tasks, SkipLoad(r, t) \/ NextLoad(r, t)
        PROVE  \A p \in Requests : Fine(req'[p])
    BY <1>5, <2>3 DEF SkipLoad, NextLoad
  <2>4. ASSUME NEW s \in Segments, NEW pot \in Pots, PotLoad(r, s, pot)
        PROVE  \A p \in Requests : Fine(req'[p])
    BY <1>5, <2>4 DEF PotLoad
  <2>5. ASSUME NEW s \in Segments, NEW requeueDone \in BOOLEAN, NEW hazard \in {"none", "gate"},
               BuildLoad(r, s, requeueDone, hazard)
        PROVE  \A p \in Requests : Fine(req'[p])
    BY <1>5, <2>5 DEF BuildLoad
  <2>6. ASSUME NEW s \in Segments, NEW op \in {"relabel", "queueSpeakers", "reopenSpeakers"},
               ReopenCheck(r, s, op)
        PROVE  \A p \in Requests : Fine(req'[p])
    <3>1. op \in {"queueSpeakers", "reopenSpeakers"} => Labelled(s) \/ Attributed(s)
      BY <2>6 DEF ReopenCheck, Reopenable, Approved, Labelled
    <3>2. op \in {"queueSpeakers", "reopenSpeakers"} => HasLabel(labels, s)
      BY <3>1, LabelledHasLabel DEF SpeakersAreLabelled, Attributed
    <3> QED
      BY <1>5, <2>6, <3>2 DEF ReopenCheck
  <2> QED
    BY <2>1, <2>2, <2>3, <2>4, <2>5, <2>6 DEF Start
<1> QED
  BY <1>1, <1>8 DEF SpeakersAreLabelled

\* The first state satisfies what holds for any overlap of requests.
LEMMA OverlapInit == Init => OInv
<1> SUFFICES ASSUME Init PROVE OInv
  OBVIOUS
<1>1. TInv /\ UniqueActive(tasks)
  BY TypeInit
<1>2. DOMAIN tasks = {} /\ attributed = {} /\ \A r \in Requests : req[r].at = "idle"
  <2>1. Idle.at = "idle"
    BY DEF Idle
  <2> QED
    BY <2>1 DEF Init
<1>3. \A s \in Segments : seg[s].pipe = "imported"
  BY DEF Init
<1> QED
  BY <1>1, <1>2, <1>3 DEF OInv, SpeakersAreLabelled, FinishedIsLabelled, DoneTaskHasLabel

\* Every step keeps what holds for any overlap of requests.
LEMMA OverlapInductive ==
    ASSUME OInv, [Next]_vars
    PROVE  OInv'
<1>1. TInv' /\ UniqueActive(tasks') /\ TablesStay
  BY TypeInductive, TablesKept DEF OInv
<1>2. CASE UNCHANGED vars
  BY <1>1, <1>2 DEF OInv, vars, SpeakersAreLabelled, FinishedIsLabelled, DoneTaskHasLabel
<1>3. ASSUME NEW r \in Requests, Start(r) \/ Check(r)
      PROVE  OInv'
  <2>1. UNCHANGED <<seg, tasks, labels, attributed>>
    BY <1>3 DEF Start, DecideLoad, SkipLoad, NextLoad, PotLoad, BuildLoad, ReopenCheck, Begin,
                Check, DecideCheck, SkipCheck, PotCheck, BuildCheck, Pass
  <2>2. SpeakersAreLabelled'
    BY <1>3, SpeakersBegin DEF OInv
  <2> QED
    BY <1>1, <2>1, <2>2 DEF OInv, FinishedIsLabelled, DoneTaskHasLabel
<1>4. ASSUME NEW r \in Requests, Commit(r)
      PROVE  OInv'
  BY <1>1, <1>4, SpeakersInductive, FinishedInductive, DoneInductive DEF OInv
<1> QED
  BY <1>2, <1>3, <1>4 DEF Next

\* What holds for any overlap of requests, for every behaviour.
LEMMA Overlapping == Spec => []OInv
BY OverlapInit, OverlapInductive, PTL DEF Spec

\* A finished task says so only when its decision was recorded, whatever requests overlap.
THEOREM FinishedTasksHaveLabels == Spec => []DoneTaskHasLabel
<1>1. OInv => DoneTaskHasLabel
  BY DEF OInv
<1> QED
  BY <1>1, Overlapping, PTL

\* Until it has its first label, a clip is one the next queue build takes, whatever was skipped,
\* served or refused before, and whatever requests overlap.
THEOREM UnlabelledClipsComeBack == Spec => []UnlabelledComesBack
<1>1. ASSUME OInv PROVE UnlabelledComesBack
  <2>1. ASSUME NEW s \in Segments, ~Labelled(s)
        PROVE  Considered(s, FALSE)
    <3>1. ~HasLabel(labels, s)
      BY <1>1, <2>1, LabelledHasLabel DEF OInv
    <3>2. seg[s].pipe \in {"imported", "queued"} /\ Done(s) = {}
      BY <1>1, <3>1 DEF OInv, FinishedIsLabelled, Done
    <3> QED
      BY <3>2 DEF Considered
  <2> QED
    BY <2>1 DEF UnlabelledComesBack
<1> QED
  BY <1>1, Overlapping, PTL

-----------------------------------------------------------------------------
(***************************************************************************)
(* What holds when requests about one clip follow one another.             *)
(***************************************************************************)
\* The fields of a request slot in which nothing is open.
LEMMA IdleFields == Idle.at = "idle" /\ Idle.s = ""
BY DEF Idle

\* A commit leaves the rows of every other clip alone, and what their requests loaded.
LEMMA OtherClips ==
    ASSUME TInv, UniqueActive(tasks), NEW r \in Requests, Commit(r)
    PROVE  /\ \A s \in Segments \ {req[r].s} : seg'[s] = seg[s] /\ labels'[s] = labels[s]
           /\ \A t \in DOMAIN tasks :
                t \in DOMAIN tasks' /\ (tasks[t].s # req[r].s => tasks'[t] = tasks[t])
           /\ \A t \in DOMAIN tasks' : t \in DOMAIN tasks \/ tasks'[t].s = req[r].s
<1>1. req[r].s \in Segments
  BY CommitsChecked, OpenRequest DEF WellFormed
<1>2. ASSUME NEW t, NEW st, StatusSet(t, st), tasks[t].s = req[r].s
      PROVE  /\ \A u \in DOMAIN tasks :
                  u \in DOMAIN tasks' /\ (tasks[u].s # req[r].s => tasks'[u] = tasks[u])
             /\ \A u \in DOMAIN tasks' : u \in DOMAIN tasks \/ tasks'[u].s = req[r].s
  BY <1>2 DEF StatusSet
<1>3. CASE DecideCommit(r)
  <2>1. \A s \in Segments \ {req[r].s} : seg'[s] = seg[s] /\ labels'[s] = labels[s]
    <3>1. CASE req[r].row.queue = "speakers"
      BY <1>3, <3>1, DecideCommitFacts
    <3>2. CASE req[r].row.queue # "speakers"
      BY <1>1, <1>3, <3>2, DecideCommitFacts DEF LabelAdded, TInv
    <3> QED
      BY <3>1, <3>2
  <2> QED
    BY <1>2, <1>3, <2>1, DecideCommitFacts
<1>4. CASE SkipCommit(r)
  BY <1>2, <1>4, SkipCommitFacts DEF SkipCommit
<1>5. CASE NextCommit(r)
  BY <1>2, <1>5, NextCommitFacts DEF NextCommit
<1>6. CASE PotCommit(r)
  BY <1>1, <1>6 DEF PotCommit, TInv
<1>7. CASE BuildRefresh(r)
  <2>1. PICK queue, hazard : QueueSet(req[r].t, queue, hazard) /\ tasks[req[r].t].s = req[r].s
    BY <1>7, RefreshFacts
  <2> QED
    BY <1>7, <2>1 DEF QueueSet, BuildRefresh
<1>8. ASSUME NEW row, tasks' = tasks \/ (TaskAdded(row) /\ row.s = req[r].s)
      PROVE  /\ \A t \in DOMAIN tasks :
                  t \in DOMAIN tasks' /\ (tasks[t].s # req[r].s => tasks'[t] = tasks[t])
             /\ \A t \in DOMAIN tasks' : t \in DOMAIN tasks \/ tasks'[t].s = req[r].s
  BY <1>8 DEF TaskAdded
<1>9. CASE BuildCreate(r)
  <2>1. Task(req[r].s, "review", req[r].arg).s = req[r].s
    BY DEF Task
  <2>2. labels' = labels
    BY <1>9 DEF BuildCreate
  <2>3. \A s \in Segments \ {req[r].s} : seg'[s] = seg[s]
    BY <1>1, <1>9, CreateFacts DEF TInv
  <2> QED
    BY <1>8, <1>9, <2>1, <2>2, <2>3, CreateFacts
<1>10. CASE ReopenCommit(r)
  <2>1. NewTask(req[r]).s = req[r].s
    BY DEF NewTask, Task
  <2>2. UNCHANGED <<seg, labels>>
    BY <1>10 DEF ReopenCommit
  <2> QED
    BY <1>8, <1>10, <2>1, <2>2, ReopenFacts
<1> QED
  BY <1>3, <1>4, <1>5, <1>6, <1>7, <1>9, <1>10 DEF Commit

\* While requests about a clip follow one another, a commit changes no other open request.
LEMMA OthersUnchanged ==
    ASSUME TInv, OneRequestPerClip, NEW r \in Requests, Commit(r),
           NEW p \in Requests \ {r}
    PROVE  req'[p] = req[p] /\ (req[p].at # "idle" => req[p].s # req[r].s)
<1>1. req[r].at = "checked" /\ req[r].s \in Segments
  BY CommitsChecked, OpenRequest DEF WellFormed
<1>2. req[p].at # "idle" => req[p].s # req[r].s
  BY <1>1 DEF OneRequestPerClip
<1>3. req[p].at = "idle" => req[p] = Idle
  BY DEF TInv, WellFormed
<1>4. req[p].s # req[r].s
  <2>1. req[r].s # ""
    BY <1>1, SegmentsAssumption
  <2>2. CASE req[p].at = "idle"
    <3>1. req[p].s = ""
      BY <1>3, <2>2, IdleFields
    <3> QED
      BY <2>1, <3>1
  <2> QED
    BY <1>2, <2>2
<1>5. CASE Closed(r)
  BY <1>2, <1>5 DEF Closed, TInv
<1>6. CASE DecideCommit(r) /\ ~Closed(r)
  <2> DEFINE older == {x \in Requests : \E i, k \in DOMAIN open :
                          i < k /\ open[i] = x /\ open[k] = r /\ req[x].s = req[r].s}
  <2>1. req' = [x \in Requests |-> IF x = r THEN Idle
                                   ELSE IF x \in older THEN [req[x] EXCEPT !.newer = @ + 1]
                                   ELSE req[x]]
    BY <1>6 DEF DecideCommit
  <2>2. p \notin older
    BY <1>4
  <2> HIDE DEF older
  <2> QED
    BY <1>2, <2>1, <2>2
<1>7. CASE ~DecideCommit(r)
  <2>1. Closed(r)
    BY <1>7
      DEF Commit, SkipCommit, NextCommit, PotCommit, BuildRefresh, BuildCreate, ReopenCommit
  <2> QED
    BY <1>5, <2>1
<1> QED
  BY <1>2, <1>5, <1>6, <1>7

\* The rules of the other clips, and what the other requests rely on, survive a commit: what is
\* left is the clip of the request that commits.
LEMMA OthersUpheld ==
    ASSUME TInv, UniqueActive(tasks), OneRequestPerClip, CInv, NEW r \in Requests, Commit(r),
           LabelRules(seg'[req[r].s], labels'[req[r].s]),
           TaskRules(req[r].s, labels'[req[r].s], tasks')
    PROVE  CInv'
<1> DEFINE c == req[r].s
<1>1. ASSUME NEW s \in Segments \ {c}
      PROVE  LabelRules(seg'[s], labels'[s]) /\ TaskRules(s, labels'[s], tasks')
  <2>1. seg'[s] = seg[s] /\ labels'[s] = labels[s]
    BY <1>1, OtherClips
  <2>2. LabelRules(seg[s], labels[s]) /\ TaskRules(s, labels[s], tasks)
    BY <1>1 DEF CInv
  <2>3. TaskRules(s, labels[s], tasks')
    <3>1. \A t \in DOMAIN tasks :
            t \in DOMAIN tasks' /\ (tasks[t].s # c => tasks'[t] = tasks[t])
      BY OtherClips
    <3>2. \A t \in DOMAIN tasks' : tasks'[t].s = s => t \in DOMAIN tasks
      BY <1>1, OtherClips
    <3>3. \A t \in DOMAIN tasks : tasks'[t].s = tasks[t].s
      BY TablesKept DEF TablesStay, Next
    <3>4. s # c
      BY <1>1
    <3>5. \A i \in 1 .. Len(labels[s]) :
            /\ labels[s][i].task \in DOMAIN tasks'
            /\ tasks'[labels[s][i].task].s = s /\ tasks'[labels[s][i].task].status = "done"
      BY <2>2, <3>1, <3>4 DEF TaskRules
    <3>6. ASSUME Len(labels[s]) # 0, NEW t \in DOMAIN tasks', tasks'[t].s = s,
                 tasks'[t].status \in ActiveStatuses, tasks'[t].queue = "review"
          PROVE  tasks'[t].hazard # "none"
      <4>1. t \in DOMAIN tasks /\ tasks[t].s = s
        BY <3>2, <3>3, <3>6
      <4>2. tasks'[t] = tasks[t]
        BY <3>1, <3>4, <4>1
      <4> QED
        BY <2>2, <3>6, <4>1, <4>2 DEF TaskRules
    <3> QED
      BY <3>5, <3>6 DEF TaskRules
  <2> QED
    BY <2>1, <2>2, <2>3
<1>2. ASSUME NEW p \in Requests, req'[p].at # "idle"
      PROVE  Upheld(req'[p], seg'[req'[p].s], labels'[req'[p].s], tasks')
  <2>1. p # r
    BY <1>2, OthersStay, IdleFields
  <2>2. req'[p] = req[p] /\ req[p].s # c /\ req[p].at # "idle"
    BY <1>2, <2>1, OthersUnchanged
  <2>3. WellFormed(req[p], tasks, labels)
    BY <2>2, OpenRequest
  <2>4. seg'[req[p].s] = seg[req[p].s] /\ labels'[req[p].s] = labels[req[p].s]
    BY <2>2, <2>3, OtherClips DEF WellFormed
  <2>5. req[p].t # 0 => tasks'[req[p].t] = tasks[req[p].t]
    BY <2>2, <2>3, OtherClips DEF WellFormed
  <2>6. Upheld(req[p], seg[req[p].s], labels[req[p].s], tasks)
    BY <2>2 DEF CInv
  <2>7. Upheld(req[p], seg[req[p].s], labels[req[p].s], tasks')
    BY <2>5, <2>6 DEF Upheld
  <2> QED
    BY <2>2, <2>4, <2>7
<1> QED
  BY <1>1, <1>2 DEF CInv

\* What the request that commits relies on, and the rules of its clip.
LEMMA CommitsUpheld ==
    ASSUME TInv, CInv, NEW r \in Requests, Commit(r)
    PROVE  /\ req[r].at = "checked" /\ req[r].s \in Segments
           /\ WellFormed(req[r], tasks, labels)
           /\ Upheld(req[r], seg[req[r].s], labels[req[r].s], tasks)
           /\ LabelRules(seg[req[r].s], labels[req[r].s])
           /\ TaskRules(req[r].s, labels[req[r].s], tasks)
           /\ labels[req[r].s] \in Seq(LabelRows) /\ Len(labels[req[r].s]) \in Nat
           /\ DOMAIN labels[req[r].s] = 1 .. Len(labels[req[r].s])
<1>1. req[r].at = "checked" /\ req[r].at # "idle"
  BY CommitsChecked
<1>2. WellFormed(req[r], tasks, labels) /\ labels[req[r].s] \in Seq(LabelRows)
  BY <1>1, OpenRequest
<1>3. req[r].s \in Segments
  BY <1>2 DEF WellFormed
<1> QED
  BY <1>1, <1>2, <1>3, LenProperties DEF CInv

\* The tasks of the labels stay finished, while no row but that of an unfinished task t changes
\* its status.
LEMMA StillFinished ==
    ASSUME NEW s, NEW list, TaskRules(s, list, tasks), NEW t, NEW st, StatusSet(t, st),
           tasks[t].status \in ActiveStatuses \/ st = "done"
    PROVE  \A i \in 1 .. Len(list) :
             /\ list[i].task \in DOMAIN tasks'
             /\ tasks'[list[i].task].s = s /\ tasks'[list[i].task].status = "done"
BY DEF TaskRules, StatusSet, ActiveStatuses

\* Skipping or serving a task: its row was active.
LEMMA StatusKeepsRules ==
    ASSUME NEW s, NEW list, TaskRules(s, list, tasks), NEW t, NEW st, StatusSet(t, st),
           tasks[t].status \in ActiveStatuses
    PROVE  TaskRules(s, list, tasks')
<1>1. \A i \in 1 .. Len(list) :
        /\ list[i].task \in DOMAIN tasks'
        /\ tasks'[list[i].task].s = s /\ tasks'[list[i].task].status = "done"
  BY StillFinished
<1>2. ASSUME Len(list) # 0, NEW u \in DOMAIN tasks', tasks'[u].s = s,
             tasks'[u].status \in ActiveStatuses, tasks'[u].queue = "review"
      PROVE  tasks'[u].hazard # "none"
  BY <1>2 DEF StatusSet, TaskRules
<1> QED
  BY <1>1, <1>2 DEF TaskRules

\* A task is added for a clip: one that must be listened to, or not a review, or the clip has
\* no label.
LEMMA AddedKeepsRules ==
    ASSUME NEW s, NEW list, TaskRules(s, list, tasks), NEW row, TaskAdded(row),
           Len(list) = 0 \/ row.queue # "review" \/ row.hazard # "none"
    PROVE  TaskRules(s, list, tasks')
BY DEF TaskAdded, TaskRules

\* A decision on the words puts its label last.
LEMMA LabelIsLast ==
    ASSUME TInv, NEW s \in Segments, NEW label, LabelAdded(s, 0, label)
    PROVE  /\ Len(labels'[s]) = Len(labels[s]) + 1
           /\ labels'[s][Len(labels[s]) + 1] = label
           /\ \A i \in 1 .. Len(labels[s]) : labels'[s][i] = labels[s][i]
<1>1. Len(labels[s]) \in Nat
  BY LenProperties DEF TInv
<1> QED
  BY <1>1 DEF LabelAdded

\* A committed decision keeps the rules of its clip.
LEMMA DecideRules ==
    ASSUME TInv, UniqueActive(tasks), CInv, NEW r \in Requests, DecideCommit(r)
    PROVE  /\ LabelRules(seg'[req[r].s], labels'[req[r].s])
           /\ TaskRules(req[r].s, labels'[req[r].s], tasks')
<1> DEFINE q == req[r]
           c == q.s
           n == Len(labels[c])
           label == [op |-> q.op, tier |-> q.arg, task |-> q.t]
<1>1. q.at = "checked" /\ q.op \in Decisions
  BY DEF DecideCommit
<1>2. /\ c \in Segments /\ WellFormed(q, tasks, labels)
      /\ Upheld(q, seg[c], labels[c], tasks)
      /\ LabelRules(seg[c], labels[c]) /\ TaskRules(c, labels[c], tasks) /\ n \in Nat
  BY CommitsUpheld DEF Commit
<1>3. q.t \in DOMAIN tasks /\ q.t # 0 /\ tasks[q.t].s = c
  BY <1>1, <1>2 DEF WellFormed
<1>4. /\ q.row = tasks[q.t] /\ q.clip = seg[c] /\ q.newer = 0
      /\ Unfinished(q) /\ GoldIsHeard(q) /\ HazardIsHeard(q) /\ LanesAreHeard(q)
      /\ q.op = "accept" /\ n # 0 => labels[c][n].op # "edit"
  BY <1>1, <1>2, <1>3 DEF Upheld
<1>5. StatusSet(q.t, "done") /\ tasks[q.t].status \in ActiveStatuses
  BY <1>4, DecideCommitFacts DEF Unfinished
<1>6. CASE q.row.queue = "speakers"
  <2>1. seg' = seg /\ labels' = labels
    BY <1>6, DecideCommitFacts
  <2>2. TaskRules(c, labels[c], tasks')
    BY <1>2, <1>5, StatusKeepsRules
  <2> QED
    BY <1>2, <2>1, <2>2
<1>7. CASE q.row.queue # "speakers"
  <2>1. /\ LabelAdded(c, 0, label)
        /\ seg' = [seg EXCEPT ![c].pipe = Written(Outcome(q.op), q.clip.pipe, @)]
    BY <1>4, <1>7, DecideCommitFacts
  <2> DEFINE new == labels'[c]
             old == labels[c]
  <2>2. /\ Len(new) = n + 1 /\ new[n + 1] = label
        /\ \A i \in 1 .. n : new[i] = old[i]
    BY <1>2, <2>1, LabelIsLast
  <2>3. label.op = q.op /\ label.tier = q.arg /\ label.task = q.t
    OBVIOUS
  <2>4. seg'[c].pot = seg[c].pot /\ seg'[c].pipe = Outcome(q.op)
    <3>1. seg[c] \in Clips
      BY <1>2 DEF TInv
    <3>2. seg'[c] = [seg[c] EXCEPT !.pipe = Written(Outcome(q.op), seg[c].pipe, seg[c].pipe)]
      BY <1>2, <1>4, <2>1 DEF TInv
    <3> QED
      BY <3>1, <3>2 DEF Clips, Written
  <2>5. tasks[q.t].queue = "review" /\ q.arg \in Tiers
    BY <1>1, <1>2, <1>3, <1>4, <1>7, TaskRow DEF Queues, WellFormed
  <2>6. LabelRules(seg'[c], new)
    <3> HIDE DEF new, old, n, label
    <3>1. seg'[c].pot = "gold" /\ Len(new) # 0 => new[Len(new)].tier # "screened"
      BY <1>4, <2>2, <2>3, <2>4 DEF GoldIsHeard
    <3>2. ASSUME NEW i \in 1 .. Len(new) - 1, new[i].op = "edit"
          PROVE  new[i + 1].op # "accept"
      <4>1. CASE i < n
        <5>1. i \in 1 .. n - 1 /\ i \in 1 .. n /\ i + 1 \in 1 .. n
          BY <1>2, <2>2, <3>2, <4>1
        <5>2. new[i] = old[i] /\ new[i + 1] = old[i + 1]
          BY <2>2, <5>1
        <5> QED
          BY <1>2, <3>2, <5>1, <5>2 DEF LabelRules, n, old
      <4>2. CASE i = n
        <5>1. n # 0 /\ new[n] = old[n] /\ new[n + 1] = label
          BY <1>2, <2>2, <3>2, <4>2
        <5> QED
          BY <1>4, <2>3, <3>2, <4>2, <5>1 DEF old, n
      <4> QED
        BY <1>2, <2>2, <3>2, <4>1, <4>2
    <3>3. ASSUME NEW i \in 2 .. Len(new)
          PROVE  new[i].tier = "verified"
      <4>1. CASE i <= n
        <5>1. i \in 2 .. n /\ i \in 1 .. n
          BY <1>2, <2>2, <4>1
        <5> QED
          BY <1>2, <2>2, <5>1 DEF LabelRules, n, old
      <4>2. CASE i = n + 1
        <5>1. n # 0
          BY <1>2, <4>2
        <5>2. tasks[q.t].hazard # "none"
          BY <1>2, <1>3, <1>5, <2>5, <5>1 DEF TaskRules, n
        <5>3. q.arg = "verified"
          BY <1>4, <2>5, <5>2 DEF HazardIsHeard, Tiers
        <5> QED
          BY <2>2, <2>3, <4>2, <5>3
      <4> QED
        BY <1>2, <2>2, <4>1, <4>2
    <3>4. Len(new) # 0 /\ new[Len(new)].op = q.op
      BY <1>2, <2>2, <2>3
    <3>5. seg'[c].pipe \in {"labeled", "excluded"} /\ (q.op \in Approvals <=> seg'[c].pipe = "labeled")
      BY <2>4 DEF Outcome
    <3>6. ASSUME NEW i \in 1 .. Len(new), NEW k \in 1 .. Len(new), new[i].task = new[k].task
          PROVE  i = k
      <4>1. \A j \in 1 .. n : new[j].task # q.t
        <5>1. \A j \in 1 .. n : tasks[old[j].task].status = "done"
          BY <1>2 DEF TaskRules, n, old
        <5>2. tasks[q.t].status # "done"
          BY <1>5 DEF ActiveStatuses
        <5> QED
          BY <2>2, <5>1, <5>2
      <4>2. new[n + 1].task = q.t
        BY <2>2, <2>3
      <4>3. CASE i \in 1 .. n /\ k \in 1 .. n
        BY <1>2, <2>2, <3>6, <4>3 DEF LabelRules, n, old
      <4>4. \A j \in 1 .. Len(new) : j \in 1 .. n \/ j = n + 1
        BY <1>2, <2>2
      <4> QED
        BY <3>6, <4>1, <4>2, <4>3, <4>4
    <3> QED
      BY <3>1, <3>2, <3>3, <3>4, <3>5, <3>6 DEF LabelRules
  <2>7. TaskRules(c, new, tasks')
    <3> HIDE DEF new, old, n, label
    <3>1. ASSUME NEW i \in 1 .. Len(new)
          PROVE  /\ new[i].task \in DOMAIN tasks'
                 /\ tasks'[new[i].task].s = c /\ tasks'[new[i].task].status = "done"
      <4>1. CASE i \in 1 .. n
        <5>1. \A k \in 1 .. n :
                /\ old[k].task \in DOMAIN tasks'
                /\ tasks'[old[k].task].s = c /\ tasks'[old[k].task].status = "done"
          BY <1>2, <1>5, StillFinished DEF n, old
        <5> QED
          BY <2>2, <4>1, <5>1
      <4>2. CASE i = n + 1
        BY <1>3, <1>5, <2>2, <2>3, <4>2 DEF StatusSet
      <4> QED
        BY <1>2, <2>2, <4>1, <4>2
    <3>2. ASSUME NEW u \in DOMAIN tasks', tasks'[u].s = c, tasks'[u].status \in ActiveStatuses
          PROVE  FALSE
      <4>1. u \in DOMAIN tasks /\ u # q.t /\ tasks[u].s = c /\ tasks[u].status \in ActiveStatuses
        BY <1>5, <3>2 DEF StatusSet, ActiveStatuses
      <4> QED
        BY <1>3, <1>5, <4>1 DEF UniqueActive
    <3> QED
      BY <3>1, <3>2 DEF TaskRules
  <2> QED
    BY <2>6, <2>7
<1> QED
  BY <1>6, <1>7

\* Every commit keeps the rules of its clip.
LEMMA CommitRules ==
    ASSUME TInv, UniqueActive(tasks), CInv, NEW r \in Requests, Commit(r)
    PROVE  /\ LabelRules(seg'[req[r].s], labels'[req[r].s])
           /\ TaskRules(req[r].s, labels'[req[r].s], tasks')
<1> DEFINE q == req[r]
           c == q.s
<1>1. /\ q.at = "checked" /\ c \in Segments /\ WellFormed(q, tasks, labels)
      /\ Upheld(q, seg[c], labels[c], tasks)
      /\ LabelRules(seg[c], labels[c]) /\ TaskRules(c, labels[c], tasks)
  BY CommitsUpheld
<1>2. CASE DecideCommit(r)
  BY <1>2, DecideRules
<1>3. CASE SkipCommit(r)
  <2>1. UNCHANGED <<seg, labels>> /\ q.op = "skip"
    BY <1>3 DEF SkipCommit
  <2>2. tasks[q.t].status \in ActiveStatuses
    BY <1>1, <2>1 DEF WellFormed, Upheld, Unfinished
  <2>3. TaskRules(c, labels[c], tasks')
    BY <1>1, <1>3, <2>2, SkipCommitFacts, StatusKeepsRules
  <2> QED
    BY <1>1, <2>1, <2>3
<1>4. CASE NextCommit(r)
  <2>1. UNCHANGED <<seg, labels>> /\ q.op = "next"
    BY <1>4 DEF NextCommit
  <2>2. tasks[q.t].status \in ActiveStatuses
    BY <1>1, <2>1 DEF WellFormed, Upheld
  <2>3. tasks' = tasks \/ StatusSet(q.t, "in_progress")
    BY <1>4, NextCommitFacts
  <2>4. TaskRules(c, labels[c], tasks')
    BY <1>1, <2>2, <2>3, StatusKeepsRules
  <2> QED
    BY <1>1, <2>1, <2>4
<1>5. CASE PotCommit(r)
  <2>1. /\ UNCHANGED <<labels, tasks>> /\ q.op = "pot"
        /\ seg' = [seg EXCEPT ![c].pot = q.arg]
    BY <1>5 DEF PotCommit
  <2>2. seg'[c].pot = q.arg /\ seg'[c].pipe = seg[c].pipe
    BY <1>1, <2>1 DEF TInv, Clips
  <2>3. q.arg = "gold" /\ Len(labels[c]) # 0 => labels[c][Len(labels[c])].tier # "screened"
    BY <1>1, <2>1 DEF Upheld
  <2>4. LabelRules(seg'[c], labels[c])
    BY <1>1, <2>2, <2>3 DEF LabelRules
  <2> QED
    BY <1>1, <2>1, <2>4
<1>6. CASE BuildRefresh(r)
  <2>1. UNCHANGED <<seg, labels>> /\ q.op = "build"
    BY <1>6 DEF BuildRefresh
  <2>2. Len(labels[c]) = 0
    BY <1>1, <2>1 DEF Upheld
  <2>3. PICK queue, hazard : QueueSet(q.t, queue, hazard)
    BY <1>6, RefreshFacts
  <2>4. TaskRules(c, labels[c], tasks')
    BY <1>1, <2>2, <2>3 DEF TaskRules, QueueSet
  <2> QED
    BY <1>1, <2>1, <2>4
<1>7. CASE BuildCreate(r)
  <2>1. labels' = labels /\ q.op = "build"
    BY <1>7 DEF BuildCreate
  <2>2. Len(labels[c]) = 0
    BY <1>1, <2>1 DEF Upheld
  <2>3. TaskRules(c, labels[c], tasks')
    BY <1>1, <1>7, <2>2, CreateFacts, AddedKeepsRules
  <2>4. seg'[c].pipe \in {seg[c].pipe, "queued"}
    <3>1. [seg EXCEPT ![c].pipe = "queued"][c].pipe = "queued"
      BY <1>1 DEF TInv, Clips
    <3> QED
      BY <1>7, <3>1, CreateFacts
  <2>5. LabelRules(seg'[c], labels[c])
    BY <1>1, <2>2, <2>4 DEF LabelRules
  <2> QED
    BY <2>1, <2>3, <2>5
<1>8. CASE ReopenCommit(r)
  <2>1. UNCHANGED <<seg, labels>>
    BY <1>8 DEF ReopenCommit
  <2>2. NewTask(q).queue # "review" \/ NewTask(q).hazard # "none"
    BY DEF NewTask, Task
  <2>3. TaskRules(c, labels[c], tasks')
    BY <1>1, <1>8, <2>2, ReopenFacts, AddedKeepsRules
  <2> QED
    BY <1>1, <2>1, <2>3
<1> QED
  BY <1>2, <1>3, <1>4, <1>5, <1>6, <1>7, <1>8 DEF Commit

\* What Screened and Current say of a clip's last label.
LEMMA CurrentLabel ==
    ASSUME TInv, NEW s \in Segments
    PROVE  /\ Labelled(s) <=> Len(labels[s]) # 0
           /\ Screened(s) <=> Len(labels[s]) # 0 /\ labels[s][Len(labels[s])].tier = "screened"
           /\ Approved(s) <=> Len(labels[s]) # 0 /\ labels[s][Len(labels[s])].op \in Approvals
           /\ \A P \in {"edit"} : (\A l \in Current(s) : l.op # P) <=>
                (Len(labels[s]) # 0 => labels[s][Len(labels[s])].op # P)
BY LastLabel DEF TInv, Screened, Approved

\* The steps that commit nothing: what a request loads or checks is what its clip's rows hold.
LEMMA BeginsUpheld ==
    ASSUME TInv, CInv, NEW r \in Requests, Start(r) \/ Check(r)
    PROVE  CInv'
<1>1. UNCHANGED <<seg, tasks, labels, attributed>>
  BY DEF Start, DecideLoad, SkipLoad, NextLoad, PotLoad, BuildLoad, ReopenCheck, Begin,
         Check, DecideCheck, SkipCheck, PotCheck, BuildCheck, Pass
<1> DEFINE Fine(q) == q.at # "idle" => Upheld(q, seg[q.s], labels[q.s], tasks)
<1>2. \A p \in Requests : Fine(req[p]) /\ req[p] \in RequestRows
  BY DEF CInv, TInv
<1>3. Fine(Idle)
  BY IdleFields
<1> SUFFICES \A p \in Requests : Fine(req'[p])
  BY <1>1 DEF CInv
<1>4. ASSUME NEW at, NEW op, NEW s, NEW t, NEW arg, Begin(r, Loaded(at, op, s, t, arg)),
             at = "loaded" \/ op \notin Decisions \cup {"skip", "pot"},
             op = "build" => Len(labels[s]) = 0
      PROVE  \A p \in Requests : Fine(req'[p])
  <2> DEFINE q == Loaded(at, op, s, t, arg)
  <2>1. /\ q.at = at /\ q.op = op /\ q.s = s /\ q.t = t /\ q.arg = arg /\ q.clip = seg[s]
        /\ q.newer = 0 /\ (t # 0 => q.row = tasks[t])
    BY DEF Loaded
  <2>2. req' = [req EXCEPT ![r] = q]
    BY <1>4 DEF Begin
  <2> HIDE DEF q
  <2>3. Fine(q)
    BY <1>4, <2>1 DEF Upheld
  <2> HIDE DEF Fine
  <2> QED
    BY <1>2, <2>2, <2>3 DEF TInv
<1>5. ASSUME NEW allowed, Pass(r, allowed),
             LET q == req[r] IN allowed =>
                /\ q.op \in Decisions => DecisionAllowed(q)
                /\ q.op = "skip" => Unfinished(q)
                /\ q.op = "pot" /\ q.arg = "gold" => ~Screened(q.s)
      PROVE  \A p \in Requests : Fine(req'[p])
  <2>1. req[r].at = "loaded"
    BY <1>5 DEF Pass
  <2> DEFINE q == req[r]
             new == [q EXCEPT !.at = "checked"]
  <2>2. /\ new.at = "checked" /\ new.op = q.op /\ new.s = q.s /\ new.t = q.t /\ new.arg = q.arg
        /\ new.row = q.row /\ new.clip = q.clip /\ new.newer = q.newer
    BY <1>2 DEF RequestRows
  <2>3. q.s \in Segments /\ Upheld(q, seg[q.s], labels[q.s], tasks)
    BY <1>2, <2>1, OpenRequest DEF WellFormed
  <2>4. CASE req' = [req EXCEPT ![r] = new] /\ allowed
    <3> HIDE DEF new
    <3>1. q.op \in Decisions =>
            /\ Unfinished(new) /\ GoldIsHeard(new) /\ HazardIsHeard(new) /\ LanesAreHeard(new)
            /\ new.op = "accept" /\ Len(labels[q.s]) # 0 => labels[q.s][Len(labels[q.s])].op # "edit"
      BY <1>5, <2>2, <2>3, <2>4, CurrentLabel
        DEF DecisionAllowed, Unfinished, GoldIsHeard, HazardIsHeard, LanesAreHeard, EditIsKept
    <3>2. q.op = "skip" => Unfinished(new)
      BY <1>5, <2>2, <2>4 DEF Unfinished
    <3>3. q.op = "pot" /\ q.arg = "gold" /\ Len(labels[q.s]) # 0 =>
            labels[q.s][Len(labels[q.s])].tier # "screened"
      BY <1>5, <2>3, <2>4, CurrentLabel
    <3>4. Upheld(new, seg[q.s], labels[q.s], tasks)
      BY <2>2, <2>3, <3>1, <3>2, <3>3 DEF Upheld
    <3>5. Fine(new)
      BY <2>2, <3>4
    <3> HIDE DEF Fine
    <3> QED
      BY <1>2, <2>4, <3>5 DEF TInv
  <2>5. CASE Closed(r)
    <3> HIDE DEF Fine
    <3> QED
      BY <1>2, <1>3, <2>5 DEF Closed, TInv
  <2> QED
    BY <1>5, <2>4, <2>5 DEF Pass
<1>6. ASSUME BuildCheck(r)
      PROVE  \A p \in Requests : Fine(req'[p])
  <2>1. PICK t \in IF Active(req[r].s) = {} THEN {0} ELSE Active(req[r].s) :
          req' = [req EXCEPT ![r] = [req[r] EXCEPT !.at = "checked", !.t = t,
                                                   !.row = IF t = 0 THEN NoRow ELSE tasks[t]]]
    BY <1>6 DEF BuildCheck
  <2> DEFINE q == [req[r] EXCEPT !.at = "checked", !.t = t,
                                 !.row = IF t = 0 THEN NoRow ELSE tasks[t]]
  <2>2. /\ q.op = "build" /\ q.t = t /\ q.s = req[r].s /\ (t # 0 => q.row = tasks[t])
        /\ q.clip = req[r].clip /\ q.newer = req[r].newer
    BY <1>2, <1>6 DEF RequestRows, BuildCheck
  <2>3. Upheld(req[r], seg[req[r].s], labels[req[r].s], tasks) /\ req[r].op = "build"
    BY <1>2, <1>6 DEF BuildCheck
  <2> HIDE DEF q
  <2>4. Fine(q)
    BY <2>2, <2>3 DEF Upheld, Decisions, Approvals
  <2> HIDE DEF Fine
  <2> QED
    BY <1>2, <2>1, <2>4 DEF q, TInv
<1> HIDE DEF Fine
<1>7. CASE Check(r)
  <2>1. CASE DecideCheck(r)
    <3>1. req[r].op \notin {"skip", "pot"}
      BY <2>1 DEF DecideCheck, Decisions, Approvals
    <3> QED
      BY <1>5, <2>1, <3>1 DEF DecideCheck
  <2>2. CASE SkipCheck(r)
    <3>1. "skip" \notin Decisions
      BY DEF Decisions, Approvals
    <3> QED
      BY <1>5, <2>2, <3>1 DEF SkipCheck
  <2>3. CASE PotCheck(r)
    <3>1. "pot" \notin Decisions
      BY DEF Decisions, Approvals
    <3> QED
      BY <1>5, <2>3, <3>1 DEF PotCheck
  <2> QED
    BY <1>6, <1>7, <2>1, <2>2, <2>3 DEF Check
<1>8. CASE Start(r)
  <2>1. ASSUME NEW t \in DOMAIN tasks, NEW op \in Decisions, NEW tier \in Tiers, DecideLoad(r, t, op, tier)
        PROVE  \A p \in Requests : Fine(req'[p])
    <3>1. op # "build"
      BY DEF Decisions, Approvals
    <3> QED
      BY <1>4, <2>1, <3>1 DEF DecideLoad
  <2>2. ASSUME NEW t \in DOMAIN tasks, SkipLoad(r, t)
        PROVE  \A p \in Requests : Fine(req'[p])
    BY <1>4, <2>2 DEF SkipLoad
  <2>3. ASSUME NEW t \in DOMAIN tasks, NextLoad(r, t)
        PROVE  \A p \in Requests : Fine(req'[p])
    <3>1. "next" \notin Decisions \cup {"skip", "pot"}
      BY DEF Decisions, Approvals
    <3> QED
      BY <1>4, <2>3, <3>1 DEF NextLoad
  <2>4. ASSUME NEW s \in Segments, NEW pot \in Pots, PotLoad(r, s, pot)
        PROVE  \A p \in Requests : Fine(req'[p])
    BY <1>4, <2>4 DEF PotLoad
  <2>5. ASSUME NEW s \in Segments, NEW requeueDone \in BOOLEAN, NEW hazard \in {"none", "gate"},
               BuildLoad(r, s, requeueDone, hazard)
        PROVE  \A p \in Requests : Fine(req'[p])
    <3>1. seg[s].pipe \in {"imported", "queued"} /\ LabelRules(seg[s], labels[s])
      BY <2>5 DEF BuildLoad, Considered, CInv
    <3>2. Len(labels[s]) = 0
      BY <3>1 DEF LabelRules
    <3> QED
      BY <1>4, <2>5, <3>2 DEF BuildLoad
  <2>6. ASSUME NEW s \in Segments, NEW op \in {"relabel", "queueSpeakers", "reopenSpeakers"},
               ReopenCheck(r, s, op)
        PROVE  \A p \in Requests : Fine(req'[p])
    <3>1. op \notin Decisions \cup {"skip", "pot"} /\ op # "build"
      BY DEF Decisions, Approvals
    <3> QED
      BY <1>4, <2>6, <3>1 DEF ReopenCheck
  <2> QED
    BY <1>8, <2>1, <2>2, <2>3, <2>4, <2>5, <2>6 DEF Start
<1> QED
  BY <1>7, <1>8

-----------------------------------------------------------------------------
\* The first state satisfies the rules of every clip.
LEMMA ApartInit == Init => CInv
<1> SUFFICES ASSUME Init PROVE CInv
  OBVIOUS
<1>1. \A s \in Segments : seg[s] = [pipe |-> "imported", pot |-> "train"] /\ labels[s] = <<>>
  BY DEF Init
<1>2. \A s \in Segments : Len(labels[s]) = 0
  BY <1>1
<1>3. \A r \in Requests : req[r].at = "idle"
  BY IdleFields DEF Init
<1>4. ASSUME NEW s \in Segments
      PROVE  LabelRules(seg[s], labels[s]) /\ TaskRules(s, labels[s], tasks)
  BY <1>1, <1>2 DEF LabelRules, TaskRules
<1> QED
  BY <1>3, <1>4 DEF CInv

\* Every step between states with one request per clip keeps the rules.
LEMMA ApartInductive ==
    ASSUME OInv, CInv, OneRequestPerClip, [Next]_vars
    PROVE  CInv'
<1>1. CASE UNCHANGED vars
  BY <1>1 DEF CInv, vars
<1>2. ASSUME NEW r \in Requests, Start(r) \/ Check(r)
      PROVE  CInv'
  BY <1>2, BeginsUpheld DEF OInv
<1>3. ASSUME NEW r \in Requests, Commit(r)
      PROVE  CInv'
  BY <1>3, CommitRules, OthersUpheld DEF OInv
<1> QED
  BY <1>1, <1>2, <1>3 DEF Next

\* The rules of every clip hold while requests about one clip follow one another.
LEMMA Apart == Spec /\ []OneRequestPerClip => [](OInv /\ CInv)
BY OverlapInit, OverlapInductive, ApartInit, ApartInductive, PTL DEF Spec

\* Gold only holds what was listened to, whichever of the label and the move came first, while
\* no two requests about the same clip are open at once.
THEOREM GoldStaysListenedTo == Spec /\ []OneRequestPerClip => []GoldIsListenedTo
<1>1. OInv /\ CInv => GoldIsListenedTo
  BY CurrentLabel DEF OInv, CInv, LabelRules, GoldIsListenedTo
<1> QED
  BY <1>1, Apart, PTL

\* Accepting a seed never undoes an edit, under the same condition.
THEOREM EditsAreKept == Spec /\ []OneRequestPerClip => []AcceptNeverUndoesEdit
<1>1. OInv /\ CInv => AcceptNeverUndoesEdit
  BY DEF CInv, LabelRules, AcceptNeverUndoesEdit
<1> QED
  BY <1>1, Apart, PTL

\* Only a clip's first label may be screened, under the same condition.
THEOREM SecondLabelsAreListenedTo == Spec /\ []OneRequestPerClip => []SecondLabelIsListenedTo
<1>1. OInv /\ CInv => SecondLabelIsListenedTo
  BY DEF CInv, LabelRules, SecondLabelIsListenedTo
<1> QED
  BY <1>1, Apart, PTL

\* The lifecycle of a clip is that of its current label, under the same condition.
THEOREM LifecyclesFollowLabels == Spec /\ []OneRequestPerClip => []LifecycleFollowsLabel
<1>1. ASSUME OInv, CInv, NEW s \in Segments
      PROVE  /\ Labelled(s) <=> seg[s].pipe \in {"labeled", "excluded"}
             /\ Labelled(s) => (Approved(s) <=> seg[s].pipe = "labeled")
  BY <1>1, CurrentLabel DEF OInv, CInv, LabelRules
<1>2. OInv /\ CInv => LifecycleFollowsLabel
  BY <1>1 DEF LifecycleFollowsLabel
<1> QED
  BY <1>2, Apart, PTL

\* No two labels of a clip come from one task, however often its request is repeated, under the
\* same condition.
THEOREM OneLabelOfATask == Spec /\ []OneRequestPerClip => []OneLabelPerTask
<1>1. ASSUME OInv, CInv PROVE OneLabelPerTask
  <2>1. \A s \in Segments : DOMAIN labels[s] = 1 .. Len(labels[s])
    BY <1>1, LenProperties DEF OInv, TInv
  <2> QED
    BY <1>1, <2>1 DEF CInv, LabelRules, OneLabelPerTask
<1> QED
  BY <1>1, Apart, PTL
=============================================================================
