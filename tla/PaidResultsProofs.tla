------------------------- MODULE PaidResultsProofs -------------------------
(***************************************************************************)
(* What a scram stops, what is on record and what is never bought twice,   *)
(* proved for every episode, route and bound; TLC checks the same          *)
(* properties on MCEpisode.                                                *)
(*                                                                         *)
(* The scram: from then on, the requests that are out only become fewer.   *)
(* A worker that is free sends nothing, a window is not asked for, and the *)
(* one fusion request that may be out is still the same request            *)
(* when its answer comes, because nothing it was made from (the plan, the  *)
(* transcripts, the fused texts) changes while it is out.                  *)
(*                                                                         *)
(* The record: the answers whose row is neither committed nor given up are *)
(* those in hand (the transcripts of the segments still out, the fusion    *)
(* answer not yet kept), whose rows are flushed unless the session has     *)
(* been refused a write, after which no segment commits; and what a        *)
(* segment saves after its commit is exactly what it had in hand at it.    *)
(*                                                                         *)
(* The purchases: a request is sent only when the checkpoint has no entry  *)
(* for it, and until its answer gets one nobody else can ask for it: what  *)
(* is bought again had been lost, to a crash, a refused write of the       *)
(* database, a failed save or an analysis that raised.                     *)
(*                                                                         *)
(* The windows: what they ask for together is a list without repetitions;  *)
(* a window that is done with takes its clips off the front of it, one     *)
(* that is halved leaves it as it was, and its texts answer the request    *)
(* the memory still makes.                                                 *)
(***************************************************************************)
EXTENDS PaidResults, FusionWindowsProofs

Idle == {"done", "discarded", "skipped"}

\* Stage 4 begins when every worker is idle, and has one request out or one answer in hand.
StagesApart ==
    /\ clip \in [EpisodeClips -> {"todo"} \cup AtWork \cup Idle]
    /\ asking \/ reply # {} => stage = "fusing" /\ windows # <<>>
    /\ asking => reply = {}
    /\ stage = "fusing" => \A s \in EpisodeClips : clip[s] \in Idle

\* What is still out was out when the scram was hit.
OutOnlyShrinks == scrammed => Outstanding \subseteq out.asked

SInv == StagesApart /\ OutOnlyShrinks /\ ScramStopsSpending

\* A request is the same while nothing it is made from changes.
LEMMA RequestStays ==
    ASSUME UNCHANGED <<windows, heard, fused, clip>>
    PROVE  Request(Current)' = Request(Current)
<1>1. Whole' = Whole
  BY DEF Whole
<1>2. Current' = Current
  BY DEF Current
<1>3. Carryover(Current)' = Carryover(Current)
  BY <1>1, <1>2 DEF Carryover
<1> QED
  BY <1>2, <1>3 DEF Request

\* A step that sends no clip and asks for no window leaves no more out than there was.
LEMMA NothingNewIsOut ==
    ASSUME \A s \in EpisodeClips : clip'[s] = "sent" => clip[s] = "sent",
           asking' => asking /\ UNCHANGED <<windows, heard, fused, clip>>
    PROVE  Outstanding' \subseteq Outstanding
<1>1. (IF asking THEN {Request(Current)} ELSE {})'
        \subseteq (IF asking THEN {Request(Current)} ELSE {})
  BY RequestStays
<1>2. {Transcript(s, r) : s \in {s \in EpisodeClips : clip[s] = "sent"}, r \in Routes}'
        \subseteq {Transcript(s, r) : s \in {s \in EpisodeClips : clip[s] = "sent"}, r \in Routes}
  BY DEF Transcript
<1> QED
  BY <1>1, <1>2 DEF Outstanding

\* Such a step keeps the promise of the scram if what it pays for was out.
LEMMA ScramKept ==
    ASSUME OutOnlyShrinks, ScramStopsSpending,
           scrammed' => scrammed /\ out' = out,
           scrammed => \A s \in EpisodeClips : clip'[s] = "sent" => clip[s] = "sent",
           scrammed /\ asking' => asking /\ UNCHANGED <<windows, heard, fused, clip>>,
           \A a \in answers' \ answers : a.request \in Outstanding
    PROVE  OutOnlyShrinks' /\ ScramStopsSpending'
<1>1. scrammed' => Outstanding' \subseteq Outstanding
  BY NothingNewIsOut
<1> QED
  BY <1>1 DEF OutOnlyShrinks, ScramStopsSpending

\* The invariant of the scram holds initially.
LEMMA Initially == PaidInit => SInv
BY DEF PaidInit, SInv, StagesApart, OutOnlyShrinks, ScramStopsSpending, AtWork

\* Every step keeps the invariant of the scram.
LEMMA SInvKept == SInv /\ [PaidNext]_paidVars => SInv'
<1> SUFFICES ASSUME SInv, [PaidNext]_paidVars
             PROVE  SInv'
  OBVIOUS
<1> USE DEF SInv
<1> DEFINE Quiet == scrammed' = scrammed /\ out' = out /\ answers' = answers
\* In stage 3 no fusion request is out, and a worker's step sends nothing under a scram.
<1>1. ASSUME NEW s \in EpisodeClips, Dispatch(s)
      PROVE  SInv'
  <2>1. StagesApart'
    BY <1>1 DEF Dispatch, StagesApart, AtWork, Idle, fusing
  <2>2. scrammed => \A t \in EpisodeClips : clip'[t] = "sent" => clip[t] = "sent"
    BY <1>1 DEF Dispatch, StagesApart
  <2>3. ~asking'
    BY <1>1 DEF Dispatch, StagesApart, fusing
  <2> QED
    BY <1>1, <2>1, <2>2, <2>3, ScramKept DEF Dispatch, history
<1>2. ASSUME NEW s \in EpisodeClips, NEW r \in Routes, Transcribed(s, r)
      PROVE  SInv'
  <2>1. StagesApart' /\ ~asking'
    BY <1>2 DEF Transcribed, StagesApart, AtWork, Idle, fusing
  <2>2. Transcript(s, r) \in Outstanding
    BY <1>2 DEF Transcribed, Outstanding
  <2>3. \A a \in answers' \ answers : a.request = Transcript(s, r)
    BY <1>2 DEF Transcribed, Pay, NewAnswer
  <2> QED
    BY <1>2, <2>1, <2>2, <2>3, ScramKept DEF Transcribed
<1>3. ASSUME NEW s \in EpisodeClips, NEW r \in Routes, RouteFailed(s, r)
      PROVE  SInv'
  <2>1. StagesApart' /\ ~asking'
    BY <1>3 DEF RouteFailed, StagesApart, AtWork, Idle, fusing
  <2> QED
    BY <1>3, <2>1, ScramKept DEF RouteFailed
<1>4. ASSUME NEW s \in EpisodeClips, CommitSegment(s)
      PROVE  SInv'
  <2>1. StagesApart' /\ ~asking'
    BY <1>4 DEF CommitSegment, StagesApart, AtWork, Idle, fusing
  <2>2. \A t \in EpisodeClips : clip'[t] = "sent" => clip[t] = "sent"
    BY <1>4 DEF CommitSegment, StagesApart
  <2> QED
    BY <1>4, <2>1, <2>2, ScramKept DEF CommitSegment, history
<1>5. ASSUME NEW s \in EpisodeClips, AnalysisRaises(s)
      PROVE  SInv'
  <2>1. StagesApart' /\ ~asking'
    BY <1>5 DEF AnalysisRaises, Discard, StagesApart, AtWork, Idle, fusing
  <2>2. \A t \in EpisodeClips : clip'[t] = "sent" => clip[t] = "sent"
    BY <1>5 DEF AnalysisRaises, Discard, StagesApart
  <2> QED
    BY <1>5, <2>1, <2>2, ScramKept DEF AnalysisRaises
<1>16. ASSUME NEW s \in EpisodeClips, CommitRefused(s)
       PROVE  SInv'
  <2>1. StagesApart' /\ ~asking'
    BY <1>16 DEF CommitRefused, Discard, StagesApart, AtWork, Idle, fusing
  <2>2. \A t \in EpisodeClips : clip'[t] = "sent" => clip[t] = "sent"
    BY <1>16 DEF CommitRefused, Discard, StagesApart
  <2> QED
    BY <1>16, <2>1, <2>2, ScramKept DEF CommitRefused
<1>17. ASSUME NEW s \in EpisodeClips, NEW r \in Routes, RowRefused(s, r)
       PROVE  SInv'
  <2>1. StagesApart' /\ ~asking'
    BY <1>17 DEF RowRefused, StagesApart, AtWork, Idle, fusing
  <2>2. Transcript(s, r) \in Outstanding
    BY <1>17 DEF RowRefused, Outstanding
  <2>3. \A a \in answers' \ answers : a.request = Transcript(s, r)
    <3>1. PICK paid \in {{}, {NewAnswer(Transcript(s, r), "ok")}} : answers' = answers \cup paid
      BY <1>17 DEF RowRefused
    <3>2. NewAnswer(Transcript(s, r), "ok").request = Transcript(s, r)
      BY DEF NewAnswer
    <3> QED
      BY <3>1, <3>2
  <2> QED
    BY <1>17, <2>1, <2>2, <2>3, ScramKept DEF RowRefused
<1>6. ASSUME NEW s \in EpisodeClips, KeepPaid(s)
      PROVE  SInv'
  <2>1. UNCHANGED <<stage, asking, reply>> /\ \/ clip' = [clip EXCEPT ![s] = "done"]
                                              \/ clip' = [clip EXCEPT ![s] = "discarded"]
    BY <1>6 DEF KeepPaid, Discard, fusing
  <2>2. StagesApart' /\ ~asking'
    BY <1>6, <2>1 DEF KeepPaid, StagesApart, AtWork, Idle
  <2>3. \A t \in EpisodeClips : clip'[t] = "sent" => clip[t] = "sent"
    BY <2>1 DEF StagesApart
  <2> QED
    BY <1>6, <2>2, <2>3, ScramKept DEF KeepPaid
\* The run's ends and an outage clear the scram with the run.
<1>7. ASSUME Forget("over") \/ Forget("asr")
      PROVE  SInv'
  BY <1>7 DEF Forget, StagesApart, OutOnlyShrinks, ScramStopsSpending, AtWork
<1>8. ASSUME EndTranscribing
      PROVE  SInv'
  <2>1. CASE End
    BY <2>1, <1>7 DEF End
  <2>2. CASE stage' = "fusing" /\ UNCHANGED <<scrammed, transcribing, asking, reply, history>>
    <3>1. StagesApart' /\ ~asking'
      BY <1>8, <2>2 DEF EndTranscribing, StagesApart, AtWork, Idle, transcribing
    <3> QED
      BY <1>8, <2>2, <3>1, ScramKept DEF transcribing, history
  <2> QED
    BY <1>8, <2>1, <2>2 DEF EndTranscribing
\* Stage 4: a window is only asked for without a scram, and its answer takes the request in.
<1>9. ASSUME AskFuser
      PROVE  SInv'
  <2>1. StagesApart'
    BY <1>9 DEF AskFuser, StagesApart, transcribing
  <2>2. scrammed => ~asking'
    BY <1>9 DEF AskFuser
  <2> QED
    BY <1>9, <2>1, <2>2, ScramKept DEF AskFuser, transcribing, history
<1>10. ASSUME NEW verdict \in {"ok", "bad", "cut"}, FuserAnswers(verdict)
       PROVE  SInv'
  <2>1. StagesApart' /\ ~asking'
    BY <1>10 DEF FuserAnswers, StagesApart, transcribing
  <2>2. Request(Current) \in Outstanding
    BY <1>10 DEF FuserAnswers, Outstanding
  <2>3. \A a \in answers' \ answers : a.request = Request(Current)
    BY <1>10 DEF FuserAnswers, Pay, NewAnswer
  <2> QED
    BY <1>10, <2>1, <2>2, <2>3, ScramKept DEF FuserAnswers, transcribing
<1>11. ASSUME FuserFails
       PROVE  SInv'
  <2>1. StagesApart' /\ ~asking'
    BY <1>11 DEF FuserFails, StagesApart, transcribing
  <2> QED
    BY <1>11, <2>1, ScramKept DEF FuserFails, transcribing
<1>12. ASSUME KeepAnswer
       PROVE  SInv'
  <2>1. StagesApart' /\ ~asking'
    BY <1>12 DEF KeepAnswer, StagesApart, transcribing
  <2> QED
    BY <1>12, <2>1, ScramKept DEF KeepAnswer, transcribing
<1>13. ASSUME EndFusing \/ FusionBreaks \/ Outage
       PROVE  SInv'
  BY <1>13, <1>7 DEF EndFusing, FusionBreaks, Outage, End
\* The scram itself notes what is out.
<1>14. ASSUME Scram
       PROVE  SInv'
  <2>1. StagesApart'
    BY <1>14 DEF Scram, StagesApart, transcribing, fusing
  <2>2. Outstanding' \subseteq Outstanding
    BY <1>14, NothingNewIsOut DEF Scram, transcribing, fusing
  <2> QED
    BY <1>14, <2>1, <2>2 DEF Scram, OutOnlyShrinks, ScramStopsSpending
<1>15. ASSUME UNCHANGED paidVars
       PROVE  SInv'
  <2>1. StagesApart'
    BY <1>15 DEF StagesApart, paidVars, memory
  <2> QED
    BY <1>15, <2>1, ScramKept DEF paidVars, memory, history
<1> QED
  BY <1>1, <1>2, <1>3, <1>4, <1>5, <1>6, <1>8, <1>9, <1>10, <1>11, <1>12, <1>13, <1>14, <1>15,
     <1>16, <1>17
  DEF PaidNext

\* After a scram the run pays for nothing but what had passed its check of the flag: neither the
\* workers of stage 3 (pipeline.py:555) nor the fuser's windows (llm/fusion.py:419) send more.
THEOREM ScramTheorem == PaidSpec => []ScramStopsSpending
<1>1. SInv => ScramStopsSpending
  BY DEF SInv
<1> QED
  BY <1>1, Initially, SInvKept, PTL DEF PaidSpec

-----------------------------------------------------------------------------
\* The transcript a segment holds of a route.
Held(s, r) == [request |-> Transcript(s, r), verdict |-> "ok", n |-> heard[s][r]]

AnswersOK ==
    /\ IsFiniteSet(answers)
    /\ \A a \in answers :
         /\ a = [request |-> a.request, verdict |-> a.verdict, n |-> a.n]
         /\ a.n \in Nat \ {0}
         /\ a.request.kind = "asr" => a.verdict = "ok"

RecordsOK ==
    /\ committed \cup flushed \cup reply \subseteq answers
    /\ reply \subseteq committed \cup flushed
    /\ heard \in [EpisodeClips -> [Routes -> Nat]]

\* What a segment saves is what its commit took, which no commit of a refused session did.
HeldIsOnRecord ==
    \A s \in EpisodeClips, r \in Routes : heard[s][r] # 0 =>
        /\ clip[s] = "sent" => \/ Held(s, r) \in committed \cup flushed
                              \/ (broken /\ Held(s, r) \in unrecorded)
        /\ clip[s] = "paid" => Held(s, r) \in committed

\* An answer without a committed row is given up or in hand.
RestIsInHand ==
    answers \subseteq committed \cup unrecorded \cup reply
        \cup {Held(s, r) : s \in {s \in EpisodeClips : clip[s] = "sent"}, r \in Routes}

RInv == AnswersOK /\ RecordsOK /\ HeldIsOnRecord /\ RestIsInHand /\ KeptIsOnRecord

LEMMA FreshIsHeld ==
    ASSUME AnswersOK, NEW s \in EpisodeClips, NEW a \in Fresh(s)
    PROVE  \E r \in Routes : a = Held(s, r) /\ heard[s][r] # 0
<1>1. PICK r \in Routes : a.request = Transcript(s, r) /\ a.n = heard[s][r]
  BY DEF Fresh
<1>2. a \in answers
  BY DEF Fresh
<1>3. a.request.kind = "asr"
  BY <1>1 DEF Transcript
<1>4. a = [request |-> a.request, verdict |-> a.verdict, n |-> a.n] /\ a.verdict = "ok" /\ a.n # 0
  BY <1>2, <1>3 DEF AnswersOK
<1> QED
  BY <1>1, <1>4 DEF Held

LEMMA HeldIsFresh ==
    ASSUME KeptIsOnRecord, NEW s \in EpisodeClips, NEW r \in Routes,
           Held(s, r) \in answers \ committed
    PROVE  Held(s, r) \in Fresh(s)
BY DEF KeptIsOnRecord, Fresh, Held

LEMMA RecordedIsEnough ==
    RInv => KeptIsOnRecord /\ EveryAnswerOnRecord
<1> SUFFICES ASSUME RInv, NEW a \in answers, a \notin committed, a \notin unrecorded
             PROVE  a \in flushed
  BY DEF RInv, EveryAnswerOnRecord
<1>1. CASE a \in reply
  BY <1>1 DEF RInv, RecordsOK
<1>2. ASSUME NEW s \in EpisodeClips, clip[s] = "sent", NEW r \in Routes, a = Held(s, r)
      PROVE  a \in flushed
  <2>1. heard[s][r] # 0
    BY <1>2 DEF RInv, AnswersOK, Held
  <2> QED
    BY <1>2, <2>1 DEF RInv, HeldIsOnRecord
<1> QED
  BY <1>1, <1>2 DEF RInv, RestIsInHand

\* A new answer: numbered from 1, and the answers stay well formed.
LEMMA Numbered ==
    ASSUME AnswersOK, NEW q, NEW v, q.kind = "asr" => v = "ok",
           answers' = answers \cup {NewAnswer(q, v)}
    PROVE  AnswersOK' /\ NewAnswer(q, v).n \in Nat \ {0}
<1>1. Cardinality({a \in answers : a.request = q}) \in Nat
  BY FS_Subset, FS_CardinalityType DEF AnswersOK
<1>2. IsFiniteSet(answers')
  BY FS_AddElement DEF AnswersOK
<1>3. NewAnswer(q, v).n \in Nat \ {0}
  BY <1>1 DEF NewAnswer
<1> QED
  BY <1>2, <1>3 DEF AnswersOK, NewAnswer

\* A step that pays for nothing, keeps nothing and moves no segment into or out of the
\* workers' hands leaves the record as it is.
LEMMA RecordStays ==
    ASSUME RInv, UNCHANGED <<answers, disk, ledger, unrecorded, reply, heard>>,
           \A s \in EpisodeClips : /\ clip[s] = "sent" <=> clip'[s] = "sent"
                                   /\ clip'[s] = "paid" => clip[s] = "paid"
    PROVE  RInv'
<1>1. \A s \in EpisodeClips, r \in Routes : Held(s, r)' = Held(s, r)
  BY DEF Held, Transcript
<1>2. HeldIsOnRecord'
  BY <1>1 DEF RInv, HeldIsOnRecord, ledger
<1>3. RestIsInHand'
  BY <1>1 DEF RInv, RestIsInHand, ledger
<1> QED
  BY <1>2, <1>3 DEF RInv, AnswersOK, RecordsOK, KeptIsOnRecord, ledger

\* A process that has nothing in hand any more, all it had given up.
LEMMA RecordForgotten ==
    ASSUME RInv, NEW to, Forget(to), UNCHANGED committed, disk' \subseteq disk,
           AnswersOK', answers \subseteq answers', answers' \subseteq committed \cup unrecorded'
    PROVE  RInv'
<1>1. heard' \in [EpisodeClips -> [Routes -> Nat]]
  BY DEF Forget, Nothing
<1>2. HeldIsOnRecord'
  BY DEF Forget, HeldIsOnRecord, Nothing
<1> QED
  BY <1>1, <1>2 DEF RInv, RecordsOK, RestIsInHand, KeptIsOnRecord, Forget

\* A refused write: what it rolls back and what it loses are given up, and the segments still
\* out hold nothing else.
LEMMA RecordRefused ==
    ASSUME RInv, NEW lost, Refuse(lost), reply = {}, UNCHANGED <<disk, committed, reply>>,
           AnswersOK', answers \subseteq answers', answers' \subseteq answers \cup lost,
           heard' \in [EpisodeClips -> [Routes -> Nat]],
           \A s \in EpisodeClips :
              \/ clip'[s] = clip[s] /\ heard'[s] = heard[s]
              \/ clip'[s] \notin AtWork /\ Fresh(s) \subseteq lost
    PROVE  RInv'
<1>1. /\ broken' = TRUE /\ flushed' = {}
      /\ unrecorded' = unrecorded \cup flushed \cup (lost \ committed)
  BY DEF Refuse
<1>2. ASSUME NEW s \in EpisodeClips, NEW r \in Routes, heard'[s] = heard[s]
      PROVE  Held(s, r)' = Held(s, r)
  BY <1>2 DEF Held, Transcript
<1>3. HeldIsOnRecord'
  <2> SUFFICES ASSUME NEW s \in EpisodeClips, NEW r \in Routes, heard'[s][r] # 0,
                      clip'[s] = clip[s], heard'[s] = heard[s]
               PROVE  /\ clip[s] = "sent" => Held(s, r) \in committed \cup unrecorded'
                      /\ clip[s] = "paid" => Held(s, r) \in committed
    BY <1>1, <1>2 DEF HeldIsOnRecord, AtWork
  <2> QED
    BY <1>1 DEF RInv, HeldIsOnRecord
<1>4. RestIsInHand'
  <2> SUFFICES ASSUME NEW b \in answers', b \notin committed, b \notin unrecorded'
               PROVE  \E s \in EpisodeClips, r \in Routes : clip'[s] = "sent" /\ b = Held(s, r)'
    BY DEF RestIsInHand
  <2>1. b \in answers /\ b \notin lost /\ b \notin unrecorded
    BY <1>1
  <2>2. PICK s \in EpisodeClips, r \in Routes : clip[s] = "sent" /\ b = Held(s, r)
    BY <2>1 DEF RInv, RestIsInHand
  <2>3. b \in Fresh(s)
    BY <2>1, <2>2, HeldIsFresh DEF RInv
  <2>4. clip'[s] = clip[s] /\ heard'[s] = heard[s]
    BY <2>1, <2>3
  <2> QED
    BY <1>2, <2>2, <2>4
<1> QED
  BY <1>1, <1>3, <1>4 DEF RInv, RecordsOK, KeptIsOnRecord

\* The invariant of the records holds initially.
LEMMA RecordedInitially == PaidInit => RInv
<1> SUFFICES ASSUME PaidInit
             PROVE  RInv
  OBVIOUS
<1>1. AnswersOK
  BY FS_EmptySet DEF PaidInit, AnswersOK
<1> QED
  BY <1>1 DEF PaidInit, RInv, RecordsOK, HeldIsOnRecord, RestIsInHand, KeptIsOnRecord, Nothing

\* Every step keeps the invariant of the records.
LEMMA RInvKept == SInv /\ RInv /\ [PaidNext]_paidVars => RInv'
<1> SUFFICES ASSUME SInv, RInv, [PaidNext]_paidVars
             PROVE  RInv'
  OBVIOUS
<1>0. StagesApart
  BY DEF SInv
<1> USE DEF RInv
<1>1. ASSUME NEW s \in EpisodeClips, Dispatch(s)
      PROVE  RInv'
  <2>1. ASSUME clip'[s] = "skipped", UNCHANGED heard
        PROVE  RInv'
    BY <1>0, <1>1, <2>1, RecordStays DEF Dispatch, StagesApart, fusing, history
  <2>2. ASSUME heard' = [heard EXCEPT ![s] = [r \in Routes |->
                    IF Load(Transcript(s, r)) = {} THEN 0
                    ELSE (CHOOSE a \in Load(Transcript(s, r)) : TRUE).n]],
               clip' = [clip EXCEPT ![s] = "sent"]
        PROVE  RInv'
    <3>1. ASSUME NEW r \in Routes
          PROVE  /\ heard'[s][r] \in Nat
                 /\ heard'[s][r] # 0 => Held(s, r)' \in committed
      <4>1. heard'[s][r] = IF Load(Transcript(s, r)) = {} THEN 0
                           ELSE (CHOOSE a \in Load(Transcript(s, r)) : TRUE).n
        BY <2>2 DEF RecordsOK
      <4>2. CASE Load(Transcript(s, r)) = {}
        BY <4>1, <4>2
      <4>3. ASSUME Load(Transcript(s, r)) # {}
            PROVE  /\ heard'[s][r] \in Nat
                   /\ Held(s, r)' \in committed
        <5>1. PICK a \in Load(Transcript(s, r)) : heard'[s][r] = a.n
          BY <4>1, <4>3
        <5>2. a \in committed /\ a \in answers /\ a.request = Transcript(s, r)
          BY <5>1 DEF Load, KeptIsOnRecord, RecordsOK
        <5>3. a.request.kind = "asr"
          BY <5>2 DEF Transcript
        <5>4. /\ a = [request |-> a.request, verdict |-> a.verdict, n |-> a.n]
              /\ a.verdict = "ok" /\ a.n \in Nat
          BY <5>2, <5>3 DEF AnswersOK
        <5>5. Held(s, r)' = a
          BY <5>1, <5>2, <5>4 DEF Held, Transcript
        <5> QED
          BY <5>1, <5>2, <5>4, <5>5
      <4> QED
        BY <4>2, <4>3
    <3>2. \A t \in EpisodeClips \ {s}, r \in Routes :
              Held(t, r)' = Held(t, r) /\ heard'[t] = heard[t] /\ clip'[t] = clip[t]
      BY <1>0, <2>2 DEF Held, Transcript, RecordsOK, StagesApart
    <3>3. heard' \in [EpisodeClips -> [Routes -> Nat]]
      BY <2>2, <3>1 DEF RecordsOK
    <3>4. HeldIsOnRecord'
      BY <1>0, <1>1, <2>2, <3>1, <3>2 DEF HeldIsOnRecord, Dispatch, StagesApart, ledger, history
    <3>5. \A t \in EpisodeClips : clip[t] = "sent" => t # s
      BY <1>1 DEF Dispatch
    <3>6. RestIsInHand'
      BY <1>1, <3>2, <3>5 DEF RestIsInHand, Dispatch, fusing, ledger, history
    <3> QED
      BY <1>1, <3>3, <3>4, <3>6 DEF Dispatch, AnswersOK, RecordsOK, KeptIsOnRecord, fusing, ledger, history
  <2>3. UNCHANGED heard /\ clip' = [clip EXCEPT ![s] = "skipped"] => clip'[s] = "skipped"
    BY <1>0 DEF StagesApart
  <2> QED
    BY <1>1, <2>1, <2>2, <2>3 DEF Dispatch
<1>2. ASSUME NEW s \in EpisodeClips, NEW r \in Routes, Transcribed(s, r)
      PROVE  RInv'
  <2> DEFINE a == NewAnswer(Transcript(s, r), "ok")
  <2>1. AnswersOK' /\ a.n \in Nat \ {0}
    BY <1>2, Numbered DEF Transcribed, Pay, Transcript
  <2>2. /\ heard' = [heard EXCEPT ![s][r] = a.n]
        /\ answers' = answers \cup {a} /\ flushed' = flushed \cup {a}
        /\ UNCHANGED <<clip, stage, reply, committed, broken, unrecorded, disk>>
        /\ clip[s] = "sent" /\ heard[s][r] = 0 /\ ~broken
    BY <1>2 DEF Transcribed, Pay, Unanswered, fusing
  <2>3. Held(s, r)' = a
    BY <2>2 DEF Held, Transcript, NewAnswer, RecordsOK
  <2>4. \A t \in EpisodeClips, q \in Routes : t # s \/ q # r =>
            Held(t, q)' = Held(t, q) /\ heard'[t][q] = heard[t][q]
    BY <2>2 DEF Held, Transcript, RecordsOK
  <2>5. RecordsOK'
    BY <2>1, <2>2 DEF RecordsOK
  <2>6. HeldIsOnRecord'
    <3> SUFFICES ASSUME NEW t \in EpisodeClips, NEW q \in Routes, heard'[t][q] # 0
                 PROVE  /\ clip[t] = "sent" => Held(t, q)' \in committed \cup flushed'
                        /\ clip[t] = "paid" => Held(t, q)' \in committed
      BY <2>2 DEF HeldIsOnRecord
    <3>1. CASE t = s /\ q = r
      BY <2>2, <2>3, <3>1
    <3>2. CASE t # s \/ q # r
      BY <2>2, <2>4, <3>2 DEF HeldIsOnRecord
    <3> QED
      BY <3>1, <3>2
  <2>7. RestIsInHand'
    <3> SUFFICES ASSUME NEW b \in answers', b \notin committed, b \notin unrecorded, b \notin reply
                 PROVE  \E t \in EpisodeClips, q \in Routes : clip[t] = "sent" /\ b = Held(t, q)'
      BY <2>2 DEF RestIsInHand
    <3>1. CASE b = a
      BY <2>2, <2>3, <3>1
    <3>2. CASE b \in answers
      <4>1. PICK t \in EpisodeClips, q \in Routes : clip[t] = "sent" /\ b = Held(t, q)
        BY <3>2 DEF RestIsInHand
      <4>2. b.n # 0 /\ b.n = heard[t][q]
        BY <3>2, <4>1 DEF AnswersOK, Held
      <4> QED
        BY <2>2, <2>4, <4>1, <4>2
    <3> QED
      BY <2>2, <3>1, <3>2
  <2> QED
    BY <2>1, <2>2, <2>5, <2>6, <2>7 DEF KeptIsOnRecord
<1>3. ASSUME NEW s \in EpisodeClips, NEW r \in Routes, RouteFailed(s, r)
      PROVE  RInv'
  BY <1>3, RecordStays DEF RouteFailed, fusing
<1>4. ASSUME NEW s \in EpisodeClips, CommitSegment(s)
      PROVE  RInv'
  <2>1. /\ clip' = [clip EXCEPT ![s] = "paid"] /\ clip[s] = "sent" /\ ~broken
        /\ committed' = committed \cup flushed /\ flushed' = {}
        /\ UNCHANGED <<stage, heard, reply, disk, broken, answers, unrecorded>>
    BY <1>4 DEF CommitSegment, Commit, fusing, history
  <2>2. \A t \in EpisodeClips, q \in Routes : Held(t, q)' = Held(t, q)
    BY <2>1 DEF Held, Transcript
  <2>3. \A t \in EpisodeClips : t # s => clip'[t] = clip[t]
    BY <1>0, <2>1 DEF StagesApart
  <2>4. HeldIsOnRecord'
    BY <2>1, <2>2, <2>3 DEF HeldIsOnRecord
  <2>5. RestIsInHand'
    <3> SUFFICES ASSUME NEW b \in answers, b \notin committed', b \notin unrecorded, b \notin reply
                 PROVE  \E t \in EpisodeClips, q \in Routes : clip'[t] = "sent" /\ b = Held(t, q)'
      BY <2>1 DEF RestIsInHand
    <3>1. PICK t \in EpisodeClips, q \in Routes : clip[t] = "sent" /\ b = Held(t, q)
      BY <2>1 DEF RestIsInHand
    <3>2. heard[t][q] # 0
      BY <3>1 DEF AnswersOK, Held
    <3>3. b \in committed'
      BY <2>1, <3>1, <3>2 DEF HeldIsOnRecord
    <3> QED
      BY <3>3
  <2> QED
    BY <2>1, <2>4, <2>5 DEF AnswersOK, RecordsOK, KeptIsOnRecord
<1>5. ASSUME NEW s \in EpisodeClips, AnalysisRaises(s)
      PROVE  RInv'
  <2>1. /\ clip' = [clip EXCEPT ![s] = "discarded"]
        /\ heard' = [heard EXCEPT ![s] = Nothing]
        /\ unrecorded' = unrecorded \cup Fresh(s)
        /\ UNCHANGED <<stage, reply, disk, flushed, committed, broken, answers>>
    BY <1>5 DEF AnalysisRaises, Discard, fusing, ledger
  <2>2. clip'[s] = "discarded" /\ \A t \in EpisodeClips : t # s =>
            clip'[t] = clip[t] /\ \A q \in Routes : Held(t, q)' = Held(t, q) /\ heard'[t] = heard[t]
    BY <1>0, <2>1 DEF StagesApart, RecordsOK, Held, Transcript
  <2>3. HeldIsOnRecord'
    BY <2>1, <2>2 DEF HeldIsOnRecord
  <2>4. RestIsInHand'
    <3> SUFFICES ASSUME NEW b \in answers, b \notin committed, b \notin unrecorded', b \notin reply
                 PROVE  \E t \in EpisodeClips, q \in Routes : clip'[t] = "sent" /\ b = Held(t, q)'
      BY <2>1 DEF RestIsInHand
    <3>1. PICK t \in EpisodeClips, q \in Routes : clip[t] = "sent" /\ b = Held(t, q)
      BY <2>1 DEF RestIsInHand
    <3>2. t # s
      BY <2>1, <3>1, HeldIsFresh
    <3> QED
      BY <2>2, <3>1, <3>2
  <2>5. heard' \in [EpisodeClips -> [Routes -> Nat]]
    BY <2>1 DEF RecordsOK, Nothing
  <2> QED
    BY <2>1, <2>3, <2>4, <2>5 DEF AnswersOK, RecordsOK, KeptIsOnRecord
\* What the database refuses is given up.
<1>17. ASSUME NEW s \in EpisodeClips, CommitRefused(s)
       PROVE  RInv'
  <2>1. /\ clip' = [clip EXCEPT ![s] = "discarded"]
        /\ heard' = [heard EXCEPT ![s] = Nothing]
        /\ Refuse(Fresh(s)) /\ reply = {}
        /\ UNCHANGED <<reply, disk, committed, answers>>
    BY <1>0, <1>17 DEF CommitRefused, Discard, fusing, StagesApart, Idle
  <2>2. heard' \in [EpisodeClips -> [Routes -> Nat]]
    BY <2>1 DEF RecordsOK, Nothing
  <2>3. clip'[s] \notin AtWork
    BY <1>0, <2>1 DEF StagesApart, AtWork
  <2>4. \A t \in EpisodeClips \ {s} : clip'[t] = clip[t] /\ heard'[t] = heard[t]
    BY <1>0, <2>1 DEF StagesApart, RecordsOK
  <2>5. AnswersOK'
    BY <2>1 DEF AnswersOK
  <2> QED
    BY <2>1, <2>2, <2>3, <2>4, <2>5, RecordRefused
<1>18. ASSUME NEW s \in EpisodeClips, NEW r \in Routes, RowRefused(s, r)
       PROVE  RInv'
  <2>1. PICK paid \in {{}, {NewAnswer(Transcript(s, r), "ok")}} :
            answers' = answers \cup paid /\ Refuse(paid)
    BY <1>18 DEF RowRefused
  <2>2. reply = {} /\ UNCHANGED <<reply, disk, committed, clip, heard>>
    BY <1>0, <1>18 DEF RowRefused, fusing, StagesApart, Idle
  <2>3. AnswersOK'
    <3>1. CASE paid = {}
      BY <2>1, <3>1 DEF AnswersOK
    <3>2. CASE paid = {NewAnswer(Transcript(s, r), "ok")}
      BY <2>1, <3>2, Numbered DEF Transcript
    <3> QED
      BY <3>1, <3>2
  <2> QED
    BY <2>1, <2>2, <2>3, RecordRefused DEF RecordsOK
\* What a segment saves, its commit has taken.
<1>6. ASSUME NEW s \in EpisodeClips, KeepPaid(s)
      PROVE  RInv'
  <2>1. /\ clip[s] = "paid"
        /\ UNCHANGED <<stage, reply, flushed, committed, broken, answers, unrecorded>>
        /\ disk' \subseteq disk \cup Fresh(s)
    BY <1>6 DEF KeepPaid, Save, fusing, ledger
  <2>2. \/ clip' = [clip EXCEPT ![s] = "done"] /\ UNCHANGED heard
        \/ clip' = [clip EXCEPT ![s] = "discarded"] /\ heard' = [heard EXCEPT ![s] = Nothing]
    BY <1>6 DEF KeepPaid, Discard
  <2>3. clip'[s] \in {"done", "discarded"} /\ \A t \in EpisodeClips : t # s =>
            clip'[t] = clip[t] /\ \A q \in Routes : Held(t, q)' = Held(t, q) /\ heard'[t] = heard[t]
    BY <1>0, <2>2 DEF StagesApart, RecordsOK, Held, Transcript
  <2>4. Fresh(s) \subseteq committed
    BY <2>1, FreshIsHeld DEF HeldIsOnRecord
  <2>5. HeldIsOnRecord'
    BY <2>1, <2>3 DEF HeldIsOnRecord
  <2>6. RestIsInHand'
    <3> SUFFICES ASSUME NEW b \in answers, b \notin committed, b \notin unrecorded, b \notin reply
                 PROVE  \E t \in EpisodeClips, q \in Routes : clip'[t] = "sent" /\ b = Held(t, q)'
      BY <2>1 DEF RestIsInHand
    <3>1. PICK t \in EpisodeClips, q \in Routes : clip[t] = "sent" /\ b = Held(t, q)
      BY <2>1 DEF RestIsInHand
    <3>2. t # s
      BY <2>1, <3>1
    <3> QED
      BY <2>3, <3>1, <3>2
  <2>7. heard' \in [EpisodeClips -> [Routes -> Nat]]
    BY <2>2 DEF RecordsOK, Nothing
  <2> QED
    BY <2>1, <2>4, <2>5, <2>6, <2>7 DEF AnswersOK, RecordsOK, KeptIsOnRecord
\* At an end of the run no segment and no request is out.
<1>7. ASSUME End, UNCHANGED history, reply = {}, \A s \in EpisodeClips : clip[s] # "sent"
      PROVE  RInv'
  <2>1. answers \subseteq committed \cup unrecorded
    BY <1>7 DEF RestIsInHand
  <2>2. AnswersOK'
    BY <1>7 DEF AnswersOK, history
  <2> QED
    BY <1>7, <2>1, <2>2, RecordForgotten DEF End, history
<1>8. ASSUME EndTranscribing
      PROVE  RInv'
  <2>1. reply = {} /\ \A s \in EpisodeClips : clip[s] # "sent" /\ clip[s] # "paid"
    BY <1>0, <1>8 DEF EndTranscribing, StagesApart
  <2>2. CASE End
    BY <1>7, <1>8, <2>1, <2>2 DEF EndTranscribing
  <2>3. CASE flushed' = {} /\ UNCHANGED <<transcribing, reply, disk, committed, history>>
    <3>1. answers \subseteq committed \cup unrecorded
      BY <2>1 DEF RestIsInHand
    <3>2. HeldIsOnRecord' /\ RestIsInHand'
      BY <2>1, <2>3, <3>1 DEF HeldIsOnRecord, RestIsInHand, transcribing, history
    <3> QED
      BY <2>1, <2>3, <3>2 DEF AnswersOK, RecordsOK, KeptIsOnRecord, transcribing, history
  <2> QED
    BY <1>8, <2>2, <2>3 DEF EndTranscribing
<1>9. ASSUME AskFuser
      PROVE  RInv'
  BY <1>9, RecordStays DEF AskFuser, transcribing, history
<1>10. ASSUME NEW verdict \in {"ok", "bad", "cut"}, FuserAnswers(verdict)
       PROVE  RInv'
  <2> DEFINE a == NewAnswer(Request(Current), verdict)
  <2>1. /\ answers' = answers \cup {a} /\ flushed' = flushed \cup {a} /\ reply' = {a}
        /\ UNCHANGED <<clip, heard, stage, disk, committed, unrecorded>>
        /\ reply = {} /\ stage = "fusing" /\ \A s \in EpisodeClips : clip[s] \in Idle
    BY <1>0, <1>10 DEF FuserAnswers, Pay, transcribing, StagesApart
  <2>2. Request(Current).kind # "asr"
    BY DEF Request
  <2>3. AnswersOK'
    BY <2>1, <2>2, Numbered
  <2>4. HeldIsOnRecord' /\ RestIsInHand'
    BY <2>1 DEF HeldIsOnRecord, RestIsInHand, Idle
  <2> QED
    BY <2>1, <2>3, <2>4 DEF RecordsOK, KeptIsOnRecord
<1>11. ASSUME FuserFails
       PROVE  RInv'
  BY <1>11, RecordStays DEF FuserFails, transcribing
<1>12. ASSUME KeepAnswer
       PROVE  RInv'
  <2>1. /\ committed' = committed \cup flushed /\ flushed' = {} /\ reply' = {}
        /\ disk' \subseteq disk \cup reply
        /\ UNCHANGED <<clip, heard, stage, answers, unrecorded>>
        /\ \A s \in EpisodeClips : clip[s] \in Idle
    BY <1>0, <1>12 DEF KeepAnswer, Commit, Save, transcribing, StagesApart, RecordsOK
  <2>2. HeldIsOnRecord' /\ RestIsInHand'
    BY <2>1 DEF HeldIsOnRecord, RestIsInHand, Idle, RecordsOK
  <2> QED
    BY <2>1, <2>2 DEF AnswersOK, RecordsOK, KeptIsOnRecord
<1>13. ASSUME EndFusing
       PROVE  RInv'
  <2>1. reply = {} /\ \A s \in EpisodeClips : clip[s] # "sent"
    BY <1>0, <1>13 DEF EndFusing, StagesApart, Idle
  <2> QED
    BY <1>7, <1>13, <2>1 DEF EndFusing
\* The answer in hand when the stage fails is given up.
<1>19. ASSUME FusionBreaks
       PROVE  RInv'
  <2>1. PICK paid \in IF asking THEN {{}, {NewAnswer(Request(Current), "ok")}} ELSE {reply} :
            answers' = answers \cup paid /\ unrecorded' = unrecorded \cup paid
    BY <1>19 DEF FusionBreaks
  <2>2. /\ reply \subseteq paid \cup committed \cup unrecorded
        /\ \A s \in EpisodeClips : clip[s] # "sent"
    BY <1>0, <1>19, <2>1 DEF FusionBreaks, StagesApart, Idle
  <2>3. answers' \subseteq committed \cup unrecorded'
    BY <2>1, <2>2 DEF RestIsInHand
  <2>4. AnswersOK'
    <3>1. CASE answers' = answers
      BY <3>1 DEF AnswersOK
    <3>2. CASE answers' = answers \cup {NewAnswer(Request(Current), "ok")}
      BY <3>2, Numbered
    <3>3. CASE paid = reply
      BY <2>1, <3>1, <3>3 DEF RecordsOK
    <3> QED
      BY <2>1, <3>1, <3>2, <3>3
  <2> QED
    BY <1>19, <2>1, <2>3, <2>4, RecordForgotten DEF FusionBreaks, End
<1>14. ASSUME Scram
       PROVE  RInv'
  BY <1>14, RecordStays DEF Scram, transcribing, fusing
\* What dies with the server is given up.
<1>15. ASSUME Outage
       PROVE  RInv'
  <2>1. ASSUME NEW b \in answers, b \notin committed, b \notin unrecorded
        PROVE  b \in unrecorded'
    <3>1. CASE b \in reply
      BY <1>15, <2>1, <3>1 DEF Outage
    <3>2. ASSUME NEW s \in EpisodeClips, clip[s] = "sent", NEW r \in Routes, b = Held(s, r)
          PROVE  b \in unrecorded'
      <4>1. b \in Fresh(s)
        BY <2>1, <3>2, HeldIsFresh
      <4> QED
        BY <1>15, <2>1, <3>2, <4>1 DEF Outage, AtWork
    <3> QED
      BY <2>1, <3>1, <3>2 DEF RestIsInHand
  <2>2. answers \subseteq committed \cup unrecorded'
    BY <1>15, <2>1 DEF Outage
  <2>3. AnswersOK'
    BY <1>15 DEF AnswersOK, Outage
  <2> QED
    BY <1>15, <2>2, <2>3, RecordForgotten DEF Outage
<1>16. ASSUME UNCHANGED paidVars
       PROVE  RInv'
  BY <1>16, RecordStays DEF paidVars, memory, history
<1> QED
  BY <1>1, <1>2, <1>3, <1>4, <1>5, <1>6, <1>8, <1>9, <1>10, <1>11, <1>12, <1>13, <1>14, <1>15, <1>16,
     <1>17, <1>18, <1>19
  DEF PaidNext

\* Both invariants hold in every reachable state.
LEMMA RecordedInv == PaidSpec => [](SInv /\ RInv)
<1>1. PaidInit => SInv /\ RInv
  BY Initially, RecordedInitially
<1>2. SInv /\ RInv /\ [PaidNext]_paidVars => (SInv /\ RInv)'
  BY SInvKept, RInvKept
<1> QED
  BY <1>1, <1>2, PTL DEF PaidSpec

\* A kept answer has a committed llm_requests row, whatever crashes: the workers and the fuser
\* commit before they save (pipeline.py:626, ingest/fusion.py:80).
THEOREM KeptTheorem == PaidSpec => []KeptIsOnRecord
<1>1. RInv => KeptIsOnRecord
  BY RecordedIsEnough
<1> QED
  BY <1>1, RecordedInv, PTL

\* The row of every answer paid for is committed or about to be, unless the server died or the
\* analysis raised before the segment's commit, or the database refused to take it (base.py:188,
\* pipeline.py:627 and 733, ingest/fusion.py:79).
THEOREM RecordTheorem == PaidSpec => []EveryAnswerOnRecord
<1>1. RInv => EveryAnswerOnRecord
  BY RecordedIsEnough
<1> QED
  BY <1>1, RecordedInv, PTL
-----------------------------------------------------------------------------
(***************************************************************************)
(* Nothing is bought twice.  While the run lasts, every answer that no     *)
(* mishap gave up is on disk, is held by a segment at work, or is the      *)
(* fusion answer in hand; a request is sent only when it has no entry on   *)
(* disk, and while it is out nobody else could get it one.  So whatever    *)
(* was bought before of a request that is sent has been given up.          *)
(***************************************************************************)
Repeats(q) == {a \in answers : a.request = q}

\* The answers to a request are numbered in the order they were bought.
InOrder == \A a \in answers : a.n <= Cardinality(Repeats(a.request))

\* The checkpoint has one entry under a key.
OneEntry == \A a, b \in disk : a.request = b.request => a = b

\* What was neither kept nor given up is in hand.
InPlay ==
    stage # "over" => \A a \in answers \ unsaved :
        \/ a \in disk \cup reply
        \/ \E s \in EpisodeClips, r \in Routes : clip[s] \in AtWork /\ a = Held(s, r)

\* A segment at work holds what the disk has of its clip.
HeldIsKnown ==
    \A s \in EpisodeClips, r \in Routes :
        clip[s] \in AtWork => Load(Transcript(s, r)) \subseteq {Held(s, r)}

\* The fusion request that is out, or whose answer is in hand, has no entry.
AskedAfresh ==
    /\ asking => Load(Request(Current)) = {}
    /\ \A a, b \in reply : a = b
    /\ \A a \in reply : Load(a.request) = {}

OverIsIdle == stage = "over" => \A s \in EpisodeClips : clip[s] = "todo"

BInv == InOrder /\ OneEntry /\ InPlay /\ HeldIsKnown /\ AskedAfresh /\ OverIsIdle /\ BoughtOnce

\* A request whose earlier answers are all given up may be bought again.
LEMMA BoughtAgain ==
    ASSUME AnswersOK, InOrder, BoughtOnce, NEW q, NEW v, Repeats(q) \subseteq unsaved,
           answers' = answers \cup {NewAnswer(q, v)}, unsaved \subseteq unsaved'
    PROVE  InOrder' /\ BoughtOnce'
<1> DEFINE new    == NewAnswer(q, v)
           Now(p) == {a \in answers' : a.request = p}
<1>1. new.request = q /\ new.n = Cardinality(Repeats(q)) + 1
  BY DEF NewAnswer, Repeats
<1>2. \A p : IsFiniteSet(Repeats(p)) /\ Cardinality(Repeats(p)) \in Nat
  BY FS_Subset, FS_CardinalityType DEF AnswersOK, Repeats
<1>3. \A a \in answers : a.n \in Nat /\ a \in Repeats(a.request) /\ a.n <= Cardinality(Repeats(a.request))
  BY DEF AnswersOK, Repeats, InOrder
<1>4. new \notin answers
  BY <1>1, <1>2, <1>3
<1>5. Now(q) = Repeats(q) \cup {new} /\ \A p : p # q => Now(p) = Repeats(p)
  BY <1>1 DEF Repeats
<1>6. new \notin Repeats(q)
  BY <1>4 DEF Repeats
<1>7. answers' = answers \cup {new}
  OBVIOUS
<1> HIDE DEF new, Now
<1>8. Cardinality(Now(q)) = Cardinality(Repeats(q)) + 1
  BY <1>2, <1>5, <1>6, FS_AddElement
<1>9. \A p : /\ Cardinality(Repeats(p)) <= Cardinality(Now(p))
             /\ Cardinality(Repeats(p)) \in Nat /\ Cardinality(Now(p)) \in Nat
  <2>1. \A p : p # q => Cardinality(Now(p)) = Cardinality(Repeats(p))
    BY <1>5
  <2> QED
    BY <1>2, <1>8, <2>1
<1>10. InOrder'
  <2>1. ASSUME NEW a \in answers PROVE a.n <= Cardinality(Now(a.request))
    <3>1. a.n \in Nat /\ a.n <= Cardinality(Repeats(a.request))
      BY <1>3
    <3> QED
      BY <1>9, <3>1
  <2>2. new.n <= Cardinality(Now(new.request))
    BY <1>1, <1>2, <1>8
  <2>3. \A a \in answers' : a.n <= Cardinality(Now(a.request))
    BY <1>7, <2>1, <2>2
  <2> QED
    BY <2>3 DEF InOrder, Repeats, Now
<1>11. ASSUME NEW a \in answers', NEW b \in answers', a.request = b.request, a.n < b.n
       PROVE  a \in unsaved'
  <2>1. CASE a \in answers /\ b \in answers
    BY <1>11, <2>1 DEF BoughtOnce
  <2>2. CASE a \in answers /\ b = new
    BY <1>1, <1>3, <1>11, <2>2
  <2>3. CASE a = new
    <3>1. b \in answers => b.n <= Cardinality(Repeats(q)) /\ b.n \in Nat
      BY <1>1, <1>3, <1>11, <2>3
    <3> QED
      BY <1>1, <1>2, <1>7, <1>11, <2>3, <3>1
  <2> QED
    BY <1>7, <2>1, <2>2, <2>3
<1> QED
  BY <1>10, <1>11 DEF BoughtOnce

\* What a segment at work holds, the disk has or its saving would keep.
LEMMA HeldIsFreshOrKept ==
    ASSUME NEW s \in EpisodeClips, NEW r \in Routes, Held(s, r) \in answers
    PROVE  Held(s, r) \in disk \cup Fresh(s)
BY DEF Held, Fresh

\* A save whose entries' keys are free adds them, and one entry stays under a key.
LEMMA SaveAdds ==
    ASSUME OneEntry, NEW new, Save(new),
           \A a \in new : Load(a.request) = {},
           \A a, b \in new : a.request = b.request => a = b
    PROVE  disk' = disk \cup new /\ OneEntry'
<1>1. disk' = disk \cup new
  BY DEF Save, Load
<1> QED
  BY <1>1 DEF OneEntry, Load

\* A step that buys nothing, keeps nothing and gives nothing up keeps the invariant.
LEMMA BoughtStays ==
    ASSUME BInv, UNCHANGED <<answers, unsaved, disk, reply, heard>>, stage' # "over",
           stage # "over",
           \A s \in EpisodeClips : clip[s] \in AtWork <=> clip'[s] \in AtWork,
           asking' => Load(Request(Current))' = {}
    PROVE  BInv'
<1>1. \A s \in EpisodeClips, r \in Routes :
          Held(s, r)' = Held(s, r) /\ Load(Transcript(s, r))' = Load(Transcript(s, r))
  BY DEF Held, Transcript, Load
<1>2. InPlay' /\ HeldIsKnown'
  BY <1>1 DEF BInv, InPlay, HeldIsKnown, Transcript, Load
<1>3. AskedAfresh' /\ OverIsIdle'
  BY DEF BInv, AskedAfresh, Load, OverIsIdle
<1> QED
  BY <1>2, <1>3 DEF BInv, InOrder, Repeats, OneEntry, BoughtOnce

\* While a request is out, it has no entry as long as nothing it is made from changes.
LEMMA AskedStays ==
    ASSUME AskedAfresh, UNCHANGED <<windows, heard, fused, clip, disk, asking>>
    PROVE  asking' => Load(Request(Current))' = {}
<1>1. Request(Current)' = Request(Current)
  BY RequestStays
<1>2. Load(Request(Current))' = Load(Request(Current))
  BY <1>1 DEF Load
<1> QED
  BY <1>2 DEF AskedAfresh

\* The invariant holds initially.
LEMMA BoughtInitially == PaidInit => BInv
BY DEF PaidInit, BInv, InOrder, OneEntry, InPlay, HeldIsKnown, AskedAfresh, OverIsIdle,
       BoughtOnce, AtWork

\* A process that begins or ends with nothing in hand, all that was neither kept nor given up
\* before given up now, or of no use any more.
LEMMA BoughtForgotten ==
    ASSUME BInv, NEW to, Forget(to), InOrder', BoughtOnce', disk' \subseteq disk,
           to # "over" => answers' \ unsaved' \subseteq disk'
    PROVE  BInv'
<1>1. /\ stage' = to /\ ~asking' /\ reply' = {}
      /\ \A s \in EpisodeClips : clip'[s] = "todo"
  BY DEF Forget
<1> QED
  BY <1>1 DEF BInv, OneEntry, InPlay, HeldIsKnown, AskedAfresh, OverIsIdle, AtWork

\* Whatever was bought before of a transcript that is out has been given up.
LEMMA TranscriptIsNew ==
    ASSUME StagesApart, AnswersOK, BInv, NEW s \in EpisodeClips, NEW r \in Routes,
           clip[s] = "sent", r \in Unanswered(s)
    PROVE  /\ Repeats(Transcript(s, r)) \subseteq unsaved
           /\ reply = {} /\ ~asking /\ stage # "over"
<1>1. heard[s][r] = 0 /\ clip[s] \in AtWork
  BY DEF Unanswered, AtWork
<1>2. reply = {} /\ ~asking /\ stage # "over"
  BY DEF StagesApart, BInv, OverIsIdle, Idle
<1> SUFFICES ASSUME NEW b \in answers, b.request = Transcript(s, r), b \notin unsaved PROVE FALSE
  BY <1>2 DEF Repeats
<1>3. b # Held(s, r)
  BY <1>1 DEF Held, AnswersOK
<1>4. b \notin disk
  BY <1>1, <1>3 DEF BInv, HeldIsKnown, Load
<1>5. PICK t \in EpisodeClips, p \in Routes : b = Held(t, p)
  BY <1>2, <1>4 DEF BInv, InPlay
<1>6. t = s /\ p = r
  BY <1>5 DEF Held, Transcript
<1> QED
  BY <1>3, <1>5, <1>6

\* Whatever was bought before of a fusion request that is out has been given up.
LEMMA WindowIsNew ==
    ASSUME StagesApart, BInv, asking
    PROVE  Repeats(Request(Current)) \subseteq unsaved
<1> SUFFICES ASSUME NEW b \in answers, b.request = Request(Current), b \notin unsaved PROVE FALSE
  BY DEF Repeats
<1>1. stage = "fusing" /\ reply = {} /\ \A s \in EpisodeClips : clip[s] \in Idle
  BY DEF StagesApart
<1>2. b \notin disk
  BY DEF BInv, AskedAfresh, Load
<1>3. PICK t \in EpisodeClips : clip[t] \in AtWork
  BY <1>1, <1>2 DEF BInv, InPlay
<1> QED
  BY <1>1, <1>3 DEF AtWork, Idle

\* No step buys a request again unless what was bought of it before is given up.
LEMMA BInvKept == SInv /\ RInv /\ BInv /\ [PaidNext]_paidVars => BInv'
<1> SUFFICES ASSUME SInv, RInv, BInv, [PaidNext]_paidVars
             PROVE  BInv'
  OBVIOUS
<1>0. StagesApart /\ AnswersOK /\ RecordsOK /\ disk \subseteq answers
  BY DEF SInv, RInv, RecordsOK, KeptIsOnRecord
<1>00. /\ InOrder /\ OneEntry /\ InPlay /\ HeldIsKnown /\ AskedAfresh /\ OverIsIdle /\ BoughtOnce
       /\ clip \in [EpisodeClips -> {"todo"} \cup AtWork \cup Idle]
       /\ heard \in [EpisodeClips -> [Routes -> Nat]]
  BY <1>0 DEF BInv, StagesApart, RecordsOK
\* A segment sent holds what the disk has of it, and is the only one to hold it.
<1>1. ASSUME NEW s \in EpisodeClips, Dispatch(s)
      PROVE  BInv'
  <2>1. /\ stage = "asr" /\ stage' = stage /\ clip[s] = "todo" /\ ~asking /\ ~asking'
        /\ UNCHANGED <<answers, unsaved, disk, reply>>
    BY <1>0, <1>1 DEF Dispatch, StagesApart, fusing, history
  <2>2. CASE clip' = [clip EXCEPT ![s] = "skipped"] /\ UNCHANGED heard
    <3>1. \A t \in EpisodeClips : clip[t] \in AtWork <=> clip'[t] \in AtWork
      BY <1>00, <2>1, <2>2 DEF AtWork
    <3> QED
      BY <2>1, <2>2, <3>1, BoughtStays
  <2>3. ASSUME clip' = [clip EXCEPT ![s] = "sent"],
               heard' = [heard EXCEPT ![s] = [r \in Routes |->
                    IF Load(Transcript(s, r)) = {} THEN 0
                    ELSE (CHOOSE a \in Load(Transcript(s, r)) : TRUE).n]]
        PROVE  BInv'
    <3>1. \A t \in EpisodeClips, r \in Routes : Load(Transcript(t, r))' = Load(Transcript(t, r))
      BY <2>1 DEF Load, Transcript
    <3>2. \A t \in EpisodeClips \ {s} :
              clip'[t] = clip[t] /\ \A r \in Routes : Held(t, r)' = Held(t, r)
      BY <1>00, <2>3 DEF Held, Transcript
    <3>3. ASSUME NEW r \in Routes PROVE Load(Transcript(s, r)) \subseteq {Held(s, r)'}
      <4>1. heard'[s][r] = IF Load(Transcript(s, r)) = {} THEN 0
                           ELSE (CHOOSE a \in Load(Transcript(s, r)) : TRUE).n
        BY <1>00, <2>3
      <4>2. ASSUME NEW b \in Load(Transcript(s, r)) PROVE b = Held(s, r)'
        <5>1. PICK a \in Load(Transcript(s, r)) : heard'[s][r] = a.n
          BY <4>1, <4>2
        <5>2. a \in answers /\ a \in disk /\ b \in disk /\ a.request = Transcript(s, r) /\ b.request = a.request
          BY <1>0, <4>2, <5>1 DEF Load
        <5>3. a = b
          BY <1>00, <5>2 DEF OneEntry
        <5>4. a.request.kind = "asr"
          BY <5>2 DEF Transcript
        <5>5. a = [request |-> a.request, verdict |-> "ok", n |-> a.n]
          BY <1>0, <5>2, <5>4 DEF AnswersOK
        <5> QED
          BY <5>1, <5>2, <5>3, <5>5 DEF Held, Transcript
      <4> QED
        BY <4>2
    <3>4. HeldIsKnown'
      BY <1>00, <2>3, <3>1, <3>2, <3>3 DEF HeldIsKnown
    <3>5. InPlay'
      <4> SUFFICES ASSUME NEW a \in answers, a \notin unsaved, a \notin disk, a \notin reply
                   PROVE  \E t \in EpisodeClips, r \in Routes : clip'[t] \in AtWork /\ a = Held(t, r)'
        BY <2>1 DEF InPlay
      <4>1. PICK t \in EpisodeClips, r \in Routes : clip[t] \in AtWork /\ a = Held(t, r)
        BY <1>00, <2>1 DEF InPlay
      <4>2. t # s
        BY <2>1, <4>1 DEF AtWork
      <4> QED
        BY <3>2, <4>1, <4>2
    <3> QED
      BY <1>00, <2>1, <3>4, <3>5
      DEF BInv, InOrder, Repeats, OneEntry, AskedAfresh, Load, OverIsIdle, BoughtOnce
  <2> QED
    BY <1>1, <2>2, <2>3 DEF Dispatch
\* A transcript is bought of a clip and route of which the disk has none, and nobody else.
<1>2. ASSUME NEW s \in EpisodeClips, NEW r \in Routes, Transcribed(s, r)
      PROVE  BInv'
  <2> DEFINE q == Transcript(s, r)
             a == NewAnswer(q, "ok")
  <2>1. /\ clip[s] = "sent" /\ heard[s][r] = 0 /\ heard' = [heard EXCEPT ![s][r] = a.n]
        /\ answers' = answers \cup {a}
        /\ UNCHANGED <<stage, clip, asking, reply, disk, unsaved>>
        /\ reply = {} /\ ~asking /\ stage # "over"
    BY <1>0, <1>00, <1>2 DEF Transcribed, Pay, Unanswered, fusing, StagesApart, OverIsIdle, Idle
  <2>2. Repeats(q) \subseteq unsaved
    BY <1>0, <1>2, TranscriptIsNew DEF Transcribed
  <2>3. InOrder' /\ BoughtOnce'
    BY <1>0, <1>00, <2>1, <2>2, BoughtAgain
  <2>4. Held(s, r)' = a
    BY <1>00, <2>1 DEF Held, Transcript, NewAnswer
  <2>5. \A t \in EpisodeClips, p \in Routes : t # s \/ p # r =>
            Held(t, p)' = Held(t, p) /\ Load(Transcript(t, p))' = Load(Transcript(t, p))
    BY <1>00, <2>1 DEF Held, Transcript, Load
  <2>6. Load(q)' = {}
    <3>1. ASSUME NEW b \in Load(q) PROVE FALSE
      <4>1. b = Held(s, r) /\ b \in answers
        BY <1>0, <1>00, <2>1 DEF HeldIsKnown, Load, AtWork
      <4> QED
        BY <1>0, <2>1, <4>1 DEF AnswersOK, Held
    <3> QED
      BY <2>1, <3>1 DEF Load, Transcript
  <2>7. HeldIsKnown'
    BY <1>00, <2>1, <2>5, <2>6 DEF HeldIsKnown
  <2>8. InPlay'
    <3> SUFFICES ASSUME NEW b \in answers', b \notin unsaved, b \notin disk
                 PROVE  \E t \in EpisodeClips, p \in Routes : clip[t] \in AtWork /\ b = Held(t, p)'
      BY <2>1 DEF InPlay
    <3>1. CASE b = a
      BY <2>1, <2>4, <3>1 DEF AtWork
    <3>2. CASE b \in answers
      <4>1. PICK t \in EpisodeClips, p \in Routes : clip[t] \in AtWork /\ b = Held(t, p)
        BY <1>00, <2>1, <3>2 DEF InPlay
      <4>2. b.n # 0 /\ b.n = heard[t][p]
        BY <1>0, <3>2, <4>1 DEF AnswersOK, Held
      <4> QED
        BY <2>1, <2>5, <4>1, <4>2
    <3> QED
      BY <2>1, <3>1, <3>2
  <2> QED
    BY <1>00, <2>1, <2>3, <2>7, <2>8 DEF BInv, OneEntry, AskedAfresh, Load, OverIsIdle
<1>3. ASSUME NEW s \in EpisodeClips, NEW r \in Routes, RouteFailed(s, r)
      PROVE  BInv'
  <2>1. /\ clip[s] = "sent" /\ ~asking'
        /\ UNCHANGED <<stage, clip, heard, reply, disk, answers, unsaved>>
    BY <1>0, <1>3 DEF RouteFailed, fusing, StagesApart, Idle
  <2>2. stage # "over"
    BY <1>00, <2>1 DEF OverIsIdle
  <2> QED
    BY <2>1, <2>2, BoughtStays
\* What is bought of a route whose row is refused is given up at once.
<1>18. ASSUME NEW s \in EpisodeClips, NEW r \in Routes, RowRefused(s, r)
       PROVE  BInv'
  <2>1. /\ clip[s] = "sent" /\ r \in Unanswered(s)
        /\ UNCHANGED <<stage, clip, heard, asking, reply, disk>>
    BY <1>18 DEF RowRefused, fusing
  <2>2. reply = {} /\ ~asking' /\ stage # "over" /\ Repeats(Transcript(s, r)) \subseteq unsaved
    BY <1>0, <2>1, TranscriptIsNew
  <2>3. CASE answers' = answers /\ unsaved' = unsaved
    BY <2>1, <2>2, <2>3, BoughtStays
  <2>4. ASSUME answers' = answers \cup {NewAnswer(Transcript(s, r), "ok")},
               unsaved' = unsaved \cup {NewAnswer(Transcript(s, r), "ok")}
        PROVE  BInv'
    <3>1. InOrder' /\ BoughtOnce'
      BY <1>0, <1>00, <2>2, <2>4, BoughtAgain
    <3>2. \A t \in EpisodeClips, p \in Routes :
              Held(t, p)' = Held(t, p) /\ Load(Transcript(t, p))' = Load(Transcript(t, p))
      BY <2>1 DEF Held, Transcript, Load
    <3>3. \A a \in answers' \ unsaved' : a \in answers \ unsaved
      BY <2>4
    <3>4. InPlay' /\ HeldIsKnown'
      BY <1>00, <2>1, <2>2, <3>2, <3>3 DEF InPlay, HeldIsKnown
    <3> QED
      BY <1>00, <2>1, <2>2, <3>1, <3>4 DEF BInv, OneEntry, AskedAfresh, OverIsIdle
  <2> QED
    BY <1>18, <2>3, <2>4 DEF RowRefused, Refuse
<1>4. ASSUME NEW s \in EpisodeClips, CommitSegment(s)
      PROVE  BInv'
  <2>1. /\ clip[s] = "sent" /\ clip' = [clip EXCEPT ![s] = "paid"] /\ ~asking'
        /\ UNCHANGED <<stage, heard, reply, disk, answers, unsaved>>
    BY <1>0, <1>4 DEF CommitSegment, fusing, history, StagesApart, Idle
  <2>2. stage # "over"
    BY <1>00, <2>1 DEF OverIsIdle
  <2>3. \A t \in EpisodeClips : clip[t] \in AtWork <=> clip'[t] \in AtWork
    BY <1>00, <2>1 DEF AtWork
  <2> QED
    BY <2>1, <2>2, <2>3, BoughtStays
\* A segment that leaves the workers' hands leaves what it held on disk or given up.
<1>5. ASSUME NEW s \in EpisodeClips, stage # "over",
             UNCHANGED <<stage, reply, answers>>, ~asking', reply = {}, OneEntry',
             \A t \in EpisodeClips \ {s} :
                clip'[t] = clip[t] /\ \A r \in Routes : /\ Held(t, r)' = Held(t, r)
                                                        /\ Load(Transcript(t, r))' = Load(Transcript(t, r)),
             clip'[s] \notin AtWork,
             disk \subseteq disk', unsaved \subseteq unsaved',
             Fresh(s) \subseteq disk' \cup unsaved'
      PROVE  BInv'
  <2>1. InPlay'
    <3> SUFFICES ASSUME NEW a \in answers, a \notin unsaved', a \notin disk'
                 PROVE  \E t \in EpisodeClips, r \in Routes : clip'[t] \in AtWork /\ a = Held(t, r)'
      BY <1>5 DEF InPlay
    <3>1. PICK t \in EpisodeClips, r \in Routes : clip[t] \in AtWork /\ a = Held(t, r)
      BY <1>00, <1>5 DEF InPlay
    <3>2. t # s
      BY <1>5, <3>1, HeldIsFreshOrKept
    <3> QED
      BY <1>5, <3>1, <3>2
  <2>2. HeldIsKnown'
    BY <1>00, <1>5 DEF HeldIsKnown
  <2> QED
    BY <1>00, <1>5, <2>1, <2>2
    DEF BInv, InOrder, Repeats, AskedAfresh, Load, OverIsIdle, BoughtOnce
<1>6. ASSUME NEW s \in EpisodeClips, AnalysisRaises(s) \/ CommitRefused(s)
      PROVE  BInv'
  <2>1. /\ clip[s] = "sent" /\ clip' = [clip EXCEPT ![s] = "discarded"]
        /\ heard' = [heard EXCEPT ![s] = Nothing]
        /\ unsaved' = unsaved \cup Fresh(s)
        /\ ~asking' /\ reply = {} /\ UNCHANGED <<stage, reply, disk, answers>>
    BY <1>0, <1>6 DEF AnalysisRaises, CommitRefused, Refuse, Discard, fusing, StagesApart, Idle
  <2>2. stage # "over"
    BY <1>00, <2>1 DEF OverIsIdle
  <2>3. \A t \in EpisodeClips \ {s} :
            clip'[t] = clip[t] /\ \A r \in Routes : /\ Held(t, r)' = Held(t, r)
                                                    /\ Load(Transcript(t, r))' = Load(Transcript(t, r))
    BY <1>00, <2>1 DEF Held, Transcript, Load
  <2>4. clip'[s] \notin AtWork
    BY <1>00, <2>1 DEF AtWork
  <2>5. OneEntry'
    BY <1>00, <2>1 DEF OneEntry
  <2> QED
    BY <1>5, <2>1, <2>2, <2>3, <2>4, <2>5
\* What a segment saves replaces nothing: its keys are free.
<1>7. ASSUME NEW s \in EpisodeClips, KeepPaid(s)
      PROVE  BInv'
  <2>1. PICK failed \in SUBSET Fresh(s) :
            Save(Fresh(s) \ failed) /\ unsaved' = unsaved \cup failed
    BY <1>7 DEF KeepPaid
  <2>2. /\ clip[s] = "paid" /\ ~asking' /\ reply = {}
        /\ UNCHANGED <<stage, reply, answers>>
    BY <1>0, <1>7 DEF KeepPaid, fusing, StagesApart, AtWork, Idle
  <2>3. \/ clip' = [clip EXCEPT ![s] = "done"] /\ UNCHANGED heard
        \/ clip' = [clip EXCEPT ![s] = "discarded"] /\ heard' = [heard EXCEPT ![s] = Nothing]
    BY <1>7 DEF KeepPaid, Discard
  <2>4. stage # "over"
    BY <1>00, <2>2 DEF OverIsIdle
  <2>5. clip'[s] \notin AtWork
    BY <1>00, <2>3 DEF AtWork
  <2>6. ASSUME NEW a \in Fresh(s)
        PROVE  /\ Load(a.request) = {}
               /\ \E r \in Routes : a = Held(s, r) /\ a.request = Transcript(s, r)
    <3>1. PICK r \in Routes : a = Held(s, r)
      BY <1>0, FreshIsHeld
    <3>2. a.request = Transcript(s, r) /\ a \notin disk
      BY <3>1 DEF Held, Fresh
    <3>3. Load(a.request) \subseteq {a}
      BY <1>00, <2>2, <3>1, <3>2 DEF HeldIsKnown, AtWork
    <3> QED
      BY <3>1, <3>2, <3>3 DEF Load
  <2>7. ASSUME NEW a \in Fresh(s), NEW b \in Fresh(s), a.request = b.request PROVE a = b
    <3>1. PICK r \in Routes : a = Held(s, r) /\ a.request = Transcript(s, r)
      BY <2>6
    <3>2. PICK p \in Routes : b = Held(s, p) /\ b.request = Transcript(s, p)
      BY <2>6
    <3>3. r = p
      BY <2>7, <3>1, <3>2 DEF Transcript
    <3> QED
      BY <3>1, <3>2, <3>3
  <2>8. disk' = disk \cup (Fresh(s) \ failed) /\ OneEntry'
    BY <1>00, <2>1, <2>6, <2>7, SaveAdds
  <2>9. \A t \in EpisodeClips \ {s} :
            clip'[t] = clip[t] /\ \A r \in Routes : /\ Held(t, r)' = Held(t, r)
                                                    /\ Load(Transcript(t, r))' = Load(Transcript(t, r))
    <3>1. \A t \in EpisodeClips \ {s} : clip'[t] = clip[t] /\ \A r \in Routes : Held(t, r)' = Held(t, r)
      BY <1>00, <2>3 DEF Held, Transcript
    <3>2. ASSUME NEW t \in EpisodeClips \ {s}, NEW r \in Routes, NEW a \in Fresh(s)
          PROVE  a.request # Transcript(t, r)
      <4>1. PICK p \in Routes : a.request = Transcript(s, p)
        BY <2>6
      <4> QED
        BY <4>1 DEF Transcript
    <3>3. \A t \in EpisodeClips \ {s}, r \in Routes : Load(Transcript(t, r))' = Load(Transcript(t, r))
      BY <2>8, <3>2 DEF Load, Transcript
    <3> QED
      BY <3>1, <3>3
  <2> QED
    BY <1>5, <2>1, <2>2, <2>4, <2>5, <2>8, <2>9
\* An end of the run.
<1>8. ASSUME End, UNCHANGED history
      PROVE  BInv'
  <2>1. InOrder' /\ BoughtOnce'
    BY <1>00, <1>8 DEF InOrder, Repeats, BoughtOnce, history
  <2> QED
    BY <1>8, <2>1, BoughtForgotten DEF End
<1>9. ASSUME EndTranscribing
      PROVE  BInv'
  <2>1. CASE End
    BY <1>8, <1>9, <2>1 DEF EndTranscribing
  <2>2. CASE stage' = "fusing" /\ UNCHANGED <<transcribing, asking, reply, disk, history>>
    BY <1>0, <1>9, <2>2, BoughtStays DEF EndTranscribing, StagesApart, transcribing, history
  <2> QED
    BY <1>9, <2>1, <2>2 DEF EndTranscribing
<1>10. ASSUME AskFuser
       PROVE  BInv'
  <2>1. /\ stage = "fusing" /\ stage' = stage /\ ~asking
        /\ UNCHANGED <<clip, heard, disk, reply, answers, unsaved>>
    BY <1>10 DEF AskFuser, transcribing, history
  <2>2. ASSUME asking' PROVE Load(Request(Current))' = {}
    <3>1. Load(Request(Current)) = {} /\ UNCHANGED <<windows, fused, heard, clip, disk>>
      BY <1>10, <2>1, <2>2 DEF AskFuser
    <3>2. Request(Current)' = Request(Current)
      BY <3>1, RequestStays
    <3> QED
      BY <3>1, <3>2 DEF Load
  <2> QED
    BY <2>1, <2>2, BoughtStays
\* A fusion request is bought when it has no entry, and no other answer is in hand.
<1>11. ASSUME NEW verdict \in {"ok", "bad", "cut"}, FuserAnswers(verdict)
       PROVE  BInv'
  <2> DEFINE q == Request(Current)
             a == NewAnswer(q, verdict)
  <2>1. /\ asking /\ ~asking' /\ answers' = answers \cup {a} /\ reply' = {a} /\ reply = {}
        /\ stage = "fusing" /\ \A s \in EpisodeClips : clip[s] \in Idle
        /\ UNCHANGED <<stage, clip, heard, disk, unsaved>>
    BY <1>0, <1>11 DEF FuserAnswers, Pay, transcribing, StagesApart
  <2>2. Load(q) = {}
    BY <1>00, <2>1 DEF AskedAfresh
  <2>3. Repeats(q) \subseteq unsaved
    BY <1>0, <2>1, WindowIsNew
  <2>4. InOrder' /\ BoughtOnce'
    BY <1>0, <1>00, <2>1, <2>3, BoughtAgain
  <2>5. HeldIsKnown'
    BY <2>1 DEF HeldIsKnown, AtWork, Idle
  <2>6. InPlay'
    <3> SUFFICES ASSUME NEW b \in answers, b \notin unsaved PROVE b \in disk
      BY <2>1 DEF InPlay
    <3> QED
      BY <1>00, <2>1 DEF InPlay, AtWork, Idle
  <2>7. AskedAfresh'
    <3>1. a.request = q
      BY DEF NewAnswer
    <3>2. \A b \in reply' : Load(b.request)' = {}
      BY <2>1, <2>2, <3>1 DEF Load
    <3> QED
      BY <2>1, <3>2 DEF AskedAfresh, Load
  <2> QED
    BY <1>00, <2>1, <2>4, <2>5, <2>6, <2>7 DEF BInv, OneEntry, OverIsIdle
<1>12. ASSUME FuserFails
       PROVE  BInv'
  <2>1. /\ stage = "fusing" /\ stage' = stage /\ ~asking'
        /\ UNCHANGED <<clip, heard, reply, disk, answers, unsaved>>
    BY <1>0, <1>12 DEF FuserFails, transcribing, StagesApart
  <2> QED
    BY <2>1, BoughtStays
<1>13. ASSUME KeepAnswer
       PROVE  BInv'
  <2>1. /\ stage = "fusing" /\ \A s \in EpisodeClips : clip[s] \in Idle
        /\ reply' = {} /\ ~asking'
        /\ UNCHANGED <<stage, clip, heard, answers>>
    BY <1>0, <1>13 DEF KeepAnswer, transcribing, StagesApart
  <2>2. /\ disk \subseteq disk' /\ unsaved \subseteq unsaved'
        /\ reply \subseteq disk' \cup unsaved' /\ OneEntry'
    <3>1. CASE Save(reply) /\ UNCHANGED unsaved
      <4>1. (\A a \in reply : Load(a.request) = {}) /\ \A a, b \in reply : a.request = b.request => a = b
        BY <1>00 DEF AskedAfresh
      <4>2. disk' = disk \cup reply /\ OneEntry'
        BY <1>00, <3>1, <4>1, SaveAdds
      <4> QED
        BY <3>1, <4>2
    <3>2. CASE unsaved' = unsaved \cup reply /\ UNCHANGED disk
      BY <1>00, <3>2 DEF OneEntry
    <3> QED
      BY <1>13, <3>1, <3>2 DEF KeepAnswer
  <2>3. InPlay' /\ HeldIsKnown'
    BY <1>00, <2>1, <2>2 DEF InPlay, HeldIsKnown, AtWork, Idle
  <2> QED
    BY <1>00, <2>1, <2>2, <2>3
    DEF BInv, InOrder, Repeats, AskedAfresh, OverIsIdle, BoughtOnce
<1>14. ASSUME EndFusing
       PROVE  BInv'
  BY <1>8, <1>14 DEF EndFusing
<1>19. ASSUME FusionBreaks
       PROVE  BInv'
  <2>1. PICK paid \in IF asking THEN {{}, {NewAnswer(Request(Current), "ok")}} ELSE {reply} :
            answers' = answers \cup paid /\ unsaved' = unsaved \cup paid
    BY <1>19 DEF FusionBreaks
  <2>2. InOrder' /\ BoughtOnce'
    <3>1. CASE answers' = answers
      BY <1>00, <2>1, <3>1 DEF InOrder, Repeats, BoughtOnce
    <3>2. ASSUME asking, answers' = answers \cup {NewAnswer(Request(Current), "ok")}
          PROVE  InOrder' /\ BoughtOnce'
      <4>1. Repeats(Request(Current)) \subseteq unsaved
        BY <1>0, <3>2, WindowIsNew
      <4> QED
        BY <1>0, <1>00, <2>1, <3>2, <4>1, BoughtAgain DEF Request
    <3>3. paid = reply => answers' = answers
      BY <1>0, <2>1 DEF RecordsOK
    <3> QED
      BY <2>1, <3>1, <3>2, <3>3
  <2> QED
    BY <1>19, <2>2, BoughtForgotten DEF FusionBreaks, End
<1>15. ASSUME Scram
       PROVE  BInv'
  <2>1. /\ stage # "over" /\ stage' = stage
        /\ UNCHANGED <<clip, heard, windows, asking, reply, fused, disk, answers, unsaved>>
    BY <1>15 DEF Scram, transcribing, fusing
  <2> QED
    BY <1>00, <2>1, AskedStays, BoughtStays
\* What dies with the server is given up; the rest is on disk.
<1>16. ASSUME Outage
       PROVE  BInv'
  <2>1. /\ stage # "over" /\ Forget("asr") /\ UNCHANGED <<disk, answers>>
        /\ unsaved' = unsaved \cup (reply \cup UNION {Fresh(s) : s \in {s \in EpisodeClips : clip[s] \in AtWork}})
    BY <1>16 DEF Outage
  <2>2. ASSUME NEW a \in answers, a \notin unsaved', a \notin disk PROVE FALSE
    <3>1. PICK s \in EpisodeClips, r \in Routes : clip[s] \in AtWork /\ a = Held(s, r)
      BY <1>00, <2>1, <2>2 DEF InPlay
    <3> QED
      BY <2>1, <2>2, <3>1, HeldIsFreshOrKept
  <2>3. InOrder' /\ BoughtOnce'
    BY <1>00, <2>1 DEF InOrder, Repeats, BoughtOnce
  <2> QED
    BY <2>1, <2>2, <2>3, BoughtForgotten
<1>17. ASSUME UNCHANGED paidVars
       PROVE  BInv'
  <2>1. UNCHANGED <<stage, clip, heard, windows, asking, reply, fused, disk, answers, unsaved>>
    BY <1>17 DEF paidVars, memory, history
  <2>2. CASE stage # "over"
    BY <1>00, <2>1, <2>2, AskedStays, BoughtStays
  <2>3. CASE stage = "over"
    <3>1. ~asking
      BY <1>0, <2>3 DEF StagesApart
    <3>2. \A s \in EpisodeClips : clip[s] = "todo"
      BY <1>00, <2>3 DEF OverIsIdle
    <3> QED
      BY <1>00, <2>1, <2>3, <3>1, <3>2
      DEF BInv, InOrder, Repeats, OneEntry, InPlay, HeldIsKnown, AskedAfresh, Load, OverIsIdle,
          BoughtOnce, AtWork
  <2> QED
    BY <2>2, <2>3
<1> QED
  BY <1>1, <1>2, <1>3, <1>4, <1>6, <1>7, <1>9, <1>10, <1>11, <1>12, <1>13, <1>14, <1>15, <1>16, <1>17,
     <1>18, <1>19
  DEF PaidNext

\* The three invariants hold in every reachable state.
LEMMA BoughtInv == PaidSpec => [](SInv /\ RInv /\ BInv)
<1>1. PaidInit => SInv /\ RInv /\ BInv
  BY Initially, RecordedInitially, BoughtInitially
<1>2. SInv /\ RInv /\ BInv /\ [PaidNext]_paidVars => (SInv /\ RInv /\ BInv)'
  BY SInvKept, RInvKept, BInvKept
<1> QED
  BY <1>1, <1>2, PTL DEF PaidSpec

\* Nothing is bought twice, by whichever worker and across restarts, unless its first answer was
\* in hand when the server died, its row was refused, its save failed, or its segment's analysis
\* or commit raised: a request is sent only when it has no entry in the checkpoint, and every
\* answer gets one at once.
THEOREM BoughtOnceTheorem == PaidSpec => []BoughtOnce
<1>1. BInv => BoughtOnce
  BY DEF BInv
<1> QED
  BY <1>1, BoughtInv, PTL

-----------------------------------------------------------------------------
(***************************************************************************)
(* Stage 4's windows: what a plan of the kept segments asks for.           *)
(***************************************************************************)

Increasing(order, S) == \A i, j \in 1..Cardinality(S) : i < j => order[i] < order[j]

\* Any of the first m clips can be put in time order.
Orders(m) == \A T \in SUBSET (1..m) : \E order \in [1..Cardinality(T) -> T] : Increasing(order, T)

\* None can be.
LEMMA OrderOfNone == Orders(0)
<1> SUFFICES ASSUME NEW T \in SUBSET (1..0)
             PROVE  \E order \in [1..Cardinality(T) -> T] : Increasing(order, T)
  BY DEF Orders
<1>1. 1..0 = {}
  OBVIOUS
<1>2. T = {}
  BY <1>1
<1>3. Cardinality(T) = 0
  BY <1>2, FS_EmptySet
<1>4. [i \in 1..Cardinality(T) |-> i] \in [1..Cardinality(T) -> T]
  BY <1>1, <1>3
<1>5. Increasing([i \in 1..Cardinality(T) |-> i], T)
  BY <1>1, <1>3 DEF Increasing
<1> QED
  BY <1>4, <1>5

\* With one clip more, it comes last.
LEMMA OrderOfOneMore ==
    ASSUME NEW m \in Nat, Orders(m) PROVE Orders(m + 1)
<1> SUFFICES ASSUME NEW T \in SUBSET (1..m + 1)
             PROVE  \E order \in [1..Cardinality(T) -> T] : Increasing(order, T)
  BY DEF Orders
<1>1. CASE m + 1 \notin T
  <2>1. \A x \in T : x \in 1..m
    BY <1>1
  <2> QED
    BY <2>1 DEF Orders
<1>2. CASE m + 1 \in T
  <2>1. IsFiniteSet(1..m + 1)
    BY FS_Interval
  <2>2. IsFiniteSet(T)
    BY <2>1, FS_Subset
  <2>3. PICK U \in SUBSET (1..m) : U = T \ {m + 1}
    <3>1. \A x \in T \ {m + 1} : x \in 1..m
      OBVIOUS
    <3> QED
      BY <3>1
  <2>4. PICK k \in Nat : k = Cardinality(U) /\ Cardinality(T) = k + 1
    <3>1. Cardinality(T) \in Nat /\ Cardinality(U) = Cardinality(T) - 1 /\ IsFiniteSet(U)
      BY <1>2, <2>2, <2>3, FS_RemoveElement, FS_CardinalityType
    <3>2. Cardinality(U) \in Nat
      BY <3>1, FS_CardinalityType
    <3> QED
      BY <3>1, <3>2
  <2>5. PICK order \in [1..k -> U] : \A i, j \in 1..k : i < j => order[i] < order[j]
    BY <2>4 DEF Orders, Increasing
  <2> DEFINE longer == [i \in 1..k + 1 |-> IF i <= k THEN order[i] ELSE m + 1]
  <2>6. longer \in [1..k + 1 -> T]
    BY <1>2, <2>3, <2>5
  <2>7. ASSUME NEW i \in 1..k + 1, NEW j \in 1..k + 1, i < j PROVE longer[i] < longer[j]
    <3>1. i \in 1..k /\ longer[i] = order[i]
      BY <2>7
    <3>2. order[i] \in 1..m
      BY <3>1
    <3>3. CASE j <= k
      <4>1. j \in 1..k /\ longer[j] = order[j]
        BY <3>3
      <4> QED
        BY <2>5, <2>7, <3>1, <4>1
    <3>4. CASE ~(j <= k)
      <4>1. longer[j] = m + 1
        BY <3>4
      <4> QED
        BY <3>1, <3>2, <4>1
    <3> QED
      BY <3>3, <3>4
  <2> HIDE DEF longer
  <2>8. \A i, j \in 1..Cardinality(T) : i < j => longer[i] < longer[j]
    BY <2>4, <2>7
  <2> QED
    BY <2>4, <2>6, <2>8 DEF Increasing
<1> QED
  BY <1>1, <1>2

\* Some clips can be put in time order, however many there are.
LEMMA OrderExists ==
    ASSUME NEW n \in Nat
    PROVE  Orders(n)
<1> DEFINE good == {m \in Nat : Orders(m)}
<1>1. 0 \in good
  BY OrderOfNone
<1>2. \A m \in Nat : m \in good => m + 1 \in good
  BY OrderOfOneMore
<1>3. Nat \subseteq good
  <2> HIDE DEF good
  <2> QED
    BY <1>1, <1>2, EveryNumber
<1> QED
  BY <1>3

\* Put in order, each of them comes once.
LEMMA OrderedFacts ==
    ASSUME NEW S \in SUBSET EpisodeClips
    PROVE  /\ Cardinality(S) \in Nat /\ Ordered(S) \in [1..Cardinality(S) -> S]
           /\ IsInjective(Ordered(S)) /\ Range(Ordered(S)) = S
<1>0. Segments \in Nat /\ IsFiniteSet(EpisodeClips)
  BY EpisodeAssumption, FS_Interval DEF EpisodeClips
<1>1. IsFiniteSet(S)
  BY <1>0, FS_Subset
<1>2. PICK n \in Nat : n = Cardinality(S)
  BY <1>1, FS_CardinalityType
<1>3. PICK order \in [1..n -> S] : order = Ordered(S) /\ \A i, j \in 1..n : i < j => order[i] < order[j]
  <2>1. \E order \in [1..n -> S] : \A i, j \in 1..n : i < j => order[i] < order[j]
    BY <1>0, <1>2, OrderExists DEF Orders, Increasing, EpisodeClips
  <2> QED
    BY <1>2, <2>1 DEF Ordered
<1>4. ASSUME NEW i \in 1..n, NEW j \in 1..n, order[i] = order[j] PROVE i = j
  <2>0. order[i] \in EpisodeClips /\ order[j] \in EpisodeClips
    OBVIOUS
  <2>1. order[i] \in Nat /\ order[j] \in Nat
    BY <1>0, <2>0 DEF EpisodeClips
  <2>2. ~(i < j) /\ ~(j < i)
    BY <1>3, <1>4, <2>1
  <2> QED
    BY <2>2
<1>5. order \in Injection(1..n, S) /\ IsInjective(order)
  BY <1>3, <1>4 DEF Injection, IsInjective
<1>6. Cardinality(1..n) = n
  BY FS_Interval
<1>7. order \in Surjection(1..n, S)
  BY <1>1, <1>2, <1>5, <1>6, FS_Injection
<1>8. Range(order) = S
  BY <1>3, <1>7 DEF Range, Surjection
<1> QED
  BY <1>2, <1>3, <1>5, <1>8

\* A list, and lists, whose members are given other names.
Named(order, positions) == [k \in DOMAIN positions |-> order[positions[k]]]
AllNamed(order, old, new) ==
    DOMAIN new = DOMAIN old /\ \A g \in DOMAIN old : new[g] = Named(order, old[g])

\* What is in a list once its members are given other names.
Names(order, S) == {order[x] : x \in S}

\* Lists whose members are given other names, one for each, are as much apart.
LEMMA Renamed ==
    ASSUME NEW S, NEW T, NEW order \in [S -> T], IsInjective(order),
           NEW old \in Seq(Seq(S)), NEW new \in Seq(Seq(T)), AllNamed(order, old, new)
    PROVE  /\ Apart(old) => Apart(new)
           /\ Members(new) = Names(order, Members(old))
<1>1. ASSUME NEW g \in DOMAIN old
      PROVE  /\ DOMAIN new[g] = DOMAIN old[g]
             /\ \A k \in DOMAIN old[g] : old[g][k] \in S /\ new[g][k] = order[old[g][k]]
  <2>1. PICK s \in Seq(S) : s = old[g]
    BY ElementOfSeq
  <2>2. \A k \in DOMAIN s : s[k] \in S
    BY ElementOfSeq
  <2>3. new[g] = [k \in DOMAIN s |-> order[s[k]]]
    BY <1>1, <2>1 DEF AllNamed, Named
  <2> QED
    BY <2>1, <2>2, <2>3
<1>2. ASSUME NEW g \in DOMAIN old
      PROVE  Range(new[g]) = {order[x] : x \in Range(old[g])}
  BY <1>1, <1>2 DEF Range
<1>3. Members(new) = Names(order, Members(old))
  BY <1>2 DEF Members, AllNamed, Names
<1>4. ASSUME Apart(old) PROVE Apart(new)
  <2>0. DOMAIN new = DOMAIN old
    BY DEF AllNamed
  <2>1. \A x, y \in S : order[x] = order[y] => x = y
    BY DEF IsInjective
  <2>2. ASSUME NEW g \in DOMAIN new PROVE IsInjective(new[g])
    <3>1. IsInjective(old[g])
      BY <1>4, <2>0, <2>2 DEF Apart
    <3> QED
      BY <1>1, <2>0, <2>1, <2>2, <3>1 DEF IsInjective
  <2>3. ASSUME NEW g \in DOMAIN new, NEW h \in DOMAIN new, g # h,
               NEW v \in Range(new[g]), v \in Range(new[h]) PROVE FALSE
    <3>1. PICK x \in Range(old[g]) : v = order[x]
      BY <1>2, <2>0, <2>3
    <3>2. PICK y \in Range(old[h]) : v = order[y]
      BY <1>2, <2>0, <2>3
    <3>3. x \in S /\ y \in S
      BY <1>1, <2>0, <2>3, <3>1, <3>2 DEF Range
    <3>4. x = y
      BY <2>1, <3>1, <3>2, <3>3
    <3> QED
      BY <1>4, <2>0, <2>3, <3>1, <3>2, <3>4 DEF Apart
  <2> QED
    BY <2>2, <2>3 DEF Apart
<1> QED
  BY <1>3, <1>4

\* The windows an episode begins with ask for every segment with a record, once.
LEMMA PlannedCovers ==
    ASSUME Whole # {}
    PROVE  /\ Planned \in Seq(Windows(EpisodeClips))
           /\ IsInjective(Asked(Planned)) /\ Range(Asked(Planned)) = Whole
<1> DEFINE n == Cardinality(Whole)
           order == Ordered(Whole)
           words == [i \in DOMAIN order |-> 1]
           plan == PlanWindows(words, TargetWords, Segments, MaxWindow)
           groups == Groups(words, TargetWords, MaxWindow)
           Segs(positions) == Named(order, positions)
<1>0. Whole \in SUBSET EpisodeClips
  BY DEF Whole
<1>1. n \in Nat /\ order \in [1..n -> Whole] /\ IsInjective(order) /\ Range(order) = Whole
  BY <1>0, OrderedFacts
<1>2. Planned = [g \in DOMAIN plan |-> [targets |-> Segs(plan[g].targets), after |-> Segs(plan[g].after),
                                        depth   |-> plan[g].depth]]
  BY DEF Planned, Named
<1>3. Segments \in Nat
  BY EpisodeAssumption
<1> HIDE DEF n, order
<1>4. n # 0
  BY <1>1 DEF Range
<1>5. words \in Seq(Nat) /\ Len(words) = n /\ words # <<>>
  <2>1. words = [i \in 1..n |-> 1] /\ [i \in 1..n |-> 1] \in [1..n -> Nat]
    BY <1>1
  <2>2. words \in Seq(Nat) /\ Len(words) = n
    BY <1>1, <2>1
  <2> QED
    BY <1>4, <2>2, EmptySeq
<1> HIDE DEF words
<1>6. PlannedBy(plan, groups, n)
  BY <1>3, <1>5, PlanPositions
<1> HIDE DEF plan, groups
<1>7. /\ groups \in Seq(Seq(1..n)) /\ Apart(groups) /\ Members(groups) = 1..n
      /\ DOMAIN plan = DOMAIN groups
  BY <1>6 DEF PlannedBy
<1>8. PICK m \in Nat : m = Len(groups) /\ DOMAIN groups = 1..m
  BY <1>7, LenProperties
<1>9. ASSUME NEW positions \in Seq(1..n) 
      PROVE  Segs(positions) \in Seq(Whole) /\ Segs(positions) \in Seq(EpisodeClips)
  <2>1. PICK l \in Nat : l = Len(positions) /\ DOMAIN positions = 1..l
    BY LenProperties
  <2>2. \A k \in 1..l : positions[k] \in 1..n
    BY <2>1, ElementOfSeq
  <2>3. Segs(positions) \in [1..l -> Whole]
    BY <1>1, <2>1, <2>2 DEF Named
  <2>4. Segs(positions) \in [1..l -> EpisodeClips]
    BY <1>0, <2>3
  <2>5. [1..l -> Whole] \subseteq Seq(Whole) /\ [1..l -> EpisodeClips] \subseteq Seq(EpisodeClips)
    BY SeqDef
  <2> QED
    BY <2>3, <2>4, <2>5
<1>10. ASSUME NEW g \in 1..m
       PROVE  /\ Planned[g].targets = Segs(groups[g])
              /\ Planned[g] \in Windows(EpisodeClips)
  <2>1. PICK after \in Seq(1..n) : plan[g] = [targets |-> groups[g], after |-> after, depth |-> 0]
    BY <1>6, <1>8 DEF PlannedBy
  <2>2. groups[g] \in Seq(1..n)
    BY <1>7, <1>8, ElementOfSeq
  <2>3. PICK p, q \in Seq(EpisodeClips) : p = Segs(groups[g]) /\ q = Segs(after)
    BY <1>9, <2>2
  <2>4. Planned[g] = [targets |-> Segs(plan[g].targets), after |-> Segs(plan[g].after),
                      depth   |-> plan[g].depth]
    BY <1>2, <1>7, <1>8
  <2>5. Planned[g] = [targets |-> p, after |-> q, depth |-> 0]
    BY <2>1, <2>3, <2>4
  <2> QED
    BY <2>3, <2>5 DEF Windows
<1>11. Planned \in Seq(Windows(EpisodeClips)) /\ DOMAIN Planned = 1..m
  <2>1. DOMAIN Planned = 1..m
    BY <1>2, <1>7, <1>8
  <2>2. Planned = [g \in 1..m |-> Planned[g]]
    BY <1>2, <2>1
  <2>3. [g \in 1..m |-> Planned[g]] \in [1..m -> Windows(EpisodeClips)]
    BY <1>10
  <2>4. [1..m -> Windows(EpisodeClips)] \subseteq Seq(Windows(EpisodeClips))
    BY SeqDef
  <2> QED
    BY <2>1, <2>2, <2>3, <2>4
<1> DEFINE ts == Targets(Planned)
<1>12. DOMAIN ts = 1..m /\ \A g \in 1..m : ts[g] = Segs(groups[g])
  BY <1>10, <1>11 DEF Targets
<1>13. ts \in Seq(Seq(Whole))
  <2>1. \A g \in 1..m : groups[g] \in Seq(1..n)
    BY <1>7, <1>8, ElementOfSeq
  <2>2. \A g \in 1..m : ts[g] \in Seq(Whole)
    <3> HIDE DEF Segs, ts
    <3> QED
      BY <1>9, <1>12, <2>1
  <2>3. ts = [g \in 1..m |-> ts[g]]
    BY <1>12 DEF Targets
  <2>4. [g \in 1..m |-> ts[g]] \in [1..m -> Seq(Whole)]
    <3> HIDE DEF ts
    <3> QED
      BY <2>2
  <2>5. [1..m -> Seq(Whole)] \subseteq Seq(Seq(Whole))
    BY SeqDef
  <2> QED
    BY <2>3, <2>4, <2>5
<1>14. Asked(Planned) = FlattenSeq(ts)
  BY <1>11, TargetLists
<1> HIDE DEF ts
<1>15. Apart(ts) /\ Members(ts) = Names(order, Members(groups))
  <2>1. AllNamed(order, groups, ts)
    BY <1>8, <1>12 DEF AllNamed
  <2>2. PICK S : S = 1..n
    OBVIOUS
  <2>3. order \in [S -> Whole] /\ groups \in Seq(Seq(S))
    BY <1>1, <1>7, <2>2
  <2> QED
    BY <1>1, <1>7, <1>13, <2>1, <2>3, Renamed
<1>16. Members(ts) = Whole
  BY <1>1, <1>7, <1>15 DEF Names, Range
<1>17. IsInjective(FlattenSeq(ts)) /\ Range(FlattenSeq(ts)) = Whole
  BY <1>13, <1>15, <1>16, FlattenFacts
<1> QED
  BY <1>11, <1>14, <1>17

-----------------------------------------------------------------------------
(***************************************************************************)
(* What becomes of the windows.                                            *)
(***************************************************************************)

\* The windows are lists of clips, there are none before stage 4, and the answer in hand is the
\* current one's.
WindowsOK ==
    /\ windows \in Seq(Windows(EpisodeClips))
    /\ stage # "fusing" => windows = <<>> /\ fused = <<>> /\ unfused = {}
    /\ \A a \in reply : a.request = Request(Current)

FInv == WindowsOK /\ EachClipSettlesOnce /\ FusedFromCurrent

\* A step of stage 3, or the end of the run.
LEMMA NotYetFusing ==
    ASSUME stage' # "fusing", windows' = <<>>, fused' = <<>>, unfused' = {}, reply' = {}
    PROVE  FInv'
<1>1. WindowsOK'
  BY EmptySeq DEF WindowsOK
<1>2. DOMAIN fused' = {}
  BY EmptySeq
<1>3. EachClipSettlesOnce' /\ FusedFromCurrent'
  BY <1>2 DEF EachClipSettlesOnce, FusedFromCurrent
<1> QED
  BY <1>1, <1>3 DEF FInv

\* What is settled stays so when only the windows change, and ask for the same.
LEMMA SameAreAsked ==
    ASSUME FInv, UNCHANGED <<stage, clip, heard, fused, unfused>>,
           stage = "fusing", windows' \in Seq(Windows(EpisodeClips)), Asked(windows') = Asked(windows),
           \A a \in reply' : a.request = Request(Current)'
    PROVE  FInv'
<1>1. Whole' = Whole
  BY DEF Whole
<1>2. WindowsOK'
  BY DEF WindowsOK
<1>3. EachClipSettlesOnce'
  BY <1>1 DEF FInv, EachClipSettlesOnce
<1>4. FusedFromCurrent'
  BY DEF FInv, FusedFromCurrent
<1> QED
  BY <1>2, <1>3, <1>4 DEF FInv

\* The clips of the current window are asked for there alone, and not settled.
LEMMA CurrentIsApart ==
    ASSUME FInv, stage = "fusing", windows # <<>>
    PROVE  /\ Current \in Windows(EpisodeClips) /\ Tail(windows) \in Seq(Windows(EpisodeClips))
           /\ Asked(windows) = Current.targets \o Asked(Tail(windows))
           /\ IsInjective(Asked(Tail(windows)))
           /\ Range(Asked(windows)) = Range(Current.targets) \cup Range(Asked(Tail(windows)))
           /\ Range(Current.targets) \cap Range(Asked(Tail(windows))) = {}
           /\ Range(Current.targets) \cap (DOMAIN fused \cup unfused) = {}
           /\ Range(Asked(Tail(windows))) \cap (DOMAIN fused \cup unfused) = {}
<1>1. /\ Current \in Windows(EpisodeClips) /\ Tail(windows) \in Seq(Windows(EpisodeClips))
      /\ Asked(windows) = Current.targets \o Asked(Tail(windows))
  BY AskedFirst DEF FInv, WindowsOK, Current
<1>2. PICK s, t \in Seq(EpisodeClips) : s = Current.targets /\ t = Asked(Tail(windows))
  BY <1>1, TargetLists DEF Windows
<1>3. IsInjective(s \o t) /\ Range(s \o t) \cap (DOMAIN fused \cup unfused) = {}
  BY <1>1, <1>2 DEF FInv, EachClipSettlesOnce
<1>4. IsInjective(t) /\ Range(s) \cap Range(t) = {}
  BY <1>3, ConcatInjective
<1>5. Range(s \o t) = Range(s) \cup Range(t)
  BY RangeConcatenation
<1> QED
  BY <1>1, <1>2, <1>3, <1>4, <1>5

\* The current window is done with, and its clips left alone.
LEMMA WindowLeftUnfused ==
    ASSUME FInv, UNCHANGED <<stage, clip, heard, fused>>, reply' = {}, stage = "fusing", windows # <<>>,
           windows' = Tail(windows), unfused' = unfused \cup Range(Current.targets)
    PROVE  FInv'
<1>1. Whole' = Whole
  BY DEF Whole
<1>2. WindowsOK'
  BY CurrentIsApart DEF WindowsOK
<1>3. EachClipSettlesOnce'
  <2>1. PICK r, t, d : r = Range(Current.targets) /\ t = Range(Asked(Tail(windows))) /\ d = DOMAIN fused
    OBVIOUS
  <2>2. /\ Whole = r \cup t \cup d \cup unfused /\ d \cap unfused = {}
        /\ r \cap t = {} /\ r \cap (d \cup unfused) = {} /\ t \cap (d \cup unfused) = {}
    BY <2>1, CurrentIsApart DEF FInv, EachClipSettlesOnce
  <2>3. Asked(windows)' = Asked(Tail(windows)) /\ IsInjective(Asked(Tail(windows)))
    BY CurrentIsApart
  <2>4. Range(Asked(windows))' = t
    BY <2>1, <2>3
  <2>5. /\ Whole = t \cup d \cup (unfused \cup r) /\ t \cap (d \cup (unfused \cup r)) = {}
        /\ d \cap (unfused \cup r) = {}
    BY <2>2
  <2> QED
    BY <1>1, <2>1, <2>3, <2>4, <2>5 DEF EachClipSettlesOnce
<1>4. FusedFromCurrent'
  BY DEF FInv, FusedFromCurrent
<1> QED
  BY <1>2, <1>3, <1>4 DEF FInv

\* What the request of the current window is made from.
LEMMA RequestFacts ==
    ASSUME FInv, stage = "fusing", windows # <<>>
    PROVE  /\ Request(Current).targets = Current.targets
           /\ \A t \in DOMAIN Request(Current).shows : Request(Current).shows[t] = heard[t]
           /\ \A p \in DOMAIN Request(Current).carries :
                p \in DOMAIN fused /\ fused[p] = Request(Current).carries[p]
<1> DEFINE behind == {p \in Whole : p < Head(Current.targets)}
           near == {p \in behind : \A q \in behind : q >= p => q \in DOMAIN fused}
<1>1. Carryover(Current) = [p \in near |-> fused[p]]
  BY DEF Carryover
<1>2. ASSUME NEW p \in near PROVE p \in DOMAIN fused
  <2>1. p \in Nat
    BY EpisodeAssumption DEF Whole, EpisodeClips
  <2>2. p >= p
    BY <2>1
  <2> QED
    BY <2>2
<1> HIDE DEF near
<1>3. Request(Current).carries = Carryover(Current)
  BY DEF Request
<1>4. Request(Current).shows = [s \in Range(Current.targets \o Current.after) |-> heard[s]]
  BY DEF Request
<1> QED
  BY <1>1, <1>2, <1>3, <1>4 DEF Request

\* The current window is done with, and its clips' texts kept.
LEMMA WindowFused ==
    ASSUME FInv, UNCHANGED <<stage, clip, heard, unfused>>, reply' = {}, stage = "fusing", windows # <<>>,
           windows' = Tail(windows), NEW a, a.request = Request(Current),
           fused' = [s \in Range(Current.targets) \cup DOMAIN fused |->
                        IF s \in Range(Current.targets) THEN a ELSE fused[s]]
    PROVE  FInv'
<1>1. Whole' = Whole
  BY DEF Whole
<1>2. WindowsOK'
  BY CurrentIsApart DEF WindowsOK
<1>3. PICK r, t, d : r = Range(Current.targets) /\ t = Range(Asked(Tail(windows))) /\ d = DOMAIN fused
  OBVIOUS
<1>4. /\ Whole = r \cup t \cup d \cup unfused /\ d \cap unfused = {}
      /\ r \cap t = {} /\ r \cap (d \cup unfused) = {} /\ t \cap (d \cup unfused) = {}
  BY <1>3, CurrentIsApart DEF FInv, EachClipSettlesOnce
<1>5. /\ DOMAIN fused' = r \cup d
      /\ \A s \in r : fused'[s] = a
      /\ \A s \in d : fused'[s] = fused[s]
  BY <1>3, <1>4
<1>6. EachClipSettlesOnce'
  <2>1. Asked(windows)' = Asked(Tail(windows)) /\ IsInjective(Asked(Tail(windows)))
    BY CurrentIsApart
  <2>2. Range(Asked(windows))' = t
    BY <1>3, <2>1
  <2>3. /\ Whole = t \cup (r \cup d) \cup unfused /\ t \cap ((r \cup d) \cup unfused) = {}
        /\ (r \cup d) \cap unfused = {}
    BY <1>4
  <2> QED
    BY <1>1, <1>5, <2>1, <2>2, <2>3 DEF EachClipSettlesOnce
<1>7. FusedFromCurrent'
  <2> DEFINE Stands(s) ==
                LET asked == fused'[s].request
                IN  /\ s \in Range(asked.targets)
                    /\ \A c \in DOMAIN asked.shows : asked.shows[c] = heard'[c]
                    /\ \A p \in DOMAIN asked.carries : p \in DOMAIN fused' /\ fused'[p] = asked.carries[p]
  <2>1. ASSUME NEW s \in r PROVE Stands(s)
    <3>1. fused'[s].request = Request(Current)
      BY <1>5, <2>1
    <3> QED
      BY <1>3, <1>5, <2>1, <3>1, RequestFacts
  <2>2. ASSUME NEW s \in d PROVE Stands(s)
    <3>1. fused'[s] = fused[s]
      BY <1>5, <2>2
    <3> QED
      BY <1>3, <1>5, <2>2, <3>1 DEF FInv, FusedFromCurrent
  <2>3. \A s \in DOMAIN fused' : Stands(s)
    BY <1>5, <2>1, <2>2
  <2> QED
    BY <2>3 DEF FusedFromCurrent
<1> QED
  BY <1>2, <1>6, <1>7 DEF FInv

\* Whatever an answer is worth, what it settles is the current window.
LEMMA Settles ==
    ASSUME FInv, UNCHANGED <<stage, clip, heard>>, reply' = {}, stage = "fusing", windows # <<>>,
           NEW result, \A a \in result : a.request = Request(Current), Settle(result)
    PROVE  FInv'
<1> DEFINE w == Current
<1>1. ASSUME NEW a \in result, windows' = Tail(windows), UNCHANGED unfused,
             fused' = [s \in Range(w.targets) \cup DOMAIN fused |->
                          IF s \in Range(w.targets) THEN a ELSE fused[s]]
      PROVE  FInv'
  BY <1>1, WindowFused
<1>2. ASSUME UNCHANGED <<windows, fused, unfused>>
      PROVE  FInv'
  BY <1>2, SameAreAsked DEF FInv, WindowsOK
<1>3. ASSUME windows' = Tail(windows), unfused' = unfused \cup Range(w.targets), UNCHANGED fused
      PROVE  FInv'
  BY <1>3, WindowLeftUnfused
<1>4. ASSUME ~(Len(w.targets) < 2), windows' = Split(w) \o Tail(windows), UNCHANGED <<unfused, fused>>
      PROVE  FInv'
  <2>1. /\ w \in Windows(EpisodeClips) /\ Tail(windows) \in Seq(Windows(EpisodeClips))
        /\ Asked(windows) = w.targets \o Asked(Tail(windows))
    BY CurrentIsApart
  <2>2. Len(w.targets) > 1
    <3>1. PICK s \in Seq(EpisodeClips) : s = w.targets
      BY <2>1 DEF Windows
    <3>2. PICK m \in Nat : m = Len(s)
      BY LenProperties
    <3> QED
      BY <1>4, <3>1, <3>2
  <2> HIDE DEF w
  <2>3. Split(w) \in Seq(Windows(EpisodeClips)) /\ Asked(Split(w)) = w.targets
    BY <2>1, <2>2, AskedInHalves
  <2>4. windows' \in Seq(Windows(EpisodeClips)) /\ Asked(windows') = Asked(windows)
    BY <1>4, <2>1, <2>3, AskedConcat, ConcatProperties
  <2> QED
    BY <1>4, <2>4, SameAreAsked
<1> QED
  BY <1>1, <1>2, <1>3, <1>4 DEF Settle

\* What is fused and settled holds initially.
LEMMA FusedInitially == PaidInit => FInv
<1> SUFFICES ASSUME PaidInit
             PROVE  FInv
  OBVIOUS
<1>1. WindowsOK
  BY EmptySeq DEF PaidInit, WindowsOK
<1>2. DOMAIN fused = {}
  BY EmptySeq DEF PaidInit
<1> QED
  BY <1>1, <1>2 DEF PaidInit, FInv, EachClipSettlesOnce, FusedFromCurrent

\* In stage 3 there is nothing to fuse yet.
LEMMA NothingToFuse ==
    ASSUME SInv, FInv, stage # "fusing"
    PROVE  windows = <<>> /\ fused = <<>> /\ unfused = {} /\ reply = {}
BY DEF SInv, StagesApart, FInv, WindowsOK

\* Every step keeps what is fused and settled.
LEMMA FInvKept == SInv /\ FInv /\ [PaidNext]_paidVars => FInv'
<1> SUFFICES ASSUME SInv, FInv, [PaidNext]_paidVars
             PROVE  FInv'
  OBVIOUS
<1>0. StagesApart
  BY DEF SInv
\* A worker is at a segment before stage 4 only, and leaves the windows alone.
<1>1. ASSUME NEW s \in EpisodeClips,
             \/ Dispatch(s) \/ CommitSegment(s) \/ AnalysisRaises(s) \/ CommitRefused(s)
             \/ KeepPaid(s)
      PROVE  FInv'
  <2>1. stage # "fusing"
    BY <1>0, <1>1 DEF Dispatch, CommitSegment, AnalysisRaises, CommitRefused, KeepPaid, StagesApart, Idle
  <2>2. UNCHANGED <<stage, windows, fused, unfused, reply>>
    BY <1>1 DEF Dispatch, CommitSegment, AnalysisRaises, CommitRefused, KeepPaid, fusing
  <2> QED
    BY <2>1, <2>2, NothingToFuse, NotYetFusing
<1>2. ASSUME NEW s \in EpisodeClips, NEW r \in Routes,
             Transcribed(s, r) \/ RouteFailed(s, r) \/ RowRefused(s, r)
      PROVE  FInv'
  <2>1. stage # "fusing"
    BY <1>0, <1>2 DEF Transcribed, RouteFailed, RowRefused, StagesApart, Idle
  <2>2. UNCHANGED <<stage, windows, fused, unfused, reply>>
    BY <1>2 DEF Transcribed, RouteFailed, RowRefused, fusing
  <2> QED
    BY <2>1, <2>2, NothingToFuse, NotYetFusing
\* The run's ends and an outage leave no window.
<1>3. ASSUME Forget("over") \/ Forget("asr")
      PROVE  FInv'
  BY <1>3, NotYetFusing DEF Forget
\* Stage 4 begins with the plan.
<1>4. ASSUME EndTranscribing
      PROVE  FInv'
  <2>1. CASE End
    BY <2>1, <1>3 DEF End
  <2>2. ASSUME Whole # {}, stage = "asr", stage' = "fusing", windows' = Planned,
               UNCHANGED <<transcribing, reply, fused, unfused>>
        PROVE  FInv'
    <3>1. fused = <<>> /\ unfused = {} /\ reply = {}
      BY <2>2, NothingToFuse
    <3>2. Whole' = Whole
      BY <2>2 DEF Whole, transcribing
    <3>3. DOMAIN fused = {}
      BY <3>1, EmptySeq
    <3>4. /\ Planned \in Seq(Windows(EpisodeClips))
          /\ IsInjective(Asked(Planned)) /\ Range(Asked(Planned)) = Whole
      BY <2>2, PlannedCovers
    <3>5. WindowsOK'
      BY <2>2, <3>1, <3>4 DEF WindowsOK
    <3>6. IsInjective(Asked(windows')) /\ Range(Asked(windows')) = Whole
      BY <2>2, <3>4
    <3>7. EachClipSettlesOnce'
      BY <2>2, <3>1, <3>2, <3>3, <3>6 DEF EachClipSettlesOnce
    <3>8. FusedFromCurrent'
      BY <2>2, <3>3 DEF FusedFromCurrent
    <3> QED
      BY <3>5, <3>7, <3>8 DEF FInv
  <2> QED
    BY <1>4, <2>1, <2>2 DEF EndTranscribing
\* Stage 4: the current window is left, settled by what is on disk, or asked for.
<1>5. ASSUME AskFuser
      PROVE  FInv'
  <2>1. /\ stage = "fusing" /\ windows # <<>> /\ reply' = {}
        /\ UNCHANGED <<stage, clip, heard>>
    BY <1>5 DEF AskFuser, transcribing
  <2>2. CASE windows' = Tail(windows) /\ unfused' = unfused \cup Range(Current.targets) /\ UNCHANGED fused
    BY <2>1, <2>2, WindowLeftUnfused
  <2>3. CASE Settle(Load(Request(Current)))
    <3>1. \A a \in Load(Request(Current)) : a.request = Request(Current)
      BY DEF Load
    <3> QED
      BY <2>1, <2>3, <3>1, Settles
  <2>4. CASE UNCHANGED <<windows, unfused, fused>>
    BY <2>1, <2>4, SameAreAsked DEF FInv, WindowsOK
  <2> QED
    BY <1>5, <2>2, <2>3, <2>4 DEF AskFuser
<1>6. ASSUME NEW verdict \in {"ok", "bad", "cut"}, FuserAnswers(verdict)
      PROVE  FInv'
  <2>1. /\ UNCHANGED <<stage, clip, heard, windows, fused, unfused>>
        /\ stage = "fusing"
    BY <1>0, <1>6 DEF FuserAnswers, transcribing, StagesApart
  <2>2. Request(Current)' = Request(Current)
    BY <2>1, RequestStays
  <2>3. \A a \in reply' : a.request = Request(Current)
    BY <1>6 DEF FuserAnswers, NewAnswer
  <2> QED
    BY <2>1, <2>2, <2>3, SameAreAsked DEF FInv, WindowsOK
<1>7. ASSUME FuserFails
      PROVE  FInv'
  <2>1. /\ stage = "fusing" /\ windows # <<>> /\ reply' = {} /\ Settle({})
        /\ UNCHANGED <<stage, clip, heard>>
    BY <1>0, <1>7 DEF FuserFails, transcribing, StagesApart
  <2> QED
    BY <2>1, Settles
<1>8. ASSUME KeepAnswer
      PROVE  FInv'
  <2>1. /\ stage = "fusing" /\ windows # <<>> /\ reply' = {} /\ Settle(reply)
        /\ UNCHANGED <<stage, clip, heard>>
    BY <1>0, <1>8 DEF KeepAnswer, transcribing, StagesApart
  <2>2. \A a \in reply : a.request = Request(Current)
    BY DEF FInv, WindowsOK
  <2> QED
    BY <2>1, <2>2, Settles
<1>9. ASSUME EndFusing \/ FusionBreaks \/ Outage
      PROVE  FInv'
  BY <1>3, <1>9 DEF EndFusing, FusionBreaks, End, Outage
\* A scram changes nothing of it.
<1>10. ASSUME UNCHANGED <<stage, clip, heard, windows, fused, unfused, reply>>
       PROVE  FInv'
  <2>1. CASE stage = "fusing"
    <3>1. Request(Current)' = Request(Current)
      BY <1>10, RequestStays
    <3>2. \A a \in reply' : a.request = Request(Current)'
      BY <1>10, <3>1 DEF FInv, WindowsOK
    <3> QED
      BY <1>10, <2>1, <3>2, SameAreAsked DEF FInv, WindowsOK
  <2>2. CASE stage # "fusing"
    BY <1>10, <2>2, NothingToFuse, NotYetFusing
  <2> QED
    BY <2>1, <2>2
<1>11. ASSUME Scram \/ UNCHANGED paidVars
       PROVE  FInv'
  BY <1>10, <1>11 DEF Scram, transcribing, fusing, paidVars, memory
<1> QED
  BY <1>1, <1>2, <1>4, <1>5, <1>6, <1>7, <1>8, <1>9, <1>11 DEF PaidNext

\* What is fused and settled holds throughout.
LEMMA FusedInv == PaidSpec => [](SInv /\ FInv)
<1>1. PaidInit => SInv /\ FInv
  BY Initially, FusedInitially
<1>2. SInv /\ FInv /\ [PaidNext]_paidVars => SInv' /\ FInv'
  BY SInvKept, FInvKept
<1> QED
  BY <1>1, <1>2, PTL DEF PaidSpec

\* Through halving (Window.split, llm/fusion.py:127), a second try and a stop, every segment
\* with a record is fused, given up or still to be asked for, and only one of these, whatever
\* the episode's length, the words a window aims at, its cap and the depth of the halving.
THEOREM SettlesOnceTheorem == PaidSpec => []EachClipSettlesOnce
<1>1. FInv => EachClipSettlesOnce
  BY DEF FInv
<1> QED
  BY <1>1, FusedInv, PTL

\* A fused text answers the request that this run's transcripts and fused texts make: neither a
\* resumed run nor an answer found on disk brings in a text made from others (_checkpointed,
\* services/ingest/fusion.py:58).
THEOREM FusedTheorem == PaidSpec => []FusedFromCurrent
<1>1. FInv => FusedFromCurrent
  BY DEF FInv
<1> QED
  BY <1>1, FusedInv, PTL
=============================================================================
