------------------------------- MODULE Voices -------------------------------
(***************************************************************************)
(* The diarization runs of the episodes and the voices that link their     *)
(* speakers: services/voices.py, import_diarization in                     *)
(* services/diarization_import.py, the scripts that call them, and what    *)
(* the deletion of an episode leaves of them.                              *)
(*                                                                         *)
(* The server's imports take turns (_IMPORT_LOCK), each linking its run    *)
(* before it commits.  scripts/diarize_episode.py and                      *)
(* scripts/link_voices.py run in processes of their own and do not know    *)
(* that lock: what a script writes is linked among the runs committed when *)
(* it reads them, and stays unseen by imports until it commits.  Only the  *)
(* script's transaction is taken apart: of two that overlap, neither sees  *)
(* what the other writes, whichever began first.  One script runs at a     *)
(* time.                                                                   *)
(*                                                                         *)
(* A speaker's print is a point on a circle, given by integer coordinates  *)
(* of length Norm; a speaker without one is left out, as the code does.    *)
(***************************************************************************)
EXTENDS Integers, Sequences, FiniteSets, SequencesExt

CONSTANTS
    DiarizedEpisodes,
    Diarizations,   \* answers of the diarizer: the speakers' prints, most talk first
    Norm,           \* the length of a print
    MaxRuns         \* bound: diarization runs, ever

PrintsAssumption ==
    /\ Norm \in Nat \ {0}
    /\ Diarizations \subseteq Seq(Int \X Int)
ASSUME PrintsAssumption

VARIABLES
    runs,   \* diarization_runs by id: [ep, prints, voices]; Absent: deleted or not committed
    draft   \* the rows written by a script's open transaction, by id

voicesVars == <<runs, draft>>

NoDraft    == <<>>
VoicesInit == runs = <<>> /\ draft = NoDraft

Absent == [ep |-> "none", prints |-> <<>>, voices |-> <<>>]

Add(u, v) == <<u[1] + v[1], u[2] + v[2]>>
Dot(u, v) == u[1] * v[1] + u[2] * v[2]

\* The voices of the runs linked so far.
Voices(linked) == UNION {Range(linked[i].voices) : i \in DOMAIN linked}

\* The running sum of a voice's prints, run by run.
WithRun(total, run, v) ==
    LET Sum(t, k) == IF run.voices[k] = v THEN Add(t, run.prints[k]) ELSE t
    IN  FoldLeftDomain(Sum, total, run.voices)
Centroid(linked, v) == FoldLeft(LAMBDA total, run : WithRun(total, run, v), <<0, 0>>, linked)

\* Cosine similarities are compared squared, those above LINK_THRESHOLD, 0.6, being positive.
\* Left out is a voice whose prints cancel out, which has no direction to compare.
Close(print, total) ==
    /\ Dot(print, total) > 0
    /\ 100 * Dot(print, total) * Dot(print, total) >= 36 * Norm * Norm * Dot(total, total)
Known(linked, print, v) == Close(print, Centroid(linked, v))

Closer(linked, prints, p, q) ==
    LET nearness(x) == Dot(prints[x.speaker], Centroid(linked, x.voice)) * Dot(prints[x.speaker], Centroid(linked, x.voice))
        size(x)     == Dot(Centroid(linked, x.voice), Centroid(linked, x.voice))
        a == nearness(p) * size(q)
        b == nearness(q) * size(p)
    IN  \/ a > b
        \/ a = b /\ p.speaker < q.speaker
        \/ a = b /\ p.speaker = q.speaker /\ p.voice < q.voice

\* The pairs of a speaker and a voice that are similar enough.
Similar(linked, prints) == {p \in [speaker : DOMAIN prints, voice : Voices(linked)] : Known(linked, prints[p.speaker], p.voice)}

\* Had a voice not been used up by the speaker it went to.
FreeForEach(linked, prints, taken) == {p \in Similar(linked, prints) : \A q \in taken : q.speaker # p.speaker}

Free(linked, prints, taken) == {p \in Similar(linked, prints) : \A q \in taken : q.speaker # p.speaker /\ q.voice # p.voice}

\* The most similar pairs first, each speaker and each voice at most once.
Matched(linked, prints) ==
    LET Match(taken, k) ==
            LET free == Free(linked, prints, taken)
            IN  IF free = {} THEN taken
                ELSE taken \cup {CHOOSE p \in free : \A q \in free \ {p} : Closer(linked, prints, p, q)}
    IN  FoldLeftDomain(Match, {}, prints)

\* Had new voices been numbered by how many there are.
VoiceCount(linked) == Cardinality(Voices(linked))

\* number = max(int(v[1:]) for v in centroids), or 0
HighestVoice(linked) ==
    LET voices == Voices(linked)
    IN  IF voices = {} THEN 0 ELSE CHOOSE v \in voices : \A w \in voices : w <= v

\* The speakers left over start new voices, in talk-time order.
AssignVoices(linked, prints) ==
    LET matched == Matched(linked, prints)
        new(k)  == {x \in 1..k : \A p \in matched : p.speaker # x}
    IN  [k \in DOMAIN prints |->
            IF \E p \in matched : p.speaker = k
            THEN (CHOOSE p \in matched : p.speaker = k).voice
            ELSE HighestVoice(linked) + Cardinality(new(k))]

NewRun(e, prints) == [ep |-> e, prints |-> prints, voices |-> AssignVoices(runs, prints)]

\* link_voices(relink=True): every link is forgotten, and the runs are linked oldest first.
Anew(linked, run) == [ep |-> run.ep, prints |-> run.prints, voices |-> AssignVoices(linked, run.prints)]
Relinked == FoldLeft(LAMBDA linked, run : Append(linked, Anew(linked, run)), <<>>, runs)

-----------------------------------------------------------------------------
\* A checksum is imported once per episode; a second insert of it would wait for the script's.
Unheard(e, prints) ==
    /\ \A i \in DOMAIN runs : runs[i].ep = e => runs[i].prints # prints
    /\ \A i \in DOMAIN draft : draft[i].ep = e => draft[i].prints # prints

\* import_diarization and link_voices of an ingest job, under _IMPORT_LOCK.
ImportRun(e, prints) ==
    /\ Len(runs) < MaxRuns
    /\ Unheard(e, prints)
    /\ runs' = Append(runs, NewRun(e, prints))
    /\ UNCHANGED draft

\* The same from scripts/diarize_episode.py: the run has its id, its row is not committed.
DiarizeEpisode(e, prints) ==
    /\ draft = NoDraft
    /\ Len(runs) < MaxRuns
    /\ Unheard(e, prints)
    /\ draft' = [i \in {Len(runs) + 1} |-> NewRun(e, prints)]
    /\ runs' = Append(runs, Absent)

\* scripts/link_voices.py --relink; without it there is no run left to link.
Relink ==
    /\ draft = NoDraft
    /\ \E i \in DOMAIN runs : runs[i] # Absent
    /\ draft' = [i \in {j \in DOMAIN runs : runs[j] # Absent} |-> Relinked[i]]
    /\ UNCHANGED runs

\* session_scope commits what the script wrote,
CommitScript ==
    /\ draft # NoDraft
    /\ runs' = [i \in DOMAIN runs |-> IF i \in DOMAIN draft THEN draft[i] ELSE runs[i]]
    /\ draft' = NoDraft

\* or rolls it back; so does the end of the process.
RollBackScript ==
    /\ draft # NoDraft
    /\ draft' = NoDraft
    /\ UNCHANGED runs

\* The runs of a deleted episode go with it, once no script holds their rows or the episode's.
DropRuns(e) ==
    /\ \E i \in DOMAIN runs : runs[i].ep = e
    /\ \A i \in DOMAIN draft : draft[i].ep # e
    /\ runs' = [i \in DOMAIN runs |-> IF runs[i].ep = e THEN Absent ELSE runs[i]]
    /\ UNCHANGED draft

VoicesNext ==
    \/ \E e \in DiarizedEpisodes :
        \/ DropRuns(e)
        \/ \E prints \in Diarizations : ImportRun(e, prints) \/ DiarizeEpisode(e, prints)
    \/ Relink
    \/ CommitScript
    \/ RollBackScript

-----------------------------------------------------------------------------
\* The diarizer told the speakers of a run apart, and linking keeps them apart.
SpeakersKeptApart == \A i \in DOMAIN runs : IsInjective(runs[i].voices)

\* A speaker shares a voice with those of the runs before only if close enough to it, and has a
\* voice of its own only if every close one went to another speaker of the run.
LinkedWell(before, run) ==
    \A k \in DOMAIN run.voices :
        IF run.voices[k] \in Voices(before)
        THEN Known(before, run.prints[k], run.voices[k])
        ELSE \A v \in Voices(before) : Known(before, run.prints[k], v) => v \in Range(run.voices)

\* What the script's transaction sees.
View == [i \in DOMAIN runs |-> IF i \in DOMAIN draft THEN draft[i] ELSE runs[i]]

\* Every run is linked well among the earlier runs its transaction sees, also after the latest or
\* an earlier voice was deleted and when all are relinked; and no other run's links change.  The
\* runs a script's transaction does not see, or commits too late to be seen, are left out.
LinkingIsSound ==
    [][ /\ \A i \in DOMAIN runs' \ DOMAIN runs : LinkedWell(runs, runs'[i])
        /\ draft = NoDraft => \A i \in DOMAIN draft' : LinkedWell(SubSeq(View', 1, i - 1), draft'[i])
        /\ \A i \in DOMAIN runs \ DOMAIN draft : runs'[i] = runs[i] \/ runs'[i] = Absent
      ]_voicesVars
=============================================================================
