----------------------------- MODULE MCEpisode -----------------------------
(***************************************************************************)
(* TLC instance of what happens to an episode: PaidResults, Corpus and     *)
(* Voices, and the functions of FusionWindows, Segmentation, WordAlignment *)
(* and WordSlots on every example of a small set.  The three machines      *)
(* share no state, so each behaviour is one of them's, or one example.     *)
(***************************************************************************)
EXTENDS PaidResults, Corpus, Voices, Segmentation, WordAlignment, WordSlots

VARIABLES
    part,       \* the machine that moves, or the function the example is for
    example

UpTo(n, S) == UNION {[1..k -> S] : k \in 0..n}
Spans(n)   == {s \in (0..n) \X (0..n) : s[1] < s[2]}

MCRecording == 20

\* A turn is cut, merged or lengthened for itself or for what is around it: three at most.
MCTurns == {t \in UpTo(2, Spans(MCRecording)) \cup UpTo(3, {s \in Spans(MCRecording) : Length(s) \in {1, 5}}) :
                \A k \in 2..Len(t) : t[k - 1][1] < t[k][1]}

\* Two words of a spelling, two that sound alike, and two of them written as one.
MCWords == {<<1>>, <<-1>>, <<2>>, <<12>>, <<1, 12>>}

MCSystemWords(system, most) ==
    {words \in SUBSET {w \in [system : {system}, start : 0..4, end : 0..4] : w.start < w.end} :
        Cardinality(words) <= most /\ \A v, w \in words : v # w => v.end <= w.start \/ w.end <= v.start}

MCExamples ==
    [plan  |-> [words : UpTo(5, {0, 1, 3}), target : {1, 2, 4}, look : {2}, most : {1, 2, 3, 6}],
     cut   |-> MCTurns,
     align |-> UpTo(3, MCWords) \X UpTo(2, MCWords),
     slots |-> {a \cup b \cup c : a \in MCSystemWords(1, 2), b \in MCSystemWords(2, 2), c \in MCSystemWords(3, 1)},
     paid  |-> {<<>>}, corpus |-> {<<>>}, voices |-> {<<>>}]

Init ==
    /\ part \in DOMAIN MCExamples /\ example \in MCExamples[part]
    /\ PaidInit /\ CorpusInit /\ VoicesInit

Finished == part \notin {"paid", "corpus", "voices"} \/ stage = "over" \/ Len(runs) = MaxRuns

Next ==
    \/ part = "paid" /\ PaidNext /\ UNCHANGED <<corpusVars, voicesVars, part, example>>
    \/ part = "corpus" /\ CorpusNext /\ UNCHANGED <<paidVars, voicesVars, part, example>>
    \/ part = "voices" /\ VoicesNext /\ UNCHANGED <<paidVars, corpusVars, part, example>>
    \/ Finished /\ UNCHANGED <<paidVars, corpusVars, voicesVars, part, example>>

Spec == Init /\ [][Next]_<<paidVars, corpusVars, voicesVars, part, example>>

\* Fusion: every segment is asked for exactly once, each window sees the whole lookahead past
\* its end, and, where the cap cuts no window short, each is within one segment of its even
\* share of the words (plan_windows and Window.split in llm/fusion.py).
EveryPlanIsSound == part = "plan" =>
    /\ PlanCovers(example.words, example.target, example.look, example.most)
    /\ PlanIsBalanced(example.words, example.target, example.look, example.most)

\* Segmentation: the bounds hold and no speech is lost but where a slice is the bare minimum,
\* wherever the quiet moments are and however the floats compare at the minimum.
EveryCutIsSound == part = "cut" =>
    \A slices \in Slices(example, MCRecording) : CutsAreSound(example, MCRecording, slices)

\* Scoring: the folded count is the least there is.
EveryFoldedCountIsLeast == part = "align" => FoldedIsLeast(example[1], example[2])

\* Agreement of the recognisers: where no word lies within another's, looking back only over the
\* open slots loses no word's slot.
EveryScanReachesAll == part = "slots" => ScanReachesAll(example)

MCSymmetry == Permutations(Routes) \cup Permutations(Jobs)
MCEpisodeOf == [c \in Clips |-> "e1"]
MCDiarizations ==
    LET near == <<13, 0>>  by == <<12, 5>>  beyond == <<5, 12>>  across == <<0, 13>>
        away == <<-12, 5>>
    IN  {<<near>>, <<by, beyond>>, <<across, near>>, <<beyond, by, across>>, <<beyond>>, <<away, by>>}
=============================================================================
