--------------------------- MODULE FusionWindows ---------------------------
(***************************************************************************)
(* How an episode is cut into fusion requests: plan_windows and            *)
(* Window.split of llm/fusion.py.  A segment is its position in the        *)
(* episode; a window holds the positions it asks for and those it only     *)
(* shows after them.                                                       *)
(*                                                                         *)
(* Abstracted: durations; every segment lasts one second, so the lookahead *)
(* counts segments.                                                        *)
(***************************************************************************)
EXTENDS Integers, Sequences, SequencesExt

CeilDiv(a, b) == (a + b - 1) \div b
Greater(a, b) == IF a > b THEN a ELSE b
Lesser(a, b)  == IF a < b THEN a ELSE b
Total(words) == FoldLeft(+, 0, words)

\* max(1, ceil(total_words / target_words), ceil(len(segments) / max_segments)); a target of
\* no words is none.
WindowCount(words, target, most) ==
    Greater(IF target > 0 THEN CeilDiv(Total(words), target) ELSE 1,
            Greater(1, CeilDiv(Len(words), most)))

\* Is segment i past the end of the last of the groups dealt so far?  The boundary is
\* share * len(groups) words, or as many segments where nobody said a word.
ThresholdCrossed(words, count, groups, elapsed, i) ==
    IF Total(words) > 0
    THEN (2 * elapsed + words[i]) * count > 2 * Total(words) * Len(groups)
    ELSE (i - 1) * count >= Len(words) * Len(groups)

\* Segment i begins a group of its own, if there is room for one, or joins the last one.
Deal(words, count, most, dealt, i) ==
    LET groups == dealt.groups
        room   == Len(groups) < count /\ Last(groups) # <<>>
        full   == Len(Last(groups)) >= most
    IN  [groups  |-> IF room /\ (full \/ ThresholdCrossed(words, count, groups, dealt.elapsed, i))
                     THEN Append(groups, <<i>>)
                     ELSE [groups EXCEPT ![Len(groups)] = Append(@, i)],
         elapsed |-> dealt.elapsed + words[i]]

Groups(words, target, most) ==
    LET DealNext(dealt, i) == Deal(words, WindowCount(words, target, most), most, dealt, i)
    IN  FoldLeft(DealNext, [groups |-> << <<>> >>, elapsed |-> 0], [i \in DOMAIN words |-> i]).groups

\* Had the lookahead begun at the window's own last segment.
AfterAndLast(words, i, look) == [k \in 1..Lesser(look, Len(words) - i) |-> i + k - 1]

\* The positions after i that fit in the lookahead.
After(words, i, look) == [k \in 1..Lesser(look, Len(words) - i) |-> i + k]

PlanWindows(words, target, look, most) ==
    IF words = <<>> THEN <<>>
    ELSE LET groups == Groups(words, target, most)
         IN  [g \in DOMAIN groups |->
                [targets |-> groups[g], after |-> After(words, Last(groups[g]), look), depth |-> 0]]

\* Had the second half begun where the first one ends.
SplitTwice(w) ==
    LET middle == Greater(1, Len(w.targets) \div 2)
    IN  << [targets |-> SubSeq(w.targets, 1, middle), after |-> w.after, depth |-> w.depth + 1],
           [targets |-> SubSeq(w.targets, middle, Len(w.targets)), after |-> w.after, depth |-> w.depth + 1] >>

\* The first half looks into the second, at least five segments of it.
Split(w) ==
    LET middle == Greater(1, Len(w.targets) \div 2)
        left   == SubSeq(w.targets, 1, middle)
        right  == SubSeq(w.targets, middle + 1, Len(w.targets))
        ahead  == right \o w.after
        reach  == Lesser(Greater(Len(w.after), 5), Len(ahead))
    IN  << [targets |-> left,  after |-> SubSeq(ahead, 1, reach), depth |-> w.depth + 1],
           [targets |-> right, after |-> w.after,                 depth |-> w.depth + 1] >>

-----------------------------------------------------------------------------
(* What a plan promises, checked for every plan of the inputs given. *)

Asked(windows) == FlattenSeq([g \in DOMAIN windows |-> windows[g].targets])

\* "Every segment is a target exactly once", in the order of the episode, whatever the words,
\* the target and the cap; what a window shows besides is the whole lookahead, or what is left
\* of the episode, right after what it asks for; and both halves of a window ask for what the
\* window did, the first half seeing where the second begins.
PlanCovers(words, target, look, most) ==
    LET windows == PlanWindows(words, target, look, most)
    IN  /\ Asked(windows) = [i \in DOMAIN words |-> i]
        /\ \A g \in DOMAIN windows :
             LET w == windows[g]
             IN  /\ w.targets # <<>>
                 /\ Len(w.after) = Lesser(look, Len(words) - Last(w.targets))
                 /\ \A k \in DOMAIN w.after : w.after[k] = Last(w.targets) + k
                 /\ Len(w.targets) > 1 =>
                      /\ Asked(Split(w)) = w.targets
                      /\ Head(Split(w)[1].after) = Head(Split(w)[2].targets)

\* No more windows than counted on, each but the last within the cap; and each within one
\* segment, the longest one, of its even share of the words, if none has as many segments as
\* the cap.  Once the cap cuts a window short, nothing is said of what the others say.
PlanIsBalanced(words, target, look, most) ==
    LET windows == PlanWindows(words, target, look, most)
        count   == WindowCount(words, target, most)
        most_said == CHOOSE m \in Range(words) : \A i \in DOMAIN words : words[i] <= m
    IN  /\ Len(windows) <= count
        /\ \A g \in 1..Len(windows) - 1 : Len(windows[g].targets) <= most
        /\ (\A g \in DOMAIN windows : Len(windows[g].targets) < most) =>
              \A g \in DOMAIN windows :
                 LET said == Total([k \in DOMAIN windows[g].targets |-> words[windows[g].targets[k]]])
                 IN  /\ said * count <= Total(words) + most_said * count
                     /\ Total(words) <= said * count + most_said * count
=============================================================================
