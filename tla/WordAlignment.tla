--------------------------- MODULE WordAlignment ---------------------------
(***************************************************************************)
(* The word alignment that every word error rate of the harness is read    *)
(* from: align, _merges and Alignment of services/fold.py.                 *)
(*                                                                         *)
(* A word is a sequence of letters, Devanagari below Latin, and -l is l    *)
(* with a mark the spelling key drops.  Words of different scripts sound   *)
(* alike letter by letter or not at all, so the refusal of a merge that    *)
(* swallows a word never arises.  Left out: numbers, letter names, and how *)
(* the spelling key and the sounds are worked out.                         *)
(***************************************************************************)
EXTENDS Integers, Sequences, FiniteSets, SequencesExt

CONSTANTS
    Latin,          \* the first Latin letter
    SoundAlike,     \* classes of letters that sound the same
    MaxMerge        \* MAX_MERGE

AlignmentAssumption == MaxMerge \in Nat
ASSUME AlignmentAssumption

Letter(l)         == IF l < 0 THEN -l ELSE l
SpellingKey(word) == [k \in DOMAIN word |-> Letter(word[k])]
Scripts(word)     == {Letter(word[k]) >= Latin : k \in DOMAIN word}
Sound(l)          == {l} \cup UNION {class \in SoundAlike : l \in class}

\* By spelling, or across scripts by sound.
SameWord(a, b) ==
    \/ SpellingKey(a) = SpellingKey(b)
    \/ /\ Scripts(a) # Scripts(b) /\ Len(a) = Len(b)
       /\ \A k \in DOMAIN a : Sound(Letter(a[k])) = Sound(Letter(b[k]))

\* Two words against one may match by sound, anything wider only by spelling.
Merges(ref, hyp) ==
    LET left == FlattenSeq(ref)  right == FlattenSeq(hyp)
    IN  IF Len(ref) + Len(hyp) = 3 THEN SameWord(left, right) ELSE SpellingKey(left) = SpellingKey(right)

Same(a, b, folded) == IF folded THEN SameWord(a, b) ELSE a = b

-----------------------------------------------------------------------------
Option(cost, rank, step) == [cost |-> cost, rank |-> rank, step |-> step]

\* Had the rank come before the cost.
BeforeByRank(o, p) ==
    LET left  == <<o.rank, o.cost, o.step[1], o.step[2]>>
        right == <<p.rank, p.cost, p.step[1], p.step[2]>>
    IN  \E k \in 1..4 : left[k] < right[k] /\ \A h \in 1..k - 1 : left[h] = right[h]

\* Tuples compare as Python compares them: at the first place they differ.
Before(o, p) ==
    LET left  == <<o.cost, o.rank, o.step[1], o.step[2]>>
        right == <<p.cost, p.rank, p.step[1], p.step[2]>>
    IN  \E k \in 1..4 : left[k] < right[k] /\ \A h \in 1..k - 1 : left[h] = right[h]

\* The steps that may end at cell <<i, j>>: a word of each, one of either, or words that merge.
Cells(ref, hyp) == (0..Len(ref)) \X (0..Len(hyp))
Steps(ref, hyp, folded, i, j) ==
    {s \in {<<1, 1>>, <<1, 0>>, <<0, 1>>} : s[1] <= i /\ s[2] <= j}
    \cup {s \in (1..MaxMerge) \X (1..MaxMerge) :
             /\ folded /\ s[1] + s[2] > 2 /\ s[1] <= i /\ s[2] <= j
             /\ Merges(SubSeq(ref, i - s[1] + 1, i), SubSeq(hyp, j - s[2] + 1, j))}

Price(ref, hyp, folded, i, j, s) ==
    CASE s = <<1, 1>> -> IF Same(ref[i], hyp[j], folded) THEN 0 ELSE 1
      [] s \in {<<1, 0>>, <<0, 1>>} -> 1
      [] OTHER -> 0
Rank(s) ==
    CASE s = <<1, 1>> -> 0
      [] s = <<1, 0>> -> 10
      [] s = <<0, 1>> -> 11
      [] OTHER -> s[1] + s[2] - 2

Options(best, ref, hyp, folded, i, j) ==
    {Option(best[<<i - s[1], j - s[2]>>].cost + Price(ref, hyp, folded, i, j, s), Rank(s), s) :
        s \in Steps(ref, hyp, folded, i, j)}
First(options) == CHOOSE o \in options : \A p \in options \ {o} : Before(o, p)

\* The tables cost and back: each cell from those before it.
Table(ref, hyp, folded) ==
    LET best[at \in Cells(ref, hyp)] ==
            IF at = <<0, 0>> THEN Option(0, 0, <<0, 0>>)
            ELSE First(Options(best, ref, hyp, folded, at[1], at[2]))
    IN  best

Kind(r, h, folded) ==
    CASE h = <<>> -> "del"
      [] r = <<>> -> "ins"
      [] Len(r) = 1 /\ Len(h) = 1 -> IF SpellingKey(r[1]) = SpellingKey(h[1]) THEN "match"
                                     ELSE IF Same(r[1], h[1], folded) THEN "fold" ELSE "sub"
      [] OTHER -> "merge"

Op(ref, hyp, folded, at, step) ==
    LET r == SubSeq(ref, at[1] - step[1] + 1, at[1])
        h == SubSeq(hyp, at[2] - step[2] + 1, at[2])
    IN  [kind |-> Kind(r, h, folded), ref |-> r, hyp |-> h]

\* Backtracking from the last cell.
Align(ref, hyp, folded) ==
    LET back == Table(ref, hyp, folded)
        path[at \in Cells(ref, hyp)] ==
            IF at = <<0, 0>> THEN <<>>
            ELSE LET step == back[at].step
                 IN  Append(path[<<at[1] - step[1], at[2] - step[2]>>], Op(ref, hyp, folded, at, step))
    IN  path[<<Len(ref), Len(hyp)>>]

\* Alignment.errors
Errors(ops) == Cardinality({k \in DOMAIN ops : ops[k].kind \in {"sub", "del", "ins"}})

-----------------------------------------------------------------------------
\* The least number of errors, from its definition: the first words are matched, merged,
\* replaced, left out or put in, and what remains costs the least it can.
LeastErrors(ref, hyp, folded) ==
    LET rest[at \in Cells(ref, hyp)] ==
            LET i == at[1]  j == at[2]
                ways == {s \in (1..Len(ref) - i) \X (1..Len(hyp) - j) :
                            \/ s = <<1, 1>>
                            \/ folded /\ s[1] <= MaxMerge /\ s[2] <= MaxMerge
                               /\ Merges(SubSeq(ref, i + 1, i + s[1]), SubSeq(hyp, j + 1, j + s[2]))}
                costs == {rest[<<i + s[1], j + s[2]>>] +
                            (IF s = <<1, 1>> /\ ~Same(ref[i + 1], hyp[j + 1], folded) THEN 1 ELSE 0) : s \in ways}
            IN  IF i = Len(ref) THEN Len(hyp) - j
                ELSE IF j = Len(hyp) THEN Len(ref) - i
                ELSE LET all == costs \cup {rest[<<i + 1, j>>] + 1, rest[<<i, j + 1>>] + 1}
                     IN  CHOOSE c \in all : \A d \in all : c <= d
    IN  rest[<<0, 0>>]

\* The folded alignment reads both transcripts through, word by word and in order; it joins
\* only words that may be joined; no other alignment has fewer errors; and the count is the
\* same with the two transcripts exchanged, and never above the plain edit distance.
FoldedIsLeast(ref, hyp) ==
    LET ops == Align(ref, hyp, TRUE)
    IN  /\ FlattenSeq([k \in DOMAIN ops |-> ops[k].ref]) = ref
        /\ FlattenSeq([k \in DOMAIN ops |-> ops[k].hyp]) = hyp
        /\ \A k \in DOMAIN ops : ops[k].kind = "merge" => Merges(ops[k].ref, ops[k].hyp)
        /\ Errors(ops) = LeastErrors(ref, hyp, TRUE)
        /\ Errors(ops) = Errors(Align(hyp, ref, TRUE))
        /\ Errors(ops) <= LeastErrors(ref, hyp, FALSE)

\* "Without it, only identical strings match and it is a plain Levenshtein WER alignment"
\* (fold.py:1038-1039).  It is not, and this is by how much: the raw count lacks the words
\* replaced by another spelling of themselves, which align names a match in this mode as well.
RawLeavesOutSpellings(ref, hyp) ==
    LET ops == Align(ref, hyp, FALSE)
        respelt == {k \in DOMAIN ops : ops[k].kind = "match" /\ ops[k].ref # ops[k].hyp}
    IN  Errors(ops) + Cardinality(respelt) = LeastErrors(ref, hyp, FALSE)
=============================================================================
