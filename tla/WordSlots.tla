----------------------------- MODULE WordSlots -----------------------------
(***************************************************************************)
(* The moments of a clip that several recognisers put a word in:           *)
(* build_slots of services/consensus.py.  A word is [system, start, end],  *)
(* what it says being no matter here; words without both ends are left out *)
(* before, as the code does.  Times are whole ticks.                       *)
(***************************************************************************)
EXTENDS Integers, Sequences, FiniteSets, SequencesExt

CONSTANT IouPercent     \* DEFAULT_IOU_THRESHOLD, in percent

SlotsAssumption == IouPercent \in 1..100
ASSUME SlotsAssumption

Least(a, b) == IF a < b THEN a ELSE b
Most(a, b)  == IF a > b THEN a ELSE b

\* Intersection and union of two extents; both are longer than nothing.
Shared(s, w) == Most(0, Least(s.end, w.end) - Most(s.start, w.start))
Hull(s, w)   == Most(s.end, w.end) - Least(s.start, w.start)
SameMoment(s, w) == 100 * Shared(s, w) >= IouPercent * Hull(s, w)

Systems(slot) == {w.system : w \in slot.words}

\* Among the slots from `first` on, those that may take the word; the closest is taken, of
\* equally close ones the last.
Fits(slots, first, w) ==
    {k \in first..Len(slots) : w.system \notin Systems(slots[k]) /\ SameMoment(slots[k], w)}
Closest(slots, fits, w) == CHOOSE k \in fits : \A h \in fits \ {k} :
    LET mine == Shared(slots[k], w) * Hull(slots[h], w)
        its  == Shared(slots[h], w) * Hull(slots[k], w)
    IN  mine > its \/ (mine = its /\ k > h)

\* Had the scan gone back to the first slot that ended before the word does.
FirstLonger(slots, w) ==
    LET ended == {k \in DOMAIN slots : slots[k].end < w.end}
    IN  IF ended = {} THEN 1 ELSE (CHOOSE k \in ended : \A h \in ended : h <= k) + 1

\* The scan goes back to the first slot that had ended when the word began.
FirstOpen(slots, w) ==
    LET ended == {k \in DOMAIN slots : slots[k].end <= w.start}
    IN  IF ended = {} THEN 1 ELSE (CHOOSE k \in ended : \A h \in ended : h <= k) + 1

Place(slots, fits, w) ==
    IF fits = {} THEN Append(slots, [start |-> w.start, end |-> w.end, words |-> {w}])
    ELSE [slots EXCEPT ![Closest(slots, fits, w)] =
            [start |-> Least(@.start, w.start), end |-> Most(@.end, w.end), words |-> @.words \cup {w}]]

\* The events in the order of their start and end; of equal ones, that of the systems.
Sooner(v, w) ==
    \/ v.start < w.start
    \/ v.start = w.start /\ v.end < w.end
    \/ v.start = w.start /\ v.end = w.end /\ v.system < w.system
Events(words) ==
    [k \in 1..Cardinality(words) |->
        CHOOSE w \in words : Cardinality({v \in words : Sooner(v, w)}) = k - 1]

\* The slots grow as words join them, and so are sorted at the end, the order kept of equal ones.
InOrder(slots) ==
    LET Ahead(h, k) ==
            LET left  == <<slots[h].start, slots[h].end, h>>
                right == <<slots[k].start, slots[k].end, k>>
            IN  \E i \in 1..3 : left[i] < right[i] /\ \A n \in 1..i - 1 : left[n] = right[n]
        order == SetToSortSeq(DOMAIN slots, Ahead)
    IN  [k \in DOMAIN slots |-> slots[order[k]]]

Scanned(words) ==
    LET Scan(slots, w) == Place(slots, Fits(slots, FirstOpen(slots, w), w), w)
    IN  FoldLeft(Scan, <<>>, Events(words))
BuildSlots(words) == InOrder(Scanned(words))

-----------------------------------------------------------------------------
\* The slots that would come of looking back at all of them.
AllScanned(words) ==
    LET ScanAll(slots, w) == Place(slots, Fits(slots, 1, w), w)
    IN  FoldLeft(ScanAll, <<>>, Events(words))
AllSlots(words) == InOrder(AllScanned(words))

\* Each system's words follow one another, and no word lies within another's.
Contained(v, w) == w.start <= v.start /\ v.end <= w.end
InTurn(words) == \A v, w \in words : v # w =>
    /\ v.system = w.system => v.end <= w.start \/ w.end <= v.start
    /\ Contained(v, w) => Contained(w, v)

\* "Only slots that have not finished before this one begins can still overlap it. Scanning
\* back over those is enough" (consensus.py:131-132) holds where no word lies within another's:
\* no slot the scan does not reach would have taken the word, although slots grow as words join
\* them.  Elsewhere it does not: with 1..2 inside another's 0..4, the word 2..4 misses the slot
\* of 0..4, which it would have joined.
ScanReachesAll(words) == InTurn(words) => BuildSlots(words) = AllSlots(words)
=============================================================================
