---------------------------- MODULE Segmentation ----------------------------
(***************************************************************************)
(* How the speech turns of an episode become its segments:                 *)
(* segment_audio_to_slices of services/silero_vad.py.  A turn and a slice  *)
(* are <<start, end>> in ticks; a cut inside a long turn may fall on any   *)
(* tick the search for a quiet moment allows.                              *)
(*                                                                         *)
(* The code compares differences of floats: 2.3 - 0.3 is a little below    *)
(* 2.0.  A span exactly as long as the minimum is therefore read as below  *)
(* it or not, each time it is compared.  Abstracted: the same at the other *)
(* bounds.  A turn as long as the maximum may also be cut in two, a gap    *)
(* that just joins two turns may not; both are as if the turn were a       *)
(* little longer, or the gap.                                              *)
(***************************************************************************)
EXTENDS Integers, Sequences, FiniteSets, SequencesExt

CONSTANTS
    MinSeg,     \* MIN_SEG_SECONDS
    MaxSeg,     \* MAX_SEG_SECONDS
    Gap,        \* the silence below which two turns are one
    Snap        \* how far a cut may move to a quiet moment

\* The pieces of a turn that is too long are longer than the minimum wherever they are cut
\* (2, 20 and 0.75 seconds): how equality with it is read makes no difference to them.
SegmentationAssumption ==
    /\ {MinSeg, MaxSeg, Gap, Snap} \subseteq Nat
    /\ MinSeg > 0 /\ 2 * (MinSeg + 2 * Snap) < MaxSeg
ASSUME SegmentationAssumption

Earlier(a, b) == IF a < b THEN a ELSE b
Later(a, b)   == IF a > b THEN a ELSE b
Length(span) == span[2] - span[1]

Join(merged, turn) ==
    IF merged # <<>> /\ turn[1] - Last(merged)[2] <= Gap
    THEN Append(Front(merged), <<Last(merged)[1], Later(Last(merged)[2], turn[2])>>)
    ELSE Append(merged, turn)
MergeNear(turns) == FoldLeft(Join, <<>>, turns)

ExtendLast(slices, end) == Append(Front(slices), <<Last(slices)[1], end>>)

\* Where the i-th of n pieces may end: near the ideal cut and within the bounds, as far as
\* both can be had.
CutsAt(turn, n, i, from) ==
    LET ideal    == turn[1] + (i * Length(turn)) \div n
        earliest == Later(from + MinSeg, ideal - Snap)
        latest   == Earlier(from + MaxSeg, ideal + Snap)
    IN  IF i = n THEN {turn[2]}
        ELSE IF earliest < latest THEN earliest..latest
        ELSE {ideal}

\* A piece below the minimum is joined to the slice before it.
AddPiece(slices, from, to) ==
    IF to - from >= MinSeg \/ slices = <<>> THEN Append(slices, <<from, to>>) ELSE ExtendLast(slices, to)

\* The ways of cutting a turn that is too long, the slices before it given.
Pieces(turn) == (Length(turn) + MaxSeg - 1) \div MaxSeg
CutOnce(ways, turn, i) ==
    UNION {{[slices |-> AddPiece(way.slices, way.from, to), from |-> to] :
                to \in CutsAt(turn, Pieces(turn), i, way.from)} : way \in ways}
CutLong(slices, turn) ==
    LET whole == {[slices |-> slices, from |-> turn[1]]}
        Cut(ways, i) == CutOnce(ways, turn, i)
    IN  {way.slices : way \in FoldLeft(Cut, whole, [i \in 1..Pieces(turn) |-> i])}

\* Had a short turn always been joined to the slice before it.
AddShortAnyway(slices, turn, total) ==
    IF slices # <<>> THEN ExtendLast(slices, turn[2])
    ELSE Append(slices, <<turn[1], Earlier(total, turn[1] + MinSeg)>>)

AddShort(slices, turn, total) ==
    IF slices # <<>> /\ turn[2] - Last(slices)[1] <= MaxSeg
    THEN ExtendLast(slices, turn[2])
    ELSE Append(slices, <<turn[1], Earlier(total, turn[1] + MinSeg)>>)

\* dur < min_seg, as the floats may have it; a difference to 0 is exact.
ReadsShort(span) ==
    IF Length(span) = MinSeg /\ span[1] # 0 THEN BOOLEAN ELSE {Length(span) < MinSeg}

\* The final pass: up to the minimum, or out; in every way it may go.
Bounded(slice, total) == <<slice[1], Earlier(total, Later(slice[2], slice[1] + MinSeg))>>
KeepOnce(ways, slice, total) ==
    UNION {{IF short THEN kept ELSE Append(kept, Bounded(slice, total)) :
                short \in ReadsShort(Bounded(slice, total))} : kept \in ways}
Clean(slices, total) ==
    LET Keep(ways, slice) == KeepOnce(ways, slice, total)
    IN  FoldLeft(Keep, {<<>>}, slices)

\* Every way the turns may be cut.
AddTurn(slices, turn, total) ==
    CASE Length(turn) > MaxSeg -> CutLong(slices, turn)
      [] Length(turn) <= 0 -> {slices}
      [] OTHER -> {IF short THEN AddShort(slices, turn, total) ELSE Append(slices, turn) :
                      short \in ReadsShort(turn)}
AllAdded(turns, total) ==
    LET Add(ways, turn) == UNION {AddTurn(slices, turn, total) : slices \in ways}
    IN  FoldLeft(Add, {<<>>}, turns)
Slices(turns, total) ==
    LET found == IF turns = <<>> /\ total >= MinSeg THEN << <<0, total>> >> ELSE turns
    IN  UNION {Clean(slices, total) : slices \in AllAdded(MergeNear(found), total)}

-----------------------------------------------------------------------------
\* A turn whose slice is the bare minimum and so may be read as below it: one as long as that,
\* or a shorter one too far from every segment before it to be joined to one.
Padded(turn, slices) ==
    \/ Length(turn) = MinSeg
    \/ /\ Length(turn) < MinSeg
       /\ \A s \in Range(slices) : s[1] < turn[1] => turn[2] - s[1] > MaxSeg

\* However a recording is cut: the segments start one after the other, lie inside it and last
\* at least the minimum and, but for what a cut moved, at most the maximum; all speech is in
\* some segment, but for a last turn too near the end of the recording to be one and for the
\* first moments of a turn whose slice is the bare minimum, which may have been dropped; and
\* two segments hold the same moment only where a short turn was lengthened to the minimum.
CutsAreSound(turns, total, slices) ==
    LET inside(t, span) == span[1] <= t /\ t < span[2]
    IN  /\ \A k \in DOMAIN slices :
             /\ 0 <= slices[k][1] /\ slices[k][2] <= total
             /\ MinSeg <= Length(slices[k]) /\ Length(slices[k]) <= MaxSeg + Snap
             /\ k > 1 => /\ slices[k - 1][1] < slices[k][1]
                         /\ slices[k - 1][2] > slices[k][1] => Length(slices[k - 1]) = MinSeg
        /\ \A t \in 0..total - 1 :
             (\E k \in DOMAIN turns : inside(t, turns[k])) =>
                \/ \E k \in DOMAIN slices : inside(t, slices[k])
                \/ t > total - MinSeg
                \/ \E turn \in Range(MergeNear(turns)) :
                      turn[1] <= t /\ t < turn[1] + MinSeg /\ Padded(turn, slices)
=============================================================================
