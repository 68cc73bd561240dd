---------------------------- MODULE AudioProofs -----------------------------
(***************************************************************************)
(* Proofs about what is heard in an episode.                               *)
(*                                                                         *)
(* Voices, for any episodes, prints and numbers of runs: the speakers of a *)
(* run never share a voice, and linking is sound.  It rests on what        *)
(* assign_voices returns.  Matching takes one pair a round, the closest    *)
(* that is free; there is a closest one because closeness is an order on   *)
(* the finitely many pairs, and after as many rounds as there are speakers *)
(* no pair is free.                                                        *)
(*                                                                         *)
(* Segmentation, for any turns and bounds: wherever the quiet moments are, *)
(* a recording is cut without losing speech.                               *)
(*                                                                         *)
(* The induction principles and what is known of FoldLeft are those of     *)
(* FusionWindowsProofs.                                                    *)
(***************************************************************************)
EXTENDS Voices, Segmentation, FusionWindowsProofs

-----------------------------------------------------------------------------
(***************************************************************************)
(* Two lemmas for any sets: a fold is a run of steps, and an order on a    *)
(* finite set has a first member.                                          *)
(***************************************************************************)

\* g folds step over the subsets of 1..n as long as it stays within V.
FoldsWithin(g, n, V, base, step) ==
    /\ g[{}] = base
    /\ \A t \in SUBSET (1..n) : t # {} /\ g[t \ {Max(t)}] \in V => g[t] = step[<<Max(t), g[t \ {Max(t)}]>>]

\* It does stay there, and goes from base to what it is for 1..n step by step.
StepByStep(g, n, V, base, step) ==
    /\ g[1..0] = base
    /\ \A i \in 0..n : g[1..i] \in V
    /\ \A i \in 1..n : g[1..i] = step[<<i, g[1..i - 1]>>]

LEMMA FoldIsARun ==
    ASSUME NEW V, NEW base \in V, NEW n \in Nat, NEW step \in [(1..n) \X V -> V],
           NEW g, FoldsWithin(g, n, V, base, step)
    PROVE  StepByStep(g, n, V, base, step)
<1> DEFINE d == [i \in 0..n |-> g[1..i]]
<1>1. d[0] = base
  <2>1. 1..0 = {} /\ 0 \in 0..n
    OBVIOUS
  <2> QED
    BY <2>1 DEF FoldsWithin
<1>2. ASSUME NEW i \in 1..n, d[i - 1] \in V PROVE d[i] = step[<<i, d[i - 1]>>]
  <2>1. i \in 0..n /\ i - 1 \in 0..n /\ i \in Nat \ {0} /\ 1..i \in SUBSET (1..n)
    OBVIOUS
  <2>2. Max(1..i) = i /\ (1..i) \ {i} = 1..i - 1 /\ 1..i # {}
    BY <2>1, MaxOfFirst
  <2>3. g[1..i] = step[<<i, g[1..i - 1]>>]
    BY <1>2, <2>1, <2>2 DEF FoldsWithin
  <2> QED
    BY <2>1, <2>3
<1>3. \A i \in 0..n : d[i] \in V
  <2> DEFINE reached == {i \in Nat : i <= n => d[i] \in V}
  <2>1. 0 \in reached
    BY <1>1
  <2>2. ASSUME NEW i \in Nat, i \in reached PROVE i + 1 \in reached
    <3> SUFFICES ASSUME i + 1 <= n PROVE d[i + 1] \in V
      OBVIOUS
    <3>1. PICK j \in 1..n : j = i + 1 /\ j - 1 = i /\ i <= n
      OBVIOUS
    <3> HIDE DEF d
    <3>2. <<j, d[i]>> \in (1..n) \X V
      BY <2>2, <3>1
    <3> QED
      BY <1>2, <2>2, <3>1, <3>2
  <2>3. Nat \subseteq reached
    <3> HIDE DEF reached
    <3> QED
      BY <2>1, <2>2, EveryNumber
  <2> HIDE DEF d
  <2> QED
    BY <2>3
<1>4. \A i \in 0..n : d[i] = g[1..i]
  OBVIOUS
<1>5. 0 \in 0..n /\ \A i \in 1..n : i \in 0..n /\ i - 1 \in 0..n
  OBVIOUS
<1> HIDE DEF d
<1>6. g[1..0] = base /\ \A i \in 0..n : g[1..i] \in V
  BY <1>1, <1>3, <1>4, <1>5
<1>7. ASSUME NEW i \in 1..n PROVE g[1..i] = step[<<i, g[1..i - 1]>>]
  <2>1. d[i - 1] \in V /\ d[i] = g[1..i] /\ d[i - 1] = g[1..i - 1]
    BY <1>3, <1>4, <1>5
  <2> QED
    BY <1>2, <2>1
<1> QED
  BY <1>6, <1>7 DEF StepByStep

\* Of any two members of S one comes before the other, and R is transitive on S.
Orders(R, S) ==
    /\ \A p, q \in S : p # q => <<p, q>> \in R \/ <<q, p>> \in R
    /\ \A p, q, r \in S : <<p, q>> \in R /\ <<q, r>> \in R => <<p, r>> \in R

\* A finite set with an order has a first member.
LEMMA FirstOfAll ==
    ASSUME NEW R, NEW S, IsFiniteSet(S), S # {}, Orders(R, S)
    PROVE  \E p \in S : \A q \in S \ {p} : <<p, q>> \in R
<1> DEFINE HasFirst(T) == \E p \in T : \A q \in T \ {p} : <<p, q>> \in R
           good == {n \in Nat : \A T \in SUBSET S : Cardinality(T) = n + 1 => HasFirst(T)}
<1>1. 0 \in good
  <2> SUFFICES ASSUME NEW T \in SUBSET S, Cardinality(T) = 0 + 1 PROVE HasFirst(T)
    OBVIOUS
  <2>1. IsFiniteSet(T) /\ Cardinality(T) = 1
    BY FS_Subset
  <2>2. PICK x : T = {x}
    BY <2>1, FS_Singleton
  <2> QED
    BY <2>2
<1>2. ASSUME NEW n \in Nat, n \in good PROVE n + 1 \in good
  <2> SUFFICES ASSUME NEW T \in SUBSET S, Cardinality(T) = (n + 1) + 1 PROVE HasFirst(T)
    OBVIOUS
  <2>1. IsFiniteSet(T) /\ T # {}
    BY FS_Subset, FS_EmptySet
  <2>2. PICK x \in T : TRUE
    BY <2>1
  <2>3. T \ {x} \in SUBSET S /\ Cardinality(T \ {x}) = n + 1
    <3>1. Cardinality(T \ {x}) = Cardinality(T) - 1
      BY <2>1, <2>2, FS_RemoveElement
    <3>2. ((n + 1) + 1) - 1 = n + 1
      OBVIOUS
    <3> QED
      BY <3>1, <3>2
  <2>4. PICK p \in T \ {x} : \A q \in (T \ {x}) \ {p} : <<p, q>> \in R
    BY <1>2, <2>3
  <2>5. CASE <<p, x>> \in R
    BY <2>4, <2>5
  <2>6. CASE <<x, p>> \in R
    BY <2>4, <2>6 DEF Orders
  <2> QED
    BY <2>2, <2>4, <2>5, <2>6 DEF Orders
<1>3. Nat \subseteq good
  <2> HIDE DEF good
  <2> QED
    BY <1>1, <1>2, EveryNumber
<1>4. Cardinality(S) \in Nat /\ Cardinality(S) # 0
  BY FS_CardinalityType, FS_EmptySet
<1>5. PICK n \in Nat : Cardinality(S) = n + 1
  <2>1. Cardinality(S) - 1 \in Nat /\ Cardinality(S) = (Cardinality(S) - 1) + 1
    BY <1>4
  <2> QED
    BY <2>1
<1> QED
  BY <1>3, <1>5

-----------------------------------------------------------------------------
(***************************************************************************)
(* The state: every run's speakers have prints and voices of their own.    *)
(***************************************************************************)

Points == Int \X Int

RunOf(run) ==
    /\ run.prints \in Seq(Points)
    /\ run.voices \in Seq(Nat \ {0}) /\ Len(run.voices) = Len(run.prints)
    /\ IsInjective(run.voices)

\* What is known of runs that are linked; Known and what is built on it look back on them.
Kept == [ep : DiarizedEpisodes \cup {"none"}, prints : Seq(Points), voices : Seq(Nat \ {0})]

LinkedOK(linked) ==
    /\ linked \in Seq(Kept)
    /\ \A i \in DOMAIN linked : RunOf(linked[i])

LEMMA AddDot ==
    ASSUME NEW u \in Points, NEW v \in Points
    PROVE  Add(u, v) \in Points /\ Dot(u, v) \in Int
BY DEF Add, Dot, Points

\* A run's prints added to a point make a point.
LEMMA WithRunIsPoint ==
    ASSUME NEW total \in Points, NEW run, RunOf(run), NEW v
    PROVE  WithRun(total, run, v) \in Points
<1> DEFINE n == Len(run.voices)
           order == [i \in DOMAIN run.voices |-> i]
           Sum(t, k) == IF run.voices[k] = v THEN Add(t, run.prints[k]) ELSE t
           step == [x \in (1..n) \X Points |-> Sum(x[2], x[1])]
           fold(g) == [t \in SUBSET DOMAIN order |->
                         IF t = {} THEN total ELSE Sum(g[t \ {Max(t)}], order[Max(t)])]
           chosen == CHOOSE g : g = fold(g)
<1>1. n \in Nat /\ DOMAIN run.voices = 1..n /\ DOMAIN order = 1..n /\ \A i \in 1..n : order[i] = i
  BY LenProperties DEF RunOf
<1>2. ASSUME NEW k \in 1..n, NEW t \in Points PROVE Sum(t, k) \in Points
  <2>1. run.prints[k] \in Points
    BY <1>1, ElementOfSeq DEF RunOf
  <2> QED
    BY <2>1, AddDot
<1> HIDE DEF Sum
<1>3. step \in [(1..n) \X Points -> Points]
  <2>1. \A x \in (1..n) \X Points : Sum(x[2], x[1]) \in Points
    <3> HIDE DEF n
    <3> QED
      BY <1>2
  <2> QED
    BY <2>1
<1>4. ASSUME NEW t \in SUBSET (1..n)
      PROVE  t # {} => /\ Max(t) \in 1..n /\ order[Max(t)] = Max(t)
                       /\ t \ {Max(t)} \in SUBSET (1..n)
  <2> HIDE DEF n, order
  <2> QED
    BY <1>1, MaxOf
<1>8. chosen = fold(chosen)
  <2>1. PICK g \in [SUBSET (1..n) -> Points] : FoldsBy(g, n, total, step)
    <3> HIDE DEF step, n
    <3> QED
      BY <1>1, <1>3, FoldExists
  <2>2. ASSUME NEW t \in SUBSET (1..n)
        PROVE  g[t] = IF t = {} THEN total ELSE Sum(g[t \ {Max(t)}], order[Max(t)])
    <3>1. g[t] = IF t = {} THEN total ELSE step[<<Max(t), g[t \ {Max(t)}]>>]
      BY <2>1 DEF FoldsBy
    <3>2. CASE t = {}
      BY <3>1, <3>2
    <3>3. CASE t # {}
      <4>1. Max(t) \in 1..n /\ order[Max(t)] = Max(t) /\ g[t \ {Max(t)}] \in Points
        BY <2>1, <1>4, <3>3
      <4> HIDE DEF n, order
      <4> QED
        BY <3>1, <3>3, <4>1
    <3> QED
      BY <3>2, <3>3
  <2>3. g = fold(g)
    <3>1. g = [t \in SUBSET (1..n) |-> g[t]]
      BY <2>1
    <3> HIDE DEF n, order
    <3> QED
      BY <1>1, <2>2, <3>1
  <2> QED
    BY <2>3, Zenon
<1>9. WithRun(total, run, v) = chosen[DOMAIN order]
  BY DEF WithRun, FoldLeftDomain, FoldLeft, MapThenFoldSet, Sum
<1> HIDE DEF chosen
<1>10. ASSUME NEW t \in SUBSET (1..n)
       PROVE  chosen[t] = IF t = {} THEN total ELSE Sum(chosen[t \ {Max(t)}], order[Max(t)])
  <2> DEFINE f == fold(chosen)
  <2>1. f[t] = IF t = {} THEN total ELSE Sum(chosen[t \ {Max(t)}], order[Max(t)])
    BY <1>1
  <2> HIDE DEF f
  <2>2. chosen = f
    BY <1>8 DEF f
  <2> QED
    BY <2>1, <2>2
<1>11. FoldsWithin(chosen, n, Points, total, step)
  <2>1. {} \in SUBSET (1..n)
    OBVIOUS
  <2>2. chosen[{}] = total
    BY <1>10, <2>1
  <2>3. ASSUME NEW t \in SUBSET (1..n), t # {}, chosen[t \ {Max(t)}] \in Points
        PROVE  chosen[t] = step[<<Max(t), chosen[t \ {Max(t)}]>>]
    <3>1. Max(t) \in 1..n /\ order[Max(t)] = Max(t)
      BY <1>4, <2>3
    <3> HIDE DEF n, order
    <3> QED
      BY <1>10, <2>3, <3>1
  <2> QED
    BY <2>2, <2>3 DEF FoldsWithin
<1> HIDE DEF step, n
<1>12. StepByStep(chosen, n, Points, total, step)
  BY <1>1, <1>3, <1>11, FoldIsARun
<1>13. n \in 0..n
  BY <1>1
<1> QED
  BY <1>1, <1>9, <1>12, <1>13 DEF StepByStep

\* The sum of a voice's prints is a point.
LEMMA CentroidIsPoint ==
    ASSUME NEW linked, LinkedOK(linked), NEW v
    PROVE  Centroid(linked, v) \in Points
<1> DEFINE n == Len(linked)
           Sum(t, run) == WithRun(t, run, v)
           step == [x \in (1..n) \X Points |-> Sum(x[2], linked[x[1]])]
           fold(g) == [t \in SUBSET DOMAIN linked |->
                         IF t = {} THEN <<0, 0>> ELSE Sum(g[t \ {Max(t)}], linked[Max(t)])]
           chosen == CHOOSE g : g = fold(g)
<1>1. n \in Nat /\ DOMAIN linked = 1..n
  BY LenProperties DEF LinkedOK
<1>2. ASSUME NEW k \in 1..n, NEW t \in Points PROVE Sum(t, linked[k]) \in Points
  <2>1. RunOf(linked[k])
    BY <1>1 DEF LinkedOK
  <2> QED
    BY <2>1, WithRunIsPoint
<1> HIDE DEF Sum
<1>3. step \in [(1..n) \X Points -> Points]
  <2>1. \A x \in (1..n) \X Points : Sum(x[2], linked[x[1]]) \in Points
    <3> HIDE DEF n
    <3> QED
      BY <1>2
  <2> QED
    BY <2>1
<1>4. ASSUME NEW t \in SUBSET (1..n)
      PROVE  t # {} => Max(t) \in 1..n /\ t \ {Max(t)} \in SUBSET (1..n)
  <2> HIDE DEF n
  <2> QED
    BY <1>1, MaxOf
<1>5. <<0, 0>> \in Points
  BY DEF Points
<1>6. chosen = fold(chosen)
  <2>1. PICK g \in [SUBSET (1..n) -> Points] : FoldsBy(g, n, <<0, 0>>, step)
    <3> HIDE DEF step, n
    <3> QED
      BY <1>1, <1>3, <1>5, FoldExists
  <2>2. ASSUME NEW t \in SUBSET (1..n)
        PROVE  g[t] = IF t = {} THEN <<0, 0>> ELSE Sum(g[t \ {Max(t)}], linked[Max(t)])
    <3>1. g[t] = IF t = {} THEN <<0, 0>> ELSE step[<<Max(t), g[t \ {Max(t)}]>>]
      BY <2>1 DEF FoldsBy
    <3>2. CASE t = {}
      BY <3>1, <3>2
    <3>3. CASE t # {}
      <4>1. Max(t) \in 1..n /\ g[t \ {Max(t)}] \in Points
        BY <2>1, <1>4, <3>3
      <4> HIDE DEF n
      <4> QED
        BY <3>1, <3>3, <4>1
    <3> QED
      BY <3>2, <3>3
  <2>3. g = fold(g)
    <3>1. g = [t \in SUBSET (1..n) |-> g[t]]
      BY <2>1
    <3> HIDE DEF n
    <3> QED
      BY <1>1, <2>2, <3>1
  <2> QED
    BY <2>3, Zenon
<1>7. Centroid(linked, v) = chosen[DOMAIN linked]
  BY DEF Centroid, FoldLeft, MapThenFoldSet, Sum
<1> HIDE DEF chosen
<1>8. ASSUME NEW t \in SUBSET (1..n)
      PROVE  chosen[t] = IF t = {} THEN <<0, 0>> ELSE Sum(chosen[t \ {Max(t)}], linked[Max(t)])
  <2> DEFINE f == fold(chosen)
  <2>1. f[t] = IF t = {} THEN <<0, 0>> ELSE Sum(chosen[t \ {Max(t)}], linked[Max(t)])
    BY <1>1
  <2> HIDE DEF f
  <2>2. chosen = f
    BY <1>6 DEF f
  <2> QED
    BY <2>1, <2>2
<1>9. FoldsWithin(chosen, n, Points, <<0, 0>>, step)
  <2>1. {} \in SUBSET (1..n)
    OBVIOUS
  <2>2. chosen[{}] = <<0, 0>>
    BY <1>8, <2>1
  <2>3. ASSUME NEW t \in SUBSET (1..n), t # {}, chosen[t \ {Max(t)}] \in Points
        PROVE  chosen[t] = step[<<Max(t), chosen[t \ {Max(t)}]>>]
    <3>1. Max(t) \in 1..n
      BY <1>4, <2>3
    <3> HIDE DEF n
    <3> QED
      BY <1>8, <2>3, <3>1
  <2> QED
    BY <2>2, <2>3 DEF FoldsWithin
<1> HIDE DEF step, n
<1>10. StepByStep(chosen, n, Points, <<0, 0>>, step)
  BY <1>1, <1>3, <1>5, <1>9, FoldIsARun
<1>11. n \in 0..n
  BY <1>1
<1> QED
  BY <1>1, <1>7, <1>10, <1>11 DEF StepByStep

-----------------------------------------------------------------------------
(***************************************************************************)
(* The similar pairs: there are finitely many, and Closer orders them.     *)
(***************************************************************************)

LEMMA PairsCompared ==
    ASSUME NEW a \in Nat, NEW b \in Nat, NEW c \in Nat,
           NEW x \in Nat \ {0}, NEW y \in Nat \ {0}, NEW z \in Nat \ {0},
           a * y >= b * x, b * z >= c * y
    PROVE  /\ a * z >= c * x
           /\ a * y > b * x \/ b * z > c * y => a * z > c * x
<1>1. PICK p \in Int : p = a * y - b * x
  OBVIOUS
<1>2. PICK q \in Int : q = b * z - c * y
  OBVIOUS
<1>3. PICK r \in Int : r = a * z - c * x
  OBVIOUS
<1>4. y * r = z * p + x * q
  <2>1. z * p = z * (a * y) - z * (b * x)
    BY <1>1
  <2>2. x * q = x * (b * z) - x * (c * y)
    BY <1>2
  <2>3. y * r = y * (a * z) - y * (c * x)
    BY <1>3
  <2>4. z * (a * y) = y * (a * z) /\ z * (b * x) = x * (b * z) /\ x * (c * y) = y * (c * x)
    OBVIOUS
  <2>5. /\ z * (a * y) \in Int /\ z * (b * x) \in Int /\ x * (c * y) \in Int
    OBVIOUS
  <2> QED
    BY <2>1, <2>2, <2>3, <2>4, <2>5
<1>5. p >= 0 /\ q >= 0
  BY <1>1, <1>2
<1>6. z * p >= 0 /\ x * q >= 0 /\ (p > 0 => z * p > 0) /\ (q > 0 => x * q > 0)
  BY <1>5
<1>7. y * r >= 0 /\ (p > 0 \/ q > 0 => y * r > 0)
  BY <1>4, <1>6
<1>8. r >= 0 /\ (p > 0 \/ q > 0 => r > 0)
  <2>1. r < 0 => y * r < 0
    OBVIOUS
  <2>2. r = 0 => y * r = 0
    OBVIOUS
  <2> QED
    BY <1>7, <2>1, <2>2
<1> QED
  <2>1. a * y \in Int /\ b * x \in Int /\ b * z \in Int /\ c * y \in Int /\ a * z \in Int /\ c * x \in Int
    OBVIOUS
  <2> QED
    BY <1>1, <1>2, <1>3, <1>8, <2>1

\* What Closer compares.
Nearness(linked, prints, p) == Dot(prints[p.speaker], Centroid(linked, p.voice)) * Dot(prints[p.speaker], Centroid(linked, p.voice))
Size(linked, p) == Dot(Centroid(linked, p.voice), Centroid(linked, p.voice))

LEMMA VoicesAreNumbers ==
    ASSUME NEW linked, LinkedOK(linked)
    PROVE  IsFiniteSet(Voices(linked)) /\ Voices(linked) \subseteq Nat \ {0}
<1> DEFINE of(i) == Range(linked[i].voices)
           all == {of(i) : i \in DOMAIN linked}
<1>1. Len(linked) \in Nat /\ DOMAIN linked = 1..Len(linked)
  BY LenProperties DEF LinkedOK
<1>2. ASSUME NEW i \in DOMAIN linked PROVE IsFiniteSet(of(i)) /\ of(i) \subseteq Nat \ {0}
  <2>1. PICK w \in Seq(Nat \ {0}) : w = linked[i].voices
    BY DEF LinkedOK, RunOf
  <2>2. DOMAIN w = 1..Len(w) /\ Len(w) \in Nat /\ \A k \in 1..Len(w) : w[k] \in Nat \ {0}
    BY ElementOfSeq, LenProperties
  <2>3. Range(w) = {w[k] : k \in 1..Len(w)}
    BY <2>2 DEF Range
  <2>4. w \in [1..Len(w) -> Range(w)] /\ \A x \in Range(w) : \E k \in 1..Len(w) : w[k] = x
    BY <2>2, <2>3
  <2>5. w \in Surjection(1..Len(w), Range(w))
    BY <2>4 DEF Surjection
  <2>6. IsFiniteSet(Range(w))
    BY <2>2, <2>5, FS_Interval, FS_Surjection
  <2> QED
    BY <2>1, <2>2, <2>3, <2>6
<1>3. IsFiniteSet(all)
  <2> DEFINE f == [i \in 1..Len(linked) |-> of(i)]
  <2> HIDE DEF of
  <2>1. f \in Surjection(1..Len(linked), all)
    BY <1>1 DEF Surjection
  <2> QED
    BY <1>1, <2>1, FS_Interval, FS_Surjection
<1>4. Voices(linked) = UNION all
  BY DEF Voices
<1>5. IsFiniteSet(UNION all)
  <2>1. \A s \in all : IsFiniteSet(s)
    BY <1>2
  <2> HIDE DEF all
  <2> QED
    BY <1>3, <2>1, FS_UNION
<1> QED
  BY <1>2, <1>4, <1>5

\* A similar voice has a direction, so it can be compared.
LEMMA SimilarPair ==
    ASSUME NEW linked, LinkedOK(linked), NEW prints \in Seq(Points), NEW p \in Similar(linked, prints)
    PROVE  /\ p = [speaker |-> p.speaker, voice |-> p.voice]
           /\ p.speaker \in 1..Len(prints) /\ p.voice \in Voices(linked) /\ p.voice \in Nat \ {0}
           /\ Known(linked, prints[p.speaker], p.voice)
           /\ Nearness(linked, prints, p) \in Nat /\ Size(linked, p) \in Nat \ {0}
<1>1. p \in [speaker : DOMAIN prints, voice : Voices(linked)] /\ Known(linked, prints[p.speaker], p.voice)
  BY DEF Similar
<1>2. DOMAIN prints = 1..Len(prints)
  BY LenProperties
<1>3. /\ p = [speaker |-> p.speaker, voice |-> p.voice]
      /\ p.speaker \in 1..Len(prints) /\ p.voice \in Voices(linked) /\ p.voice \in Nat \ {0}
  BY <1>1, <1>2, VoicesAreNumbers
<1>4. PICK u \in Points : u = prints[p.speaker]
  BY <1>3, ElementOfSeq
<1>5. PICK c \in Points : c = Centroid(linked, p.voice)
  BY CentroidIsPoint
<1>6. PICK a \in Int, b \in Int : c = <<a, b>>
  BY DEF Points
<1>7. Dot(u, c) \in Int /\ Dot(u, c) > 0
  BY <1>1, <1>4, <1>5, AddDot DEF Known, Close
<1>8. Nearness(linked, prints, p) = Dot(u, c) * Dot(u, c)
  BY <1>4, <1>5 DEF Nearness
<1>9. Nearness(linked, prints, p) \in Nat
  <2>1. PICK d \in Nat : d = Dot(u, c)
    BY <1>7
  <2> QED
    BY <1>8, <2>1
<1>10. Size(linked, p) = a * a + b * b
  BY <1>5, <1>6 DEF Size, Dot
<1>11. a # 0 \/ b # 0
  <2> SUFFICES ASSUME a = 0, b = 0 PROVE FALSE
    OBVIOUS
  <2>1. PICK e \in Int, f \in Int : u = <<e, f>>
    BY DEF Points
  <2>2. Dot(u, c) = e * 0 + f * 0
    BY <1>6, <2>1 DEF Dot
  <2> QED
    BY <1>7, <2>2
<1>12. Size(linked, p) \in Nat \ {0}
  <2>1. a * a >= 0 /\ b * b >= 0 /\ (a # 0 => a * a > 0) /\ (b # 0 => b * b > 0)
    OBVIOUS
  <2>2. a * a \in Int /\ b * b \in Int
    OBVIOUS
  <2> QED
    BY <1>10, <1>11, <2>1, <2>2
<1> QED
  BY <1>1, <1>3, <1>9, <1>12

LEMMA SimilarFinite ==
    ASSUME NEW linked, LinkedOK(linked), NEW prints \in Seq(Points)
    PROVE  IsFiniteSet(Similar(linked, prints))
<1> DEFINE both == (1..Len(prints)) \X Voices(linked)
           of == [x \in both |-> [speaker |-> x[1], voice |-> x[2]]]
           records == {of[x] : x \in both}
<1>1. IsFiniteSet(both)
  <2>1. Len(prints) \in Nat /\ IsFiniteSet(Voices(linked))
    BY VoicesAreNumbers, LenProperties
  <2>2. PICK A : A = 1..Len(prints)
    OBVIOUS
  <2>3. PICK B : B = Voices(linked)
    OBVIOUS
  <2>4. IsFiniteSet(A) /\ IsFiniteSet(B)
    BY <2>1, <2>2, <2>3, FS_Interval
  <2>5. IsFiniteSet(A \X B)
    BY <2>4, FS_Product
  <2> QED
    BY <2>2, <2>3, <2>5
<1>2. of \in Surjection(both, records)
  <2> HIDE DEF both
  <2> QED
    BY DEF Surjection
<1>3. IsFiniteSet(records)
  <2> HIDE DEF both, of, records
  <2> QED
    BY <1>1, <1>2, FS_Surjection
<1>4. Similar(linked, prints) \subseteq records
  <2> SUFFICES ASSUME NEW p \in Similar(linked, prints) PROVE p \in records
    OBVIOUS
  <2>1. PICK x \in both : x = <<p.speaker, p.voice>>
    BY SimilarPair
  <2>2. p = of[x]
    BY <2>1, SimilarPair
  <2> HIDE DEF both, of
  <2> QED
    BY <2>2
<1> QED
  <2> HIDE DEF records
  <2> QED
    BY <1>3, <1>4, FS_Subset

CloserPairs(linked, prints) == {x \in Similar(linked, prints) \X Similar(linked, prints) : Closer(linked, prints, x[1], x[2])}

LEMMA CloserOrders ==
    ASSUME NEW linked, LinkedOK(linked), NEW prints \in Seq(Points)
    PROVE  Orders(CloserPairs(linked, prints), Similar(linked, prints))
<1> DEFINE S == Similar(linked, prints)
           N(p) == Nearness(linked, prints, p)
           Tied(p, q) == \/ p.speaker < q.speaker
                         \/ p.speaker = q.speaker /\ p.voice < q.voice
           Nearer(p, q) == \/ N(p) * Size(linked, q) > N(q) * Size(linked, p)
                           \/ N(p) * Size(linked, q) = N(q) * Size(linked, p) /\ Tied(p, q)
<1>1. ASSUME NEW p \in S, NEW q \in S
      PROVE  /\ N(p) * Size(linked, q) \in Nat /\ N(q) * Size(linked, p) \in Nat
             /\ <<p, q>> \in CloserPairs(linked, prints)
                  <=> Nearer(p, q)
  <2>1. N(p) * Size(linked, q) \in Nat /\ N(q) * Size(linked, p) \in Nat
    <3>1. N(p) \in Nat /\ N(q) \in Nat /\ Size(linked, p) \in Nat /\ Size(linked, q) \in Nat
      BY SimilarPair
    <3> HIDE DEF N
    <3> QED
      BY <3>1
  <2>2. <<p, q>> \in CloserPairs(linked, prints) <=> Closer(linked, prints, p, q)
    BY DEF CloserPairs
  <2>3. Closer(linked, prints, p, q)
          <=> Nearer(p, q)
    BY DEF Closer, Nearness, Size
  <2> QED
    BY <2>1, <2>2, <2>3
<1>2. ASSUME NEW p \in S
      PROVE  N(p) \in Nat /\ Size(linked, p) \in Nat \ {0} /\ p.speaker \in Int /\ p.voice \in Int
  BY SimilarPair
<1>3. ASSUME NEW p \in S, NEW q \in S, p # q PROVE Tied(p, q) \/ Tied(q, p)
  <2>1. p.speaker # q.speaker \/ p.voice # q.voice
    BY <1>3, SimilarPair
  <2> QED
    BY <1>2, <2>1
<1>4. ASSUME NEW p \in S, NEW q \in S, NEW r \in S, Tied(p, q), Tied(q, r) PROVE Tied(p, r)
  BY <1>2, <1>4
<1> HIDE DEF Tied, N, S
<1>5. ASSUME NEW p \in S, NEW q \in S, p # q
      PROVE  <<p, q>> \in CloserPairs(linked, prints) \/ <<q, p>> \in CloserPairs(linked, prints)
  <2>1. PICK a \in Nat, b \in Nat : a = N(p) * Size(linked, q) /\ b = N(q) * Size(linked, p)
    BY <1>1
  <2>2. (<<p, q>> \in CloserPairs(linked, prints)) <=> (a > b \/ (a = b /\ Tied(p, q)))
    BY <1>1, <2>1
  <2>3. (<<q, p>> \in CloserPairs(linked, prints)) <=> (b > a \/ (b = a /\ Tied(q, p)))
    BY <1>1, <2>1
  <2>4. a > b \/ b > a \/ a = b
    OBVIOUS
  <2> QED
    BY <1>3, <1>5, <2>2, <2>3, <2>4
<1>6. ASSUME NEW p \in S, NEW q \in S, NEW r \in S,
             <<p, q>> \in CloserPairs(linked, prints), <<q, r>> \in CloserPairs(linked, prints)
      PROVE  <<p, r>> \in CloserPairs(linked, prints)
  <2>1. N(p) * Size(linked, q) >= N(q) * Size(linked, p) /\ N(q) * Size(linked, r) >= N(r) * Size(linked, q)
    BY <1>1, <1>6
  <2>2. PICK a \in Nat, b \in Nat, c \in Nat : a = N(p) /\ b = N(q) /\ c = N(r)
    BY <1>2
  <2>3. PICK x \in Nat \ {0}, y \in Nat \ {0}, z \in Nat \ {0} : x = Size(linked, p) /\ y = Size(linked, q) /\ z = Size(linked, r)
    BY <1>2
  <2>4. /\ a * z >= c * x
        /\ a * y > b * x \/ b * z > c * y => a * z > c * x
    <3>1. a * y >= b * x /\ b * z >= c * y
      BY <2>1, <2>2, <2>3
    <3> QED
      BY <3>1, PairsCompared
  <2>5. CASE a * y > b * x \/ b * z > c * y
    <3>1. N(p) * Size(linked, r) > N(r) * Size(linked, p)
      BY <2>2, <2>3, <2>4, <2>5
    <3> QED
      BY <1>1, <3>1
  <2>6. CASE ~(a * y > b * x) /\ ~(b * z > c * y)
    <3>1. Tied(p, q) /\ Tied(q, r)
      BY <1>1, <1>6, <2>2, <2>3, <2>6
    <3>2. Tied(p, r)
      BY <1>4, <3>1
    <3>3. N(p) * Size(linked, r) > N(r) * Size(linked, p) \/ N(p) * Size(linked, r) = N(r) * Size(linked, p)
      <4>1. PICK e \in Int, f \in Int : e = a * z /\ f = c * x
        OBVIOUS
      <4>2. e > f \/ e = f
        BY <2>4, <4>1
      <4> QED
        BY <2>2, <2>3, <4>1, <4>2
    <3> QED
      BY <1>1, <3>2, <3>3
  <2> QED
    BY <2>5, <2>6
<1> QED
  BY <1>5, <1>6 DEF Orders, S

-----------------------------------------------------------------------------
(***************************************************************************)
(* The matching.                                                           *)
(***************************************************************************)

\* While a pair is free, one is the closest.
Nearest(linked, prints, free) == CHOOSE p \in free : \A q \in free \ {p} : Closer(linked, prints, p, q)

LEMMA ClosestIsFree ==
    ASSUME NEW linked, LinkedOK(linked), NEW prints \in Seq(Points), NEW free \in SUBSET Similar(linked, prints), free # {}
    PROVE  Nearest(linked, prints, free) \in free
<1>1. IsFiniteSet(free)
  BY SimilarFinite, FS_Subset
<1>2. Orders(CloserPairs(linked, prints), free)
  BY CloserOrders DEF Orders
<1>3. PICK p \in free : \A q \in free \ {p} : <<p, q>> \in CloserPairs(linked, prints)
  BY <1>1, <1>2, FirstOfAll
<1>4. \A q \in free \ {p} : Closer(linked, prints, p, q)
  BY <1>3 DEF CloserPairs
<1> QED
  BY <1>4 DEF Nearest

\* One round takes the closest pair, if there is one.
Round(linked, prints, taken) ==
    IF Free(linked, prints, taken) = {} THEN taken ELSE taken \cup {Nearest(linked, prints, Free(linked, prints, taken))}

LEMMA FreePairs ==
    ASSUME NEW linked, NEW prints, NEW taken
    PROVE  /\ Free(linked, prints, taken) \subseteq Similar(linked, prints)
           /\ \A p \in Free(linked, prints, taken), q \in taken : q.speaker # p.speaker /\ q.voice # p.voice
           /\ \A p \in Similar(linked, prints) \ Free(linked, prints, taken) :
                \E q \in taken : q.speaker = p.speaker \/ q.voice = p.voice
BY DEF Free

LEMMA RoundStays ==
    ASSUME NEW linked, LinkedOK(linked), NEW prints \in Seq(Points), NEW taken \in SUBSET Similar(linked, prints)
    PROVE  Round(linked, prints, taken) \in SUBSET Similar(linked, prints)
<1>1. Free(linked, prints, taken) \in SUBSET Similar(linked, prints)
  BY FreePairs
<1>2. CASE Free(linked, prints, taken) = {}
  BY <1>2 DEF Round
<1>3. CASE Free(linked, prints, taken) # {}
  <2>1. Nearest(linked, prints, Free(linked, prints, taken)) \in Similar(linked, prints)
    BY <1>1, <1>3, ClosestIsFree
  <2> QED
    BY <1>3, <2>1 DEF Round
<1> QED
  BY <1>2, <1>3

\* Round after round g reaches what Matched returns.
MatchedBy(linked, prints, g) ==
    /\ g[1..0] = {}
    /\ \A i \in 1..Len(prints) : g[1..i] = Round(linked, prints, g[1..i - 1])
    /\ Matched(linked, prints) = g[1..Len(prints)]

LEMMA MatchedInRounds ==
    ASSUME NEW linked, LinkedOK(linked), NEW prints \in Seq(Points)
    PROVE  \E g : MatchedBy(linked, prints, g)
<1> DEFINE n == Len(prints)
           Pairs == SUBSET Similar(linked, prints)
           order == [i \in DOMAIN prints |-> i]
           Match(taken, k) == Round(linked, prints, taken)
           step == [x \in (1..n) \X Pairs |-> Match(x[2], x[1])]
           fold(g) == [t \in SUBSET DOMAIN order |->
                         IF t = {} THEN {} ELSE Match(g[t \ {Max(t)}], order[Max(t)])]
           chosen == CHOOSE g : g = fold(g)
<1>1. n \in Nat /\ DOMAIN prints = 1..n /\ DOMAIN order = 1..n /\ \A i \in 1..n : order[i] = i
  BY LenProperties
<1>2. ASSUME NEW k \in 1..n, NEW t \in Pairs PROVE Match(t, k) \in Pairs
  BY RoundStays
<1>3. step \in [(1..n) \X Pairs -> Pairs]
  <2>1. \A x \in (1..n) \X Pairs : Match(x[2], x[1]) \in Pairs
    <3> HIDE DEF n, Match, Pairs
    <3> QED
      BY <1>2
  <2> QED
    BY <2>1
<1>4. ASSUME NEW t \in SUBSET (1..n)
      PROVE  t # {} => /\ Max(t) \in 1..n /\ order[Max(t)] = Max(t)
                       /\ t \ {Max(t)} \in SUBSET (1..n)
  <2> HIDE DEF n, order
  <2> QED
    BY <1>1, MaxOf
<1>5. {} \in Pairs
  OBVIOUS
<1>6. Matched(linked, prints) = chosen[DOMAIN order]
  BY DEF Matched, FoldLeftDomain, FoldLeft, MapThenFoldSet, Round, Nearest
<1> HIDE DEF Match, Pairs
<1>7. chosen = fold(chosen)
  <2>1. PICK g \in [SUBSET (1..n) -> Pairs] : FoldsBy(g, n, {}, step)
    <3> HIDE DEF step, n
    <3> QED
      BY <1>1, <1>3, <1>5, FoldExists
  <2>2. ASSUME NEW t \in SUBSET (1..n)
        PROVE  g[t] = IF t = {} THEN {} ELSE Match(g[t \ {Max(t)}], order[Max(t)])
    <3>1. g[t] = IF t = {} THEN {} ELSE step[<<Max(t), g[t \ {Max(t)}]>>]
      BY <2>1 DEF FoldsBy
    <3>2. CASE t = {}
      BY <3>1, <3>2
    <3>3. CASE t # {}
      <4>1. Max(t) \in 1..n /\ order[Max(t)] = Max(t) /\ g[t \ {Max(t)}] \in Pairs
        BY <2>1, <1>4, <3>3
      <4> HIDE DEF n, order
      <4> QED
        BY <3>1, <3>3, <4>1
    <3> QED
      BY <3>2, <3>3
  <2>3. g = fold(g)
    <3>1. g = [t \in SUBSET (1..n) |-> g[t]]
      BY <2>1
    <3> HIDE DEF n, order
    <3> QED
      BY <1>1, <2>2, <3>1
  <2> QED
    BY <2>3, Zenon
<1> HIDE DEF chosen
<1>8. ASSUME NEW t \in SUBSET (1..n)
      PROVE  chosen[t] = IF t = {} THEN {} ELSE Match(chosen[t \ {Max(t)}], order[Max(t)])
  <2> DEFINE f == fold(chosen)
  <2>1. f[t] = IF t = {} THEN {} ELSE Match(chosen[t \ {Max(t)}], order[Max(t)])
    BY <1>1
  <2> HIDE DEF f
  <2>2. chosen = f
    BY <1>7 DEF f
  <2> QED
    BY <2>1, <2>2
<1>9. FoldsWithin(chosen, n, Pairs, {}, step)
  <2>1. {} \in SUBSET (1..n)
    OBVIOUS
  <2>2. chosen[{}] = {}
    BY <1>8, <2>1
  <2>3. ASSUME NEW t \in SUBSET (1..n), t # {}, chosen[t \ {Max(t)}] \in Pairs
        PROVE  chosen[t] = step[<<Max(t), chosen[t \ {Max(t)}]>>]
    <3>1. Max(t) \in 1..n /\ order[Max(t)] = Max(t)
      BY <1>4, <2>3
    <3> HIDE DEF n, order
    <3> QED
      BY <1>8, <2>3, <3>1
  <2> QED
    BY <2>2, <2>3 DEF FoldsWithin
<1>10. StepByStep(chosen, n, Pairs, {}, step)
  <2> HIDE DEF step, n
  <2> QED
    BY <1>1, <1>3, <1>5, <1>9, FoldIsARun
<1>11. ASSUME NEW i \in 1..n PROVE chosen[1..i] = Round(linked, prints, chosen[1..i - 1])
  <2>1. i - 1 \in 0..n
    BY <1>1
  <2>2. chosen[1..i] = step[<<i, chosen[1..i - 1]>>] /\ chosen[1..i - 1] \in Pairs
    BY <1>10, <2>1 DEF StepByStep
  <2>3. step[<<i, chosen[1..i - 1]>>] = Match(chosen[1..i - 1], i)
    <3> HIDE DEF n
    <3> QED
      BY <2>2
  <2> QED
    BY <2>2, <2>3 DEF Match
<1>12. chosen[1..0] = {} /\ Matched(linked, prints) = chosen[1..n]
  BY <1>1, <1>6, <1>10 DEF StepByStep
<1> QED
  BY <1>11, <1>12 DEF MatchedBy

SpeakersOf(t) == {p.speaker : p \in t}

\* What i rounds have taken: no speaker or voice twice, and a pair every round until none is free.
RoundsTook(linked, prints, t, i) ==
    /\ t \subseteq Similar(linked, prints)
    /\ \A p, q \in t : p # q => p.speaker # q.speaker /\ p.voice # q.voice
    /\ Free(linked, prints, t) = {} \/ Cardinality(SpeakersOf(t)) = i

LEMMA RoundsTakePairs ==
    ASSUME NEW linked, LinkedOK(linked), NEW prints \in Seq(Points), NEW t, NEW i \in Nat, RoundsTook(linked, prints, t, i)
    PROVE  RoundsTook(linked, prints, Round(linked, prints, t), i + 1)
<1> DEFINE free == Free(linked, prints, t)
           next == Nearest(linked, prints, free)
           new == Round(linked, prints, t)
<1>1. free \in SUBSET Similar(linked, prints)
  BY FreePairs
<1>2. CASE free = {}
  BY <1>2 DEF Round, RoundsTook
<1>3. CASE free # {}
  <2>1. new = t \cup {next} /\ next \in free
    BY <1>1, <1>3, ClosestIsFree DEF Round
  <2>2. \A q \in t : q.speaker # next.speaker /\ q.voice # next.voice
    BY <2>1, FreePairs
  <2> HIDE DEF next, new, free
  <2>3. new \subseteq Similar(linked, prints)
    BY <1>1, <2>1 DEF RoundsTook
  <2>4. \A p, q \in new : p # q => p.speaker # q.speaker /\ p.voice # q.voice
    BY <2>1, <2>2 DEF RoundsTook
  <2>5. Cardinality(SpeakersOf(t)) = i
    BY <1>3 DEF RoundsTook, free
  <2>6. SpeakersOf(new) = SpeakersOf(t) \cup {next.speaker} /\ next.speaker \notin SpeakersOf(t)
    BY <2>1, <2>2 DEF SpeakersOf
  <2>7. IsFiniteSet(SpeakersOf(t))
    <3>1. SpeakersOf(t) \subseteq 1..Len(prints)
      BY SimilarPair DEF SpeakersOf, RoundsTook
    <3>2. PICK S : S = SpeakersOf(t)
      OBVIOUS
    <3>3. PICK T : T = 1..Len(prints)
      OBVIOUS
    <3>4. Len(prints) \in Nat
      BY LenProperties
    <3>5. IsFiniteSet(T) /\ S \subseteq T
      BY <3>1, <3>2, <3>3, <3>4, FS_Interval
    <3>6. IsFiniteSet(S)
      BY <3>5, FS_Subset
    <3> QED
      BY <3>2, <3>6
  <2>8. Cardinality(SpeakersOf(new)) = i + 1
    <3>1. PICK S : S = SpeakersOf(t)
      OBVIOUS
    <3>2. PICK x : x = next.speaker
      OBVIOUS
    <3>3. Cardinality(S \cup {x}) = Cardinality(S) + 1
      BY <2>6, <2>7, <3>1, <3>2, FS_AddElement
    <3> QED
      BY <2>5, <2>6, <3>1, <3>2, <3>3
  <2> QED
    BY <2>3, <2>4, <2>8 DEF RoundsTook, new
<1> QED
  BY <1>2, <1>3

\* Matching gives no speaker and no voice twice, and leaves no free pair.
LEMMA MatchedFacts ==
    ASSUME NEW linked, LinkedOK(linked), NEW prints \in Seq(Points)
    PROVE  /\ Matched(linked, prints) \subseteq Similar(linked, prints)
           /\ \A p, q \in Matched(linked, prints) : p # q => p.speaker # q.speaker /\ p.voice # q.voice
           /\ Free(linked, prints, Matched(linked, prints)) = {}
<1> DEFINE n == Len(prints)
           good(g) == {i \in Nat : i <= n => RoundsTook(linked, prints, g[1..i], i)}
<1>1. n \in Nat
  BY LenProperties
<1>2. PICK g : MatchedBy(linked, prints, g)
  BY MatchedInRounds
<1>3. 0 \in good(g)
  <2>1. SpeakersOf({}) = {}
    BY DEF SpeakersOf
  <2>2. RoundsTook(linked, prints, {}, 0)
    BY <2>1, FS_EmptySet DEF RoundsTook
  <2> QED
    BY <1>2, <2>2 DEF MatchedBy
<1>4. ASSUME NEW i \in Nat, i \in good(g) PROVE i + 1 \in good(g)
  <2> SUFFICES ASSUME i + 1 <= n PROVE RoundsTook(linked, prints, g[1..i + 1], i + 1)
    OBVIOUS
  <2>1. i <= n /\ i + 1 \in 1..n /\ (i + 1) - 1 = i
    BY <1>1
  <2>2. PICK j \in 1..n : j = i + 1 /\ j - 1 = i
    BY <2>1
  <2>3. g[1..j] = Round(linked, prints, g[1..j - 1])
    BY <1>2, <2>2 DEF MatchedBy
  <2>4. RoundsTook(linked, prints, Round(linked, prints, g[1..i]), i + 1)
    <3>1. PICK t : t = g[1..i]
      OBVIOUS
    <3>2. RoundsTook(linked, prints, t, i)
      BY <1>4, <2>1, <3>1
    <3>3. RoundsTook(linked, prints, Round(linked, prints, t), i + 1)
      BY <3>2, RoundsTakePairs
    <3> QED
      BY <3>1, <3>3
  <2> QED
    BY <2>2, <2>3, <2>4
<1>5. Nat \subseteq good(g)
  <2> HIDE DEF good
  <2> QED
    BY <1>3, <1>4, EveryNumber
<1>6. RoundsTook(linked, prints, Matched(linked, prints), n)
  BY <1>1, <1>2, <1>5 DEF MatchedBy
<1>7. Free(linked, prints, Matched(linked, prints)) = {}
  <2>1. PICK M : M = Matched(linked, prints)
    OBVIOUS
  <2>2. SUFFICES ASSUME Cardinality(SpeakersOf(M)) = n PROVE Free(linked, prints, M) = {}
    BY <1>6, <2>1 DEF RoundsTook
  <2>3. SpeakersOf(M) \subseteq 1..n
    BY <1>6, <2>1, SimilarPair DEF SpeakersOf, RoundsTook
  <2>4. SpeakersOf(M) = 1..n
    <3>1. PICK S : S = SpeakersOf(M)
      OBVIOUS
    <3>2. PICK T : T = 1..n
      OBVIOUS
    <3>3. IsFiniteSet(T) /\ Cardinality(T) = n
      BY <1>1, <3>2, FS_Interval
    <3> HIDE DEF n
    <3> QED
      BY <2>2, <2>3, <3>1, <3>2, <3>3, FS_Subset
  <2>5. ASSUME NEW p \in Free(linked, prints, M) PROVE FALSE
    <3>1. p.speaker \in 1..n
      BY FreePairs, SimilarPair
    <3>2. PICK q \in M : q.speaker = p.speaker
      BY <2>4, <3>1 DEF SpeakersOf
    <3> QED
      BY <3>2, FreePairs
  <2> QED
    BY <2>5
<1> QED
  BY <1>6, <1>7 DEF RoundsTook

-----------------------------------------------------------------------------
(***************************************************************************)
(* What a run is assigned.                                                 *)
(***************************************************************************)

\* The voice of the highest number there is.
LEMMA HighestOfAll ==
    ASSUME NEW linked, LinkedOK(linked)
    PROVE  HighestVoice(linked) \in Nat /\ \A v \in Voices(linked) : v <= HighestVoice(linked)
<1>1. CASE Voices(linked) = {}
  BY <1>1 DEF HighestVoice
<1>2. CASE Voices(linked) # {}
  <2>1. PICK S \in SUBSET (Nat \ {0}) : S = Voices(linked) /\ IsFiniteSet(S) /\ S # {}
    BY <1>2, VoicesAreNumbers
  <2> DEFINE R == {x \in S \X S : x[2] <= x[1]}
  <2>2. Orders(R, S)
    BY DEF Orders
  <2>3. PICK v \in S : \A w \in S \ {v} : <<v, w>> \in R
    <3> HIDE DEF R
    <3> QED
      BY <2>1, <2>2, FirstOfAll
  <2>4. ASSUME NEW w \in S PROVE w <= v
    <3>1. CASE w = v
      BY <3>1
    <3>2. CASE w # v
      <4>1. <<v, w>> \in R
        BY <2>3, <3>2
      <4> QED
        BY <4>1
    <3> QED
      BY <3>1, <3>2
  <2> QED
    BY <1>2, <2>1, <2>4 DEF HighestVoice
<1> QED
  BY <1>1, <1>2

\* Those up to k that have no voice yet.
New(linked, prints, k) == {x \in 1..k : \A p \in Matched(linked, prints) : p.speaker # x}

LEMMA NewCounts ==
    ASSUME NEW linked, NEW prints, NEW j \in Nat, NEW k \in Nat
    PROVE  /\ Cardinality(New(linked, prints, k)) \in Nat
           /\ k \in New(linked, prints, k) => Cardinality(New(linked, prints, k)) > 0
           /\ j < k /\ k \in New(linked, prints, k) => Cardinality(New(linked, prints, j)) < Cardinality(New(linked, prints, k))
<1>1. PICK S : S = New(linked, prints, j)
  OBVIOUS
<1>2. PICK T : T = New(linked, prints, k)
  OBVIOUS
<1>3. IsFiniteSet(S) /\ IsFiniteSet(T)
  <2>1. S \subseteq 1..j /\ T \subseteq 1..k
    BY <1>1, <1>2 DEF New
  <2>2. PICK A : A = 1..j
    OBVIOUS
  <2>3. PICK B : B = 1..k
    OBVIOUS
  <2>4. IsFiniteSet(A) /\ IsFiniteSet(B)
    BY <2>2, <2>3, FS_Interval
  <2> QED
    BY <2>1, <2>2, <2>3, <2>4, FS_Subset
<1>4. Cardinality(S) \in Nat /\ Cardinality(T) \in Nat
  BY <1>3, FS_CardinalityType
<1>5. k \in T => Cardinality(T) > 0
  BY <1>3, <1>4, FS_EmptySet
<1>6. ASSUME j < k, k \in T PROVE Cardinality(S) < Cardinality(T)
  <2>1. S \subseteq T /\ k \notin S
    BY <1>1, <1>2, <1>6 DEF New
  <2>2. S # T
    BY <1>6, <2>1
  <2>3. Cardinality(S) <= Cardinality(T) /\ Cardinality(S) # Cardinality(T)
    BY <1>3, <2>1, <2>2, FS_Subset
  <2> QED
    BY <1>4, <2>3
<1> QED
  BY <1>1, <1>2, <1>4, <1>5, <1>6

\* A matched speaker gets its pair's voice, another a new one.
LEMMA AssignedVoice ==
    ASSUME NEW linked, LinkedOK(linked), NEW prints \in Seq(Points), NEW k \in 1..Len(prints)
    PROVE  /\ \A p \in Matched(linked, prints) : p.speaker = k => AssignVoices(linked, prints)[k] = p.voice
           /\ k \in New(linked, prints, k) =>
                AssignVoices(linked, prints)[k] = HighestVoice(linked) + Cardinality(New(linked, prints, k))
<1>1. k \in DOMAIN prints
  BY LenProperties
<1>2. PICK M : M = Matched(linked, prints)
  OBVIOUS
<1>3. AssignVoices(linked, prints)[k] =
        IF \E p \in M : p.speaker = k THEN (CHOOSE p \in M : p.speaker = k).voice
        ELSE HighestVoice(linked) + Cardinality(New(linked, prints, k))
  BY <1>1, <1>2 DEF AssignVoices, New
<1>4. ASSUME NEW p \in M, p.speaker = k PROVE AssignVoices(linked, prints)[k] = p.voice
  <2>1. PICK q \in M : q = CHOOSE r \in M : r.speaker = k
    BY <1>4
  <2>2. q.speaker = k
    BY <1>4, <2>1
  <2>3. q = p
    BY <1>2, <1>4, <2>2, MatchedFacts
  <2> QED
    BY <1>3, <1>4, <2>1, <2>3
<1>5. ASSUME k \in New(linked, prints, k)
      PROVE  AssignVoices(linked, prints)[k] = HighestVoice(linked) + Cardinality(New(linked, prints, k))
  <2>1. ~ \E p \in M : p.speaker = k
    BY <1>2, <1>5 DEF New
  <2> QED
    BY <1>3, <2>1
<1> QED
  BY <1>2, <1>4, <1>5

\* Voices(linked) are given to all speakers, to each its own; an old one only to a speaker close to it,
\* a new one only when all that are close went to others.
LEMMA VoicesAssigned ==
    ASSUME NEW linked, LinkedOK(linked), NEW prints \in Seq(Points)
    PROVE  LET given == AssignVoices(linked, prints)
           IN  /\ given \in Seq(Nat \ {0}) /\ Len(given) = Len(prints)
               /\ IsInjective(given)
               /\ \A k \in DOMAIN given :
                    IF given[k] \in Voices(linked) THEN Known(linked, prints[k], given[k])
                    ELSE \A v \in Voices(linked) : Known(linked, prints[k], v) => v \in Range(given)
<1> DEFINE n == Len(prints)
           given == AssignVoices(linked, prints)
           M == Matched(linked, prints)
<1>1. n \in Nat /\ DOMAIN prints = 1..n /\ DOMAIN given = 1..n /\ given = [k \in 1..n |-> given[k]]
  <2>1. n \in Nat /\ DOMAIN prints = 1..n
    BY LenProperties
  <2>2. given = [k \in DOMAIN prints |-> given[k]] /\ DOMAIN given = DOMAIN prints
    BY DEF AssignVoices
  <2> HIDE DEF given, n
  <2> QED
    BY <2>1, <2>2
<1>2. ASSUME NEW k \in 1..n
      PROVE  \/ \E p \in M : p.speaker = k /\ given[k] = p.voice
             \/ k \in New(linked, prints, k) /\ given[k] = HighestVoice(linked) + Cardinality(New(linked, prints, k))
  <2>1. CASE \E p \in M : p.speaker = k
    BY <2>1, AssignedVoice
  <2>2. CASE ~ \E p \in M : p.speaker = k
    <3>1. k \in New(linked, prints, k)
      BY <1>1, <2>2 DEF New
    <3> QED
      BY <3>1, AssignedVoice
  <2> QED
    BY <2>1, <2>2
<1>3. ASSUME NEW p \in M
      PROVE  /\ p.speaker \in 1..n /\ p.voice \in Voices(linked) /\ p.voice \in Nat \ {0}
             /\ Known(linked, prints[p.speaker], p.voice) /\ given[p.speaker] = p.voice
  <2>1. p.speaker \in 1..n /\ p.voice \in Voices(linked) /\ p.voice \in Nat \ {0} /\ Known(linked, prints[p.speaker], p.voice)
    BY MatchedFacts, SimilarPair
  <2> QED
    BY <2>1, AssignedVoice
<1>4. ASSUME NEW k \in 1..n, k \in New(linked, prints, k), given[k] = HighestVoice(linked) + Cardinality(New(linked, prints, k))
      PROVE  given[k] \in Nat \ {0} /\ given[k] \notin Voices(linked)
  <2>1. k \in Nat
    BY <1>1
  <2>2. Cardinality(New(linked, prints, k)) \in Nat /\ Cardinality(New(linked, prints, k)) > 0
    BY <1>4, <2>1, NewCounts
  <2>3. HighestVoice(linked) \in Nat /\ \A v \in Voices(linked) : v <= HighestVoice(linked)
    BY HighestOfAll
  <2>4. given[k] > HighestVoice(linked) /\ given[k] \in Nat \ {0}
    <3> HIDE DEF given
    <3> QED
      BY <1>4, <2>2, <2>3
  <2> HIDE DEF given
  <2>5. ASSUME given[k] \in Voices(linked) PROVE FALSE
    <3>1. given[k] <= HighestVoice(linked)
      BY <2>3, <2>5
    <3> QED
      BY <2>3, <2>4, <3>1
  <2> QED
    BY <2>4, <2>5
<1> HIDE DEF given, M, n
<1>5. ASSUME NEW k \in 1..n PROVE given[k] \in Nat \ {0}
  BY <1>2, <1>3, <1>4
<1>6. given \in Seq(Nat \ {0}) /\ Len(given) = n
  <2>1. given \in [1..n -> Nat \ {0}]
    BY <1>1, <1>5
  <2>2. [1..n -> Nat \ {0}] \subseteq Seq(Nat \ {0})
    BY <1>1, SeqDef
  <2>3. Len(given) \in Nat /\ 1..Len(given) = 1..n
    BY <1>1, <2>1, <2>2, LenProperties
  <2> QED
    BY <1>1, <2>1, <2>2, <2>3
<1>7. ASSUME NEW j \in 1..n, NEW k \in 1..n, given[j] = given[k], j < k PROVE FALSE
  <2>1. CASE \E p \in M : p.speaker = j /\ given[j] = p.voice
    <3>1. PICK p \in M : p.speaker = j /\ given[j] = p.voice
      BY <2>1
    <3>2. given[k] \in Voices(linked)
      BY <1>3, <1>7, <3>1
    <3>3. PICK q \in M : q.speaker = k /\ given[k] = q.voice
      BY <1>2, <1>4, <3>2
    <3>4. p # q /\ p.voice = q.voice
      BY <1>1, <1>7, <3>1, <3>3
    <3> QED
      BY <3>4, MatchedFacts DEF M
  <2>2. CASE j \in New(linked, prints, j) /\ given[j] = HighestVoice(linked) + Cardinality(New(linked, prints, j))
    <3>1. given[k] \notin Voices(linked)
      BY <1>4, <1>7, <2>2
    <3>2. k \in New(linked, prints, k) /\ given[k] = HighestVoice(linked) + Cardinality(New(linked, prints, k))
      BY <1>2, <1>3, <3>1
    <3>3. j \in Nat /\ k \in Nat
      BY <1>1
    <3>4. Cardinality(New(linked, prints, j)) < Cardinality(New(linked, prints, k))
      BY <1>7, <3>2, <3>3, NewCounts
    <3>5. PICK a \in Nat, b \in Nat, h \in Nat :
            a = Cardinality(New(linked, prints, j)) /\ b = Cardinality(New(linked, prints, k)) /\ h = HighestVoice(linked)
      BY <3>3, NewCounts, HighestOfAll
    <3>6. given[j] = h + a /\ given[k] = h + b
      BY <2>2, <3>2, <3>5
    <3>7. h + a = h + b /\ a < b
      BY <1>7, <3>4, <3>5, <3>6
    <3> QED
      BY <3>7
  <2> QED
    BY <1>2, <2>1, <2>2
<1>8. IsInjective(given)
  <2> SUFFICES ASSUME NEW j \in 1..n, NEW k \in 1..n, given[j] = given[k] PROVE j = k
    BY <1>1 DEF IsInjective
  <2>1. j < k \/ k < j \/ j = k
    BY <1>1
  <2> QED
    BY <1>7, <2>1
<1>9. ASSUME NEW k \in 1..n, given[k] \in Voices(linked) PROVE Known(linked, prints[k], given[k])
  <2>1. PICK p \in M : p.speaker = k /\ given[k] = p.voice
    BY <1>2, <1>4, <1>9
  <2> QED
    BY <1>3, <2>1
<1>10. ASSUME NEW k \in 1..n, given[k] \notin Voices(linked), NEW v \in Voices(linked), Known(linked, prints[k], v)
       PROVE  v \in Range(given)
  <2>1. ASSUME NEW p \in M PROVE p.speaker # k
    BY <1>3, <1>10, <2>1
  <2>2. PICK pair : pair = [speaker |-> k, voice |-> v]
    OBVIOUS
  <2>3. pair.speaker = k /\ pair.voice = v /\ pair \in [speaker : DOMAIN prints, voice : Voices(linked)]
    BY <1>1, <2>2
  <2>4. pair \in Similar(linked, prints)
    BY <1>10, <2>3 DEF Similar
  <2>5. pair \notin Free(linked, prints, M)
    BY MatchedFacts DEF M
  <2>6. PICK q \in M : q.speaker = k \/ q.voice = v
    BY <2>3, <2>4, <2>5, FreePairs
  <2>7. given[q.speaker] = v /\ q.speaker \in DOMAIN given
    BY <1>1, <1>3, <2>1, <2>6
  <2> QED
    BY <2>7 DEF Range
<1>11. DOMAIN given = 1..n
  BY <1>1
<1> QED
  BY <1>6, <1>8, <1>9, <1>10, <1>11 DEF given, n

-----------------------------------------------------------------------------
(***************************************************************************)
(* The state machine.                                                      *)
(***************************************************************************)

VInv ==
    /\ LinkedOK(runs)
    /\ \A i \in DOMAIN draft : i \in DOMAIN runs /\ draft[i] \in Kept /\ RunOf(draft[i])

LEMMA AbsentOK == Absent \in Kept /\ RunOf(Absent) /\ Absent.voices = <<>>
BY DEF Absent, Kept, RunOf, IsInjective

\* One more run of the same kind.
IsLonger(longer, linked, run) ==
    /\ LinkedOK(longer) /\ Len(longer) = Len(linked) + 1
    /\ DOMAIN longer = DOMAIN linked \cup {Len(linked) + 1}
    /\ \A i \in DOMAIN linked : longer[i] = linked[i]
    /\ longer[Len(linked) + 1] = run
    /\ SubSeq(longer, 1, Len(linked)) = linked

LEMMA OneMoreRun ==
    ASSUME NEW linked, LinkedOK(linked), NEW run \in Kept, RunOf(run)
    PROVE  IsLonger(Append(linked, run), linked, run)
<1> DEFINE n == Len(linked)
           longer == Append(linked, run)
<1>1. linked \in Seq(Kept) /\ n \in Nat /\ DOMAIN linked = 1..n
  BY LenProperties DEF LinkedOK
<1>2. /\ longer \in Seq(Kept) /\ Len(longer) = n + 1
      /\ \A i \in 1..n : longer[i] = linked[i]
      /\ longer[n + 1] = run
  BY <1>1, AppendProperties
<1> HIDE DEF longer
<1>3. DOMAIN longer = 1..n + 1 /\ 1..n + 1 = 1..n \cup {n + 1}
  BY <1>1, <1>2, LenProperties
<1>4. \A i \in 1..n + 1 : RunOf(longer[i])
  BY <1>1, <1>2, <1>3 DEF LinkedOK
<1>5. SubSeq(longer, 1, n) = linked
  <2>1. SubSeq(longer, 1, n) = [i \in 1..n |-> longer[i]]
    BY <1>1, <1>2 DEF SubSeq
  <2>2. linked = [i \in 1..n |-> linked[i]]
    BY <1>1
  <2> QED
    BY <1>2, <2>1, <2>2
<1>6. IsLonger(longer, linked, run)
  BY <1>1, <1>2, <1>3, <1>4, <1>5 DEF LinkedOK, IsLonger
<1> QED
  BY <1>6 DEF longer

\* A run linked among others is of their kind, and linked well.
LEMMA LinkedRun ==
    ASSUME NEW linked, LinkedOK(linked), NEW e \in DiarizedEpisodes \cup {"none"},
           NEW prints \in Seq(Points), NEW run,
           run = [ep |-> e, prints |-> prints, voices |-> AssignVoices(linked, prints)]
    PROVE  run \in Kept /\ RunOf(run) /\ LinkedWell(linked, run)
<1>1. PICK given \in Seq(Nat \ {0}) :
        /\ given = AssignVoices(linked, prints) /\ Len(given) = Len(prints) /\ IsInjective(given)
        /\ \A k \in DOMAIN given :
             IF given[k] \in Voices(linked) THEN Known(linked, prints[k], given[k])
             ELSE \A v \in Voices(linked) : Known(linked, prints[k], v) => v \in Range(given)
  BY VoicesAssigned
<1>2. run = [ep |-> e, prints |-> prints, voices |-> given]
  BY <1>1
<1>3. run.prints = prints /\ run.voices = given
  BY <1>2
<1>4. run \in Kept /\ RunOf(run)
  BY <1>1, <1>2, <1>3 DEF Kept, RunOf
<1>5. LinkedWell(linked, run)
  BY <1>1, <1>3 DEF LinkedWell
<1> QED
  BY <1>4, <1>5

LEMMA AnewRun ==
    ASSUME NEW linked, LinkedOK(linked), NEW run \in Kept
    PROVE  /\ Anew(linked, run) \in Kept /\ RunOf(Anew(linked, run))
           /\ LinkedWell(linked, Anew(linked, run))
<1>1. run.ep \in DiarizedEpisodes \cup {"none"} /\ run.prints \in Seq(Points)
  BY DEF Kept
<1> QED
  BY <1>1, LinkedRun DEF Anew

\* There is nothing to link in a run that is not there.
LEMMA AbsentStays == ASSUME NEW linked PROVE Anew(linked, Absent) = Absent
<1>1. DOMAIN Absent.prints = {} /\ Absent.ep = "none" /\ Absent.prints = <<>>
  BY DEF Absent
<1>2. AssignVoices(linked, Absent.prints) = <<>>
  BY <1>1 DEF AssignVoices
<1> QED
  BY <1>1, <1>2 DEF Anew, Absent

\* What relinking has made of the first i runs, each linked among those before it.
LinkedSoFar(g, i) ==
    /\ LinkedOK(g[1..i]) /\ Len(g[1..i]) = i
    /\ \A j \in 1..i : /\ SubSeq(g[1..i], 1, j - 1) = g[1..j - 1]
                       /\ g[1..i][j] = Anew(g[1..j - 1], runs[j])

LEMMA LinkedOneFurther ==
    ASSUME LinkedOK(runs), NEW g, NEW i \in Nat, i + 1 <= Len(runs), LinkedSoFar(g, i),
           g[1..i + 1] = Append(g[1..i], Anew(g[1..i], runs[i + 1]))
    PROVE  LinkedSoFar(g, i + 1)
<1>1. PICK s : s = g[1..i]
  OBVIOUS
<1>2. PICK run : run = Anew(s, runs[i + 1])
  OBVIOUS
<1>3. PICK longer : longer = g[1..i + 1]
  OBVIOUS
<1>4. LinkedOK(s) /\ Len(s) = i /\ DOMAIN s = 1..i
  BY <1>1, LenProperties DEF LinkedSoFar, LinkedOK
<1>5. runs[i + 1] \in Kept
  <2>1. runs \in Seq(Kept) /\ Len(runs) \in Nat
    BY LenProperties DEF LinkedOK
  <2>2. i + 1 \in 1..Len(runs)
    BY <2>1
  <2> QED
    BY <2>1, <2>2, ElementOfSeq
<1>6. run \in Kept /\ RunOf(run)
  BY <1>2, <1>4, <1>5, AnewRun
<1>7. IsLonger(longer, s, run)
  <2>1. longer = Append(s, run)
    BY <1>1, <1>2, <1>3
  <2>2. IsLonger(Append(s, run), s, run)
    BY <1>4, <1>6, OneMoreRun
  <2> QED
    BY <2>1, <2>2
<1>8. LinkedOK(longer) /\ Len(longer) = i + 1 /\ longer[i + 1] = run /\ SubSeq(longer, 1, i) = s
  BY <1>4, <1>7 DEF IsLonger
<1>9. \A j \in 1..i : longer[j] = s[j]
  BY <1>4, <1>7 DEF IsLonger
<1>10. ASSUME NEW j \in 1..i
       PROVE  SubSeq(longer, 1, j - 1) = g[1..j - 1] /\ longer[j] = Anew(g[1..j - 1], runs[j])
  <2>1. SubSeq(s, 1, j - 1) = g[1..j - 1] /\ s[j] = Anew(g[1..j - 1], runs[j])
    BY <1>1 DEF LinkedSoFar
  <2>2. SubSeq(longer, 1, j - 1) = SubSeq(s, 1, j - 1)
    <3>1. \A k \in 1..j - 1 : longer[k] = s[k]
      BY <1>9
    <3>2. SubSeq(longer, 1, j - 1) = [k \in 1..j - 1 |-> longer[k]]
      BY DEF SubSeq
    <3>3. SubSeq(s, 1, j - 1) = [k \in 1..j - 1 |-> s[k]]
      BY DEF SubSeq
    <3> QED
      BY <3>1, <3>2, <3>3
  <2> QED
    BY <1>9, <2>1, <2>2
<1>11. ASSUME NEW j \in 1..i + 1
       PROVE  SubSeq(longer, 1, j - 1) = g[1..j - 1] /\ longer[j] = Anew(g[1..j - 1], runs[j])
  <2>1. CASE j \in 1..i
    BY <1>10, <2>1
  <2>2. CASE j = i + 1
    <3>1. j - 1 = i
      BY <2>2
    <3> QED
      BY <1>1, <1>2, <1>8, <2>2, <3>1
  <2>3. j \in 1..i \/ j = i + 1
    OBVIOUS
  <2> QED
    BY <2>1, <2>2, <2>3
<1> QED
  BY <1>3, <1>8, <1>11 DEF LinkedSoFar

LEMMA RelinkedInOrder ==
    ASSUME LinkedOK(runs)
    PROVE  /\ LinkedOK(Relinked) /\ Len(Relinked) = Len(runs)
           /\ \A i \in 1..Len(runs) : Relinked[i] = Anew(SubSeq(Relinked, 1, i - 1), runs[i])
<1> DEFINE n == Len(runs)
           Good == {s \in Seq(Kept) : LinkedOK(s)}
           Link(s, run) == Append(s, Anew(s, run))
           step == [x \in (1..n) \X Good |-> Link(x[2], runs[x[1]])]
           fold(g) == [t \in SUBSET DOMAIN runs |->
                         IF t = {} THEN <<>> ELSE Link(g[t \ {Max(t)}], runs[Max(t)])]
           chosen == CHOOSE g : g = fold(g)
<1>1. n \in Nat /\ DOMAIN runs = 1..n
  BY LenProperties DEF LinkedOK
<1>2. ASSUME NEW k \in 1..n, NEW s \in Good PROVE Link(s, runs[k]) \in Good
  <2>1. runs[k] \in Kept
    BY <1>1, ElementOfSeq DEF LinkedOK
  <2>2. Anew(s, runs[k]) \in Kept /\ RunOf(Anew(s, runs[k]))
    BY <2>1, AnewRun
  <2>3. LinkedOK(Append(s, Anew(s, runs[k])))
    BY <2>2, OneMoreRun DEF IsLonger
  <2> QED
    BY <2>3 DEF LinkedOK
<1>3. step \in [(1..n) \X Good -> Good]
  <2>1. \A x \in (1..n) \X Good : Link(x[2], runs[x[1]]) \in Good
    <3> HIDE DEF n, Link, Good
    <3> QED
      BY <1>2
  <2> QED
    BY <2>1
<1>4. ASSUME NEW t \in SUBSET (1..n)
      PROVE  t # {} => Max(t) \in 1..n /\ t \ {Max(t)} \in SUBSET (1..n)
  <2> HIDE DEF n
  <2> QED
    BY <1>1, MaxOf
<1>5. <<>> \in Good
  <2>1. <<>> \in Seq(Kept) /\ DOMAIN <<>> = {}
    OBVIOUS
  <2> QED
    BY <2>1 DEF LinkedOK
<1>6. Relinked = chosen[DOMAIN runs]
  BY DEF Relinked, FoldLeft, MapThenFoldSet
<1> HIDE DEF Good, Link
<1>7. chosen = fold(chosen)
  <2>1. PICK g \in [SUBSET (1..n) -> Good] : FoldsBy(g, n, <<>>, step)
    <3> HIDE DEF step, n
    <3> QED
      BY <1>1, <1>3, <1>5, FoldExists
  <2>2. ASSUME NEW t \in SUBSET (1..n)
        PROVE  g[t] = IF t = {} THEN <<>> ELSE Link(g[t \ {Max(t)}], runs[Max(t)])
    <3>1. g[t] = IF t = {} THEN <<>> ELSE step[<<Max(t), g[t \ {Max(t)}]>>]
      BY <2>1 DEF FoldsBy
    <3>2. CASE t = {}
      BY <3>1, <3>2
    <3>3. CASE t # {}
      <4>1. Max(t) \in 1..n /\ g[t \ {Max(t)}] \in Good
        BY <2>1, <1>4, <3>3
      <4> HIDE DEF n
      <4> QED
        BY <3>1, <3>3, <4>1
    <3> QED
      BY <3>2, <3>3
  <2>3. g = fold(g)
    <3>1. g = [t \in SUBSET (1..n) |-> g[t]]
      BY <2>1
    <3> HIDE DEF n
    <3> QED
      BY <1>1, <2>2, <3>1
  <2> QED
    BY <2>3, Zenon
<1> HIDE DEF chosen
<1>8. ASSUME NEW t \in SUBSET (1..n)
      PROVE  chosen[t] = IF t = {} THEN <<>> ELSE Link(chosen[t \ {Max(t)}], runs[Max(t)])
  <2> DEFINE f == fold(chosen)
  <2>1. f[t] = IF t = {} THEN <<>> ELSE Link(chosen[t \ {Max(t)}], runs[Max(t)])
    BY <1>1
  <2> HIDE DEF f
  <2>2. chosen = f
    BY <1>7 DEF f
  <2> QED
    BY <2>1, <2>2
<1>9. FoldsWithin(chosen, n, Good, <<>>, step)
  <2>1. {} \in SUBSET (1..n)
    OBVIOUS
  <2>2. chosen[{}] = <<>>
    BY <1>8, <2>1
  <2>3. ASSUME NEW t \in SUBSET (1..n), t # {}, chosen[t \ {Max(t)}] \in Good
        PROVE  chosen[t] = step[<<Max(t), chosen[t \ {Max(t)}]>>]
    <3>1. Max(t) \in 1..n
      BY <1>4, <2>3
    <3> HIDE DEF n
    <3> QED
      BY <1>8, <2>3, <3>1
  <2> QED
    BY <2>2, <2>3 DEF FoldsWithin
<1>10. StepByStep(chosen, n, Good, <<>>, step)
  <2> HIDE DEF step, n
  <2> QED
    BY <1>1, <1>3, <1>5, <1>9, FoldIsARun
<1> DEFINE good == {i \in Nat : i <= n => LinkedSoFar(chosen, i)}
<1>11. 0 \in good
  <2>1. chosen[1..0] = <<>> /\ chosen[1..0] \in Good
    BY <1>1, <1>10 DEF StepByStep
  <2>2. LinkedOK(chosen[1..0]) /\ Len(chosen[1..0]) = 0
    BY <2>1 DEF Good
  <2> QED
    BY <2>2 DEF LinkedSoFar
<1>12. ASSUME NEW i \in Nat, i \in good PROVE i + 1 \in good
  <2> SUFFICES ASSUME i + 1 <= n PROVE LinkedSoFar(chosen, i + 1)
    OBVIOUS
  <2>1. PICK j \in 1..n : j = i + 1 /\ j - 1 = i /\ i \in 0..n
    BY <1>1
  <2>2. chosen[1..j] = step[<<j, chosen[1..i]>>] /\ chosen[1..i] \in Good
    BY <1>10, <2>1 DEF StepByStep
  <2>3. step[<<j, chosen[1..i]>>] = Link(chosen[1..i], runs[j])
    <3> HIDE DEF n
    <3> QED
      BY <2>2
  <2>4. chosen[1..i + 1] = Append(chosen[1..i], Anew(chosen[1..i], runs[i + 1]))
    BY <2>1, <2>2, <2>3 DEF Link
  <2>5. LinkedSoFar(chosen, i)
    BY <1>1, <1>12
  <2> QED
    BY <2>4, <2>5, LinkedOneFurther
<1>13. Nat \subseteq good
  <2> HIDE DEF good
  <2> QED
    BY <1>11, <1>12, EveryNumber
<1>14. LinkedSoFar(chosen, n) /\ Relinked = chosen[1..n]
  BY <1>1, <1>6, <1>13
<1> QED
  BY <1>14 DEF LinkedSoFar

\* What LinkingIsSound says of a step.
SoundStep ==
    /\ \A i \in DOMAIN runs' \ DOMAIN runs : LinkedWell(runs, runs'[i])
    /\ draft = NoDraft => \A i \in DOMAIN draft' : LinkedWell(SubSeq(View', 1, i - 1), draft'[i])
    /\ \A i \in DOMAIN runs \ DOMAIN draft : runs'[i] = runs[i] \/ runs'[i] = Absent

LEMMA NoDraftIsEmpty == DOMAIN NoDraft = {}
BY DEF NoDraft

LEMMA VInit == VoicesInit => VInv
<1>1. <<>> \in Seq(Kept) /\ DOMAIN <<>> = {}
  OBVIOUS
<1> QED
  BY <1>1 DEF VoicesInit, VInv, LinkedOK, NoDraft

LEMMA RunsByNumber ==
    ASSUME VInv
    PROVE  /\ runs \in Seq(Kept) /\ Len(runs) \in Nat /\ DOMAIN runs = 1..Len(runs)
           /\ \A i \in DOMAIN runs : runs[i] \in Kept /\ RunOf(runs[i])
<1>1. runs \in Seq(Kept) /\ Len(runs) \in Nat /\ DOMAIN runs = 1..Len(runs)
  BY LenProperties DEF VInv, LinkedOK
<1> QED
  BY <1>1, ElementOfSeq DEF VInv, LinkedOK

LEMMA NewRunLinked ==
    ASSUME VInv, NEW e \in DiarizedEpisodes, NEW prints \in Diarizations
    PROVE  /\ NewRun(e, prints) \in Kept /\ RunOf(NewRun(e, prints))
           /\ LinkedWell(runs, NewRun(e, prints))
<1>1. prints \in Seq(Points)
  BY PrintsAssumption DEF PrintsAssumption, Points
<1> QED
  BY <1>1, LinkedRun DEF VInv, NewRun

LEMMA VImport ==
    ASSUME VInv, NEW e \in DiarizedEpisodes, NEW prints \in Diarizations, ImportRun(e, prints)
    PROVE  VInv' /\ SoundStep
<1>1. PICK run \in Kept : run = NewRun(e, prints) /\ RunOf(run) /\ LinkedWell(runs, run)
  BY NewRunLinked
<1>2. IsLonger(runs', runs, run) /\ draft' = draft
  BY <1>1, OneMoreRun DEF VInv, ImportRun
<1>3. VInv'
  BY <1>2 DEF VInv, IsLonger
<1>4. \A i \in DOMAIN runs' \ DOMAIN runs : LinkedWell(runs, runs'[i])
  BY <1>1, <1>2 DEF IsLonger
<1>5. \A i \in DOMAIN runs : runs'[i] = runs[i]
  BY <1>2 DEF IsLonger
<1> QED
  BY <1>2, <1>3, <1>4, <1>5, NoDraftIsEmpty DEF SoundStep

LEMMA VDiarize ==
    ASSUME VInv, NEW e \in DiarizedEpisodes, NEW prints \in Diarizations, DiarizeEpisode(e, prints)
    PROVE  VInv' /\ SoundStep
<1> DEFINE n == Len(runs)
<1>1. PICK run \in Kept : run = NewRun(e, prints) /\ RunOf(run) /\ LinkedWell(runs, run)
  BY NewRunLinked
<1>2. IsLonger(runs', runs, Absent)
  BY AbsentOK, OneMoreRun DEF VInv, DiarizeEpisode
<1>3. DOMAIN draft' = {n + 1} /\ draft'[n + 1] = run
  BY <1>1 DEF DiarizeEpisode
<1>4. DOMAIN runs' = DOMAIN runs \cup {n + 1} /\ runs'[n + 1] = Absent /\ LinkedOK(runs')
  BY <1>2 DEF IsLonger
<1>5. VInv'
  BY <1>1, <1>3, <1>4 DEF VInv
<1>6. \A i \in DOMAIN runs : runs'[i] = runs[i]
  BY <1>2 DEF IsLonger
<1>7. LinkedWell(runs, Absent)
  <2>1. DOMAIN Absent.voices = {}
    BY AbsentOK
  <2> QED
    BY <2>1 DEF LinkedWell
<1>8. n \in Nat /\ DOMAIN runs = 1..n /\ runs = [i \in 1..n |-> runs[i]]
  <2>1. n \in Nat /\ DOMAIN runs = 1..n /\ runs \in Seq(Kept)
    BY RunsByNumber
  <2> QED
    BY <2>1
<1>9. SubSeq(View', 1, n) = runs
  <2>1. \A i \in 1..n : i \in DOMAIN runs' /\ i \notin DOMAIN draft'
    BY <1>3, <1>4, <1>8
  <2>2. \A i \in 1..n : View'[i] = runs[i]
    BY <1>6, <1>8, <2>1 DEF View
  <2>3. SubSeq(View', 1, n) = [i \in 1..n |-> View'[i]]
    BY <1>8 DEF SubSeq
  <2>4. [i \in 1..n |-> View'[i]] = [i \in 1..n |-> runs[i]]
    BY <2>2
  <2> QED
    BY <1>8, <2>3, <2>4
<1>10. \A i \in DOMAIN draft' : LinkedWell(SubSeq(View', 1, i - 1), draft'[i])
  <2>1. (n + 1) - 1 = n
    BY <1>8
  <2> QED
    BY <1>1, <1>3, <1>9, <2>1
<1>11. \A i \in DOMAIN runs' \ DOMAIN runs : LinkedWell(runs, runs'[i])
  BY <1>4, <1>7
<1> QED
  BY <1>5, <1>6, <1>10, <1>11 DEF SoundStep

LEMMA VRelink ==
    ASSUME VInv, Relink
    PROVE  VInv' /\ SoundStep
<1> DEFINE n == Len(runs)
           present == {j \in DOMAIN runs : runs[j] # Absent}
<1>1. n \in Nat /\ DOMAIN runs = 1..n
  BY RunsByNumber
<1>2. PICK again \in Seq(Kept) : again = Relinked /\ LinkedOK(again) /\ Len(again) = n
  BY RelinkedInOrder DEF VInv, LinkedOK
<1>3. DOMAIN again = 1..n /\ again = [i \in 1..n |-> again[i]]
  BY <1>1, <1>2, LenProperties
<1>4. \A i \in 1..n : again[i] = Anew(SubSeq(again, 1, i - 1), runs[i])
  BY <1>2, RelinkedInOrder DEF VInv
<1>5. draft' = [i \in present |-> again[i]] /\ runs' = runs
  BY <1>2 DEF Relink
<1>6. \A i \in 1..n : again[i] \in Kept /\ RunOf(again[i])
  BY <1>2, <1>3, ElementOfSeq DEF LinkedOK
<1>7. VInv'
  BY <1>1, <1>5, <1>6 DEF VInv
<1>8. View' = again
  <2>1. View' = [i \in 1..n |-> IF i \in present THEN again[i] ELSE runs[i]]
    BY <1>1, <1>5 DEF View
  <2>2. ASSUME NEW i \in 1..n, i \notin present PROVE again[i] = runs[i]
    BY <1>1, <1>4, <2>2, AbsentStays
  <2>3. [i \in 1..n |-> IF i \in present THEN again[i] ELSE runs[i]] = [i \in 1..n |-> again[i]]
    BY <2>2
  <2> QED
    BY <1>3, <2>1, <2>3
<1>9. ASSUME NEW i \in 1..n PROVE LinkedWell(SubSeq(again, 1, i - 1), again[i])
  <2>1. runs[i] \in Kept
    BY <1>1, RunsByNumber
  <2>2. LinkedOK(SubSeq(again, 1, i - 1))
    <3>1. PICK s : s = SubSeq(again, 1, i - 1)
      OBVIOUS
    <3>2. s = [k \in 1..i - 1 |-> again[k]]
      BY <3>1 DEF SubSeq
    <3>3. \A k \in 1..i - 1 : k \in 1..n
      BY <1>1
    <3>4. s \in [1..i - 1 -> Kept]
      BY <1>6, <3>2, <3>3
    <3>5. [1..i - 1 -> Kept] \subseteq Seq(Kept)
      BY <1>1, SeqDef
    <3>6. \A k \in DOMAIN s : RunOf(s[k])
      BY <1>6, <3>2, <3>3
    <3> QED
      BY <3>1, <3>4, <3>5, <3>6 DEF LinkedOK
  <2> QED
    BY <1>4, <2>1, <2>2, AnewRun
<1>10. \A i \in DOMAIN draft' : LinkedWell(SubSeq(View', 1, i - 1), draft'[i])
  BY <1>1, <1>5, <1>8, <1>9
<1> QED
  BY <1>5, <1>7, <1>10 DEF SoundStep

LEMMA VCommit ==
    ASSUME VInv, CommitScript
    PROVE  VInv' /\ SoundStep
<1> DEFINE n == Len(runs)
<1>1. n \in Nat /\ DOMAIN runs = 1..n
  BY RunsByNumber
<1>2. runs' = [i \in 1..n |-> IF i \in DOMAIN draft THEN draft[i] ELSE runs[i]] /\ draft' = NoDraft
  BY <1>1 DEF CommitScript
<1>3. \A i \in 1..n : runs'[i] \in Kept /\ RunOf(runs'[i])
  BY <1>1, <1>2, RunsByNumber DEF VInv
<1>4. runs' \in Seq(Kept)
  <2>1. runs' \in [1..n -> Kept]
    BY <1>2, <1>3
  <2>2. [1..n -> Kept] \subseteq Seq(Kept)
    BY <1>1, SeqDef
  <2> QED
    BY <2>1, <2>2
<1>5. DOMAIN runs' = 1..n
  BY <1>2
<1>6. VInv'
  BY <1>2, <1>3, <1>4, <1>5, NoDraftIsEmpty DEF VInv, LinkedOK
<1>7. \A i \in DOMAIN runs \ DOMAIN draft : runs'[i] = runs[i]
  BY <1>1, <1>2
<1> QED
  BY <1>1, <1>2, <1>5, <1>6, <1>7, NoDraftIsEmpty DEF SoundStep

LEMMA VRollBack ==
    ASSUME VInv, RollBackScript
    PROVE  VInv' /\ SoundStep
<1>1. draft' = NoDraft /\ runs' = runs
  BY DEF RollBackScript
<1> QED
  BY <1>1, NoDraftIsEmpty DEF VInv, SoundStep

LEMMA VDrop ==
    ASSUME VInv, NEW e \in DiarizedEpisodes, DropRuns(e)
    PROVE  VInv' /\ SoundStep
<1> DEFINE n == Len(runs)
<1>1. n \in Nat /\ DOMAIN runs = 1..n
  BY RunsByNumber
<1>2. runs' = [i \in 1..n |-> IF runs[i].ep = e THEN Absent ELSE runs[i]] /\ draft' = draft
  BY <1>1 DEF DropRuns
<1>3. \A i \in 1..n : runs'[i] = Absent \/ runs'[i] = runs[i]
  BY <1>2
<1>4. \A i \in 1..n : runs'[i] \in Kept /\ RunOf(runs'[i])
  BY <1>1, <1>3, AbsentOK, RunsByNumber
<1>5. runs' \in Seq(Kept)
  <2>1. runs' \in [1..n -> Kept]
    BY <1>2, <1>4
  <2>2. [1..n -> Kept] \subseteq Seq(Kept)
    BY <1>1, SeqDef
  <2> QED
    BY <2>1, <2>2
<1>6. DOMAIN runs' = 1..n
  BY <1>2
<1>7. VInv'
  BY <1>1, <1>2, <1>4, <1>5, <1>6 DEF VInv, LinkedOK
<1> QED
  BY <1>1, <1>2, <1>3, <1>6, <1>7, NoDraftIsEmpty DEF SoundStep

LEMMA VNext == VInv /\ [VoicesNext]_voicesVars => VInv' /\ [SoundStep]_voicesVars
<1> SUFFICES ASSUME VInv, [VoicesNext]_voicesVars PROVE VInv' /\ [SoundStep]_voicesVars
  OBVIOUS
<1>1. ASSUME NEW e \in DiarizedEpisodes, DropRuns(e) PROVE VInv' /\ SoundStep
  BY <1>1, VDrop
<1>2. ASSUME NEW e \in DiarizedEpisodes, NEW prints \in Diarizations, ImportRun(e, prints)
      PROVE  VInv' /\ SoundStep
  BY <1>2, VImport
<1>3. ASSUME NEW e \in DiarizedEpisodes, NEW prints \in Diarizations, DiarizeEpisode(e, prints)
      PROVE  VInv' /\ SoundStep
  BY <1>3, VDiarize
<1>4. CASE Relink
  BY <1>4, VRelink
<1>5. CASE CommitScript
  BY <1>5, VCommit
<1>6. CASE RollBackScript
  BY <1>6, VRollBack
<1>7. CASE UNCHANGED voicesVars
  BY <1>7 DEF VInv, voicesVars
<1> QED
  BY <1>1, <1>2, <1>3, <1>4, <1>5, <1>6, <1>7 DEF VoicesNext

LEMMA VAlways == VoicesInit /\ [][VoicesNext]_voicesVars => []VInv
BY VInit, VNext, PTL

\* Whatever prints the diarizer answers, in however many runs, from ingest or from a script: two
\* speakers of a run never share a voice.
THEOREM KeptApartTheorem == VoicesInit /\ [][VoicesNext]_voicesVars => []SpeakersKeptApart
<1>1. VInv => SpeakersKeptApart
  BY DEF VInv, LinkedOK, RunOf, SpeakersKeptApart
<1> QED
  BY <1>1, VAlways, PTL

\* And every step links soundly among the runs its transaction sees: an old voice only to a
\* speaker close to it, a voice of its own only when every close voice went to another speaker
\* of the run, relinked or not; links it does not make stay as they were.
THEOREM LinkingTheorem == VoicesInit /\ [][VoicesNext]_voicesVars => LinkingIsSound
<1>1. [][SoundStep]_voicesVars => LinkingIsSound
  BY DEF LinkingIsSound, SoundStep
<1> QED
  BY <1>1, VNext, VAlways, PTL

-----------------------------------------------------------------------------
(***************************************************************************)
(* Segmentation.  A cut is followed turn by turn and piece by piece: what  *)
(* is in the slices so far, and where the speech they hold ends.           *)
(***************************************************************************)

\* What the detector answers: turns by their start, inside the recording.
Detected(turns, total) ==
    /\ turns \in Seq(Points)
    /\ \A k \in 1..Len(turns) : 0 <= turns[k][1] /\ turns[k][1] < turns[k][2] /\ turns[k][2] <= total
    /\ \A k \in 2..Len(turns) : turns[k - 1][1] <= turns[k][1]

Within(t, span) == span[1] <= t /\ t < span[2]

\* The last member.
LEMMA LastIs ==
    ASSUME NEW S, NEW s \in Seq(S), s # <<>>
    PROVE  Len(s) \in Nat \ {0} /\ Len(s) \in 1..Len(s) /\ Last(s) = s[Len(s)] /\ Last(s) \in S
<1>1. Len(s) \in Nat \ {0}
  BY EmptySeq
<1>2. Len(s) \in 1..Len(s)
  BY <1>1
<1> QED
  BY <1>1, <1>2, ElementOfSeq DEF Last

\* And with another in its place.
LEMMA LastReplaced ==
    ASSUME NEW S, NEW s \in Seq(S), s # <<>>, NEW x \in S
    PROVE  /\ Append(Front(s), x) \in Seq(S) /\ Len(Append(Front(s), x)) = Len(s)
           /\ \A i \in 1..Len(s) - 1 : Append(Front(s), x)[i] = s[i]
           /\ Append(Front(s), x)[Len(s)] = x
<1>1. PICK n \in Nat \ {0} : n = Len(s)
  BY EmptySeq
<1>2. \A i \in 1..n - 1 : s[i] \in S
  BY <1>1, ElementOfSeq
<1>3. /\ Front(s) \in Seq(S) /\ Len(Front(s)) = n - 1
      /\ \A i \in 1..n - 1 : Front(s)[i] = s[i]
  <2>1. /\ SubSeq(s, 1, n - 1) \in Seq(S)
        /\ Len(SubSeq(s, 1, n - 1)) = IF 1 <= n - 1 THEN n - 1 - 1 + 1 ELSE 0
        /\ \A i \in 1 .. n - 1 - 1 + 1 : SubSeq(s, 1, n - 1)[i] = s[1 + i - 1]
    BY <1>1, <1>2, SubSeqProperties
  <2>2. \A i \in 1..n - 1 : SubSeq(s, 1, n - 1)[i] = s[i]
    <3> TAKE i \in 1..n - 1
    <3>1. i \in 1..n - 1 - 1 + 1 /\ 1 + i - 1 = i
      OBVIOUS
    <3>2. SubSeq(s, 1, n - 1)[i] = s[1 + i - 1]
      BY <2>1, <3>1
    <3> QED
      BY <3>1, <3>2
  <2>3. Len(SubSeq(s, 1, n - 1)) = n - 1
    BY <2>1
  <2> QED
    BY <1>1, <2>1, <2>2, <2>3 DEF Front
<1>4. PICK f \in Seq(S) : f = Front(s) /\ Len(f) = n - 1 /\ \A i \in 1..n - 1 : f[i] = s[i]
  BY <1>3
<1>5. /\ Append(f, x) \in Seq(S) /\ Len(Append(f, x)) = n
      /\ \A i \in 1..n - 1 : Append(f, x)[i] = f[i]
      /\ Append(f, x)[n] = x
  <2>1. /\ Append(f, x) \in Seq(S) /\ Len(Append(f, x)) = Len(f) + 1
        /\ \A i \in 1..Len(f) : Append(f, x)[i] = f[i]
        /\ Append(f, x)[Len(f) + 1] = x
    BY AppendProperties
  <2>2. Len(f) = n - 1 /\ Len(f) + 1 = n
    BY <1>4
  <2> QED
    BY <2>1, <2>2
<1> QED
  BY <1>1, <1>4, <1>5

-----------------------------------------------------------------------------
\* The first i turns merged: apart by more than the gap, and holding the same speech.
MergedOf(m, turns, i, total) ==
    /\ m \in Seq(Points) /\ (m = <<>> <=> i = 0)
    /\ \A k \in 1..Len(m) : 0 <= m[k][1] /\ m[k][1] < m[k][2] /\ m[k][2] <= total
    /\ \A k \in 2..Len(m) : m[k - 1][2] + Gap < m[k][1]
    /\ i > 0 => m[Len(m)][1] <= turns[i][1]
    /\ \A j \in 1..i : \A t \in Int :
         Within(t, turns[j]) => \E k \in 1..Len(m) : Within(t, m[k])

LEMMA JoinKeeps ==
    ASSUME NEW turns, NEW total \in Nat, Detected(turns, total), NEW i \in Nat, i < Len(turns),
           NEW m, MergedOf(m, turns, i, total)
    PROVE  MergedOf(Join(m, turns[i + 1]), turns, i + 1, total)
<1>1. PICK n \in Nat : n = Len(m)
  BY LenProperties DEF MergedOf
<1>2. PICK j \in 1..Len(turns) : j = i + 1
  <2>1. Len(turns) \in Nat
    BY LenProperties DEF Detected
  <2> QED
    BY <2>1
<1>3. PICK a \in Int, b \in Int : turns[j] = <<a, b>>
  <2>1. turns[j] \in Points
    BY ElementOfSeq DEF Detected
  <2> QED
    BY <2>1 DEF Points
<1>4. 0 <= a /\ a < b /\ b <= total /\ Gap \in Nat
  BY <1>3, SegmentationAssumption DEF Detected, SegmentationAssumption
<1>5. CASE m # <<>> /\ a - Last(m)[2] <= Gap
  <2>1. m \in Seq(Points)
    BY DEF MergedOf
  <2>2. PICK c \in Int, d \in Int : Last(m) = <<c, d>>
    BY <1>5, <2>1, LastIs DEF Points
  <2>3. n \in 1..n /\ m[n] = <<c, d>>
    BY <1>1, <1>5, <2>1, <2>2, LastIs
  <2>4. 0 <= c /\ c < d /\ d <= total
    BY <1>1, <2>3 DEF MergedOf
  <2>5. c <= a
    <3>1. i > 0 /\ i \in Nat
      BY <1>5 DEF MergedOf
    <3>2. c <= turns[i][1]
      BY <1>1, <2>3, <3>1 DEF MergedOf
    <3>3. j \in 2..Len(turns) /\ j - 1 = i
      BY <1>2, <3>1
    <3>4. turns[i][1] <= turns[j][1]
      BY <3>3 DEF Detected
    <3>5. turns[i][1] \in Int
      <4>1. i \in 1..Len(turns)
        BY <1>2, <3>1
      <4> QED
        BY <4>1, ElementOfSeq DEF Detected, Points
    <3> QED
      BY <1>3, <3>2, <3>4, <3>5
  <2>6. PICK e \in Int : e = Later(d, b) /\ e >= d /\ e >= b /\ (e = d \/ e = b)
    BY DEF Later
  <2>7. PICK z \in Points : z = <<c, e>>
    BY DEF Points
  <2>8. PICK q : q = Join(m, turns[j])
    OBVIOUS
  <2>9. q = Append(Front(m), z)
    BY <1>3, <1>5, <2>2, <2>6, <2>7, <2>8 DEF Join
  <2>10. /\ q \in Seq(Points) /\ Len(q) = n /\ n \in Nat \ {0} /\ q[n] = z
         /\ \A k \in 1..n - 1 : q[k] = m[k]
    <3>1. /\ Append(Front(m), z) \in Seq(Points) /\ Len(Append(Front(m), z)) = Len(m)
          /\ \A k \in 1..Len(m) - 1 : Append(Front(m), z)[k] = m[k]
          /\ Append(Front(m), z)[Len(m)] = z
      BY <1>5, <2>1, LastReplaced
    <3>2. n # 0
      BY <1>1, <1>5, <2>1, EmptySeq
    <3> QED
      BY <1>1, <2>9, <3>1, <3>2
  <2>11. z[1] = c /\ z[2] = e
    BY <2>7
  <2>12. \A k \in 1..n : 0 <= q[k][1] /\ q[k][1] < q[k][2] /\ q[k][2] <= total
    <3> TAKE k \in 1..n
    <3>1. CASE k = n
      BY <1>4, <2>4, <2>6, <2>10, <2>11, <3>1
    <3>2. CASE k # n
      <4>1. k \in 1..n - 1
        BY <3>2
      <4> QED
        BY <1>1, <2>10, <4>1 DEF MergedOf
    <3> QED
      BY <3>1, <3>2
  <2>13. \A k \in 2..n : q[k - 1][2] + Gap < q[k][1]
    <3> TAKE k \in 2..n
    <3>1. k - 1 \in 1..n - 1 /\ m[k - 1][2] + Gap < m[k][1]
      BY <1>1 DEF MergedOf
    <3>2. q[k - 1] = m[k - 1]
      BY <2>10, <3>1
    <3>3. q[k][1] = m[k][1]
      <4>1. CASE k = n
        BY <2>3, <2>10, <2>11, <4>1
      <4>2. CASE k # n
        <5>1. k \in 1..n - 1
          BY <4>2
        <5> QED
          BY <2>10, <5>1
      <4> QED
        BY <4>1, <4>2
    <3> QED
      BY <3>1, <3>2, <3>3
  <2>14. ASSUME NEW h \in 1..j, NEW t \in Int, Within(t, turns[h])
         PROVE  \E k \in 1..n : Within(t, q[k])
    <3>1. CASE h = j
      <4>1. a <= t /\ t < b
        BY <1>3, <2>14, <3>1 DEF Within
      <4>2. Within(t, q[n])
        BY <2>5, <2>6, <2>10, <2>11, <4>1 DEF Within
      <4> QED
        BY <2>10, <4>2
    <3>2. CASE h # j
      <4>1. h \in 1..i
        BY <1>2, <3>2
      <4>2. PICK k \in 1..n : Within(t, m[k])
        BY <1>1, <2>14, <4>1 DEF MergedOf
      <4>3. CASE k = n
        <5>1. Within(t, q[n])
          BY <2>3, <2>6, <2>10, <2>11, <4>2, <4>3 DEF Within
        <5> QED
          BY <2>10, <5>1
      <4>4. CASE k # n
        <5>1. k \in 1..n - 1
          BY <4>4
        <5> QED
          BY <2>10, <4>2, <5>1
      <4> QED
        BY <4>3, <4>4
    <3> QED
      BY <3>1, <3>2
  <2>15. q # <<>> /\ q[n][1] <= turns[j][1]
    <3>1. q # <<>>
      BY <2>10, EmptySeq
    <3> QED
      BY <1>3, <2>5, <2>10, <2>11, <3>1
  <2>16. MergedOf(q, turns, j, total)
    <3>1. j # 0
      BY <1>2
    <3> QED
      BY <2>10, <2>12, <2>13, <2>14, <2>15, <3>1 DEF MergedOf
  <2> QED
    BY <1>2, <2>8, <2>16
<1>6. CASE ~(m # <<>> /\ a - Last(m)[2] <= Gap)
  <2>1. PICK z \in Points : z = turns[j] /\ z[1] = a /\ z[2] = b
    <3>1. turns[j] \in Points /\ turns[j][1] = a /\ turns[j][2] = b
      BY <1>3 DEF Points
    <3> QED
      BY <3>1
  <2>2. PICK q : q = Join(m, turns[j])
    OBVIOUS
  <2>3. q = Append(m, z) /\ m \in Seq(Points)
    BY <1>3, <1>6, <2>1, <2>2 DEF Join, MergedOf
  <2>4. /\ q \in Seq(Points) /\ Len(q) = n + 1 /\ q[n + 1] = z /\ q # <<>>
        /\ \A k \in 1..n : q[k] = m[k]
    BY <1>1, <2>3, AppendProperties
  <2>5. \A k \in 1..n + 1 : 0 <= q[k][1] /\ q[k][1] < q[k][2] /\ q[k][2] <= total
    <3> TAKE k \in 1..n + 1
    <3>1. CASE k = n + 1
      BY <1>4, <2>1, <2>4, <3>1
    <3>2. CASE k # n + 1
      <4>1. k \in 1..n
        BY <3>2
      <4> QED
        BY <1>1, <2>4, <4>1 DEF MergedOf
    <3> QED
      BY <3>1, <3>2
  <2>6. \A k \in 2..n + 1 : q[k - 1][2] + Gap < q[k][1]
    <3> TAKE k \in 2..n + 1
    <3>1. k - 1 \in 1..n /\ q[k - 1] = m[k - 1]
      BY <2>4
    <3>2. CASE k = n + 1
      <4>1. m # <<>> /\ n \in 1..n /\ k - 1 = n
        BY <1>1, <3>2, EmptySeq
      <4>2. Last(m) = m[n] /\ Last(m) \in Points
        BY <1>1, <2>3, <4>1, LastIs
      <4>3. PICK c \in Int, d \in Int : m[n] = <<c, d>>
        BY <4>2 DEF Points
      <4>4. ~(a - d <= Gap)
        BY <1>6, <4>1, <4>2, <4>3
      <4>5. d + Gap < a
        BY <1>4, <4>4
      <4> QED
        BY <2>1, <2>4, <3>1, <3>2, <4>1, <4>3, <4>5
    <3>3. CASE k # n + 1
      <4>1. k \in 2..n /\ k \in 1..n
        BY <3>3
      <4> QED
        BY <1>1, <2>4, <3>1, <4>1 DEF MergedOf
    <3> QED
      BY <3>2, <3>3
  <2>7. ASSUME NEW h \in 1..j, NEW t \in Int, Within(t, turns[h])
        PROVE  \E k \in 1..n + 1 : Within(t, q[k])
    <3>1. CASE h = j
      <4>1. n + 1 \in 1..n + 1
        OBVIOUS
      <4> QED
        BY <2>1, <2>4, <2>7, <3>1, <4>1
    <3>2. CASE h # j
      <4>1. h \in 1..i
        BY <1>2, <3>2
      <4>2. PICK k \in 1..n : Within(t, m[k])
        BY <1>1, <2>7, <4>1 DEF MergedOf
      <4>3. k \in 1..n + 1
        OBVIOUS
      <4> QED
        BY <2>4, <4>2, <4>3
    <3> QED
      BY <3>1, <3>2
  <2>8. MergedOf(q, turns, j, total)
    <3>1. j # 0 /\ q[n + 1][1] <= turns[j][1]
      BY <1>2, <1>3, <2>1, <2>4
    <3> QED
      BY <2>4, <2>5, <2>6, <2>7, <3>1 DEF MergedOf
  <2> QED
    BY <1>2, <2>2, <2>8
<1> QED
  BY <1>5, <1>6

LEMMA JoinStays ==
    ASSUME NEW m \in Seq(Points), NEW turn \in Points
    PROVE  Join(m, turn) \in Seq(Points)
<1>1. CASE m # <<>>
  <2>1. PICK c \in Int, d \in Int : Last(m) = <<c, d>>
    BY <1>1, LastIs DEF Points
  <2>2. PICK a \in Int, b \in Int : turn = <<a, b>>
    BY DEF Points
  <2>3. PICK z \in Points : z = <<Last(m)[1], Later(Last(m)[2], turn[2])>>
    <3>1. PICK e \in Int : e = Later(Last(m)[2], turn[2])
      BY <2>1, <2>2 DEF Later
    <3>2. Last(m)[1] = c /\ <<c, e>> \in Points
      BY <2>1 DEF Points
    <3> QED
      BY <3>1, <3>2
  <2>4. Append(Front(m), z) \in Seq(Points)
    BY <1>1, LastReplaced
  <2>5. Append(m, turn) \in Seq(Points)
    BY AppendProperties
  <2> QED
    BY <2>3, <2>4, <2>5 DEF Join
<1>2. CASE m = <<>>
  <2>1. Append(m, turn) \in Seq(Points)
    BY AppendProperties
  <2> QED
    BY <1>2, <2>1 DEF Join
<1> QED
  BY <1>1, <1>2

\* Turn after turn g reaches what MergeNear returns.
MergedBy(turns, g) ==
    /\ g[1..0] = <<>>
    /\ \A i \in 1..Len(turns) : g[1..i] = Join(g[1..i - 1], turns[i])
    /\ MergeNear(turns) = g[1..Len(turns)]

LEMMA MergedInSteps ==
    ASSUME NEW turns \in Seq(Points)
    PROVE  \E g : MergedBy(turns, g)
<1> DEFINE n == Len(turns)
           Made == Seq(Points)
           step == [x \in (1..n) \X Made |-> Join(x[2], turns[x[1]])]
           fold(g) == [t \in SUBSET DOMAIN turns |->
                         IF t = {} THEN <<>> ELSE Join(g[t \ {Max(t)}], turns[Max(t)])]
           chosen == CHOOSE g : g = fold(g)
<1>1. n \in Nat /\ DOMAIN turns = 1..n
  BY LenProperties
<1>2. ASSUME NEW k \in 1..n, NEW t \in Made PROVE Join(t, turns[k]) \in Made
  <2>1. turns[k] \in Points
    BY ElementOfSeq
  <2> QED
    BY <2>1, JoinStays
<1>3. step \in [(1..n) \X Made -> Made]
  <2>1. \A x \in (1..n) \X Made : Join(x[2], turns[x[1]]) \in Made
    <3> HIDE DEF n, Made
    <3> QED
      BY <1>2
  <2> QED
    BY <2>1
<1>4. ASSUME NEW t \in SUBSET (1..n)
      PROVE  t # {} => Max(t) \in 1..n /\ t \ {Max(t)} \in SUBSET (1..n)
  <2> HIDE DEF n
  <2> QED
    BY <1>1, MaxOf
<1>5. <<>> \in Made
  OBVIOUS
<1>6. MergeNear(turns) = chosen[DOMAIN turns]
  BY DEF MergeNear, FoldLeft, MapThenFoldSet
<1> HIDE DEF Made
<1>7. chosen = fold(chosen)
  <2>1. PICK g \in [SUBSET (1..n) -> Made] : FoldsBy(g, n, <<>>, step)
    <3> HIDE DEF step, n
    <3> QED
      BY <1>1, <1>3, <1>5, FoldExists
  <2>2. ASSUME NEW t \in SUBSET (1..n)
        PROVE  g[t] = IF t = {} THEN <<>> ELSE Join(g[t \ {Max(t)}], turns[Max(t)])
    <3>1. g[t] = IF t = {} THEN <<>> ELSE step[<<Max(t), g[t \ {Max(t)}]>>]
      BY <2>1 DEF FoldsBy
    <3>2. CASE t = {}
      BY <3>1, <3>2
    <3>3. CASE t # {}
      <4>1. Max(t) \in 1..n /\ g[t \ {Max(t)}] \in Made
        BY <2>1, <1>4, <3>3
      <4> HIDE DEF n
      <4> QED
        BY <3>1, <3>3, <4>1
    <3> QED
      BY <3>2, <3>3
  <2>3. g = fold(g)
    <3>1. g = [t \in SUBSET (1..n) |-> g[t]]
      BY <2>1
    <3> HIDE DEF n
    <3> QED
      BY <1>1, <2>2, <3>1
  <2> QED
    BY <2>3, Zenon
<1> HIDE DEF chosen
<1>8. ASSUME NEW t \in SUBSET (1..n)
      PROVE  chosen[t] = IF t = {} THEN <<>> ELSE Join(chosen[t \ {Max(t)}], turns[Max(t)])
  <2> DEFINE f == fold(chosen)
  <2>1. f[t] = IF t = {} THEN <<>> ELSE Join(chosen[t \ {Max(t)}], turns[Max(t)])
    BY <1>1
  <2> HIDE DEF f
  <2>2. chosen = f
    BY <1>7 DEF f
  <2> QED
    BY <2>1, <2>2
<1>9. FoldsWithin(chosen, n, Made, <<>>, step)
  <2>1. {} \in SUBSET (1..n)
    OBVIOUS
  <2>2. chosen[{}] = <<>>
    BY <1>8, <2>1
  <2>3. ASSUME NEW t \in SUBSET (1..n), t # {}, chosen[t \ {Max(t)}] \in Made
        PROVE  chosen[t] = step[<<Max(t), chosen[t \ {Max(t)}]>>]
    <3>1. Max(t) \in 1..n
      BY <1>4, <2>3
    <3> HIDE DEF n
    <3> QED
      BY <1>8, <2>3, <3>1
  <2> QED
    BY <2>2, <2>3 DEF FoldsWithin
<1>10. StepByStep(chosen, n, Made, <<>>, step)
  <2> HIDE DEF step, n
  <2> QED
    BY <1>1, <1>3, <1>5, <1>9, FoldIsARun
<1>11. ASSUME NEW i \in 1..n PROVE chosen[1..i] = Join(chosen[1..i - 1], turns[i])
  <2>1. i - 1 \in 0..n
    BY <1>1
  <2>2. chosen[1..i] = step[<<i, chosen[1..i - 1]>>] /\ chosen[1..i - 1] \in Made
    BY <1>10, <2>1 DEF StepByStep
  <2>3. step[<<i, chosen[1..i - 1]>>] = Join(chosen[1..i - 1], turns[i])
    <3> HIDE DEF n
    <3> QED
      BY <2>2
  <2> QED
    BY <2>2, <2>3
<1>12. chosen[1..0] = <<>> /\ MergeNear(turns) = chosen[1..n]
  BY <1>1, <1>6, <1>10 DEF StepByStep
<1> QED
  BY <1>11, <1>12 DEF MergedBy

LEMMA MergeFacts ==
    ASSUME NEW turns, NEW total \in Nat, Detected(turns, total)
    PROVE  MergedOf(MergeNear(turns), turns, Len(turns), total)
<1> DEFINE n == Len(turns)
           good(g) == {i \in Nat : i <= n => MergedOf(g[1..i], turns, i, total)}
<1>1. n \in Nat /\ turns \in Seq(Points)
  BY LenProperties DEF Detected
<1>2. PICK g : MergedBy(turns, g)
  BY <1>1, MergedInSteps
<1>3. 0 \in good(g)
  <2>1. <<>> \in Seq(Points) /\ Len(<<>>) = 0
    BY EmptySeq
  <2>2. MergedOf(<<>>, turns, 0, total)
    BY <2>1 DEF MergedOf
  <2> QED
    BY <1>2, <2>2 DEF MergedBy
<1>4. ASSUME NEW i \in Nat, i \in good(g) PROVE i + 1 \in good(g)
  <2> SUFFICES ASSUME i + 1 <= n PROVE MergedOf(g[1..i + 1], turns, i + 1, total)
    OBVIOUS
  <2>1. i <= n /\ i < n /\ i + 1 \in 1..n /\ (i + 1) - 1 = i
    BY <1>1
  <2>2. PICK j \in 1..n : j = i + 1 /\ j - 1 = i
    BY <2>1
  <2>3. g[1..j] = Join(g[1..j - 1], turns[j])
    BY <1>2, <2>2 DEF MergedBy
  <2>4. PICK m : m = g[1..i]
    OBVIOUS
  <2>5. MergedOf(m, turns, i, total)
    BY <1>4, <2>1, <2>4
  <2>6. MergedOf(Join(m, turns[i + 1]), turns, i + 1, total)
    BY <2>1, <2>5, JoinKeeps
  <2> QED
    BY <2>2, <2>3, <2>4, <2>6
<1>5. Nat \subseteq good(g)
  <2> HIDE DEF good
  <2> QED
    BY <1>3, <1>4, EveryNumber
<1> QED
  BY <1>1, <1>2, <1>5 DEF MergedBy

-----------------------------------------------------------------------------
\* A slice that starts in speech heard before e: it ends there too, or was lengthened.
SliceBefore(s, e, total) ==
    /\ 0 <= s[1] /\ s[1] < s[2] /\ s[2] <= total /\ s[1] < e
    /\ s[2] - s[1] <= MaxSeg + Snap
    /\ s[2] <= e \/ s[2] - s[1] <= MinSeg

Follows(s, r) == s[1] < r[1] /\ (s[2] <= r[1] \/ s[2] - s[1] <= MinSeg)

\* The slices hold the speech, which ends before e.
Sliced(slices, speech, e, total) ==
    /\ slices \in Seq(Points)
    /\ \A k \in 1..Len(slices) : SliceBefore(slices[k], e, total)
    /\ \A k \in 1..Len(slices) : \A h \in 1..k - 1 : Follows(slices[h], slices[k])
    /\ \A t \in speech : t \in Int /\ t < e
    /\ \A t \in speech : \E k \in 1..Len(slices) : Within(t, slices[k])

LEMMA SlicedLater ==
    ASSUME NEW slices, NEW speech, NEW e \in Int, NEW f \in Int, e <= f, NEW total \in Int,
           Sliced(slices, speech, e, total)
    PROVE  Sliced(slices, speech, f, total)
<1>1. ASSUME NEW k \in 1..Len(slices) PROVE SliceBefore(slices[k], f, total)
  <2>1. PICK s \in Points : s = slices[k] /\ SliceBefore(s, e, total)
    BY ElementOfSeq DEF Sliced
  <2>2. s[1] \in Int /\ s[2] \in Int
    BY DEF Points
  <2> QED
    BY <2>1, <2>2 DEF SliceBefore
<1> QED
  BY <1>1 DEF Sliced

\* A slice put at the end.
LEMMA SlicedAppend ==
    ASSUME NEW slices, NEW speech, NEW e \in Int, NEW total \in Int, Sliced(slices, speech, e, total),
           NEW a \in Int, NEW b \in Int, NEW f \in Int, 0 <= a, e <= a, SliceBefore(<<a, b>>, f, total),
           NEW heard, \A t \in heard : t \in speech \/ (t \in Int /\ a <= t /\ t < b /\ t < f)
    PROVE  Sliced(Append(slices, <<a, b>>), heard, f, total)
<1>1. PICK n \in Nat : n = Len(slices)
  BY LenProperties DEF Sliced
<1>2. PICK z \in Points : z = <<a, b>> /\ z[1] = a /\ z[2] = b
  <2>1. <<a, b>> \in Points
    BY DEF Points
  <2> QED
    BY <2>1
<1>3. PICK q : q = Append(slices, z)
  OBVIOUS
<1>4. /\ q \in Seq(Points) /\ Len(q) = n + 1 /\ q[n + 1] = z
      /\ \A k \in 1..n : q[k] = slices[k]
  BY <1>1, <1>3, AppendProperties DEF Sliced
<1>5. a < f /\ e <= f
  BY <1>2 DEF SliceBefore
<1>6. Sliced(slices, speech, f, total)
  BY <1>5, SlicedLater
<1>7. ASSUME NEW k \in 1..n + 1 PROVE SliceBefore(q[k], f, total)
  <2>1. CASE k = n + 1
    BY <1>2, <1>4, <2>1
  <2>2. CASE k # n + 1
    <3>1. k \in 1..n
      BY <2>2
    <3> QED
      BY <1>1, <1>4, <1>6, <3>1 DEF Sliced
  <2> QED
    BY <2>1, <2>2
<1>8. ASSUME NEW k \in 1..n + 1, NEW h \in 1..k - 1 PROVE Follows(q[h], q[k])
  <2>1. h \in 1..n /\ q[h] = slices[h]
    BY <1>4
  <2>2. CASE k = n + 1
    <3>1. PICK s \in Points : s = slices[h] /\ SliceBefore(s, e, total)
      BY <1>1, <2>1, ElementOfSeq DEF Sliced
    <3>2. s[1] \in Int /\ s[2] \in Int
      BY DEF Points
    <3>3. Follows(s, z)
      BY <1>2, <3>1, <3>2 DEF SliceBefore, Follows
    <3> QED
      BY <1>4, <2>1, <2>2, <3>1, <3>3
  <2>3. CASE k # n + 1
    <3>1. k \in 1..n
      BY <2>3
    <3> QED
      BY <1>1, <1>4, <2>1, <3>1 DEF Sliced
  <2> QED
    BY <2>2, <2>3
<1>9. ASSUME NEW t \in heard
      PROVE  t \in Int /\ t < f /\ \E k \in 1..n + 1 : Within(t, q[k])
  <2>1. CASE t \in speech
    <3>1. t \in Int /\ t < f
      BY <1>6, <2>1 DEF Sliced
    <3>2. PICK k \in 1..n : Within(t, slices[k])
      BY <1>1, <2>1 DEF Sliced
    <3>3. k \in 1..n + 1 /\ q[k] = slices[k]
      BY <1>4
    <3> QED
      BY <3>1, <3>2, <3>3
  <2>2. CASE t \in Int /\ a <= t /\ t < b /\ t < f
    <3>1. Within(t, z) /\ n + 1 \in 1..n + 1
      BY <1>2, <2>2 DEF Within
    <3> QED
      BY <1>4, <2>2, <3>1
  <2> QED
    BY <2>1, <2>2
<1>10. Sliced(q, heard, f, total)
  BY <1>4, <1>7, <1>8, <1>9 DEF Sliced
<1> QED
  BY <1>2, <1>3, <1>10

\* The last slice made to end where the speech does.
LEMMA SlicedExtend ==
    ASSUME NEW slices, NEW speech, NEW e \in Int, NEW total \in Int, Sliced(slices, speech, e, total),
           slices # <<>>, NEW b \in Int, e <= b, b <= total, b - Last(slices)[1] <= MaxSeg + Snap,
           NEW heard, \A t \in heard : t \in speech \/ (t \in Int /\ e <= t /\ t < b)
    PROVE  Sliced(ExtendLast(slices, b), heard, b, total)
<1>1. PICK n \in Nat \ {0} : n = Len(slices) /\ n \in 1..n /\ Last(slices) = slices[n]
  BY LastIs DEF Sliced
<1>2. PICK a \in Int, c \in Int : slices[n] = <<a, c>>
  <2>1. slices[n] \in Points
    BY <1>1, ElementOfSeq DEF Sliced
  <2> QED
    BY <2>1 DEF Points
<1>3. PICK z \in Points : z = <<a, b>> /\ z[1] = a /\ z[2] = b
  <2>1. <<a, b>> \in Points
    BY DEF Points
  <2> QED
    BY <2>1
<1>4. PICK q : q = ExtendLast(slices, b)
  OBVIOUS
<1>5. q = Append(Front(slices), z)
  BY <1>1, <1>2, <1>3, <1>4 DEF ExtendLast
<1>6. /\ q \in Seq(Points) /\ Len(q) = n /\ q[n] = z
      /\ \A k \in 1..n - 1 : q[k] = slices[k]
  BY <1>1, <1>5, LastReplaced DEF Sliced
<1>7. SliceBefore(slices[n], e, total) /\ 0 <= a /\ a < e
  BY <1>1, <1>2 DEF Sliced, SliceBefore
<1>8. SliceBefore(z, b, total)
  <2>1. b - a <= MaxSeg + Snap
    BY <1>1, <1>2
  <2> QED
    BY <1>3, <1>7, <2>1 DEF SliceBefore
<1>9. Sliced(slices, speech, b, total)
  BY SlicedLater
<1>10. ASSUME NEW k \in 1..n PROVE SliceBefore(q[k], b, total)
  <2>1. CASE k = n
    BY <1>6, <1>8, <2>1
  <2>2. CASE k # n
    <3>1. k \in 1..n - 1
      BY <2>2
    <3> QED
      BY <1>1, <1>6, <1>9, <3>1 DEF Sliced
  <2> QED
    BY <2>1, <2>2
<1>11. ASSUME NEW k \in 1..n, NEW h \in 1..k - 1 PROVE Follows(q[h], q[k])
  <2>1. h \in 1..n - 1 /\ q[h] = slices[h] /\ Follows(slices[h], slices[k])
    BY <1>1, <1>6 DEF Sliced
  <2>2. q[k][1] = slices[k][1]
    <3>1. CASE k = n
      BY <1>2, <1>3, <1>6, <3>1
    <3>2. CASE k # n
      <4>1. k \in 1..n - 1
        BY <3>2
      <4> QED
        BY <1>6, <4>1
    <3> QED
      BY <3>1, <3>2
  <2> QED
    BY <2>1, <2>2 DEF Follows
<1>12. ASSUME NEW t \in heard
       PROVE  t \in Int /\ t < b /\ \E k \in 1..n : Within(t, q[k])
  <2>1. CASE t \in speech
    <3>1. t \in Int /\ t < e /\ t < b
      BY <2>1 DEF Sliced
    <3>2. PICK k \in 1..n : Within(t, slices[k])
      BY <1>1, <2>1 DEF Sliced
    <3>3. CASE k = n
      <4>1. Within(t, z)
        BY <1>2, <1>3, <3>1, <3>2, <3>3 DEF Within
      <4> QED
        BY <1>6, <3>1, <3>3, <4>1
    <3>4. CASE k # n
      <4>1. k \in 1..n - 1
        BY <3>4
      <4> QED
        BY <1>6, <3>1, <3>2, <4>1
    <3> QED
      BY <3>3, <3>4
  <2>2. CASE t \in Int /\ e <= t /\ t < b
    <3>1. Within(t, z)
      BY <1>3, <1>7, <2>2 DEF Within
    <3> QED
      BY <1>1, <1>6, <2>2, <3>1
  <2> QED
    BY <2>1, <2>2
<1>13. Sliced(q, heard, b, total)
  BY <1>6, <1>10, <1>11, <1>12 DEF Sliced
<1> QED
  BY <1>4, <1>13

\* Why a slice may be the bare minimum, or less before the final pass: with the s slices before
\* it, it began with a turn as short.
Starts(turn, p, w, s) ==
    /\ turn[1] = p[1]
    /\ \/ turn[2] - turn[1] = MinSeg
       \/ turn[2] - turn[1] < MinSeg /\ \A h \in 1..s : turn[2] - w[h][1] > MaxSeg
Begun(w, heads) ==
    \A k \in 1..Len(w) : w[k][2] - w[k][1] <= MinSeg => \E turn \in heads : Starts(turn, w[k], w, k - 1)

LEMMA StartsSame ==
    ASSUME NEW turn, NEW p, NEW q, p[1] = q[1], NEW w, NEW v, NEW s \in Nat,
           \A h \in 1..s : w[h][1] = v[h][1], Starts(turn, p, w, s)
    PROVE  Starts(turn, q, v, s)
BY DEF Starts

LEMMA BegunAppend ==
    ASSUME NEW w \in Seq(Points), NEW heads, Begun(w, heads), NEW more, heads \subseteq more,
           NEW a \in Int, NEW b \in Int,
           b - a <= MinSeg => \E turn \in more : Starts(turn, <<a, b>>, w, Len(w))
    PROVE  Begun(Append(w, <<a, b>>), more)
<1>1. PICK n \in Nat : n = Len(w)
  BY LenProperties
<1>2. PICK z \in Points : z = <<a, b>> /\ z[1] = a /\ z[2] = b
  <2>1. <<a, b>> \in Points
    BY DEF Points
  <2> QED
    BY <2>1
<1>3. PICK q : q = Append(w, z)
  OBVIOUS
<1>4. /\ Len(q) = n + 1 /\ q[n + 1] = z
      /\ \A k \in 1..n : q[k] = w[k]
  BY <1>1, <1>3, AppendProperties
<1>5. ASSUME NEW k \in 1..n + 1, q[k][2] - q[k][1] <= MinSeg
      PROVE  \E turn \in more : Starts(turn, q[k], q, k - 1)
  <2>1. \A h \in 1..k - 1 : w[h][1] = q[h][1]
    BY <1>4
  <2>2. CASE k = n + 1
    <3>1. PICK turn \in more : Starts(turn, z, w, n)
      BY <1>1, <1>2, <1>4, <1>5, <2>2
    <3>2. Starts(turn, z, q, n)
      BY <2>1, <2>2, <3>1, StartsSame
    <3> QED
      BY <1>4, <2>2, <3>2
  <2>3. CASE k # n + 1
    <3>1. k \in 1..n /\ q[k] = w[k] /\ k - 1 \in Nat
      BY <1>4, <2>3
    <3>2. PICK turn \in heads : Starts(turn, w[k], w, k - 1)
      BY <1>1, <1>5, <3>1 DEF Begun
    <3>3. Starts(turn, q[k], q, k - 1)
      BY <2>1, <3>1, <3>2, StartsSame
    <3> QED
      BY <3>3
  <2> QED
    BY <2>2, <2>3
<1> QED
  BY <1>2, <1>3, <1>4, <1>5 DEF Begun

LEMMA BegunExtend ==
    ASSUME NEW w \in Seq(Points), w # <<>>, NEW heads, Begun(w, heads), NEW more, heads \subseteq more,
           NEW b \in Int, Last(w)[2] <= b \/ Last(w)[2] - Last(w)[1] <= MinSeg
    PROVE  Begun(ExtendLast(w, b), more)
<1>1. PICK n \in Nat \ {0} : n = Len(w) /\ n \in 1..n /\ Last(w) = w[n]
  BY LastIs
<1>2. PICK a \in Int, c \in Int : w[n] = <<a, c>>
  <2>1. PICK p \in Points : p = w[n]
    BY <1>1, ElementOfSeq
  <2>2. \E a \in Int, c \in Int : p = <<a, c>>
    BY DEF Points
  <2> QED
    BY <2>1, <2>2
<1>3. PICK z \in Points : z = <<a, b>> /\ z[1] = a /\ z[2] = b
  <2>1. <<a, b>> \in Points
    BY DEF Points
  <2> QED
    BY <2>1
<1>4. PICK q : q = ExtendLast(w, b)
  OBVIOUS
<1>5. q = Append(Front(w), z)
  BY <1>1, <1>2, <1>3, <1>4 DEF ExtendLast
<1>6. Len(q) = n /\ q[n] = z /\ \A k \in 1..n - 1 : q[k] = w[k]
  BY <1>1, <1>5, LastReplaced
<1>7. w[n][1] = a /\ w[n][2] = c
  BY <1>2
<1>8. \A k \in 1..n : w[k][1] = q[k][1]
  <2> SUFFICES ASSUME NEW k \in 1..n PROVE w[k][1] = q[k][1]
    OBVIOUS
  <2>1. CASE k = n
    BY <1>3, <1>6, <1>7, <2>1
  <2>2. CASE k # n
    <3>1. k \in 1..n - 1
      BY <2>2
    <3> QED
      BY <1>6, <3>1
  <2> QED
    BY <2>1, <2>2
<1>9. MinSeg \in Nat
  BY SegmentationAssumption DEF SegmentationAssumption
<1>10. ASSUME NEW k \in 1..n, q[k][2] - q[k][1] <= MinSeg
       PROVE  \E turn \in more : Starts(turn, q[k], q, k - 1)
  <2>1. w[k][2] - w[k][1] <= MinSeg
    <3>1. CASE k = n
      <4>1. b - a <= MinSeg
        BY <1>3, <1>6, <1>10, <3>1
      <4>2. c <= b \/ c - a <= MinSeg
        BY <1>1, <1>7
      <4> QED
        BY <1>7, <1>9, <3>1, <4>1, <4>2
    <3>2. CASE k # n
      <4>1. k \in 1..n - 1
        BY <3>2
      <4> QED
        BY <1>6, <1>10, <4>1
    <3> QED
      BY <3>1, <3>2
  <2>2. PICK turn \in heads : Starts(turn, w[k], w, k - 1)
    BY <1>1, <2>1 DEF Begun
  <2>3. k - 1 \in Nat /\ (\A h \in 1..k - 1 : w[h][1] = q[h][1]) /\ w[k][1] = q[k][1]
    <3>1. \A h \in 1..k - 1 : h \in 1..n
      BY <1>1
    <3> QED
      BY <1>8, <3>1
  <2>4. Starts(turn, q[k], q, k - 1)
    BY <2>2, <2>3, StartsSame
  <2> QED
    BY <2>4
<1> QED
  BY <1>4, <1>6, <1>10 DEF Begun

-----------------------------------------------------------------------------
\* Rounding down, for products and quotients of which the provers know little else.
LEMMA Quotient ==
    ASSUME NEW x \in Int, NEW n \in Nat \ {0}
    PROVE  x \div n \in Int /\ n * (x \div n) <= x /\ x < n * (x \div n) + n
OBVIOUS

\* A quotient that lies between two others keeps its place.
LEMMA Smaller ==
    ASSUME NEW n \in Nat \ {0}, NEW p \in Int, NEW q \in Int, n * p < n * q
    PROVE  p < q
<1> SUFFICES ASSUME p >= q PROVE n * p >= n * q
  <2>1. n * p \in Int /\ n * q \in Int
    OBVIOUS
  <2> QED
    BY <2>1
<1>1. PICK d \in Nat : p = q + d
  <2>1. p - q \in Nat /\ p = q + (p - q)
    OBVIOUS
  <2> QED
    BY <2>1
<1>2. n * p = n * q + n * d /\ n * d >= 0 /\ n * q \in Int /\ n * d \in Int
  BY <1>1
<1> QED
  BY <1>2

\* A turn above the maximum makes two pieces or more, each longer than the minimum and
\* what the cuts at its ends move, at most as long as the maximum: on the average, then rounded down.
LEMMA EnoughPieces ==
    ASSUME NEW L \in Nat, L > MaxSeg, NEW n, n = (L + MaxSeg - 1) \div MaxSeg
    PROVE  n \in Nat /\ n >= 2 /\ n * (MinSeg + 2 * Snap + 1) <= L /\ L <= n * MaxSeg
<1>1. PICK M \in Nat \ {0}, m \in Nat \ {0} : M = MaxSeg /\ m = MinSeg + 2 * Snap + 1 /\ 2 * m <= M + 1
  <2>1. /\ MaxSeg \in Nat \ {0} /\ MinSeg + 2 * Snap + 1 \in Nat \ {0}
        /\ 2 * (MinSeg + 2 * Snap + 1) <= MaxSeg + 1
    BY SegmentationAssumption DEF SegmentationAssumption
  <2> QED
    BY <2>1
<1>2. n \in Int /\ M * n <= L + M - 1 /\ L + M - 1 < M * n + M
  <2>1. L + M - 1 \in Int
    OBVIOUS
  <2> QED
    BY <1>1, <2>1, Quotient
<1>3. n * M \in Int /\ n * M = M * n
  BY <1>2
<1>4. L <= n * M
  BY <1>2, <1>3
<1>5. n >= 2
  <2>1. M * 1 < M * n
    BY <1>1, <1>3, <1>4
  <2> QED
    BY <1>2, <2>1, Smaller
<1>6. PICK j \in Nat : n = j + 2
  <2>1. n - 2 \in Nat /\ n = (n - 2) + 2
    BY <1>2, <1>5
  <2> QED
    BY <2>1
<1>7. n * m <= L
  <2>1. M * n = M * j + 2 * M /\ M * j \in Int
    BY <1>6
  <2>2. L >= M * j + M + 1
    BY <1>2, <2>1
  <2>3. n * m = j * m + 2 * m /\ j * m \in Int
    BY <1>6
  <2>4. j * m <= M * j
    <3>1. m <= M
      BY <1>1
    <3>2. PICK d \in Nat : M = m + d
      <4>1. M - m \in Nat /\ M = m + (M - m)
        BY <3>1
      <4> QED
        BY <4>1
    <3>3. M * j = j * m + j * d /\ j * d >= 0 /\ j * d \in Int
      BY <3>2
    <3> QED
      BY <2>3, <3>3
  <2> QED
    BY <1>1, <2>1, <2>2, <2>3, <2>4
<1> QED
  BY <1>1, <1>2, <1>4, <1>5, <1>7

\* Ideal cuts are as far apart as that allows.
LEMMA IdealCuts ==
    ASSUME NEW L \in Nat, NEW n \in Nat \ {0}, NEW m \in Nat, NEW M \in Nat, n * m <= L, L <= n * M,
           NEW i \in 1..n
    PROVE  /\ (i * L) \div n \in Int /\ ((i - 1) * L) \div n \in Int
           /\ (i * L) \div n - ((i - 1) * L) \div n >= m
           /\ (i * L) \div n - ((i - 1) * L) \div n <= M
           /\ (0 * L) \div n = 0 /\ (n * L) \div n = L
           /\ i < n => L - (i * L) \div n >= m
           /\ (i * L) \div n >= m
<1>1. PICK x \in Int, y \in Int : x = i * L /\ y = (i - 1) * L
  OBVIOUS
<1>2. x = y + L
  BY <1>1
<1>3. PICK p \in Int, q \in Int : p = x \div n /\ q = y \div n
  BY Quotient
<1>4. n * p <= x /\ x < n * p + n /\ n * q <= y /\ y < n * q + n
  BY <1>3, Quotient
<1>5. n * (p - q) = n * p - n * q /\ n * p \in Int /\ n * q \in Int /\ n * m \in Int /\ n * M \in Int
  OBVIOUS
<1>6. p - q >= m
  <2>1. n * (m - 1) < n * (p - q)
    <3>1. n * (m - 1) = n * m - n
      OBVIOUS
    <3> QED
      BY <1>2, <1>4, <1>5, <3>1
  <2>2. m - 1 < p - q
    BY <2>1, Smaller
  <2> QED
    BY <2>2
<1>7. p - q <= M
  <2>1. n * (p - q) < n * (M + 1)
    <3>1. n * (M + 1) = n * M + n
      OBVIOUS
    <3> QED
      BY <1>2, <1>4, <1>5, <3>1
  <2>2. p - q < M + 1
    BY <2>1, Smaller
  <2> QED
    BY <2>2
<1>8. (0 * L) \div n = 0 /\ (n * L) \div n = L
  <2>1. PICK r \in Int : r = (n * L) \div n
    BY Quotient
  <2>2. n * L \in Int
    OBVIOUS
  <2>3. n * r <= n * L /\ n * L < n * r + n
    BY <2>1, <2>2, Quotient
  <2>4. n * (r + 1) = n * r + n /\ n * (r - 1) = n * r - n /\ n * r \in Int
    OBVIOUS
  <2>5. n * L < n * (r + 1) /\ n * (r - 1) < n * L
    BY <2>2, <2>3, <2>4
  <2>6. L < r + 1 /\ r - 1 < L
    BY <2>5, Smaller
  <2>7. r = L
    <3>1. n * r <= n * L
      BY <2>3
    <3>2. r < L + 1
      <4>1. n * (L + 1) = n * L + n
        OBVIOUS
      <4>2. n * r < n * (L + 1)
        BY <2>2, <2>4, <3>1, <4>1
      <4> QED
        BY <4>2, Smaller
    <3> QED
      BY <2>6, <3>2
  <2>8. (0 * L) \div n = 0
    <3>1. 0 * L = 0 /\ 0 \div n = 0
      OBVIOUS
    <3> QED
      BY <3>1
  <2> QED
    BY <2>1, <2>7, <2>8
<1>9. i < n => L - p >= m
  <2> SUFFICES ASSUME i < n PROVE L - p >= m
    OBVIOUS
  <2>1. PICK j \in Nat : n = i + 1 + j
    <3>1. n - i - 1 \in Nat /\ n = i + 1 + (n - i - 1)
      OBVIOUS
    <3> QED
      BY <3>1
  <2>2. n * L = i * L + L + j * L /\ j * L >= 0 /\ j * L \in Int /\ n * L \in Int /\ i * L \in Int
    BY <2>1
  <2>3. n * (L - p) = n * L - n * p /\ n * (m - 1) = n * m - n
    OBVIOUS
  <2>4. n * (m - 1) < n * (L - p)
    BY <1>1, <1>4, <1>5, <2>2, <2>3
  <2>5. m - 1 < L - p
    BY <2>4, Smaller
  <2> QED
    BY <2>5
<1>10. p >= m
  <2>1. PICK j \in Nat : i = 1 + j
    <3>1. i - 1 \in Nat /\ i = 1 + (i - 1)
      OBVIOUS
    <3> QED
      BY <3>1
  <2>2. i * L = L + j * L /\ j * L >= 0 /\ j * L \in Int
    BY <2>1
  <2>3. n * (m - 1) = n * m - n
    OBVIOUS
  <2>4. n * (m - 1) < n * p
    BY <1>1, <1>4, <1>5, <2>2, <2>3
  <2>5. m - 1 < p
    BY <2>4, Smaller
  <2> QED
    BY <2>5
<1> QED
  BY <1>1, <1>3, <1>6, <1>7, <1>8, <1>9, <1>10

-----------------------------------------------------------------------------
\* What is known of the slices and of where the next piece of a long turn begins.
Ways == [slices : Seq(Points), from : Int]

LEMMA PiecesOf ==
    ASSUME NEW turn \in Points, Length(turn) > MaxSeg
    PROVE  /\ Length(turn) \in Nat /\ Pieces(turn) \in Nat /\ Pieces(turn) >= 2
           /\ Pieces(turn) * (MinSeg + 2 * Snap + 1) <= Length(turn)
           /\ Length(turn) <= Pieces(turn) * MaxSeg
<1>1. Length(turn) \in Int /\ MaxSeg \in Nat
  BY SegmentationAssumption DEF Points, Length, SegmentationAssumption
<1>2. PICK L \in Nat : L = Length(turn) /\ L > MaxSeg
  BY <1>1
<1>3. PICK n : n = (L + MaxSeg - 1) \div MaxSeg
  OBVIOUS
<1>4. n \in Nat /\ n >= 2 /\ n * (MinSeg + 2 * Snap + 1) <= L /\ L <= n * MaxSeg
  BY <1>2, <1>3, EnoughPieces
<1>5. n = Pieces(turn)
  BY <1>2, <1>3 DEF Pieces
<1> QED
  BY <1>2, <1>4, <1>5

\* Where the i-th of the pieces of a turn should end.
IdealAt(turn, i) == turn[1] + (i * Length(turn)) \div Pieces(turn)

\* A piece is neither too short nor, but for what a cut moved, too long.
LEMMA PieceBounds ==
    ASSUME NEW a \in Int, NEW z \in Int, NEW turn, turn = <<a, z>>, Length(turn) > MaxSeg,
           NEW i \in 1..Pieces(turn), NEW from \in Int,
           IdealAt(turn, i - 1) - Snap <= from, from <= IdealAt(turn, i - 1) + Snap,
           NEW to \in CutsAt(turn, Pieces(turn), i, from)
    PROVE  /\ to \in Int /\ MinSeg < to - from /\ to - from <= MaxSeg + Snap /\ to <= z
           /\ IdealAt(turn, i) - Snap <= to /\ to <= IdealAt(turn, i) + Snap
           /\ i = Pieces(turn) => to = z
<1>1. PICK L \in Nat : L = z - a /\ L = Length(turn)
  <2>1. turn \in Points /\ Length(turn) = z - a
    BY DEF Points, Length
  <2> QED
    BY <2>1, PiecesOf
<1>2. PICK n \in Nat \ {0} : n = Pieces(turn) /\ n * (MinSeg + 2 * Snap + 1) <= L /\ L <= n * MaxSeg
  <2>1. turn \in Points
    BY DEF Points
  <2>2. Pieces(turn) \in Nat \ {0}
    BY <2>1, PiecesOf
  <2> QED
    BY <1>1, <2>1, <2>2, PiecesOf
<1>3. PICK m \in Nat, M \in Nat, k \in Nat, S \in Nat : M = MaxSeg /\ k = MinSeg /\ S = Snap /\ m = k + 2 * S + 1
                                            /\ m = MinSeg + 2 * Snap + 1
  <2>1. MaxSeg \in Nat /\ MinSeg \in Nat /\ Snap \in Nat /\ MinSeg + 2 * Snap + 1 \in Nat
    BY SegmentationAssumption DEF SegmentationAssumption
  <2> QED
    BY <2>1
<1>a. n * m <= L /\ L <= n * M /\ i \in 1..n
  BY <1>2, <1>3
<1>4. PICK p \in Int, q \in Int : p = (i * L) \div n /\ q = ((i - 1) * L) \div n
  BY <1>a, IdealCuts
<1>5. p - q >= m /\ p - q <= M /\ (i < n => L - p >= m) /\ (i = n => p = L)
  BY <1>a, <1>4, IdealCuts
<1>6. IdealAt(turn, i) = a + p /\ IdealAt(turn, i - 1) = a + q
  <2>1. turn[1] = a
    OBVIOUS
  <2> QED
    BY <1>1, <1>2, <1>4, <2>1 DEF IdealAt
<1>7. a + q - S <= from /\ from <= a + q + S
  BY <1>3, <1>6
<1>8. CutsAt(turn, n, i, from) =
        IF i = n THEN {z}
        ELSE IF Later(from + k, a + p - S) < Earlier(from + M, a + p + S)
             THEN Later(from + k, a + p - S)..Earlier(from + M, a + p + S) ELSE {a + p}
  <2>1. turn[1] = a /\ turn[2] = z
    OBVIOUS
  <2>2. turn[1] + (i * Length(turn)) \div n = a + p
    BY <1>1, <1>4, <2>1
  <2>3. PICK d : d = a + p
    OBVIOUS
  <2>4. CutsAt(turn, n, i, from) =
          IF i = n THEN {z}
          ELSE IF Later(from + MinSeg, d - Snap) < Earlier(from + MaxSeg, d + Snap)
               THEN Later(from + MinSeg, d - Snap)..Earlier(from + MaxSeg, d + Snap) ELSE {d}
    BY <2>1, <2>2, <2>3 DEF CutsAt
  <2> QED
    BY <1>3, <2>3, <2>4
<1>9. CASE i = n
  <2>1. to = z /\ p = L
    BY <1>2, <1>5, <1>8, <1>9
  <2>2. to = a + p
    BY <1>1, <2>1
  <2> QED
    BY <1>1, <1>2, <1>3, <1>5, <1>6, <1>7, <2>1, <2>2
<1>10. CASE i # n
  <2>1. i \in 1..n
    BY <1>2
  <2>2. i < n
    BY <1>10, <2>1
  <2>3. L - p >= m
    BY <1>5, <2>2
  <2>4. CASE Later(from + k, a + p - S) < Earlier(from + M, a + p + S)
    <3>1. to \in Later(from + k, a + p - S)..Earlier(from + M, a + p + S)
      BY <1>2, <1>8, <1>10, <2>4
    <3>2. to \in Int /\ to >= from + k /\ to >= a + p - S /\ to <= from + M /\ to <= a + p + S
      BY <3>1 DEF Later, Earlier
    <3> QED
      BY <1>1, <1>2, <1>3, <1>5, <1>6, <1>7, <1>10, <2>2, <2>3, <3>2
  <2>5. CASE ~(Later(from + k, a + p - S) < Earlier(from + M, a + p + S))
    <3>1. to = a + p
      BY <1>2, <1>8, <1>10, <2>5
    <3> QED
      BY <1>1, <1>2, <1>3, <1>5, <1>6, <1>10, <1>7, <2>2, <2>3, <3>1
  <2> QED
    BY <2>4, <2>5
<1> QED
  BY <1>9, <1>10

LEMMA CutStays ==
    ASSUME NEW turn \in Points, Length(turn) > MaxSeg, NEW i \in 1..Pieces(turn), NEW ways \in SUBSET Ways
    PROVE  CutOnce(ways, turn, i) \in SUBSET Ways
<1> SUFFICES ASSUME NEW way \in ways, NEW to \in CutsAt(turn, Pieces(turn), i, way.from)
             PROVE  [slices |-> AddPiece(way.slices, way.from, to), from |-> to] \in Ways
  BY DEF CutOnce
<1>1. way.slices \in Seq(Points) /\ way.from \in Int
  BY DEF Ways
<1>2. PICK a \in Int, z \in Int : turn = <<a, z>> /\ turn[1] = a /\ turn[2] = z
  BY DEF Points
<1>3. to \in Int
  <2>1. PICK n \in Nat \ {0} : n = Pieces(turn)
    BY PiecesOf
  <2>2. PICK L \in Nat : L = Length(turn)
    BY PiecesOf
  <2>3. PICK x \in Int : x = i * L
    BY <2>1
  <2>4. PICK d \in Int : d = a + (i * L) \div n
    <3>1. PICK r \in Int : r = x \div n
      BY Quotient
    <3>2. PICK d \in Int : d = a + r
      OBVIOUS
    <3> QED
      BY <2>3, <3>1, <3>2
  <2>5. CutsAt(turn, n, i, way.from) =
          IF i = n THEN {z}
          ELSE IF Later(way.from + MinSeg, d - Snap) < Earlier(way.from + MaxSeg, d + Snap)
               THEN Later(way.from + MinSeg, d - Snap)..Earlier(way.from + MaxSeg, d + Snap) ELSE {d}
    BY <1>2, <2>2, <2>4 DEF CutsAt
  <2>6. Later(way.from + MinSeg, d - Snap) \in Int /\ Earlier(way.from + MaxSeg, d + Snap) \in Int
    <3>1. /\ way.from + MinSeg \in Int /\ d - Snap \in Int
          /\ way.from + MaxSeg \in Int /\ d + Snap \in Int
      BY <1>1, SegmentationAssumption DEF SegmentationAssumption
    <3> QED
      BY <3>1 DEF Later, Earlier
  <2>7. to \in {z} \/ to \in {d} \/ to \in Later(way.from + MinSeg, d - Snap)..Earlier(way.from + MaxSeg, d + Snap)
    BY <2>1, <2>5
  <2> QED
    BY <2>6, <2>7
<1>4. AddPiece(way.slices, way.from, to) \in Seq(Points)
  <2>1. PICK w \in Seq(Points) : w = way.slices
    BY <1>1
  <2>2. PICK f \in Int : f = way.from
    BY <1>1
  <2>3. PICK p \in Points : p = <<f, to>>
    BY <1>3 DEF Points
  <2>4. Append(w, p) \in Seq(Points)
    BY AppendProperties
  <2>5. ASSUME w # <<>> PROVE ExtendLast(w, to) \in Seq(Points)
    <3>1. PICK q \in Points : q = <<Last(w)[1], to>>
      <4>1. Last(w)[1] \in Int
        BY <2>5, LastIs DEF Points
      <4>2. <<Last(w)[1], to>> \in Points
        BY <1>3, <4>1 DEF Points
      <4> QED
        BY <4>2
    <3> QED
      BY <2>5, <3>1, LastReplaced DEF ExtendLast
  <2> QED
    BY <2>1, <2>2, <2>3, <2>4, <2>5 DEF AddPiece
<1> QED
  BY <1>3, <1>4 DEF Ways

\* Piece after piece g reaches the ways CutLong returns.
CutBy(slices, turn, g) ==
    /\ g[1..0] = {[slices |-> slices, from |-> turn[1]]}
    /\ \A i \in 1..Pieces(turn) : g[1..i] = CutOnce(g[1..i - 1], turn, i)
    /\ CutLong(slices, turn) = {way.slices : way \in g[1..Pieces(turn)]}
    /\ g[1..Pieces(turn)] \in SUBSET Ways

LEMMA CutInSteps ==
    ASSUME NEW slices \in Seq(Points), NEW turn \in Points, Length(turn) > MaxSeg
    PROVE  \E g : CutBy(slices, turn, g)
<1> DEFINE n == Pieces(turn)
           Made == SUBSET Ways
           first == {[slices |-> slices, from |-> turn[1]]}
           order == [i \in 1..Pieces(turn) |-> i]
           Cut(ways, i) == CutOnce(ways, turn, i)
           step == [x \in (1..n) \X Made |-> Cut(x[2], x[1])]
           fold(g) == [t \in SUBSET DOMAIN order |->
                         IF t = {} THEN first ELSE Cut(g[t \ {Max(t)}], order[Max(t)])]
           chosen == CHOOSE g : g = fold(g)
<1>1. n \in Nat /\ DOMAIN order = 1..n /\ \A i \in 1..n : order[i] = i
  BY PiecesOf
<1>2. ASSUME NEW k \in 1..n, NEW t \in Made PROVE Cut(t, k) \in Made
  BY CutStays
<1>3. step \in [(1..n) \X Made -> Made]
  <2>1. \A x \in (1..n) \X Made : Cut(x[2], x[1]) \in Made
    <3> HIDE DEF n, Made, Cut
    <3> QED
      BY <1>2
  <2> QED
    BY <2>1
<1>4. ASSUME NEW t \in SUBSET (1..n)
      PROVE  t # {} => /\ Max(t) \in 1..n /\ order[Max(t)] = Max(t)
                       /\ t \ {Max(t)} \in SUBSET (1..n)
  <2> HIDE DEF n, order
  <2> QED
    BY <1>1, MaxOf
<1>5. first \in Made
  BY DEF Points, Ways
<1>6. CutLong(slices, turn) = {way.slices : way \in chosen[DOMAIN order]}
  BY DEF CutLong, FoldLeft, MapThenFoldSet
<1> HIDE DEF Made, Cut, first
<1>7. chosen = fold(chosen)
  <2>1. PICK g \in [SUBSET (1..n) -> Made] : FoldsBy(g, n, first, step)
    <3> HIDE DEF step, n
    <3> QED
      BY <1>1, <1>3, <1>5, FoldExists
  <2>2. ASSUME NEW t \in SUBSET (1..n)
        PROVE  g[t] = IF t = {} THEN first ELSE Cut(g[t \ {Max(t)}], order[Max(t)])
    <3>1. g[t] = IF t = {} THEN first ELSE step[<<Max(t), g[t \ {Max(t)}]>>]
      BY <2>1 DEF FoldsBy
    <3>2. CASE t = {}
      BY <3>1, <3>2
    <3>3. CASE t # {}
      <4>1. Max(t) \in 1..n /\ order[Max(t)] = Max(t) /\ g[t \ {Max(t)}] \in Made
        BY <2>1, <1>4, <3>3
      <4> HIDE DEF n, order
      <4> QED
        BY <3>1, <3>3, <4>1
    <3> QED
      BY <3>2, <3>3
  <2>3. g = fold(g)
    <3>1. g = [t \in SUBSET (1..n) |-> g[t]]
      BY <2>1
    <3> HIDE DEF n, order
    <3> QED
      BY <1>1, <2>2, <3>1
  <2> QED
    BY <2>3, Zenon
<1> HIDE DEF chosen
<1>8. ASSUME NEW t \in SUBSET (1..n)
      PROVE  chosen[t] = IF t = {} THEN first ELSE Cut(chosen[t \ {Max(t)}], order[Max(t)])
  <2> DEFINE f == fold(chosen)
  <2>1. f[t] = IF t = {} THEN first ELSE Cut(chosen[t \ {Max(t)}], order[Max(t)])
    BY <1>1
  <2> HIDE DEF f
  <2>2. chosen = f
    BY <1>7 DEF f
  <2> QED
    BY <2>1, <2>2
<1>9. FoldsWithin(chosen, n, Made, first, step)
  <2>1. {} \in SUBSET (1..n)
    OBVIOUS
  <2>2. chosen[{}] = first
    BY <1>8, <2>1
  <2>3. ASSUME NEW t \in SUBSET (1..n), t # {}, chosen[t \ {Max(t)}] \in Made
        PROVE  chosen[t] = step[<<Max(t), chosen[t \ {Max(t)}]>>]
    <3>1. Max(t) \in 1..n /\ order[Max(t)] = Max(t)
      BY <1>4, <2>3
    <3> HIDE DEF n, order
    <3> QED
      BY <1>8, <2>3, <3>1
  <2> QED
    BY <2>2, <2>3 DEF FoldsWithin
<1>10. StepByStep(chosen, n, Made, first, step)
  <2> HIDE DEF step, n
  <2> QED
    BY <1>1, <1>3, <1>5, <1>9, FoldIsARun
<1>11. ASSUME NEW i \in 1..n PROVE chosen[1..i] = CutOnce(chosen[1..i - 1], turn, i)
  <2>1. i - 1 \in 0..n
    BY <1>1
  <2>2. chosen[1..i] = step[<<i, chosen[1..i - 1]>>] /\ chosen[1..i - 1] \in Made
    BY <1>10, <2>1 DEF StepByStep
  <2>3. step[<<i, chosen[1..i - 1]>>] = Cut(chosen[1..i - 1], i)
    <3> HIDE DEF n
    <3> QED
      BY <2>2
  <2> QED
    BY <2>2, <2>3 DEF Cut
<1>12. chosen[1..0] = first /\ CutLong(slices, turn) = {way.slices : way \in chosen[1..n]}
  BY <1>1, <1>6, <1>10 DEF StepByStep
<1>13. chosen[1..n] \in SUBSET Ways
  <2>1. n \in 0..n
    BY <1>1
  <2> QED
    BY <1>10, <2>1 DEF StepByStep, Made
<1> QED
  BY <1>11, <1>12, <1>13 DEF CutBy, first

\* The speech of a turn up to t0, the speech before it given.
Spoken(speech, turn, until) == speech \cup {t \in Int : turn[1] <= t /\ t < until}

\* A way of cutting the first i pieces of a turn.
CutSoFar(way, turn, i, speech, total, heads) ==
    /\ way \in Ways
    /\ turn[1] <= way.from /\ way.from <= turn[2]
    /\ IdealAt(turn, i) - Snap <= way.from /\ way.from <= IdealAt(turn, i) + Snap
    /\ i = Pieces(turn) => way.from = turn[2]
    /\ Sliced(way.slices, Spoken(speech, turn, way.from), way.from, total)
    /\ Begun(way.slices, heads)

LEMMA CutKeeps ==
    ASSUME NEW turn \in Points, Length(turn) > MaxSeg, NEW total \in Int, turn[2] <= total, 0 <= turn[1],
           NEW speech, NEW heads, NEW i \in 1..Pieces(turn), NEW way, CutSoFar(way, turn, i - 1, speech, total, heads),
           NEW to \in CutsAt(turn, Pieces(turn), i, way.from)
    PROVE  CutSoFar([slices |-> AddPiece(way.slices, way.from, to), from |-> to], turn, i, speech, total,
                    heads)
<1>1. PICK a \in Int, z \in Int : turn = <<a, z>> /\ turn[1] = a /\ turn[2] = z /\ Length(turn) = z - a
  BY DEF Points, Length
<1>2. PICK n \in Nat : n = Pieces(turn)
  BY PiecesOf
<1>3. PICK w \in Seq(Points), f \in Int : w = way.slices /\ f = way.from
  BY DEF CutSoFar, Ways
<1>4. /\ a <= f /\ f <= z
      /\ IdealAt(turn, i - 1) - Snap <= f /\ f <= IdealAt(turn, i - 1) + Snap
      /\ Sliced(w, Spoken(speech, turn, f), f, total) /\ Begun(w, heads)
  BY <1>1, <1>3 DEF CutSoFar
<1>5. /\ to \in Int /\ MinSeg < to - f /\ to - f <= MaxSeg + Snap /\ to <= z
      /\ IdealAt(turn, i) - Snap <= to /\ to <= IdealAt(turn, i) + Snap
      /\ i = Pieces(turn) => to = z
  BY <1>1, <1>3, <1>4, PieceBounds
<1>6. AddPiece(w, f, to) = Append(w, <<f, to>>)
  BY <1>5, SegmentationAssumption DEF AddPiece, SegmentationAssumption
<1>7. PICK k \in Nat : k = MinSeg /\ k > 0
  BY SegmentationAssumption DEF SegmentationAssumption
<1>8. SliceBefore(<<f, to>>, to, total)
  <2>1. <<f, to>>[1] = f /\ <<f, to>>[2] = to
    OBVIOUS
  <2>2. f < to /\ 0 <= f /\ to <= total
    BY <1>1, <1>4, <1>5, <1>7
  <2> QED
    BY <1>5, <2>1, <2>2 DEF SliceBefore
<1>9. Sliced(Append(w, <<f, to>>), Spoken(speech, turn, to), to, total)
  <2>1. ASSUME NEW t \in Spoken(speech, turn, to)
        PROVE  t \in Spoken(speech, turn, f) \/ (t \in Int /\ f <= t /\ t < to /\ t < to)
    BY <2>1 DEF Spoken
  <2>2. 0 <= f
    BY <1>1, <1>4
  <2> QED
    BY <1>4, <1>5, <1>8, <2>1, <2>2, SlicedAppend
<1>10. PICK v : v = [slices |-> AddPiece(way.slices, way.from, to), from |-> to]
  OBVIOUS
<1>11. v.slices = Append(w, <<f, to>>) /\ v.from = to
  BY <1>3, <1>6, <1>10
<1>12. v \in Ways
  <2>1. Append(w, <<f, to>>) \in Seq(Points)
    BY <1>9 DEF Sliced
  <2> QED
    BY <1>3, <1>5, <1>6, <1>10, <2>1 DEF Ways
<1>13. a <= to
  BY <1>4, <1>5, <1>7
<1>15. Begun(Append(w, <<f, to>>), heads)
  <2>1. ~(to - f <= MinSeg)
    BY <1>5, <1>7
  <2> QED
    BY <1>4, <1>5, <2>1, BegunAppend
<1>14. CutSoFar(v, turn, i, speech, total, heads)
  BY <1>1, <1>5, <1>9, <1>11, <1>12, <1>13, <1>15 DEF CutSoFar
<1> QED
  BY <1>10, <1>14

LEMMA CutLongKeeps ==
    ASSUME NEW turn \in Points, Length(turn) > MaxSeg, NEW total \in Int, turn[2] <= total, 0 <= turn[1],
           NEW slices, NEW speech, NEW e \in Int, e <= turn[1], Sliced(slices, speech, e, total),
           NEW heads, Begun(slices, heads), NEW made \in CutLong(slices, turn)
    PROVE  Sliced(made, Spoken(speech, turn, turn[2]), turn[2], total) /\ Begun(made, heads)
<1> DEFINE n == Pieces(turn)
           good(g) == {i \in Nat : i <= n => \A way \in g[1..i] : CutSoFar(way, turn, i, speech, total, heads)}
<1>1. n \in Nat /\ slices \in Seq(Points)
  BY PiecesOf DEF Sliced
<1>2. PICK g : CutBy(slices, turn, g)
  BY <1>1, CutInSteps
<1>3. PICK a \in Int, z \in Int : turn = <<a, z>> /\ turn[1] = a /\ turn[2] = z /\ Length(turn) = z - a
  BY DEF Points, Length
<1>4. 0 \in good(g)
  <2>1. PICK v : v = [slices |-> slices, from |-> turn[1]]
    OBVIOUS
  <2>2. v \in Ways /\ v.slices = slices /\ v.from = a
    BY <1>1, <1>3, <2>1 DEF Ways
  <2>3. IdealAt(turn, 0) = a
    <3>1. PICK L \in Nat, m \in Nat \ {0} : L = Length(turn) /\ m = Pieces(turn)
      BY PiecesOf
    <3>2. (0 * L) \div m = 0
      <4>1. 0 * L = 0 /\ 0 \div m = 0
        OBVIOUS
      <4> QED
        BY <4>1
    <3> QED
      BY <1>3, <3>1, <3>2 DEF IdealAt
  <2>4. Sliced(slices, Spoken(speech, turn, a), a, total)
    <3>1. Sliced(slices, speech, a, total)
      BY <1>3, SlicedLater
    <3>2. Spoken(speech, turn, a) = speech
      BY <1>3 DEF Spoken
    <3> QED
      BY <3>1, <3>2
  <2>5. a <= z /\ Snap \in Nat /\ 0 # Pieces(turn)
    <3>1. Length(turn) \in Nat /\ Pieces(turn) >= 2 /\ Pieces(turn) \in Nat
      BY PiecesOf
    <3> QED
      BY <1>3, <3>1, SegmentationAssumption DEF SegmentationAssumption
  <2>6. CutSoFar(v, turn, 0, speech, total, heads)
    BY <1>3, <2>2, <2>3, <2>4, <2>5 DEF CutSoFar
  <2>7. g[1..0] = {v}
    BY <1>2, <2>1 DEF CutBy
  <2> QED
    BY <2>6, <2>7
<1>5. ASSUME NEW i \in Nat, i \in good(g) PROVE i + 1 \in good(g)
  <2> SUFFICES ASSUME i + 1 <= n, NEW cut \in g[1..i + 1]
               PROVE  CutSoFar(cut, turn, i + 1, speech, total, heads)
    OBVIOUS
  <2>1. PICK j \in 1..n : j = i + 1 /\ j - 1 = i /\ i <= n
    <3>1. i + 1 \in 1..n /\ (i + 1) - 1 = i /\ i <= n
      BY <1>1
    <3> QED
      BY <3>1
  <2>2. g[1..j] = CutOnce(g[1..j - 1], turn, j)
    BY <1>2, <2>1 DEF CutBy
  <2>3. PICK ways : ways = g[1..i]
    OBVIOUS
  <2>4. cut \in CutOnce(ways, turn, j)
    BY <2>1, <2>2, <2>3
  <2>5. PICK way \in ways : \E to \in CutsAt(turn, Pieces(turn), j, way.from) :
            cut = [slices |-> AddPiece(way.slices, way.from, to), from |-> to]
    BY <2>4 DEF CutOnce
  <2>6. CutSoFar(way, turn, j - 1, speech, total, heads)
    BY <1>5, <2>1, <2>3
  <2>7. CutSoFar(cut, turn, j, speech, total, heads)
    BY <2>5, <2>6, CutKeeps
  <2> QED
    BY <2>1, <2>7
<1>6. Nat \subseteq good(g)
  <2> HIDE DEF good
  <2> QED
    BY <1>4, <1>5, EveryNumber
<1>7. PICK way \in g[1..n] : made = way.slices
  BY <1>2 DEF CutBy
<1>8. CutSoFar(way, turn, n, speech, total, heads)
  BY <1>1, <1>6, <1>7
<1>9. way.from = turn[2]
  BY <1>8 DEF CutSoFar
<1> QED
  BY <1>7, <1>8, <1>9 DEF CutSoFar

\* How the comparison with the minimum may read.
LEMMA Readings ==
    ASSUME NEW span \in Points, NEW short \in ReadsShort(span)
    PROVE  /\ short \in BOOLEAN
           /\ short => Length(span) <= MinSeg
           /\ ~short => Length(span) >= MinSeg
<1>1. PICK x \in Int, k \in Nat : x = Length(span) /\ k = MinSeg
  BY SegmentationAssumption DEF Points, Length, SegmentationAssumption
<1>2. CASE x = k
  <2>1. short \in BOOLEAN
    <3>1. CASE span[1] # 0
      BY <1>1, <1>2, <3>1 DEF ReadsShort
    <3>2. CASE span[1] = 0
      <4>1. short \in {x < k}
        BY <1>1, <3>2, Zenon DEF ReadsShort
      <4>2. (x < k) \in BOOLEAN
        OBVIOUS
      <4> QED
        BY <4>1, <4>2, Zenon
    <3> QED
      BY <3>1, <3>2
  <2>2. x <= k /\ x >= k
    BY <1>2
  <2> QED
    BY <1>1, <2>1, <2>2
<1>3. CASE x # k
  <2>1. short \in {x < k}
    BY <1>1, <1>3, Zenon DEF ReadsShort
  <2>2. (x < k) \in BOOLEAN
    OBVIOUS
  <2>3. CASE x < k
    <3>1. short /\ short \in BOOLEAN
      BY <2>1, <2>2, <2>3, Zenon
    <3>2. x <= k
      BY <2>3
    <3> QED
      BY <1>1, <3>1, <3>2, Zenon
  <2>4. CASE ~(x < k)
    <3>1. ~short /\ short \in BOOLEAN
      BY <2>1, <2>2, <2>4, Zenon
    <3>2. x >= k
      BY <2>4
    <3> QED
      BY <1>1, <3>1, <3>2, Zenon
  <2> QED
    BY <2>3, <2>4
<1> QED
  BY <1>2, <1>3

-----------------------------------------------------------------------------
\* One more turn, whichever way it is added.
LEMMA AddKeeps ==
    ASSUME NEW turn \in Points, NEW total \in Int, 0 <= turn[1], turn[1] < turn[2], turn[2] <= total,
           NEW slices, NEW speech, NEW e \in Int, e <= turn[1], Sliced(slices, speech, e, total),
           NEW heads, Begun(slices, heads), NEW more, more = heads \cup {turn},
           NEW made \in AddTurn(slices, turn, total)
    PROVE  Sliced(made, Spoken(speech, turn, turn[2]), turn[2], total) /\ Begun(made, more)
<1>1. PICK a \in Int, z \in Int : turn = <<a, z>> /\ turn[1] = a /\ turn[2] = z /\ Length(turn) = z - a
  BY DEF Points, Length
<1>2. PICK k \in Nat, M \in Nat, S \in Nat : k = MinSeg /\ M = MaxSeg /\ S = Snap /\ k > 0 /\ k <= M
  <2>1. /\ MinSeg \in Nat /\ MaxSeg \in Nat /\ Snap \in Nat /\ MinSeg > 0
        /\ 2 * (MinSeg + 2 * Snap) < MaxSeg
    BY SegmentationAssumption DEF SegmentationAssumption
  <2>2. MinSeg <= MaxSeg
    BY <2>1
  <2> QED
    BY <2>1, <2>2
<1>3. 0 <= a /\ a < z /\ z <= total /\ e <= a
  BY <1>1
<1>4. \A t \in Spoken(speech, turn, z) : t \in speech \/ (t \in Int /\ a <= t /\ t < z)
  BY <1>1 DEF Spoken
<1>s. slices \in Seq(Points) /\ heads \subseteq more /\ turn \in more
  BY DEF Sliced
<1>5. CASE Length(turn) > MaxSeg
  <2>1. made \in CutLong(slices, turn)
    <3>1. Length(turn) > MaxSeg /\ ~(Length(turn) <= 0)
      BY <1>1, <1>2, <1>5
    <3> QED
      BY <3>1 DEF AddTurn
  <2>2. Sliced(made, Spoken(speech, turn, turn[2]), turn[2], total) /\ Begun(made, heads)
    BY <1>5, <2>1, CutLongKeeps
  <2> QED
    BY <1>s, <2>2 DEF Begun
<1>6. CASE z - a <= k /\ made = AddShort(slices, turn, total)
  <2>2. CASE slices # <<>> /\ turn[2] - Last(slices)[1] <= MaxSeg
    <3>1. made = ExtendLast(slices, z)
      BY <1>1, <1>6, <2>2 DEF AddShort
    <3>2. PICK n \in Nat \ {0} : n = Len(slices) /\ n \in 1..n /\ Last(slices) = slices[n]
      BY <1>s, <2>2, LastIs
    <3>3. PICK x \in Int, y \in Int : x = Last(slices)[1] /\ y = Last(slices)[2] /\ (y <= e \/ y - x <= MinSeg)
      <4>1. SliceBefore(slices[n], e, total) /\ slices[n] \in Points
        BY <1>s, <3>2, ElementOfSeq DEF Sliced
      <4> QED
        BY <3>2, <4>1 DEF SliceBefore, Points
    <3>4. z - Last(slices)[1] <= MaxSeg + Snap /\ e <= z
      BY <1>1, <1>2, <1>3, <2>2, <3>3
    <3>5. ASSUME NEW t \in Spoken(speech, turn, z) PROVE t \in speech \/ (t \in Int /\ e <= t /\ t < z)
      BY <1>3, <1>4
    <3>6. Sliced(ExtendLast(slices, z), Spoken(speech, turn, z), z, total)
      BY <1>3, <2>2, <3>4, <3>5, SlicedExtend
    <3>7. Last(slices)[2] <= z \/ Last(slices)[2] - Last(slices)[1] <= MinSeg
      BY <1>3, <3>3
    <3>8. Begun(ExtendLast(slices, z), more)
      BY <1>s, <2>2, <3>7, BegunExtend
    <3> QED
      BY <1>1, <3>1, <3>6, <3>8
  <2>3. CASE ~(slices # <<>> /\ turn[2] - Last(slices)[1] <= MaxSeg)
    <3>1. PICK b \in Int : b = Earlier(total, a + k) /\ b <= total /\ b <= a + k /\ z <= b
      BY <1>3, <1>6 DEF Earlier
    <3>2. made = Append(slices, <<a, b>>)
      BY <1>1, <1>2, <1>6, <2>3, <3>1 DEF AddShort
    <3>3. SliceBefore(<<a, b>>, z, total)
      <4>1. <<a, b>>[1] = a /\ <<a, b>>[2] = b
        OBVIOUS
      <4> QED
        BY <1>2, <1>3, <3>1, <4>1 DEF SliceBefore
    <3>4. ASSUME NEW t \in Spoken(speech, turn, z)
          PROVE  t \in speech \/ (t \in Int /\ a <= t /\ t < b /\ t < z)
      BY <1>3, <1>4, <3>1
    <3>5. Sliced(Append(slices, <<a, b>>), Spoken(speech, turn, z), z, total)
      BY <1>3, <3>3, <3>4, SlicedAppend
    <3>6. \A h \in 1..Len(slices) : z - slices[h][1] > MaxSeg
      <4> SUFFICES ASSUME NEW h \in 1..Len(slices) PROVE z - slices[h][1] > MaxSeg
        OBVIOUS
      <4>1. PICK n \in Nat : n = Len(slices)
        BY <1>s, LenProperties
      <4>2. slices # <<>> /\ n # 0
        BY <4>1, EmptySeq
      <4>3. Last(slices) = slices[n] /\ n \in 1..n
        BY <1>s, <4>1, <4>2, LastIs
      <4>4. PICK x \in Int, y \in Int : x = slices[n][1] /\ y = slices[h][1]
        BY <1>s, <4>1, <4>3, ElementOfSeq DEF Points
      <4>5. z - x > M
        BY <1>1, <1>2, <2>3, <4>2, <4>3, <4>4
      <4>6. y <= x
        <5>1. CASE h = n
          BY <4>4, <5>1
        <5>2. CASE h # n
          <6>1. h \in 1..n - 1
            BY <4>1, <5>2
          <6>2. Follows(slices[h], slices[n])
            BY <4>1, <4>3, <6>1 DEF Sliced
          <6> QED
            BY <4>4, <6>2 DEF Follows
        <5> QED
          BY <5>1, <5>2
      <4>7. z - y > M
        BY <4>5, <4>6
      <4> QED
        BY <1>2, <4>4, <4>7
    <3>7. Starts(turn, <<a, b>>, slices, Len(slices))
      <4>1. <<a, b>>[1] = a
        OBVIOUS
      <4>2. turn[2] - turn[1] = MinSeg \/ turn[2] - turn[1] < MinSeg
        BY <1>1, <1>2, <1>6
      <4> QED
        BY <1>1, <3>6, <4>1, <4>2 DEF Starts
    <3>8. Begun(Append(slices, <<a, b>>), more)
      BY <1>s, <3>7, BegunAppend
    <3> QED
      BY <1>1, <3>2, <3>5, <3>8
  <2> QED
    BY <2>2, <2>3
<1>7. CASE ~(Length(turn) > MaxSeg) /\ z - a >= k /\ made = Append(slices, turn)
  <2>1. made = Append(slices, <<a, z>>)
    BY <1>1, <1>7
  <2>2. SliceBefore(<<a, z>>, z, total)
    <3>1. <<a, z>>[1] = a /\ <<a, z>>[2] = z
      OBVIOUS
    <3>2. z - a <= MaxSeg + Snap
      BY <1>1, <1>2, <1>7
    <3> QED
      BY <1>3, <3>1, <3>2 DEF SliceBefore
  <2>3. ASSUME NEW t \in Spoken(speech, turn, z)
        PROVE  t \in speech \/ (t \in Int /\ a <= t /\ t < z /\ t < z)
    BY <1>4
  <2>4. Sliced(Append(slices, <<a, z>>), Spoken(speech, turn, z), z, total)
    BY <1>3, <2>2, <2>3, SlicedAppend
  <2>5. ASSUME z - a <= MinSeg PROVE Starts(turn, <<a, z>>, slices, Len(slices))
    <3>1. <<a, z>>[1] = a
      OBVIOUS
    <3>2. z - a = MinSeg
      BY <1>2, <1>3, <1>7, <2>5
    <3> QED
      BY <1>1, <3>1, <3>2 DEF Starts
  <2>6. Begun(Append(slices, <<a, z>>), more)
    BY <1>3, <1>s, <2>5, BegunAppend
  <2> QED
    BY <1>1, <2>1, <2>4, <2>6
<1>8. CASE ~(Length(turn) > MaxSeg)
  <2>1. ~(Length(turn) <= 0)
    BY <1>1, <1>3
  <2>2. PICK short \in ReadsShort(turn) :
           made = IF short THEN AddShort(slices, turn, total) ELSE Append(slices, turn)
    BY <1>8, <2>1 DEF AddTurn
  <2>3. short \in BOOLEAN /\ (short => z - a <= k) /\ (~short => z - a >= k)
    <3>1. Length(turn) = z - a /\ k = MinSeg
      BY <1>1, <1>2
    <3> QED
      BY <2>2, <3>1, Readings, Zenon
  <2>4. CASE short
    BY <1>6, <2>2, <2>3, <2>4
  <2>5. CASE ~short
    BY <1>7, <1>8, <2>2, <2>3, <2>5
  <2> QED
    BY <2>4, <2>5
<1> QED
  BY <1>5, <1>8

LEMMA AddStays ==
    ASSUME NEW turn \in Points, NEW total \in Int, NEW slices \in Seq(Points)
    PROVE  AddTurn(slices, turn, total) \in SUBSET Seq(Points)
<1> SUFFICES ASSUME NEW made \in AddTurn(slices, turn, total) PROVE made \in Seq(Points)
  OBVIOUS
<1>1. PICK a \in Int, z \in Int : turn = <<a, z>> /\ turn[1] = a /\ turn[2] = z /\ Length(turn) = z - a
  BY DEF Points, Length
<1>2. PICK k \in Nat : k = MinSeg
  BY SegmentationAssumption DEF SegmentationAssumption
<1>3. PICK b \in Int : b = Earlier(total, a + k)
  BY DEF Earlier
<1>4. PICK p \in Points : p = <<a, b>>
  BY DEF Points
<1>5. Append(slices, turn) \in Seq(Points) /\ Append(slices, p) \in Seq(Points)
  BY AppendProperties
<1>6. ASSUME slices # <<>> PROVE ExtendLast(slices, z) \in Seq(Points)
  <2>1. PICK q \in Points : q = <<Last(slices)[1], z>>
    <3>1. Last(slices)[1] \in Int
      BY <1>6, LastIs DEF Points
    <3>2. <<Last(slices)[1], z>> \in Points
      BY <3>1 DEF Points
    <3> QED
      BY <3>2
  <2> QED
    BY <1>6, <2>1, LastReplaced DEF ExtendLast
<1>7. AddShort(slices, turn, total) \in Seq(Points)
  BY <1>1, <1>2, <1>3, <1>4, <1>5, <1>6 DEF AddShort
<1>8. CASE Length(turn) > MaxSeg
  <2>1. PICK g : CutBy(slices, turn, g)
    BY <1>8, CutInSteps
  <2>2. made \in CutLong(slices, turn)
    <3>1. Length(turn) > MaxSeg /\ ~(Length(turn) <= 0)
      BY <1>1, <1>8, SegmentationAssumption DEF SegmentationAssumption
    <3> QED
      BY <3>1 DEF AddTurn
  <2>3. PICK ways \in SUBSET Ways : ways = g[1..Pieces(turn)]
    BY <2>1 DEF CutBy
  <2>4. PICK way \in ways : made = way.slices
    BY <2>1, <2>2, <2>3 DEF CutBy
  <2> QED
    BY <2>3, <2>4 DEF Ways
<1>9. CASE ~(Length(turn) > MaxSeg)
  <2>1. made = slices \/ made = AddShort(slices, turn, total) \/ made = Append(slices, turn)
    <3>1. CASE Length(turn) <= 0
      BY <1>9, <3>1 DEF AddTurn
    <3>2. CASE ~(Length(turn) <= 0)
      <4>1. PICK short \in ReadsShort(turn) :
               made = IF short THEN AddShort(slices, turn, total) ELSE Append(slices, turn)
        BY <1>9, <3>2 DEF AddTurn
      <4> QED
        BY <4>1
    <3> QED
      BY <3>1, <3>2
  <2> QED
    BY <1>5, <1>7, <2>1
<1> QED
  BY <1>8, <1>9

-----------------------------------------------------------------------------
\* Turn after turn g reaches every way of cutting them all.
AddedBy(turns, total, g) ==
    /\ g[1..0] = {<<>>}
    /\ \A i \in 1..Len(turns) :
         g[1..i] = UNION {AddTurn(slices, turns[i], total) : slices \in g[1..i - 1]}
    /\ AllAdded(turns, total) = g[1..Len(turns)]

LEMMA AddedInSteps ==
    ASSUME NEW turns \in Seq(Points), NEW total \in Int
    PROVE  \E g : AddedBy(turns, total, g)
<1> DEFINE n == Len(turns)
           Made == SUBSET Seq(Points)
           first == {<<>>}
           Adding(ways, turn) == UNION {AddTurn(slices, turn, total) : slices \in ways}
           step == [x \in (1..n) \X Made |-> Adding(x[2], turns[x[1]])]
           fold(g) == [t \in SUBSET DOMAIN turns |->
                         IF t = {} THEN first ELSE Adding(g[t \ {Max(t)}], turns[Max(t)])]
           chosen == CHOOSE g : g = fold(g)
<1>1. n \in Nat /\ DOMAIN turns = 1..n
  BY LenProperties
<1>2. ASSUME NEW k \in 1..n, NEW t \in Made PROVE Adding(t, turns[k]) \in Made
  <2>1. turns[k] \in Points
    BY ElementOfSeq
  <2> QED
    BY <2>1, AddStays
<1>3. step \in [(1..n) \X Made -> Made]
  <2>1. \A x \in (1..n) \X Made : Adding(x[2], turns[x[1]]) \in Made
    <3> HIDE DEF n, Made, Adding
    <3> QED
      BY <1>2
  <2> QED
    BY <2>1
<1>4. ASSUME NEW t \in SUBSET (1..n)
      PROVE  t # {} => Max(t) \in 1..n /\ t \ {Max(t)} \in SUBSET (1..n)
  <2> HIDE DEF n
  <2> QED
    BY <1>1, MaxOf
<1>5. first \in Made
  OBVIOUS
<1>6. FoldLeft(Adding, first, turns) = chosen[DOMAIN turns]
  BY DEF FoldLeft, MapThenFoldSet
<1> HIDE DEF Made, Adding, first
<1>7. chosen = fold(chosen)
  <2>1. PICK g \in [SUBSET (1..n) -> Made] : FoldsBy(g, n, first, step)
    <3> HIDE DEF step, n
    <3> QED
      BY <1>1, <1>3, <1>5, FoldExists
  <2>2. ASSUME NEW t \in SUBSET (1..n)
        PROVE  g[t] = IF t = {} THEN first ELSE Adding(g[t \ {Max(t)}], turns[Max(t)])
    <3>1. g[t] = IF t = {} THEN first ELSE step[<<Max(t), g[t \ {Max(t)}]>>]
      BY <2>1 DEF FoldsBy
    <3>2. CASE t = {}
      BY <3>1, <3>2
    <3>3. CASE t # {}
      <4>1. Max(t) \in 1..n /\ g[t \ {Max(t)}] \in Made
        BY <2>1, <1>4, <3>3
      <4> HIDE DEF n
      <4> QED
        BY <3>1, <3>3, <4>1
    <3> QED
      BY <3>2, <3>3
  <2>3. g = fold(g)
    <3>1. g = [t \in SUBSET (1..n) |-> g[t]]
      BY <2>1
    <3> HIDE DEF n
    <3> QED
      BY <1>1, <2>2, <3>1
  <2> QED
    BY <2>3, Zenon
<1> HIDE DEF chosen
<1>8. ASSUME NEW t \in SUBSET (1..n)
      PROVE  chosen[t] = IF t = {} THEN first ELSE Adding(chosen[t \ {Max(t)}], turns[Max(t)])
  <2> DEFINE f == fold(chosen)
  <2>1. f[t] = IF t = {} THEN first ELSE Adding(chosen[t \ {Max(t)}], turns[Max(t)])
    BY <1>1
  <2> HIDE DEF f
  <2>2. chosen = f
    BY <1>7 DEF f
  <2> QED
    BY <2>1, <2>2
<1>9. FoldsWithin(chosen, n, Made, first, step)
  <2>1. {} \in SUBSET (1..n)
    OBVIOUS
  <2>2. chosen[{}] = first
    BY <1>8, <2>1
  <2>3. ASSUME NEW t \in SUBSET (1..n), t # {}, chosen[t \ {Max(t)}] \in Made
        PROVE  chosen[t] = step[<<Max(t), chosen[t \ {Max(t)}]>>]
    <3>1. Max(t) \in 1..n
      BY <1>4, <2>3
    <3> HIDE DEF n
    <3> QED
      BY <1>8, <2>3, <3>1
  <2> QED
    BY <2>2, <2>3 DEF FoldsWithin
<1>10. StepByStep(chosen, n, Made, first, step)
  <2> HIDE DEF step, n
  <2> QED
    BY <1>1, <1>3, <1>5, <1>9, FoldIsARun
<1>11. ASSUME NEW i \in 1..n PROVE chosen[1..i] = Adding(chosen[1..i - 1], turns[i])
  <2>1. i - 1 \in 0..n
    BY <1>1
  <2>2. chosen[1..i] = step[<<i, chosen[1..i - 1]>>] /\ chosen[1..i - 1] \in Made
    BY <1>10, <2>1 DEF StepByStep
  <2>3. step[<<i, chosen[1..i - 1]>>] = Adding(chosen[1..i - 1], turns[i])
    <3> HIDE DEF n
    <3> QED
      BY <2>2
  <2> QED
    BY <2>2, <2>3
<1>12. chosen[1..0] = first
  BY <1>1, <1>10 DEF StepByStep
<1>13. AllAdded(turns, total) = chosen[1..n]
  <2>1. AllAdded(turns, total) = FoldLeft(Adding, first, turns)
    BY DEF AllAdded, Adding, first
  <2> QED
    BY <1>1, <1>6, <2>1
<1> QED
  BY <1>11, <1>12, <1>13 DEF AddedBy, Adding, first

\* The moments the first i turns speak in, and when the last of them ends.
SpokenIn(m, i) == {t \in Int : \E j \in 1..i : Within(t, m[j])}
EndOf(m, i)    == IF i = 0 THEN 0 ELSE m[i][2]
Heads(m, i)    == {m[j] : j \in 1..i}

LEMMA AddedFacts ==
    ASSUME NEW turns, NEW total \in Nat, NEW m, NEW u, MergedOf(m, turns, u, total),
           NEW slices \in AllAdded(m, total)
    PROVE  Sliced(slices, SpokenIn(m, Len(m)), EndOf(m, Len(m)), total) /\ Begun(slices, Heads(m, Len(m)))
<1> DEFINE n == Len(m)
           good(g) == {i \in Nat : i <= n =>
                          \A w \in g[1..i] : /\ Sliced(w, SpokenIn(m, i), EndOf(m, i), total)
                                             /\ Begun(w, Heads(m, i))}
<1>1. n \in Nat /\ m \in Seq(Points)
  BY LenProperties DEF MergedOf
<1>2. PICK g : AddedBy(m, total, g)
  BY <1>1, AddedInSteps
<1>3. 0 \in good(g)
  <2>1. Sliced(<<>>, SpokenIn(m, 0), 0, total) /\ Begun(<<>>, Heads(m, 0))
    <3>1. <<>> \in Seq(Points) /\ Len(<<>>) = 0
      BY EmptySeq
    <3>2. SpokenIn(m, 0) = {}
      BY DEF SpokenIn
    <3> QED
      BY <3>1, <3>2 DEF Sliced, Begun
  <2>2. EndOf(m, 0) = 0
    BY DEF EndOf
  <2>3. \A w \in g[1..0] : w = <<>>
    BY <1>2 DEF AddedBy
  <2> QED
    BY <2>1, <2>2, <2>3
<1>4. ASSUME NEW i \in Nat, i \in good(g) PROVE i + 1 \in good(g)
  <2> SUFFICES ASSUME i + 1 <= n, NEW w \in g[1..i + 1]
               PROVE  Sliced(w, SpokenIn(m, i + 1), EndOf(m, i + 1), total) /\ Begun(w, Heads(m, i + 1))
    OBVIOUS
  <2>1. PICK j \in 1..n : j = i + 1 /\ j - 1 = i /\ i <= n
    <3>1. i + 1 \in 1..n /\ (i + 1) - 1 = i /\ i <= n
      BY <1>1
    <3> QED
      BY <3>1
  <2>2. g[1..j] = UNION {AddTurn(v, m[j], total) : v \in g[1..j - 1]}
    BY <1>2, <2>1 DEF AddedBy
  <2>3. PICK before : before = g[1..i]
    OBVIOUS
  <2>4. w \in UNION {AddTurn(v, m[j], total) : v \in before}
    BY <2>1, <2>2, <2>3
  <2>5. PICK v \in before : w \in AddTurn(v, m[j], total)
    BY <2>4
  <2>6. Sliced(v, SpokenIn(m, i), EndOf(m, i), total) /\ Begun(v, Heads(m, i))
    BY <1>4, <2>1, <2>3, <2>5
  <2>7. PICK turn \in Points : turn = m[j]
    BY <1>1, <2>1, ElementOfSeq
  <2>8. 0 <= turn[1] /\ turn[1] < turn[2] /\ turn[2] <= total /\ turn[1] \in Int /\ turn[2] \in Int
    BY <2>7 DEF MergedOf, Points
  <2>9. EndOf(m, i) \in Int /\ EndOf(m, i) <= turn[1]
    <3>1. CASE i = 0
      BY <2>8, <3>1 DEF EndOf
    <3>2. CASE i # 0
      <4>1. i \in 1..n /\ j \in 2..n
        BY <2>1, <3>2
      <4>2. PICK s \in Points : s = m[i]
        BY <1>1, <4>1, ElementOfSeq
      <4>3. s[2] + Gap < turn[1]
        BY <2>1, <2>7, <4>1, <4>2 DEF MergedOf
      <4>4. s[2] \in Int /\ Gap \in Nat
        BY SegmentationAssumption DEF Points, SegmentationAssumption
      <4>5. s[2] <= turn[1]
        BY <2>8, <4>3, <4>4
      <4> QED
        BY <3>2, <4>2, <4>4, <4>5 DEF EndOf
    <3> QED
      BY <3>1, <3>2
  <2>13. Heads(m, j) = Heads(m, i) \cup {turn}
    <3>1. \A h : h \in 1..j <=> h \in 1..i \/ h = j
      BY <2>1
    <3> QED
      BY <2>7, <3>1 DEF Heads
  <2>10. Sliced(w, Spoken(SpokenIn(m, i), turn, turn[2]), turn[2], total) /\ Begun(w, Heads(m, j))
    <3>1. PICK e \in Int : e = EndOf(m, i)
      BY <2>9
    <3>2. PICK speech : speech = SpokenIn(m, i)
      OBVIOUS
    <3>3. w \in AddTurn(v, turn, total) /\ total \in Int
      BY <2>5, <2>7
    <3>4. Sliced(w, Spoken(speech, turn, turn[2]), turn[2], total) /\ Begun(w, Heads(m, j))
      BY <2>6, <2>8, <2>9, <2>13, <3>1, <3>2, <3>3, AddKeeps
    <3> QED
      BY <3>2, <3>4
  <2>11. Spoken(SpokenIn(m, i), turn, turn[2]) = SpokenIn(m, j)
    <3>1. \A h : h \in 1..j <=> h \in 1..i \/ h = j
      BY <2>1
    <3> QED
      BY <2>7, <3>1 DEF Spoken, SpokenIn, Within
  <2>12. EndOf(m, j) = turn[2]
    BY <2>1, <2>7 DEF EndOf
  <2> QED
    BY <2>1, <2>10, <2>11, <2>12
<1>5. Nat \subseteq good(g)
  <2> HIDE DEF good
  <2> QED
    BY <1>3, <1>4, EveryNumber
<1>6. slices \in g[1..n]
  BY <1>2 DEF AddedBy
<1> QED
  BY <1>1, <1>5, <1>6

-----------------------------------------------------------------------------
LEMMA BoundedIsPoint ==
    ASSUME NEW s \in Points, NEW total \in Int
    PROVE  Bounded(s, total) \in Points
<1>1. PICK a \in Int, b \in Int : s = <<a, b>> /\ s[1] = a /\ s[2] = b
  BY DEF Points
<1>2. PICK k \in Nat : k = MinSeg
  BY SegmentationAssumption DEF SegmentationAssumption
<1>3. PICK c \in Int : c = Earlier(total, Later(b, a + k))
  BY DEF Earlier, Later
<1> QED
  BY <1>1, <1>2, <1>3 DEF Bounded, Points

\* Slice after slice g reaches every way the final pass may go.
CleanedBy(slices, total, g) ==
    /\ g[1..0] = {<<>>}
    /\ \A i \in 1..Len(slices) : g[1..i] = KeepOnce(g[1..i - 1], slices[i], total)
    /\ Clean(slices, total) = g[1..Len(slices)]

LEMMA KeepStays ==
    ASSUME NEW slice \in Points, NEW total \in Int, NEW ways \in SUBSET Seq(Points)
    PROVE  KeepOnce(ways, slice, total) \in SUBSET Seq(Points)
<1>1. PICK p \in Points : p = Bounded(slice, total)
  BY BoundedIsPoint
<1> SUFFICES ASSUME NEW kept \in ways, NEW short
             PROVE  (IF short THEN kept ELSE Append(kept, p)) \in Seq(Points)
  BY <1>1 DEF KeepOnce
<1>2. Append(kept, p) \in Seq(Points)
  BY AppendProperties
<1> QED
  BY <1>2

LEMMA CleanedInSteps ==
    ASSUME NEW slices \in Seq(Points), NEW total \in Int
    PROVE  \E g : CleanedBy(slices, total, g)
<1> DEFINE n == Len(slices)
           Made == SUBSET Seq(Points)
           first == {<<>>}
           Keeping(ways, slice) == KeepOnce(ways, slice, total)
           step == [x \in (1..n) \X Made |-> Keeping(x[2], slices[x[1]])]
           fold(g) == [t \in SUBSET DOMAIN slices |->
                         IF t = {} THEN first ELSE Keeping(g[t \ {Max(t)}], slices[Max(t)])]
           chosen == CHOOSE g : g = fold(g)
<1>1. n \in Nat /\ DOMAIN slices = 1..n
  BY LenProperties
<1>2. ASSUME NEW k \in 1..n, NEW t \in Made PROVE Keeping(t, slices[k]) \in Made
  <2>1. slices[k] \in Points
    BY ElementOfSeq
  <2> QED
    BY <2>1, KeepStays
<1>3. step \in [(1..n) \X Made -> Made]
  <2>1. \A x \in (1..n) \X Made : Keeping(x[2], slices[x[1]]) \in Made
    <3> HIDE DEF n, Made, Keeping
    <3> QED
      BY <1>2
  <2> QED
    BY <2>1
<1>4. ASSUME NEW t \in SUBSET (1..n)
      PROVE  t # {} => Max(t) \in 1..n /\ t \ {Max(t)} \in SUBSET (1..n)
  <2> HIDE DEF n
  <2> QED
    BY <1>1, MaxOf
<1>5. first \in Made
  OBVIOUS
<1>6. FoldLeft(Keeping, first, slices) = chosen[DOMAIN slices]
  BY DEF FoldLeft, MapThenFoldSet
<1> HIDE DEF Made, Keeping, first
<1>7. chosen = fold(chosen)
  <2>1. PICK g \in [SUBSET (1..n) -> Made] : FoldsBy(g, n, first, step)
    <3> HIDE DEF step, n
    <3> QED
      BY <1>1, <1>3, <1>5, FoldExists
  <2>2. ASSUME NEW t \in SUBSET (1..n)
        PROVE  g[t] = IF t = {} THEN first ELSE Keeping(g[t \ {Max(t)}], slices[Max(t)])
    <3>1. g[t] = IF t = {} THEN first ELSE step[<<Max(t), g[t \ {Max(t)}]>>]
      BY <2>1 DEF FoldsBy
    <3>2. CASE t = {}
      BY <3>1, <3>2
    <3>3. CASE t # {}
      <4>1. Max(t) \in 1..n /\ g[t \ {Max(t)}] \in Made
        BY <2>1, <1>4, <3>3
      <4> HIDE DEF n
      <4> QED
        BY <3>1, <3>3, <4>1
    <3> QED
      BY <3>2, <3>3
  <2>3. g = fold(g)
    <3>1. g = [t \in SUBSET (1..n) |-> g[t]]
      BY <2>1
    <3> HIDE DEF n
    <3> QED
      BY <1>1, <2>2, <3>1
  <2> QED
    BY <2>3, Zenon
<1> HIDE DEF chosen
<1>8. ASSUME NEW t \in SUBSET (1..n)
      PROVE  chosen[t] = IF t = {} THEN first ELSE Keeping(chosen[t \ {Max(t)}], slices[Max(t)])
  <2> DEFINE f == fold(chosen)
  <2>1. f[t] = IF t = {} THEN first ELSE Keeping(chosen[t \ {Max(t)}], slices[Max(t)])
    BY <1>1
  <2> HIDE DEF f
  <2>2. chosen = f
    BY <1>7 DEF f
  <2> QED
    BY <2>1, <2>2
<1>9. FoldsWithin(chosen, n, Made, first, step)
  <2>1. {} \in SUBSET (1..n)
    OBVIOUS
  <2>2. chosen[{}] = first
    BY <1>8, <2>1
  <2>3. ASSUME NEW t \in SUBSET (1..n), t # {}, chosen[t \ {Max(t)}] \in Made
        PROVE  chosen[t] = step[<<Max(t), chosen[t \ {Max(t)}]>>]
    <3>1. Max(t) \in 1..n
      BY <1>4, <2>3
    <3> HIDE DEF n
    <3> QED
      BY <1>8, <2>3, <3>1
  <2> QED
    BY <2>2, <2>3 DEF FoldsWithin
<1>10. StepByStep(chosen, n, Made, first, step)
  <2> HIDE DEF step, n
  <2> QED
    BY <1>1, <1>3, <1>5, <1>9, FoldIsARun
<1>11. ASSUME NEW i \in 1..n PROVE chosen[1..i] = Keeping(chosen[1..i - 1], slices[i])
  <2>1. i - 1 \in 0..n
    BY <1>1
  <2>2. chosen[1..i] = step[<<i, chosen[1..i - 1]>>] /\ chosen[1..i - 1] \in Made
    BY <1>10, <2>1 DEF StepByStep
  <2>3. step[<<i, chosen[1..i - 1]>>] = Keeping(chosen[1..i - 1], slices[i])
    <3> HIDE DEF n
    <3> QED
      BY <2>2
  <2> QED
    BY <2>2, <2>3
<1>12. chosen[1..0] = first
  BY <1>1, <1>10 DEF StepByStep
<1>13. Clean(slices, total) = chosen[1..n]
  <2>1. Clean(slices, total) = FoldLeft(Keeping, first, slices)
    BY DEF Clean, Keeping, first
  <2> QED
    BY <1>1, <1>6, <2>1
<1> QED
  BY <1>11, <1>12, <1>13 DEF CleanedBy, Keeping, first

\* What the final pass makes of a slice that another follows.
LEMMA BoundedFacts ==
    ASSUME NEW s \in Points, NEW total \in Int, SliceBefore(s, total, total)
    PROVE  /\ Bounded(s, total)[1] = s[1] /\ s[2] <= Bounded(s, total)[2]
           /\ Bounded(s, total)[2] <= total
           /\ Length(Bounded(s, total)) <= MaxSeg + Snap
           /\ Length(Bounded(s, total)) < MinSeg => s[1] > total - MinSeg
           /\ Length(Bounded(s, total)) >= MinSeg =>
                \A r \in Points : Follows(s, r) =>
                    Bounded(s, total)[2] <= r[1] \/ Length(Bounded(s, total)) = MinSeg
<1>1. PICK a \in Int, b \in Int : s = <<a, b>> /\ s[1] = a /\ s[2] = b
  BY DEF Points
<1>2. PICK k \in Nat, M \in Nat, S \in Nat : k = MinSeg /\ M = MaxSeg /\ S = Snap /\ k > 0 /\ k <= M
  <2>1. /\ MinSeg \in Nat /\ MaxSeg \in Nat /\ Snap \in Nat /\ MinSeg > 0
        /\ 2 * (MinSeg + 2 * Snap) < MaxSeg
    BY SegmentationAssumption DEF SegmentationAssumption
  <2>2. MinSeg <= MaxSeg
    BY <2>1
  <2> QED
    BY <2>1, <2>2
<1>3. PICK c \in Int : c = Earlier(total, Later(b, a + k))
  BY DEF Earlier, Later
<1>4. PICK p \in Points : p = Bounded(s, total) /\ p[1] = a /\ p[2] = c /\ Length(p) = c - a
  <2>1. Bounded(s, total) = <<a, c>>
    BY <1>1, <1>2, <1>3 DEF Bounded
  <2>2. <<a, c>> \in Points /\ <<a, c>>[1] = a /\ <<a, c>>[2] = c /\ Length(<<a, c>>) = c - a
    BY DEF Points, Length
  <2> QED
    BY <2>1, <2>2
<1>5. 0 <= a /\ a < b /\ b <= total /\ b - a <= M + S
  BY <1>1, <1>2 DEF SliceBefore
<1>6. b <= c /\ c <= total /\ c - a <= M + S /\ (c - a < k => a > total - k)
  BY <1>2, <1>3, <1>5 DEF Earlier, Later
<1>7. ASSUME c - a >= k, NEW r \in Points, Follows(s, r)
      PROVE  c <= r[1] \/ c - a = k
  <2>1. PICK x \in Int : x = r[1]
    BY DEF Points
  <2>2. b <= x \/ b - a <= k
    BY <1>1, <1>2, <1>7, <2>1 DEF Follows
  <2> QED
    BY <1>2, <1>3, <1>5, <1>7, <2>1, <2>2 DEF Earlier, Later
<1> QED
  BY <1>1, <1>2, <1>4, <1>6, <1>7

\* What the final pass keeps of the first i slices.
KeptOf(c, w, i, total) ==
    /\ c \in Seq(Points)
    /\ \A k \in 1..Len(c) : \E h \in 1..i : c[k] = Bounded(w[h], total)
    /\ \A k \in 1..Len(c) : MinSeg <= Length(c[k])
    /\ \A k \in 2..Len(c) : /\ c[k - 1][1] < c[k][1]
                            /\ c[k - 1][2] <= c[k][1] \/ Length(c[k - 1]) = MinSeg
    /\ \A h \in 1..i : \A t \in Int : Within(t, w[h]) =>
         t > total - MinSeg \/ w[h][2] - w[h][1] <= MinSeg \/ \E k \in 1..Len(c) : Within(t, c[k])

LEMMA KeepKeeps ==
    ASSUME NEW total \in Int, NEW w, NEW speech, Sliced(w, speech, total, total),
           NEW i \in Nat, i < Len(w), NEW c, KeptOf(c, w, i, total),
           NEW short \in ReadsShort(Bounded(w[i + 1], total))
    PROVE  KeptOf(IF short THEN c ELSE Append(c, Bounded(w[i + 1], total)), w, i + 1, total)
<1>1. PICK n \in Nat : n = Len(c)
  BY LenProperties DEF KeptOf
<1>2. PICK u \in Nat : u = Len(w)
  BY LenProperties DEF Sliced
<1>3. PICK j \in 1..u : j = i + 1
  BY <1>2
<1>4. PICK s \in Points : s = w[j] /\ SliceBefore(s, total, total)
  BY <1>2, ElementOfSeq DEF Sliced
<1>5. PICK p \in Points : p = Bounded(s, total)
  BY <1>4, BoundedIsPoint
<1>6. PICK a \in Int, b \in Int, x \in Int, y \in Int :
          s[1] = a /\ s[2] = b /\ p[1] = x /\ p[2] = y /\ Length(p) = y - x
  BY DEF Points, Length
<1>7. x = a /\ b <= y /\ (y - x < MinSeg => a > total - MinSeg)
  BY <1>4, <1>5, <1>6, BoundedFacts
<1>8. MinSeg \in Nat
  BY SegmentationAssumption DEF SegmentationAssumption
<1>9. \A h : h \in 1..j <=> h \in 1..i \/ h = j
  BY <1>3
<1>12. short \in BOOLEAN /\ (short => y - x <= MinSeg) /\ (~short => y - x >= MinSeg)
  <2>1. short \in ReadsShort(p)
    BY <1>3, <1>4, <1>5
  <2> QED
    BY <1>6, <2>1, Readings
<1>10. CASE ~short
  <2>1. PICK q : q = Append(c, p)
    OBVIOUS
  <2>2. /\ q \in Seq(Points) /\ Len(q) = n + 1 /\ q[n + 1] = p
        /\ \A k \in 1..n : q[k] = c[k]
    BY <1>1, <2>1, AppendProperties DEF KeptOf
  <2>3. ASSUME NEW k \in 1..n + 1
        PROVE  MinSeg <= Length(q[k]) /\ \E h \in 1..j : q[k] = Bounded(w[h], total)
    <3>1. CASE k = n + 1
      BY <1>4, <1>5, <1>6, <1>9, <1>10, <1>12, <2>2, <3>1
    <3>2. CASE k # n + 1
      <4>1. k \in 1..n /\ q[k] = c[k]
        BY <2>2, <3>2
      <4> QED
        BY <1>1, <1>9, <4>1 DEF KeptOf
    <3> QED
      BY <3>1, <3>2
  <2>4. ASSUME NEW k \in 2..n + 1
        PROVE  q[k - 1][1] < q[k][1] /\ (q[k - 1][2] <= q[k][1] \/ Length(q[k - 1]) = MinSeg)
    <3>1. k - 1 \in 1..n /\ q[k - 1] = c[k - 1]
      BY <2>2
    <3>2. CASE k = n + 1
      <4>1. PICK h \in 1..i : c[k - 1] = Bounded(w[h], total)
        BY <1>1, <3>1 DEF KeptOf
      <4>2. h \in 1..u /\ h \in 1..j - 1
        BY <1>3
      <4>3. PICK r \in Points : r = w[h] /\ SliceBefore(r, total, total)
        BY <1>2, <4>2, ElementOfSeq DEF Sliced
      <4>4. Follows(r, s)
        BY <1>2, <1>4, <4>2, <4>3 DEF Sliced
      <4>5. Length(Bounded(r, total)) >= MinSeg
        <5>1. MinSeg <= Length(c[k - 1])
          BY <1>1, <3>1 DEF KeptOf
        <5>2. PICK v \in Points : v = Bounded(r, total)
          BY <4>3, BoundedIsPoint
        <5>3. Length(v) \in Int
          BY DEF Points, Length
        <5> QED
          BY <1>8, <4>1, <4>3, <5>1, <5>2, <5>3
      <4>6. Bounded(r, total)[1] = r[1] /\ r[1] < s[1]
        BY <4>3, <4>4, BoundedFacts DEF Follows
      <4>7. Bounded(r, total)[2] <= s[1] \/ Length(Bounded(r, total)) = MinSeg
        BY <4>3, <4>4, <4>5, BoundedFacts
      <4>8. q[k][1] = s[1] /\ q[k - 1] = Bounded(r, total)
        BY <1>6, <1>7, <2>2, <3>1, <3>2, <4>1, <4>3
      <4> QED
        BY <4>6, <4>7, <4>8
    <3>3. CASE k # n + 1
      <4>1. k \in 2..n /\ q[k] = c[k]
        BY <2>2, <3>3
      <4> QED
        BY <1>1, <3>1, <4>1 DEF KeptOf
    <3> QED
      BY <3>2, <3>3
  <2>5. ASSUME NEW h \in 1..j, NEW t \in Int, Within(t, w[h])
        PROVE  t > total - MinSeg \/ w[h][2] - w[h][1] <= MinSeg \/ \E k \in 1..n + 1 : Within(t, q[k])
    <3>1. CASE h = j
      <4>1. Within(t, p)
        BY <1>4, <1>6, <1>7, <2>5, <3>1 DEF Within
      <4>2. n + 1 \in 1..n + 1
        OBVIOUS
      <4> QED
        BY <2>2, <4>1, <4>2
    <3>2. CASE h # j
      <4>1. h \in 1..i
        BY <1>9, <3>2
      <4>2. CASE t > total - MinSeg \/ w[h][2] - w[h][1] <= MinSeg
        BY <4>2
      <4>3. CASE ~(t > total - MinSeg \/ w[h][2] - w[h][1] <= MinSeg)
        <5>1. PICK k \in 1..n : Within(t, c[k])
          BY <1>1, <2>5, <4>1, <4>3 DEF KeptOf
        <5>2. k \in 1..n + 1 /\ q[k] = c[k]
          BY <2>2
        <5> QED
          BY <5>1, <5>2
      <4> QED
        BY <4>2, <4>3
    <3> QED
      BY <3>1, <3>2
  <2>6. KeptOf(q, w, j, total)
    BY <2>2, <2>3, <2>4, <2>5 DEF KeptOf
  <2> QED
    BY <1>3, <1>4, <1>5, <1>10, <2>1, <2>6
<1>11. CASE short
  <2>2. ASSUME NEW h \in 1..j, NEW t \in Int, Within(t, w[h])
        PROVE  t > total - MinSeg \/ w[h][2] - w[h][1] <= MinSeg \/ \E k \in 1..n : Within(t, c[k])
    <3>1. CASE h = j
      <4>1. b - a <= MinSeg
        BY <1>7, <1>8, <1>11, <1>12
      <4> QED
        BY <1>4, <1>6, <3>1, <4>1
    <3>2. CASE h # j
      BY <1>1, <1>9, <2>2, <3>2 DEF KeptOf
    <3> QED
      BY <3>1, <3>2
  <2>3. \A k \in 1..n : \E h \in 1..j : c[k] = Bounded(w[h], total)
    BY <1>1, <1>9 DEF KeptOf
  <2>4. KeptOf(c, w, j, total)
    BY <1>1, <2>2, <2>3 DEF KeptOf
  <2> QED
    BY <1>3, <1>11, <2>4
<1> QED
  BY <1>10, <1>11, <1>12

LEMMA CleanFacts ==
    ASSUME NEW total \in Int, NEW w, NEW speech, Sliced(w, speech, total, total),
           NEW slices \in Clean(w, total)
    PROVE  KeptOf(slices, w, Len(w), total)
<1> DEFINE n == Len(w)
           good(g) == {i \in Nat : i <= n => \A c \in g[1..i] : KeptOf(c, w, i, total)}
<1>1. n \in Nat /\ w \in Seq(Points)
  BY LenProperties DEF Sliced
<1>2. PICK g : CleanedBy(w, total, g)
  BY <1>1, CleanedInSteps
<1>3. 0 \in good(g)
  <2>1. <<>> \in Seq(Points) /\ Len(<<>>) = 0
    BY EmptySeq
  <2>2. KeptOf(<<>>, w, 0, total)
    BY <2>1 DEF KeptOf
  <2> QED
    BY <1>2, <2>2 DEF CleanedBy
<1>4. ASSUME NEW i \in Nat, i \in good(g) PROVE i + 1 \in good(g)
  <2> SUFFICES ASSUME i + 1 <= n, NEW kept \in g[1..i + 1] PROVE KeptOf(kept, w, i + 1, total)
    OBVIOUS
  <2>1. PICK j \in 1..n : j = i + 1 /\ j - 1 = i /\ i < n
    <3>1. i + 1 \in 1..n /\ (i + 1) - 1 = i /\ i < n
      BY <1>1
    <3> QED
      BY <3>1
  <2>2. g[1..j] = KeepOnce(g[1..j - 1], w[j], total)
    BY <1>2, <2>1 DEF CleanedBy
  <2>3. PICK ways : ways = g[1..i]
    OBVIOUS
  <2>4. kept \in KeepOnce(ways, w[j], total)
    BY <2>1, <2>2, <2>3
  <2>5. PICK c \in ways, short \in ReadsShort(Bounded(w[j], total)) :
           kept = IF short THEN c ELSE Append(c, Bounded(w[j], total))
    BY <2>4 DEF KeepOnce
  <2>6. KeptOf(c, w, i, total)
    BY <1>4, <2>1, <2>3, <2>5
  <2>7. KeptOf(IF short THEN c ELSE Append(c, Bounded(w[i + 1], total)), w, i + 1, total)
    BY <2>1, <2>5, <2>6, KeepKeeps
  <2> QED
    BY <2>1, <2>5, <2>7
<1>5. Nat \subseteq good(g)
  <2> HIDE DEF good
  <2> QED
    BY <1>3, <1>4, EveryNumber
<1>6. slices \in g[1..n]
  BY <1>2 DEF CleanedBy
<1> QED
  BY <1>1, <1>5, <1>6

\* Whatever turns the detector answers for a recording of any length, every way of cutting them
\* is sound, however the floats compare at the minimum: no segment is shorter than the minimum
\* or longer than the maximum and what a cut moves, and no speech is lost but that of a last turn
\* too near the end and the first moments of a turn whose slice is the bare minimum.  This rests
\* on the two bounds being far enough apart, as those of silero_vad.py are.
THEOREM CutsTheorem ==
    ASSUME NEW turns, NEW total \in Nat, Detected(turns, total),
           NEW slices \in Slices(turns, total)
    PROVE  CutsAreSound(turns, total, slices)
<1> DEFINE found == IF turns = <<>> /\ total >= MinSeg THEN << <<0, total>> >> ELSE turns
<1>1. PICK k \in Nat, M \in Nat, S \in Nat : k = MinSeg /\ M = MaxSeg /\ S = Snap /\ k > 0 /\ k <= M
  <2>1. /\ MinSeg \in Nat /\ MaxSeg \in Nat /\ Snap \in Nat /\ MinSeg > 0
        /\ 2 * (MinSeg + 2 * Snap) < MaxSeg
    BY SegmentationAssumption DEF SegmentationAssumption
  <2>2. MinSeg <= MaxSeg
    BY <2>1
  <2> QED
    BY <2>1, <2>2
<1>2. Detected(found, total)
  <2>1. CASE turns = <<>> /\ total >= MinSeg
    <3>1. PICK p \in Points : p = <<0, total>> /\ p[1] = 0 /\ p[2] = total
      <4>1. <<0, total>> \in Points /\ <<0, total>>[1] = 0 /\ <<0, total>>[2] = total
        BY DEF Points
      <4> QED
        BY <4>1
    <3>2. PICK q \in Seq(Points) : q = <<p>> /\ Len(q) = 1 /\ q[1] = p
      <4>1. <<p>> \in Seq(Points) /\ Len(<<p>>) = 1 /\ <<p>>[1] = p
        OBVIOUS
      <4> QED
        BY <4>1
    <3>3. found = q
      BY <2>1, <3>1, <3>2
    <3>4. Detected(q, total)
      <4>1. total > 0
        BY <1>1, <2>1
      <4>2. \A j \in 1..1 : j = 1
        OBVIOUS
      <4>3. 2..1 = {}
        OBVIOUS
      <4> QED
        BY <3>1, <3>2, <4>1, <4>2, <4>3 DEF Detected
    <3> QED
      BY <3>3, <3>4
  <2>2. CASE ~(turns = <<>> /\ total >= MinSeg)
    BY <2>2
  <2> QED
    BY <2>1, <2>2
<1>3. PICK m : m = MergeNear(found) /\ MergedOf(m, found, Len(found), total)
  BY <1>2, MergeFacts
<1>4. PICK w \in AllAdded(m, total) : slices \in Clean(w, total)
  BY <1>3 DEF Slices
<1> HIDE DEF found
<1>5. PICK n \in Nat : n = Len(m) /\ m \in Seq(Points)
  BY <1>3, LenProperties DEF MergedOf
<1>6. Sliced(w, SpokenIn(m, n), EndOf(m, n), total) /\ Begun(w, Heads(m, n))
  BY <1>3, <1>5, AddedFacts
<1>7. EndOf(m, n) \in Int /\ EndOf(m, n) <= total
  <2>1. CASE n = 0
    BY <2>1 DEF EndOf
  <2>2. CASE n # 0
    <3>1. n \in 1..n
      BY <2>2
    <3>2. PICK s \in Points : s = m[n]
      BY <1>5, <3>1, ElementOfSeq
    <3>3. s[2] \in Int /\ s[2] <= total
      BY <1>3, <1>5, <3>1, <3>2 DEF MergedOf, Points
    <3> QED
      BY <2>2, <3>2, <3>3 DEF EndOf
  <2> QED
    BY <2>1, <2>2
<1>8. Sliced(w, SpokenIn(m, n), total, total)
  BY <1>6, <1>7, SlicedLater
<1>9. PICK u \in Nat : u = Len(w) /\ w \in Seq(Points)
  BY <1>8, LenProperties DEF Sliced
<1>10. KeptOf(slices, w, u, total)
  BY <1>4, <1>8, <1>9, CleanFacts
<1>11. PICK v \in Nat : v = Len(slices) /\ DOMAIN slices = 1..v
  BY <1>10, LenProperties DEF KeptOf
<1>12. ASSUME NEW i \in 1..v
       PROVE  /\ 0 <= slices[i][1] /\ slices[i][2] <= total
              /\ MinSeg <= Length(slices[i]) /\ Length(slices[i]) <= MaxSeg + Snap
              /\ i > 1 => /\ slices[i - 1][1] < slices[i][1]
                          /\ slices[i - 1][2] > slices[i][1] => Length(slices[i - 1]) = MinSeg
  <2>1. PICK h \in 1..u : slices[i] = Bounded(w[h], total)
    BY <1>10, <1>11 DEF KeptOf
  <2>2. PICK s \in Points : s = w[h] /\ SliceBefore(s, total, total)
    BY <1>8, <1>9, <2>1, ElementOfSeq DEF Sliced
  <2>3. 0 <= slices[i][1] /\ slices[i][2] <= total /\ Length(slices[i]) <= MaxSeg + Snap
    BY <2>1, <2>2, BoundedFacts DEF SliceBefore
  <2>4. MinSeg <= Length(slices[i])
    BY <1>10, <1>11 DEF KeptOf
  <2>5. ASSUME i > 1
        PROVE  /\ slices[i - 1][1] < slices[i][1]
               /\ slices[i - 1][2] > slices[i][1] => Length(slices[i - 1]) = MinSeg
    <3>1. i \in 2..v /\ i - 1 \in 1..v
      BY <2>5
    <3>2. /\ slices[i - 1][1] < slices[i][1]
          /\ slices[i - 1][2] <= slices[i][1] \/ Length(slices[i - 1]) = MinSeg
      BY <1>10, <1>11, <3>1 DEF KeptOf
    <3>3. slices[i - 1] \in Points /\ slices[i] \in Points
      BY <1>10, <1>11, <3>1, ElementOfSeq DEF KeptOf
    <3>4. slices[i - 1][2] \in Int /\ slices[i][1] \in Int
      BY <3>3 DEF Points
    <3> QED
      BY <3>2, <3>4
  <2> QED
    BY <2>3, <2>4, <2>5
<1>13. ASSUME NEW t \in 0..total - 1, NEW j \in DOMAIN turns, Within(t, turns[j])
       PROVE  \/ \E i \in 1..v : Within(t, slices[i])
              \/ t > total - MinSeg
              \/ \E turn \in Range(MergeNear(turns)) :
                    turn[1] <= t /\ t < turn[1] + MinSeg /\ Padded(turn, slices)
  <2>1. DOMAIN turns = 1..Len(turns)
    BY LenProperties DEF Detected
  <2>2. found = turns
    <3>1. turns # <<>>
      BY <1>13, <2>1
    <3> QED
      BY <3>1 DEF found
  <2>3. PICK i \in 1..n : Within(t, m[i])
    BY <1>3, <1>5, <1>13, <2>1, <2>2 DEF MergedOf
  <2>4. t \in SpokenIn(m, n)
    BY <2>3 DEF SpokenIn
  <2>5. PICK h \in 1..u : Within(t, w[h])
    BY <1>8, <1>9, <2>4 DEF Sliced
  <2>6. PICK s \in Points : s = w[h] /\ s[1] \in Int /\ s[2] \in Int
    BY <1>9, ElementOfSeq DEF Points
  <2>7. CASE s[2] - s[1] > MinSeg
    <3>1. ~(s[2] - s[1] <= MinSeg)
      BY <1>1, <2>6, <2>7
    <3> QED
      BY <1>10, <1>11, <2>5, <2>6, <3>1 DEF KeptOf
  <2>8. CASE ~(s[2] - s[1] > MinSeg)
    <3>1. s[2] - s[1] <= MinSeg
      BY <1>1, <2>6, <2>8
    <3>2. PICK turn \in Heads(m, n) : Starts(turn, s, w, h - 1)
      BY <1>6, <1>9, <2>6, <3>1 DEF Begun
    <3>3. turn \in Points /\ turn \in Range(m)
      <4>1. PICK i1 \in 1..n : turn = m[i1]
        BY DEF Heads
      <4> QED
        BY <1>5, <4>1, ElementOfSeq, LenProperties DEF Range
    <3>4. PICK x \in Int, y \in Int : x = turn[1] /\ y = turn[2] /\ x = s[1] /\ Length(turn) = y - x
      BY <3>2, <3>3 DEF Points, Length, Starts
    <3>5. x <= t /\ t < x + MinSeg
      BY <1>1, <2>5, <2>6, <3>1, <3>4 DEF Within
    <3>6. CASE y - x = MinSeg
      <4>1. Padded(turn, slices)
        BY <3>4, <3>6 DEF Padded
      <4> QED
        BY <1>3, <2>2, <3>3, <3>4, <3>5, <4>1
    <3>7. CASE y - x # MinSeg
      <4>1. y - x < MinSeg /\ \A e \in 1..h - 1 : y - w[e][1] > MaxSeg
        BY <3>2, <3>4, <3>7 DEF Starts
      <4>2. ASSUME NEW r \in Range(slices), r[1] < x PROVE y - r[1] > MaxSeg
        <5>1. PICK i1 \in 1..v : r = slices[i1]
          BY <1>11 DEF Range
        <5>2. PICK e \in 1..u : slices[i1] = Bounded(w[e], total)
          BY <1>10, <1>11 DEF KeptOf
        <5>3. w[e] \in Points /\ SliceBefore(w[e], total, total)
          BY <1>8, <1>9, <5>2, ElementOfSeq DEF Sliced
        <5>4. PICK d \in Points : d = w[e]
          BY <5>3
        <5>5. d[1] \in Int
          BY DEF Points
        <5>6. r[1] = d[1]
          BY <5>1, <5>2, <5>3, <5>4, BoundedFacts
        <5>7. e \in 1..h - 1
          <6>1. e # h
            BY <2>6, <3>4, <4>2, <5>5, <5>6, <5>4
          <6>2. ~(e > h)
            <7> SUFFICES ASSUME e > h PROVE FALSE
              OBVIOUS
            <7>1. h \in 1..e - 1
              BY <1>9
            <7>2. Follows(s, d)
              BY <1>8, <1>9, <2>6, <5>4, <7>1 DEF Sliced
            <7> QED
              BY <2>6, <3>4, <4>2, <5>5, <5>6, <7>2 DEF Follows
          <6> QED
            BY <1>9, <6>1, <6>2
        <5> QED
          BY <4>1, <5>4, <5>5, <5>6, <5>7
      <4>3. Padded(turn, slices)
        BY <3>4, <4>1, <4>2 DEF Padded
      <4> QED
        BY <1>3, <2>2, <3>3, <3>4, <3>5, <4>3
    <3> QED
      BY <3>6, <3>7
  <2> QED
    BY <2>7, <2>8
<1> QED
  BY <1>11, <1>12, <1>13 DEF CutsAreSound, Within

=============================================================================
