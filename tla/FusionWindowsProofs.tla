------------------------ MODULE FusionWindowsProofs ------------------------
(***************************************************************************)
(* What plan_windows and Window.split return, proved for every episode,    *)
(* target, lookahead and cap: the windows of a plan ask for every segment  *)
(* once and in order, none is empty, the halves of a window ask for what   *)
(* it did, and the words are dealt evenly where the cap cuts no window     *)
(* short.  TLC checks the same on the inputs of MCEpisode.                 *)
(*                                                                         *)
(* It takes induction over data.  The library's induction theorems have an *)
(* operator for a parameter, which no prover here instantiates; below, a   *)
(* set stands for the operator: what holds of 0 and of every successor     *)
(* holds of every number, what holds of the empty sequence and of every    *)
(* longer one of every sequence.  FoldLeft and FlattenSeq choose a         *)
(* function that satisfies an equation: such a function exists, and its    *)
(* values follow by the same induction.                                    *)
(***************************************************************************)
EXTENDS FusionWindows, FiniteSetTheorems, SequenceTheorems, TLAPS

-----------------------------------------------------------------------------
(***************************************************************************)
(* Induction over the natural numbers, without an operator for what is     *)
(* shown: by the least member of a set.                                    *)
(***************************************************************************)

\* Every set of naturals that is not empty has a least member.
LEMMA LeastMember ==
    ASSUME NEW T \in SUBSET Nat, T # {}
    PROVE  \E x \in T : \A y \in T : x <= y
<1>1. \A x \in T, y \in T : <<y, x>> \in OpToRel(<, Nat) <=> y < x
  BY DEF OpToRel
<1>2. PICK x \in T : \A y \in T : ~(<<y, x>> \in OpToRel(<, Nat))
  BY NatLessThanWellFounded, WFMin
<1>3. \A y \in T : ~(y < x)
  BY <1>1, <1>2, Zenon
<1> QED
  BY <1>3

\* A set that has 0, and with every number its successor, has them all.
LEMMA EveryNumber ==
    ASSUME NEW S, 0 \in S, \A n \in Nat : n \in S => n + 1 \in S
    PROVE  Nat \subseteq S
<1> SUFFICES ASSUME Nat \ S # {} PROVE FALSE
  OBVIOUS
<1>1. PICK x \in Nat \ S : \A y \in Nat \ S : x <= y
  BY LeastMember
<1>2. x # 0 /\ x - 1 \in Nat
  BY <1>1
<1>3. x - 1 \in S
  BY <1>1, <1>2
<1> QED
  BY <1>1, <1>2, <1>3

\* The largest of some numbers is one of them.
LEMMA MaxOf ==
    ASSUME NEW n \in Nat, NEW T \in SUBSET (1..n), T # {}
    PROVE  Max(T) \in T /\ \A x \in T : x <= Max(T)
<1> DEFINE bounds == {m \in Nat : \A x \in T : x <= m}
<1>1. PICK m \in bounds : \A k \in bounds : m <= k
  <2>1. n \in bounds
    OBVIOUS
  <2> QED
    BY <2>1, LeastMember
<1>2. m \in T
  <2> SUFFICES ASSUME m \notin T PROVE FALSE
    OBVIOUS
  <2>1. PICK x \in T : TRUE
    OBVIOUS
  <2>2. m - 1 \in Nat
    BY <1>1, <2>1
  <2>3. m - 1 \in bounds
    BY <1>1, <2>2
  <2> QED
    BY <1>1, <2>3
<1>3. \E x \in T : \A y \in T : x >= y
  BY <1>1, <1>2
<1> QED
  BY <1>3 DEF Max

\* The largest of the first k numbers, and the others.
LEMMA MaxOfFirst ==
    ASSUME NEW k \in Nat \ {0}
    PROVE  Max(1..k) = k /\ (1..k) \ {k} = 1..k - 1 /\ 1..k # {}
<1>1. 1..k \in SUBSET (1..k) /\ k \in 1..k
  OBVIOUS
<1>2. Max(1..k) \in 1..k /\ \A x \in 1..k : x <= Max(1..k)
  BY <1>1, MaxOf
<1>3. k <= Max(1..k) /\ Max(1..k) \in Int /\ Max(1..k) <= k
  BY <1>1, <1>2
<1>4. Max(1..k) = k
  BY <1>3
<1>5. (1..k) \ {k} = 1..k - 1
  OBVIOUS
<1> QED
  BY <1>1, <1>4, <1>5

\* g is the fold of step over the subsets of 1..n: each takes out its largest member.
FoldsBy(g, n, base, step) ==
    \A t \in SUBSET (1..n) : g[t] = IF t = {} THEN base ELSE step[<<Max(t), g[t \ {Max(t)}]>>]

\* There is one, for any step that stays within V.
LEMMA FoldExists ==
    ASSUME NEW V, NEW base \in V, NEW n \in Nat, NEW step \in [(1..n) \X V -> V]
    PROVE  \E g \in [SUBSET (1..n) -> V] : FoldsBy(g, n, base, step)
<1> DEFINE Reaches(k) == \E g \in [SUBSET (1..k) -> V] : FoldsBy(g, k, base, step)
           reached == {k \in Nat : k <= n => Reaches(k)}
<1>1. 0 \in reached
  <2> DEFINE g0 == [t \in SUBSET (1..0) |-> base]
  <2>1. \A t \in SUBSET (1..0) : t = {}
    OBVIOUS
  <2>2. g0 \in [SUBSET (1..0) -> V] /\ FoldsBy(g0, 0, base, step)
    BY <2>1 DEF FoldsBy
  <2> QED
    BY <2>2
<1>2. ASSUME NEW k \in Nat, k \in reached PROVE k + 1 \in reached
  <2>0. SUFFICES ASSUME k + 1 <= n PROVE Reaches(k + 1)
    <3> HIDE DEF Reaches
    <3> QED
      OBVIOUS
  <2>1. PICK g \in [SUBSET (1..k) -> V] : FoldsBy(g, k, base, step)
    <3>1. k <= n
      BY <2>0
    <3>2. Reaches(k)
      <4> HIDE DEF Reaches
      <4> QED
        BY <1>2, <3>1
    <3> QED
      BY <3>2
  <2> DEFINE h == [t \in SUBSET (1..k + 1) |->
                     IF k + 1 \in t THEN step[<<k + 1, g[t \ {k + 1}]>>] ELSE g[t]]
  <2>2. \A t \in SUBSET (1..k + 1) : t \ {k + 1} \in SUBSET (1..k)
    OBVIOUS
  <2>3. h \in [SUBSET (1..k + 1) -> V]
    <3> SUFFICES ASSUME NEW t \in SUBSET (1..k + 1) PROVE h[t] \in V
      OBVIOUS
    <3>1. CASE k + 1 \in t
      <4>1. g[t \ {k + 1}] \in V
        BY <2>1, <2>2
      <4>2. <<k + 1, g[t \ {k + 1}]>> \in (1..n) \X V
        BY <2>0, <4>1
      <4> QED
        BY <3>1, <4>2
    <3>2. CASE k + 1 \notin t
      <4>1. t \in SUBSET (1..k)
        BY <3>2
      <4> QED
        BY <2>1, <3>2, <4>1
    <3> QED
      BY <3>1, <3>2
  <2>4. ASSUME NEW t \in SUBSET (1..k + 1)
        PROVE  h[t] = IF t = {} THEN base ELSE step[<<Max(t), h[t \ {Max(t)}]>>]
    <3>1. CASE k + 1 \in t
      <4>1. Max(t) = k + 1
        <5>1. t # {} /\ k + 1 \in Nat
          BY <3>1
        <5>2. Max(t) \in t /\ \A x \in t : x <= Max(t)
          BY <5>1, MaxOf
        <5>3. Max(t) \in 1..k + 1 /\ k + 1 <= Max(t)
          BY <3>1, <5>2
        <5> QED
          BY <5>3
      <4>2. h[t \ {k + 1}] = g[t \ {k + 1}]
        BY <2>2
      <4> QED
        BY <3>1, <4>1, <4>2
    <3>2. CASE k + 1 \notin t
      <4>1. t \in SUBSET (1..k)
        BY <3>2
      <4>2. g[t] = IF t = {} THEN base ELSE step[<<Max(t), g[t \ {Max(t)}]>>]
        BY <2>1, <4>1 DEF FoldsBy
      <4>3. t \ {Max(t)} \in SUBSET (1..k)
        BY <4>1
      <4>4. h[t] = g[t] /\ h[t \ {Max(t)}] = g[t \ {Max(t)}]
        BY <3>2, <4>1, <4>3
      <4> QED
        BY <4>2, <4>4
    <3> QED
      BY <3>1, <3>2
  <2> QED
    BY <2>3, <2>4 DEF FoldsBy
<1>3. Nat \subseteq reached
  <2> HIDE DEF reached
  <2> QED
    BY <1>1, <1>2, EveryNumber
<1>4. Reaches(n)
  <2> HIDE DEF Reaches
  <2>1. n \in reached
    BY <1>3
  <2> QED
    BY <2>1
<1> QED
  BY <1>4

\* The same for the recursion along a list, from its first entry.
ListsBy(g, n, first, step) ==
    \A i \in 1..n : g[i] = IF i = 1 THEN first ELSE step[<<i, g[i - 1]>>]

\* There is a list, each of its items made from the one before.
LEMMA ListExists ==
    ASSUME NEW V, NEW first \in V, NEW n \in Nat, NEW step \in [(1..n) \X V -> V]
    PROVE  \E g \in [1..n -> V] : ListsBy(g, n, first, step)
<1> DEFINE step2 == [x \in (1..n) \X V |-> IF x[1] = 1 THEN first ELSE step[x]]
<1>1. step2 \in [(1..n) \X V -> V]
  OBVIOUS
<1>2. PICK h \in [SUBSET (1..n) -> V] : FoldsBy(h, n, first, step2)
  <2> HIDE DEF step2
  <2> QED
    BY <1>1, FoldExists
<1> DEFINE g == [i \in 1..n |-> h[1..i]]
<1>3. \A i \in 1..n : 1..i \in SUBSET (1..n) /\ 1..i - 1 \in SUBSET (1..n)
  OBVIOUS
<1>4. ASSUME NEW i \in 1..n PROVE g[i] = IF i = 1 THEN first ELSE step[<<i, g[i - 1]>>]
  <2>1. Max(1..i) = i /\ (1..i) \ {i} = 1..i - 1 /\ 1..i # {}
    BY MaxOfFirst
  <2>2. h[1..i] = step2[<<i, h[1..i - 1]>>]
    BY <1>2, <1>3, <2>1 DEF FoldsBy
  <2>3. <<i, h[1..i - 1]>> \in (1..n) \X V
    BY <1>3
  <2>4. h[1..i] = IF i = 1 THEN first ELSE step[<<i, h[1..i - 1]>>]
    BY <2>2, <2>3
  <2>5. i # 1 => i - 1 \in 1..n
    OBVIOUS
  <2> QED
    BY <2>4, <2>5
<1>5. g \in [1..n -> V]
  BY <1>3
<1> QED
  BY <1>4, <1>5 DEF ListsBy

\* A set that has the empty sequence, and with each sequence its extensions, has them all.
LEMMA EverySequence ==
    ASSUME NEW S, NEW T, <<>> \in T, \A s \in Seq(S), e \in S : s \in T => Append(s, e) \in T
    PROVE  Seq(S) \subseteq T
<1> DEFINE long == {n \in Nat : \A s \in Seq(S) : Len(s) = n => s \in T}
<1>1. 0 \in long
  BY EmptySeq
<1>2. ASSUME NEW n \in Nat, n \in long PROVE n + 1 \in long
  <2> SUFFICES ASSUME NEW s \in Seq(S), Len(s) = n + 1 PROVE s \in T
    OBVIOUS
  <2>1. s # <<>>
    BY EmptySeq
  <2>2. PICK t \in Seq(S), e \in S : s = Append(t, e)
    BY <2>1, SequenceEmptyOrAppend
  <2>3. Len(t) = n
    BY <2>2, AppendProperties, LenProperties
  <2> QED
    BY <1>2, <2>2, <2>3
<1>3. Nat \subseteq long
  <2> HIDE DEF long
  <2> QED
    BY <1>1, <1>2, EveryNumber
<1> QED
  BY <1>3, LenProperties

-----------------------------------------------------------------------------
(***************************************************************************)
(* What FlattenSeq returns.                                                *)
(***************************************************************************)

\* g is the lists of ts one after the other, up to each of them.
Joins(g, ts) == g = [i \in 1..Len(ts) |-> IF i = 1 THEN ts[i] ELSE g[i - 1] \o ts[i]]

\* One item of such a list.
LEMMA JoinsStep ==
    ASSUME NEW g, NEW ts, Joins(g, ts), NEW k \in 1..Len(ts)
    PROVE  g[k] = IF k = 1 THEN ts[k] ELSE g[k - 1] \o ts[k]
<1> DEFINE e == [i \in 1..Len(ts) |-> IF i = 1 THEN ts[i] ELSE g[i - 1] \o ts[i]]
<1>1. e[k] = IF k = 1 THEN ts[k] ELSE g[k - 1] \o ts[k]
  OBVIOUS
<1>2. g = e
  BY Zenon DEF Joins
<1> QED
  <2> HIDE DEF e
  <2> QED
    BY <1>1, <1>2

\* There is such a list.
LEMMA JoinsExist ==
    ASSUME NEW S, NEW ts \in Seq(Seq(S)), ts # <<>>
    PROVE  \E g \in [1..Len(ts) -> Seq(S)] : Joins(g, ts)
<1> DEFINE n == Len(ts)
           step == [x \in (1..n) \X Seq(S) |-> x[2] \o ts[x[1]]]
<1>1. n \in Nat /\ 1 \in 1..n /\ \A i \in 1..n : ts[i] \in Seq(S)
  BY LenProperties, EmptySeq, ElementOfSeq
<1>2. step \in [(1..n) \X Seq(S) -> Seq(S)]
  <2>1. ASSUME NEW i \in 1..n, NEW s \in Seq(S) PROVE s \o ts[i] \in Seq(S)
    BY <1>1, ConcatProperties
  <2> QED
    BY <2>1
<1>3. PICK g \in [1..n -> Seq(S)] : ListsBy(g, n, ts[1], step)
  <2> HIDE DEF n, step
  <2> QED
    BY <1>1, <1>2, ListExists
<1>4. ASSUME NEW i \in 1..n PROVE g[i] = IF i = 1 THEN ts[i] ELSE g[i - 1] \o ts[i]
  <2>1. CASE i = 1
    BY <1>3, <2>1 DEF ListsBy
  <2>2. CASE i # 1
    <3>1. i - 1 \in 1..n
      BY <2>2
    <3>2. g[i - 1] \in Seq(S)
      BY <1>3, <3>1
    <3>3. g[i] = step[<<i, g[i - 1]>>]
      BY <1>3, <2>2 DEF ListsBy
    <3> QED
      BY <2>2, <3>2, <3>3
  <2> QED
    BY <2>1, <2>2
<1>5. g = [i \in 1..n |-> IF i = 1 THEN ts[i] ELSE g[i - 1] \o ts[i]]
  BY <1>3, <1>4
<1> QED
  BY <1>3, <1>5 DEF Joins

\* There is only one.
LEMMA JoinsOnce ==
    ASSUME NEW ts, Len(ts) \in Nat, NEW g, NEW h, Joins(g, ts), Joins(h, ts)
    PROVE  g = h
<1> DEFINE same == {k \in Nat : k \in 1..Len(ts) => g[k] = h[k]}
<1>1. 0 \in same
  OBVIOUS
<1>2. ASSUME NEW k \in Nat, k \in same PROVE k + 1 \in same
  <2> SUFFICES ASSUME k + 1 \in 1..Len(ts) PROVE g[k + 1] = h[k + 1]
    OBVIOUS
  <2>1. g[k + 1] = IF k + 1 = 1 THEN ts[k + 1] ELSE g[k + 1 - 1] \o ts[k + 1]
    BY JoinsStep
  <2>2. h[k + 1] = IF k + 1 = 1 THEN ts[k + 1] ELSE h[k + 1 - 1] \o ts[k + 1]
    BY JoinsStep
  <2>3. CASE k = 0
    BY <2>1, <2>2, <2>3
  <2>4. CASE k # 0
    <3>1. k \in 1..Len(ts) /\ k + 1 - 1 = k /\ k + 1 # 1
      BY <2>4
    <3>2. g[k] = h[k]
      BY <1>2, <3>1
    <3> QED
      BY <2>1, <2>2, <3>1, <3>2
  <2> QED
    BY <2>3, <2>4
<1>3. Nat \subseteq same
  <2> HIDE DEF same
  <2> QED
    BY <1>1, <1>2, EveryNumber
<1>4. \A k \in 1..Len(ts) : g[k] = h[k]
  BY <1>3
<1>5. g = [k \in 1..Len(ts) |-> g[k]] /\ h = [k \in 1..Len(ts) |-> h[k]]
  BY DEF Joins
<1> QED
  BY <1>4, <1>5

\* FlattenSeq returns its last item.
LEMMA Flattened ==
    ASSUME NEW S, NEW ts \in Seq(Seq(S)), ts # <<>>, NEW g, Joins(g, ts)
    PROVE  FlattenSeq(ts) = g[Len(ts)]
<1> DEFINE chosen == CHOOSE f : Joins(f, ts)
<1>1. Joins(chosen, ts)
  BY Zenon
<1>2. Len(ts) \in Nat /\ Len(ts) # 0
  BY EmptySeq
<1>3. chosen = g
  <2> HIDE DEF chosen
  <2> QED
    BY <1>1, <1>2, JoinsOnce
<1>4. FlattenSeq(ts) = chosen[Len(ts)]
  BY <1>2 DEF FlattenSeq, Joins
<1> QED
  BY <1>3, <1>4

\* The lists of ts, then one more.
LEMMA FlattenAppend ==
    ASSUME NEW S, NEW ts \in Seq(Seq(S)), NEW x \in Seq(S)
    PROVE  /\ FlattenSeq(<<>>) = <<>>
           /\ FlattenSeq(ts) \in Seq(S)
           /\ FlattenSeq(Append(ts, x)) = FlattenSeq(ts) \o x
<1> DEFINE us == Append(ts, x)
           n == Len(ts)
<1>1. /\ us \in Seq(Seq(S)) /\ us # <<>> /\ Len(us) = n + 1
      /\ us[n + 1] = x /\ \A i \in 1..n : us[i] = ts[i]
  BY AppendProperties
<1>2. n \in Nat /\ \A i \in 1..n : ts[i] \in Seq(S)
  BY LenProperties, ElementOfSeq
<1>3. FlattenSeq(<<>>) = <<>>
  BY DEF FlattenSeq
<1>4. PICK g \in [1..n + 1 -> Seq(S)] : Joins(g, us)
  BY <1>1, JoinsExist
<1>5. ASSUME NEW i \in 1..n + 1 PROVE g[i] = IF i = 1 THEN us[i] ELSE g[i - 1] \o us[i]
  <2>1. i \in 1..Len(us)
    BY <1>1
  <2> HIDE DEF us, n
  <2> QED
    BY <1>4, <2>1, JoinsStep
<1>6. FlattenSeq(us) = g[n + 1]
  BY <1>1, <1>4, Flattened
<1>7. CASE ts = <<>>
  <2>1. g[n + 1] = x
    BY <1>1, <1>5, <1>7
  <2>2. <<>> \o x = x
    BY ConcatEmptySeq
  <2> QED
    BY <1>3, <1>6, <1>7, <2>1, <2>2, EmptySeq
<1>8. CASE ts # <<>>
  <2> DEFINE h == [i \in 1..n |-> g[i]]
  <2>1. n # 0 /\ n \in 1..n /\ 1 \in 1..n
    BY <1>2, <1>8, EmptySeq
  <2>2. ASSUME NEW i \in 1..n PROVE h[i] = IF i = 1 THEN ts[i] ELSE h[i - 1] \o ts[i]
    <3>1. i \in 1..n + 1 /\ us[i] = ts[i]
      BY <1>1, <1>2
    <3>2. i # 1 => i - 1 \in 1..n
      BY <1>2
    <3> QED
      BY <1>5, <3>1, <3>2
  <2>3. Joins(h, ts)
    BY <2>2 DEF Joins
  <2>4. FlattenSeq(ts) = h[n]
    <3> HIDE DEF h
    <3> QED
      BY <1>8, <2>3, Flattened
  <2>5. h[n] = g[n] /\ g[n] \in Seq(S)
    BY <1>2, <1>4, <2>1
  <2>6. g[n + 1] = g[n] \o x
    <3>1. PICK m \in 1..n + 1 : m = n + 1
      BY <1>2
    <3>2. g[m] = IF m = 1 THEN us[m] ELSE g[m - 1] \o us[m]
      BY <1>5
    <3>3. m # 1 /\ m - 1 = n
      BY <1>2, <2>1, <3>1
    <3> HIDE DEF us, n
    <3> QED
      BY <1>1, <3>1, <3>2, <3>3
  <2> QED
    BY <1>3, <1>6, <2>4, <2>5, <2>6
<1> QED
  BY <1>7, <1>8

\* Two lists one after the other repeat nothing when neither does and they share nothing.
LEMMA ConcatInjective ==
    ASSUME NEW S, NEW s \in Seq(S), NEW t \in Seq(S)
    PROVE  IsInjective(s \o t) <=> IsInjective(s) /\ IsInjective(t) /\ Range(s) \cap Range(t) = {}
<1> DEFINE u == s \o t
<1>1. /\ Len(s) \in Nat /\ Len(t) \in Nat
      /\ DOMAIN s = 1..Len(s) /\ DOMAIN t = 1..Len(t)
  BY LenProperties
<1>2. /\ u \in Seq(S) /\ Len(u) = Len(s) + Len(t)
      /\ \A i \in 1..Len(s) + Len(t) : u[i] = IF i <= Len(s) THEN s[i] ELSE t[i - Len(s)]
  BY ConcatProperties
<1>3. DOMAIN u = 1..Len(s) + Len(t)
  BY <1>2, LenProperties
<1>4. \A i \in DOMAIN s : i \in DOMAIN u /\ u[i] = s[i]
  BY <1>1, <1>2, <1>3
<1>5. \A i \in DOMAIN t : i + Len(s) \in DOMAIN u /\ u[i + Len(s)] = t[i]
  <2> SUFFICES ASSUME NEW i \in DOMAIN t PROVE i + Len(s) \in DOMAIN u /\ u[i + Len(s)] = t[i]
    OBVIOUS
  <2>1. PICK j \in 1..Len(s) + Len(t) : j = i + Len(s)
    BY <1>1
  <2>2. ~(j <= Len(s)) /\ j - Len(s) = i
    BY <1>1, <2>1
  <2>3. u[j] = t[i]
    BY <1>2, <2>2
  <2> QED
    BY <1>3, <2>1, <2>3
<1>6. \A i \in DOMAIN u : i \in DOMAIN s \/ \E k \in DOMAIN t : i = k + Len(s)
  <2> SUFFICES ASSUME NEW i \in DOMAIN u, i \notin DOMAIN s PROVE \E k \in DOMAIN t : i = k + Len(s)
    OBVIOUS
  <2>1. i - Len(s) \in DOMAIN t /\ i = (i - Len(s)) + Len(s)
    BY <1>1, <1>3
  <2> QED
    BY <2>1
<1> HIDE DEF u
<1>7. ASSUME IsInjective(u) PROVE IsInjective(s) /\ IsInjective(t) /\ Range(s) \cap Range(t) = {}
  <2>1. IsInjective(s)
    BY <1>4, <1>7 DEF IsInjective
  <2>2. IsInjective(t)
    <3> SUFFICES ASSUME NEW i \in DOMAIN t, NEW j \in DOMAIN t, t[i] = t[j] PROVE i = j
      BY DEF IsInjective
    <3>1. i + Len(s) = j + Len(s)
      BY <1>5, <1>7 DEF IsInjective
    <3> QED
      BY <1>1, <3>1
  <2>3. Range(s) \cap Range(t) = {}
    <3> SUFFICES ASSUME NEW i \in DOMAIN s, NEW j \in DOMAIN t, s[i] = t[j] PROVE FALSE
      BY DEF Range
    <3>1. i = j + Len(s)
      BY <1>4, <1>5, <1>7 DEF IsInjective
    <3> QED
      BY <1>1, <3>1
  <2> QED
    BY <2>1, <2>2, <2>3
<1>8. ASSUME IsInjective(s), IsInjective(t), Range(s) \cap Range(t) = {} PROVE IsInjective(u)
  <2> SUFFICES ASSUME NEW i \in DOMAIN u, NEW j \in DOMAIN u, u[i] = u[j] PROVE i = j
    BY DEF IsInjective
  <2>1. CASE i \in DOMAIN s /\ j \in DOMAIN s
    BY <1>4, <1>8, <2>1 DEF IsInjective
  <2>2. ASSUME NEW a \in DOMAIN s, NEW b \in DOMAIN t, u[a] = u[b + Len(s)] PROVE FALSE
    <3>1. s[a] = t[b]
      BY <1>4, <1>5, <2>2
    <3>2. s[a] \in Range(s) /\ t[b] \in Range(t)
      BY DEF Range
    <3> QED
      BY <1>8, <3>1, <3>2
  <2>3. CASE \E k \in DOMAIN t : i = k + Len(s)
    <3>1. PICK k \in DOMAIN t : i = k + Len(s)
      BY <2>3
    <3>2. j \notin DOMAIN s
      BY <2>2, <3>1
    <3>3. PICK l \in DOMAIN t : j = l + Len(s)
      BY <1>6, <3>2
    <3>4. t[k] = t[l]
      BY <1>5, <3>1, <3>3
    <3> QED
      BY <1>8, <3>1, <3>3, <3>4 DEF IsInjective
  <2>4. CASE i \in DOMAIN s /\ j \notin DOMAIN s
    BY <1>6, <2>2, <2>4
  <2> QED
    BY <1>6, <2>1, <2>3, <2>4
<1> QED
  BY <1>7, <1>8 DEF u

\* No list of ts repeats an entry, its own or another's.
Apart(ts) ==
    /\ \A i \in DOMAIN ts : IsInjective(ts[i])
    /\ \A i, j \in DOMAIN ts : i # j => Range(ts[i]) \cap Range(ts[j]) = {}

\* What a list of lists has in it.
Members(ts) == UNION {Range(ts[i]) : i \in DOMAIN ts}

\* What is in a flattened list, and whether it has anything twice.
LEMMA FlattenFacts ==
    ASSUME NEW S, NEW list \in Seq(Seq(S))
    PROVE  /\ FlattenSeq(list) \in Seq(S)
           /\ Range(FlattenSeq(list)) = Members(list)
           /\ IsInjective(FlattenSeq(list)) <=> Apart(list)
<1> DEFINE Good(ts) == /\ Range(FlattenSeq(ts)) = Members(ts)
                       /\ IsInjective(FlattenSeq(ts)) <=> Apart(ts)
           good == {ts \in Seq(Seq(S)) : Good(ts)}
<1>1. <<>> \in good
  <2>1. <<>> \in Seq(Seq(S)) /\ <<>> \in Seq(S) /\ FlattenSeq(<<>>) = <<>> /\ DOMAIN <<>> = {}
    BY EmptySeq, FlattenAppend
  <2>2. Good(<<>>)
    BY <2>1 DEF Range, Members, Apart, IsInjective
  <2> QED
    BY <2>1, <2>2
<1>2. ASSUME NEW ts \in Seq(Seq(S)), NEW x \in Seq(S), ts \in good PROVE Append(ts, x) \in good
  <2> DEFINE us == Append(ts, x)
  <2>1. /\ us \in Seq(Seq(S)) /\ Len(us) = Len(ts) + 1
        /\ us[Len(ts) + 1] = x /\ \A i \in 1..Len(ts) : us[i] = ts[i]
    BY AppendProperties
  <2>2. Len(ts) \in Nat /\ DOMAIN ts = 1..Len(ts) /\ DOMAIN us = 1..Len(ts) + 1
    BY <2>1, LenProperties
  <2>3. FlattenSeq(ts) \in Seq(S) /\ FlattenSeq(us) = FlattenSeq(ts) \o x
    BY FlattenAppend
  <2> HIDE DEF us
  <2>4. /\ DOMAIN us = DOMAIN ts \cup {Len(ts) + 1} /\ Len(ts) + 1 \notin DOMAIN ts
        /\ \A i \in DOMAIN ts : us[i] = ts[i]
    BY <2>1, <2>2
  <2>5. Members(us) = Members(ts) \cup Range(x)
    <3>1. \A e : e \in Members(us) <=> \E i \in DOMAIN us : e \in Range(us[i])
      BY DEF Members
    <3>2. \A e : e \in Members(ts) <=> \E i \in DOMAIN ts : e \in Range(ts[i])
      BY DEF Members
    <3>3. \A e : (\E i \in DOMAIN us : e \in Range(us[i])) <=>
                     (\E i \in DOMAIN ts : e \in Range(ts[i])) \/ e \in Range(x)
      BY <2>1, <2>4
    <3> QED
      BY <3>1, <3>2, <3>3
  <2>6. Range(FlattenSeq(us)) = Range(FlattenSeq(ts)) \cup Range(x)
    BY <2>3, RangeConcatenation
  <2>7. IsInjective(FlattenSeq(us)) <=>
           IsInjective(FlattenSeq(ts)) /\ IsInjective(x) /\ Range(FlattenSeq(ts)) \cap Range(x) = {}
    BY <2>3, ConcatInjective
  <2>8. Good(ts)
    BY <1>2
  <2>9. Apart(us) <=> Apart(ts) /\ IsInjective(x) /\ Members(ts) \cap Range(x) = {}
    <3>1. ASSUME Apart(us) PROVE Apart(ts) /\ IsInjective(x) /\ Members(ts) \cap Range(x) = {}
      <4>1. Apart(ts)
        BY <2>4, <3>1 DEF Apart
      <4>2. IsInjective(x)
        BY <2>1, <2>4, <3>1 DEF Apart
      <4>3. \A i \in DOMAIN ts : Range(ts[i]) \cap Range(x) = {}
        BY <2>1, <2>4, <3>1 DEF Apart
      <4> QED
        BY <4>1, <4>2, <4>3 DEF Members
    <3>2. ASSUME Apart(ts), IsInjective(x), Members(ts) \cap Range(x) = {} PROVE Apart(us)
      <4>1. \A i \in DOMAIN us : IsInjective(us[i])
        BY <2>1, <2>4, <3>2 DEF Apart
      <4>2. \A i \in DOMAIN ts : Range(us[i]) \cap Range(us[Len(ts) + 1]) = {}
        BY <2>1, <2>4, <3>2 DEF Members
      <4>3. \A i, j \in DOMAIN ts : i # j => Range(us[i]) \cap Range(us[j]) = {}
        BY <2>4, <3>2 DEF Apart
      <4> QED
        BY <2>4, <4>1, <4>2, <4>3 DEF Apart
    <3> QED
      BY <3>1, <3>2
  <2>10. Good(us)
    BY <2>5, <2>6, <2>7, <2>8, <2>9
  <2> HIDE DEF Good
  <2>11. us \in good
    BY <2>1, <2>10
  <2> QED
    BY <2>11 DEF us
<1>3. Seq(Seq(S)) \subseteq good
  <2> HIDE DEF good
  <2> QED
    BY <1>1, <1>2, EverySequence
<1>4. Good(list)
  <2> HIDE DEF Good
  <2> QED
    BY <1>3
<1>5. FlattenSeq(list) \in Seq(S)
  BY EmptySeq, FlattenAppend
<1> QED
  BY <1>4, <1>5

-----------------------------------------------------------------------------
(***************************************************************************)
(* The plan: the groups the segments are dealt into, one after the other.  *)
(***************************************************************************)

Dealts == {d \in [groups : Seq(Seq(Nat)), elapsed : Nat] : d.groups # <<>>}
Start  == [groups |-> << <<>> >>, elapsed |-> 0]

\* Is segment i to begin a group of its own?
Begins(words, count, most, d, i) ==
    /\ Len(d.groups) < count /\ Last(d.groups) # <<>>
    /\ \/ Len(Last(d.groups)) >= most
       \/ ThresholdCrossed(words, count, d.groups, d.elapsed, i)

\* What is dealt so far, one group or more.
LEMMA DealFacts ==
    ASSUME NEW words \in Seq(Nat), NEW d \in Dealts, NEW i \in DOMAIN words
    PROVE  /\ d.groups \in Seq(Seq(Nat)) /\ d.groups # <<>>
           /\ d.elapsed \in Nat /\ d.elapsed + words[i] \in Nat /\ words[i] \in Nat
           /\ i \in Nat /\ i - 1 \in Nat /\ <<i>> \in Seq(Nat) /\ <<i>> # <<>>
<1>1. /\ d.groups \in Seq(Seq(Nat)) /\ d.groups # <<>> /\ d.elapsed \in Nat
  BY DEF Dealts
<1>2. i \in 1..Len(words) /\ Len(words) \in Nat
  BY LenProperties
<1>3. words[i] \in Nat
  BY <1>2, ElementOfSeq
<1>4. i \in Nat /\ i - 1 \in Nat /\ <<i>> \in Seq(Nat) /\ <<i>> # <<>>
  BY <1>2
<1> QED
  BY <1>1, <1>3, <1>4

\* A segment begins a group of its own.
LEMMA DealBegins ==
    ASSUME NEW words \in Seq(Nat), NEW count, NEW most, NEW d \in Dealts, NEW i \in DOMAIN words,
           Begins(words, count, most, d, i)
    PROVE  /\ Deal(words, count, most, d, i)
                = [groups |-> Append(d.groups, <<i>>), elapsed |-> d.elapsed + words[i]]
           /\ Append(d.groups, <<i>>) \in Seq(Seq(Nat)) /\ Append(d.groups, <<i>>) # <<>>
<1>1. Deal(words, count, most, d, i)
         = [groups |-> Append(d.groups, <<i>>), elapsed |-> d.elapsed + words[i]]
  BY DEF Deal, Begins
<1>2. Append(d.groups, <<i>>) \in Seq(Seq(Nat)) /\ Append(d.groups, <<i>>) # <<>>
  BY DealFacts, AppendProperties
<1> QED
  BY <1>1, <1>2

\* A segment joins the last group: from d to e, the groups are those of front and then last,
\* which it makes longer.
Lengthens(words, i, d, e, front, last, longer, grown) ==
    /\ d.groups = Append(front, last) /\ Last(d.groups) = last
    /\ longer = last \o <<i>> /\ longer # <<>> /\ Len(longer) = Len(last) + 1
    /\ grown = Append(front, longer) /\ grown # <<>>
    /\ e = [groups |-> grown, elapsed |-> d.elapsed + words[i]]

\* A segment joins the last group.
LEMMA DealJoins ==
    ASSUME NEW words \in Seq(Nat), NEW count, NEW most, NEW d \in Dealts, NEW i \in DOMAIN words,
           ~Begins(words, count, most, d, i)
    PROVE  \E front, grown \in Seq(Seq(Nat)), last, longer \in Seq(Nat) :
              Lengthens(words, i, d, Deal(words, count, most, d, i), front, last, longer, grown)
<1>1. d.groups \in Seq(Seq(Nat)) /\ d.groups # <<>> /\ i \in Nat
  BY DealFacts
<1>6. PICK front \in Seq(Seq(Nat)), last \in Seq(Nat) : d.groups = Append(front, last)
  BY <1>1, SequenceEmptyOrAppend
<1>7. /\ Len(d.groups) = Len(front) + 1 /\ Len(front) \in Nat /\ d.groups[Len(d.groups)] = last
      /\ \A k \in 1..Len(front) : d.groups[k] = front[k]
  BY <1>6, AppendProperties, LenProperties
<1>8. Last(d.groups) = last
  BY <1>7 DEF Last
<1>9. /\ Append(last, i) \in Seq(Nat) /\ Append(last, i) = last \o <<i>> /\ Append(last, i) # <<>>
      /\ Len(Append(last, i)) = Len(last) + 1
  <2>1. Append(last, i) = last \o <<i>>
    BY <1>1, AppendIsConcat
  <2>2. /\ Append(last, i) \in Seq(Nat) /\ Append(last, i) # <<>>
        /\ Len(Append(last, i)) = Len(last) + 1
    BY <1>1, AppendProperties
  <2> QED
    BY <2>1, <2>2
<1>10. [d.groups EXCEPT ![Len(d.groups)] = Append(last, i)] = Append(front, Append(last, i))
  <2> DEFINE a == [d.groups EXCEPT ![Len(d.groups)] = Append(last, i)]
             b == Append(front, Append(last, i))
  <2>1. /\ a \in Seq(Seq(Nat)) /\ Len(a) = Len(d.groups)
        /\ \A k \in 1..Len(d.groups) : a[k] = IF k = Len(d.groups) THEN Append(last, i) ELSE d.groups[k]
    <3>1. Len(d.groups) \in 1..Len(d.groups)
      BY <1>7
    <3> QED
      BY <1>1, <1>9, <3>1, ExceptSeq
  <2>2. /\ b \in Seq(Seq(Nat)) /\ Len(b) = Len(front) + 1 /\ b[Len(front) + 1] = Append(last, i)
        /\ \A k \in 1..Len(front) : b[k] = front[k]
    BY <1>9, AppendProperties
  <2> HIDE DEF a, b
  <2>3. \A k \in 1..Len(a) : a[k] = b[k]
    <3> SUFFICES ASSUME NEW k \in 1..Len(a) PROVE a[k] = b[k]
      OBVIOUS
    <3>1. CASE k = Len(front) + 1
      BY <1>7, <2>1, <2>2, <3>1
    <3>2. CASE k # Len(front) + 1
      <4>1. k \in 1..Len(front) /\ k \in 1..Len(d.groups) /\ k # Len(d.groups)
        BY <1>7, <2>1, <3>2
      <4>2. b[k] = front[k] /\ d.groups[k] = front[k] /\ a[k] = d.groups[k]
        BY <1>7, <2>1, <2>2, <4>1
      <4> QED
        BY <4>2
    <3> QED
      BY <3>1, <3>2
  <2>4. a = b
    <3>1. Len(a) = Len(b)
      BY <1>7, <2>1, <2>2
    <3>2. a \in Seq(Seq(Nat)) /\ b \in Seq(Seq(Nat))
      BY <2>1, <2>2
    <3> QED
      BY <2>3, <3>1, <3>2, SeqEqual
  <2> QED
    BY <2>4 DEF a, b
<1>11. Deal(words, count, most, d, i)
          = [groups |-> Append(front, Append(last, i)), elapsed |-> d.elapsed + words[i]]
  <2>1. [d.groups EXCEPT ![Len(d.groups)] = Append(@, i)]
          = [d.groups EXCEPT ![Len(d.groups)] = Append(last, i)]
    BY <1>7
  <2>2. Deal(words, count, most, d, i)
           = [groups |-> [d.groups EXCEPT ![Len(d.groups)] = Append(@, i)],
              elapsed |-> d.elapsed + words[i]]
    BY DEF Deal, Begins
  <2> QED
    BY <1>10, <2>1, <2>2, Zenon
<1>12. PICK longer \in Seq(Nat) : longer = Append(last, i)
  BY <1>9
<1>13. PICK grown \in Seq(Seq(Nat)) : grown = Append(front, longer) /\ grown # <<>>
  BY AppendProperties
<1>14. Deal(words, count, most, d, i) = [groups |-> grown, elapsed |-> d.elapsed + words[i]]
  BY <1>11, <1>12, <1>13
<1>15. Lengthens(words, i, d, Deal(words, count, most, d, i), front, last, longer, grown)
  BY <1>6, <1>8, <1>9, <1>12, <1>13, <1>14 DEF Lengthens
<1> QED
  BY <1>15

\* Either way, another segment has been dealt.
LEMMA DealStays ==
    ASSUME NEW words \in Seq(Nat), NEW count, NEW most, NEW d \in Dealts, NEW i \in DOMAIN words
    PROVE  Deal(words, count, most, d, i) \in Dealts
<1>1. d.elapsed + words[i] \in Nat
  BY DealFacts
<1>2. ASSUME NEW groups \in Seq(Seq(Nat)), groups # <<>>
      PROVE  [groups |-> groups, elapsed |-> d.elapsed + words[i]] \in Dealts
  BY <1>1, <1>2 DEF Dealts
<1>3. CASE Begins(words, count, most, d, i)
  <2>1. PICK groups \in Seq(Seq(Nat)) : groups = Append(d.groups, <<i>>) /\ groups # <<>>
    BY <1>3, DealBegins
  <2>2. Deal(words, count, most, d, i) = [groups |-> groups, elapsed |-> d.elapsed + words[i]]
    BY <1>3, <2>1, DealBegins
  <2> QED
    BY <1>2, <2>1, <2>2
<1>4. CASE ~Begins(words, count, most, d, i)
  <2>1. PICK front, grown \in Seq(Seq(Nat)), last, longer \in Seq(Nat) :
            Lengthens(words, i, d, Deal(words, count, most, d, i), front, last, longer, grown)
    BY <1>4, DealJoins
  <2>2. /\ grown # <<>>
        /\ Deal(words, count, most, d, i) = [groups |-> grown, elapsed |-> d.elapsed + words[i]]
    BY <2>1 DEF Lengthens
  <2> QED
    BY <1>2, <2>2
<1> QED
  BY <1>3, <1>4

\* The deals of a plan, from the first segment to the last.
Deals(d, words, count, most) ==
    /\ d[0] = Start
    /\ \A i \in DOMAIN words : d[i] = Deal(words, count, most, d[i - 1], i)

\* The groups of a plan are what the segments dealt one by one come to.
LEMMA GroupsAreDealt ==
    ASSUME NEW words \in Seq(Nat), NEW target, NEW most
    PROVE  \E d \in [0..Len(words) -> Dealts] :
              /\ Deals(d, words, WindowCount(words, target, most), most)
              /\ Groups(words, target, most) = d[Len(words)].groups
<1> DEFINE n == Len(words)
           count == WindowCount(words, target, most)
           order == [i \in DOMAIN words |-> i]
           step == [x \in (1..n) \X Dealts |-> Deal(words, count, most, x[2], x[1])]
           fold(g) == [t \in SUBSET DOMAIN order |->
                         IF t = {} THEN Start
                         ELSE Deal(words, count, most, g[t \ {Max(t)}], order[Max(t)])]
           chosen == CHOOSE g : g = fold(g)
<1>1. n \in Nat /\ DOMAIN words = 1..n /\ DOMAIN order = 1..n /\ \A i \in 1..n : order[i] = i
  BY LenProperties
<1>2. Start \in Dealts
  <2>1. <<>> \in Seq(Nat) /\ << <<>> >> \in Seq(Seq(Nat)) /\ << <<>> >> # <<>>
    OBVIOUS
  <2> QED
    BY <2>1 DEF Start, Dealts
<1>0. ASSUME NEW i \in 1..n, NEW d \in Dealts PROVE Deal(words, count, most, d, i) \in Dealts
  BY <1>1, DealStays
<1>3. step \in [(1..n) \X Dealts -> Dealts]
  <2> HIDE DEF count
  <2> QED
    BY <1>0
<1>4. PICK g \in [SUBSET (1..n) -> Dealts] : FoldsBy(g, n, Start, step)
  <2> HIDE DEF step, n
  <2> QED
    BY <1>1, <1>2, <1>3, FoldExists
<1>5. ASSUME NEW t \in SUBSET (1..n)
      PROVE  t # {} => /\ Max(t) \in 1..n /\ order[Max(t)] = Max(t)
                       /\ t \ {Max(t)} \in SUBSET (1..n)
  <2> HIDE DEF n, order
  <2> QED
    BY <1>1, MaxOf
<1>6. ASSUME NEW t \in SUBSET (1..n)
      PROVE  g[t] = IF t = {} THEN Start
                    ELSE Deal(words, count, most, g[t \ {Max(t)}], order[Max(t)])
  <2>1. g[t] = IF t = {} THEN Start ELSE step[<<Max(t), g[t \ {Max(t)}]>>]
    BY <1>4 DEF FoldsBy
  <2>2. CASE t = {}
    BY <2>1, <2>2
  <2>3. CASE t # {}
    <3>1. Max(t) \in 1..n /\ order[Max(t)] = Max(t) /\ g[t \ {Max(t)}] \in Dealts
      BY <1>4, <1>5, <2>3
    <3> HIDE DEF n, count, order
    <3> QED
      BY <2>1, <2>3, <3>1
  <2> QED
    BY <2>2, <2>3
<1>7. g = fold(g)
  <2>1. g = [t \in SUBSET (1..n) |-> g[t]]
    BY <1>4
  <2> HIDE DEF n, count, order
  <2> QED
    BY <1>1, <1>6, <2>1
<1>8. chosen = fold(chosen)
  BY <1>7, Zenon
<1>9. Groups(words, target, most) = chosen[DOMAIN order].groups
  BY DEF Groups, FoldLeft, MapThenFoldSet, Start
<1> HIDE DEF chosen
<1>10. ASSUME NEW t \in SUBSET (1..n)
       PROVE  chosen[t] = IF t = {} THEN Start
                          ELSE Deal(words, count, most, chosen[t \ {Max(t)}], order[Max(t)])
  <2> DEFINE f == fold(chosen)
  <2>1. f[t] = IF t = {} THEN Start
               ELSE Deal(words, count, most, chosen[t \ {Max(t)}], order[Max(t)])
    BY <1>1
  <2> HIDE DEF f
  <2>2. chosen = f
    BY <1>8 DEF f
  <2> QED
    BY <2>1, <2>2
<1> DEFINE d == [i \in 0..n |-> chosen[1..i]]
<1>11. d[0] = Start
  <2>1. 1..0 \in SUBSET (1..n) /\ 1..0 = {} /\ 0 \in 0..n
    BY <1>1
  <2>2. chosen[1..0] = Start
    BY <1>10, <2>1
  <2> QED
    BY <2>1, <2>2
<1>12. ASSUME NEW i \in 1..n PROVE d[i] = Deal(words, count, most, d[i - 1], i)
  <2>1. i \in 0..n /\ i - 1 \in 0..n /\ i \in Nat \ {0} /\ 1..i \in SUBSET (1..n)
    BY <1>1
  <2>2. Max(1..i) = i /\ (1..i) \ {i} = 1..i - 1 /\ 1..i # {}
    BY <2>1, MaxOfFirst
  <2>3. chosen[1..i] = Deal(words, count, most, chosen[1..i - 1], order[i])
    BY <1>10, <2>1, <2>2
  <2>4. d[i] = chosen[1..i] /\ d[i - 1] = chosen[1..i - 1]
    BY <2>1
  <2> HIDE DEF n, count, d, order
  <2> QED
    BY <1>1, <2>3, <2>4
<1>13. \A i \in 0..n : d[i] \in Dealts
  <2> DEFINE reached == {i \in Nat : i <= n => d[i] \in Dealts}
  <2>1. 0 \in reached
    BY <1>2, <1>11
  <2>2. ASSUME NEW i \in Nat, i \in reached PROVE i + 1 \in reached
    <3> SUFFICES ASSUME i + 1 <= n PROVE d[i + 1] \in Dealts
      OBVIOUS
    <3>1. PICK j \in 1..n : j = i + 1 /\ j - 1 = i
      BY <1>1
    <3>2. d[i] \in Dealts
      <4>1. i <= n
        BY <3>1, <1>1
      <4> HIDE DEF d
      <4> QED
        BY <2>2, <4>1
    <3> HIDE DEF d, count, n
    <3>3. d[j] = Deal(words, count, most, d[i], j)
      BY <1>12, <3>1
    <3>4. d[j] \in Dealts
      BY <1>0, <3>2, <3>3
    <3> QED
      BY <3>1, <3>4
  <2>3. Nat \subseteq reached
    <3> HIDE DEF reached
    <3> QED
      BY <2>1, <2>2, EveryNumber
  <2> HIDE DEF d
  <2> QED
    BY <2>3
<1>14. d \in [0..n -> Dealts]
  BY <1>13
<1>15. Groups(words, target, most) = d[n].groups
  BY <1>1, <1>9
<1>16. Deals(d, words, count, most)
  <2> HIDE DEF d, count, n
  <2> QED
    BY <1>1, <1>11, <1>12 DEF Deals
<1> HIDE DEF d
<1> QED
  BY <1>14, <1>15, <1>16

\* The segments 1 to n.
OneTo(n) == [k \in 1..n |-> k]

\* The first n segments, and the next.
LEMMA FirstAndNext ==
    ASSUME NEW n \in Nat
    PROVE  /\ OneTo(n) \in Seq(Nat) /\ Len(OneTo(n)) = n /\ <<n + 1>> \in Seq(Nat)
           /\ OneTo(n) \o <<n + 1>> = OneTo(n + 1)
<1> DEFINE a == OneTo(n)
           b == <<n + 1>>
           c == OneTo(n + 1)
<1>1. ASSUME NEW m \in Nat
      PROVE  OneTo(m) \in Seq(Nat) /\ Len(OneTo(m)) = m /\ \A k \in 1..m : OneTo(m)[k] = k
  <2>1. OneTo(m) \in [1..m -> Nat]
    BY DEF OneTo
  <2> QED
    BY <2>1 DEF OneTo
<1>2. b \in Seq(Nat) /\ Len(b) = 1 /\ b[1] = n + 1
  OBVIOUS
<1>3. a \in Seq(Nat) /\ Len(a) = n /\ \A k \in 1..n : a[k] = k
  BY <1>1
<1>4. c \in Seq(Nat) /\ Len(c) = n + 1 /\ \A k \in 1..n + 1 : c[k] = k
  BY <1>1
<1> HIDE DEF a, b, c
<1>5. /\ a \o b \in Seq(Nat) /\ Len(a \o b) = n + 1
      /\ \A k \in 1..n + 1 : (a \o b)[k] = IF k <= n THEN a[k] ELSE b[k - n]
  <2>1. /\ a \o b \in Seq(Nat) /\ Len(a \o b) = Len(a) + Len(b)
        /\ \A k \in 1..Len(a) + Len(b) : (a \o b)[k] = IF k <= Len(a) THEN a[k] ELSE b[k - Len(a)]
    BY <1>2, <1>3, ConcatProperties
  <2>2. Len(a) = n /\ Len(b) = 1
    BY <1>2, <1>3
  <2> QED
    BY <2>1, <2>2, Zenon
<1>6. \A k \in 1..n + 1 : (a \o b)[k] = c[k]
  <2> SUFFICES ASSUME NEW k \in 1..n + 1 PROVE (a \o b)[k] = k
    BY <1>4
  <2>1. CASE k <= n
    BY <1>3, <1>5, <2>1
  <2>2. CASE ~(k <= n)
    <3>1. k = n + 1 /\ k - n = 1
      BY <2>2
    <3> QED
      BY <1>2, <1>5, <2>2, <3>1
  <2> QED
    BY <2>1, <2>2
<1>7. a \o b = c
  BY <1>4, <1>5, <1>6, SeqEqual
<1> QED
  BY <1>2, <1>3, <1>7 DEF a, b, c

\* Three lists end to end.
LEMMA Regroup ==
    ASSUME NEW a \in Seq(Nat), NEW b \in Seq(Nat), NEW c \in Seq(Nat)
    PROVE  (a \o b) \o c = a \o (b \o c)
BY ConcatAssociative

\* No group is empty.
Full(groups) == \A g \in DOMAIN groups : groups[g] # <<>>

\* Dealing keeps the segments in order, and fills the first group before it opens another.
LEMMA DealInOrder ==
    ASSUME NEW words \in Seq(Nat), NEW count, NEW most, NEW d \in Dealts, NEW i \in DOMAIN words,
           FlattenSeq(d.groups) = OneTo(i - 1), d = Start \/ Full(d.groups),
           NEW e, e = Deal(words, count, most, d, i)
    PROVE  FlattenSeq(e.groups) = OneTo(i) /\ Full(e.groups)
<1>1. /\ d.groups \in Seq(Seq(Nat)) /\ i \in Nat /\ i - 1 \in Nat /\ <<i>> \in Seq(Nat)
      /\ <<i>> # <<>>
  BY DealFacts
<1>2. OneTo(i - 1) \in Seq(Nat) /\ OneTo(i - 1) \o <<i>> = OneTo(i)
  <2>1. PICK m \in Nat : m = i - 1 /\ m + 1 = i
    BY <1>1
  <2>2. OneTo(m) \in Seq(Nat) /\ OneTo(m) \o <<m + 1>> = OneTo(m + 1)
    BY FirstAndNext
  <2> QED
    BY <2>1, <2>2
<1>3. ASSUME NEW lists \in Seq(Seq(Nat)), NEW list \in Seq(Nat), list # <<>>, Full(lists)
      PROVE  Full(Append(lists, list))
  <2>1. /\ Append(lists, list) \in Seq(Seq(Nat)) /\ Len(Append(lists, list)) = Len(lists) + 1
        /\ Append(lists, list)[Len(lists) + 1] = list
        /\ \A g \in 1..Len(lists) : Append(lists, list)[g] = lists[g]
    BY AppendProperties
  <2>2. DOMAIN Append(lists, list) = 1..Len(lists) + 1 /\ DOMAIN lists = 1..Len(lists) /\ Len(lists) \in Nat
    BY <2>1, LenProperties
  <2>3. \A g \in 1..Len(lists) + 1 : g = Len(lists) + 1 \/ g \in 1..Len(lists)
    BY <2>2
  <2> QED
    BY <1>3, <2>1, <2>2, <2>3 DEF Full
<1>4. CASE Begins(words, count, most, d, i)
  <2>1. e.groups = Append(d.groups, <<i>>)
    <3>1. e = [groups |-> Append(d.groups, <<i>>), elapsed |-> d.elapsed + words[i]]
      BY <1>4, DealBegins
    <3> QED
      BY <3>1
  <2>2. FlattenSeq(e.groups) = OneTo(i)
    BY <1>1, <1>2, <2>1, FlattenAppend
  <2>3. d # Start
    <3> SUFFICES ASSUME d = Start PROVE FALSE
      OBVIOUS
    <3>1. d.groups = << <<>> >>
      BY DEF Start
    <3>2. Last(d.groups) = <<>>
      BY <3>1 DEF Last
    <3> QED
      BY <1>4, <3>2 DEF Begins
  <2>4. Full(e.groups)
    BY <1>1, <1>3, <2>1, <2>3
  <2> QED
    BY <2>2, <2>4
<1>5. CASE ~Begins(words, count, most, d, i)
  <2>0. PICK front, grown \in Seq(Seq(Nat)), last, longer \in Seq(Nat) :
            Lengthens(words, i, d, Deal(words, count, most, d, i), front, last, longer, grown)
    BY <1>5, DealJoins
  <2>1. /\ d.groups = Append(front, last) /\ longer = last \o <<i>> /\ longer # <<>>
        /\ grown = Append(front, longer)
        /\ e = [groups |-> grown, elapsed |-> d.elapsed + words[i]]
    BY <2>0 DEF Lengthens
  <2>2. e.groups = Append(front, longer)
    BY <2>1
  <2>3. /\ FlattenSeq(d.groups) = FlattenSeq(front) \o last
        /\ FlattenSeq(e.groups) = FlattenSeq(front) \o (last \o <<i>>)
        /\ FlattenSeq(front) \in Seq(Nat)
    BY <2>1, <2>2, FlattenAppend
  <2>4. FlattenSeq(e.groups) = (FlattenSeq(front) \o last) \o <<i>>
    <3>1. FlattenSeq(front) \o (last \o <<i>>) = (FlattenSeq(front) \o last) \o <<i>>
      <4>1. PICK a, b \in Seq(Nat) : a = FlattenSeq(front) /\ b = <<i>>
        BY <1>1, <2>3
      <4>2. a \o (last \o b) = (a \o last) \o b
        BY Regroup
      <4> QED
        BY <4>1, <4>2
    <3> QED
      BY <2>3, <3>1
  <2>5. FlattenSeq(e.groups) = OneTo(i)
    BY <1>2, <2>3, <2>4
  <2>6. Full(front)
    <3>1. /\ Len(d.groups) = Len(front) + 1 /\ DOMAIN front = 1..Len(front) /\ Len(front) \in Nat
          /\ DOMAIN d.groups = 1..Len(d.groups) /\ \A g \in 1..Len(front) : d.groups[g] = front[g]
      BY <1>1, <2>1, AppendProperties, LenProperties
    <3>2. CASE d = Start
      <4>1. Len(d.groups) = 1
        BY <3>2 DEF Start
      <4>2. PICK m \in Nat : m = Len(front) /\ m + 1 = 1
        BY <3>1, <4>1
      <4>3. DOMAIN front = {}
        BY <3>1, <4>2
      <4> QED
        BY <4>3 DEF Full
    <3>3. CASE Full(d.groups)
      <4>1. \A g \in 1..Len(front) : g \in 1..Len(d.groups)
        BY <3>1
      <4> QED
        BY <3>1, <3>3, <4>1 DEF Full
    <3> QED
      BY <3>2, <3>3
  <2>7. Full(e.groups)
    BY <1>3, <2>1, <2>2, <2>6
  <2> QED
    BY <2>5, <2>7
<1> QED
  BY <1>4, <1>5

\* The groups of a plan hold every segment once, in order, and none is empty.
LEMMA GroupsCover ==
    ASSUME NEW words \in Seq(Nat), words # <<>>, NEW target, NEW most
    PROVE  LET groups == Groups(words, target, most)
           IN  /\ groups \in Seq(Seq(Nat)) /\ groups # <<>>
               /\ FlattenSeq(groups) = OneTo(Len(words)) /\ Full(groups)
<1> DEFINE n == Len(words)
           count == WindowCount(words, target, most)
<1>1. n \in Nat /\ n # 0 /\ DOMAIN words = 1..n
  BY LenProperties, EmptySeq
<1>2. PICK d \in [0..n -> Dealts] :
           Deals(d, words, count, most) /\ Groups(words, target, most) = d[n].groups
  BY GroupsAreDealt
<1> HIDE DEF n, count
<1> DEFINE Good(i) == /\ d[i] \in Dealts /\ FlattenSeq(d[i].groups) = OneTo(i)
                      /\ d[i] = Start \/ Full(d[i].groups)
                      /\ i # 0 => Full(d[i].groups)
           good == {i \in Nat : i <= n => Good(i)}
<1>3. 0 \in good
  <2>1. d[0] = Start /\ d[0] \in Dealts
    BY <1>1, <1>2 DEF Deals
  <2>2. FlattenSeq(Start.groups) = OneTo(0)
    <3>1. <<>> \in Seq(Seq(Nat)) /\ <<>> \in Seq(Nat) /\ Append(<<>>, <<>>) = << <<>> >>
      OBVIOUS
    <3>2. FlattenSeq(<<>>) = <<>> /\ FlattenSeq(Append(<<>>, <<>>)) = FlattenSeq(<<>>) \o <<>>
      BY <3>1, FlattenAppend
    <3>3. OneTo(0) = <<>> /\ <<>> \o <<>> = <<>>
      BY DEF OneTo
    <3> QED
      BY <3>1, <3>2, <3>3 DEF Start
  <2>3. Good(0)
    BY <2>1, <2>2
  <2> HIDE DEF Good
  <2> QED
    BY <2>3
<1>4. ASSUME NEW i \in Nat, i \in good PROVE i + 1 \in good
  <2> SUFFICES ASSUME i + 1 <= n PROVE Good(i + 1)
    <3> HIDE DEF Good
    <3> QED
      OBVIOUS
  <2>1. PICK j \in 1..n : j = i + 1 /\ j - 1 = i /\ j # 0
    BY <1>1
  <2>2. Good(i)
    <3>1. i <= n
      BY <1>1, <2>1
    <3> HIDE DEF Good
    <3> QED
      BY <1>4, <3>1
  <2>3. d[j] = Deal(words, count, most, d[i], j)
    BY <1>1, <1>2, <2>1 DEF Deals
  <2>4. d[j] \in Dealts
    BY <1>1, <1>2
  <2>5. FlattenSeq(d[j].groups) = OneTo(j) /\ Full(d[j].groups)
    <3>1. PICK e : e = d[j]
      OBVIOUS
    <3>2. PICK f \in Dealts : f = d[i]
      BY <2>2
    <3>3. FlattenSeq(f.groups) = OneTo(j - 1) /\ (f = Start \/ Full(f.groups)) /\ j \in DOMAIN words
      BY <1>1, <2>1, <2>2, <3>2
    <3>4. e = Deal(words, count, most, f, j)
      BY <2>3, <3>1, <3>2
    <3>5. FlattenSeq(e.groups) = OneTo(j) /\ Full(e.groups)
      BY <3>3, <3>4, DealInOrder
    <3> QED
      BY <3>1, <3>5
  <2>6. Good(j)
    BY <2>4, <2>5
  <2> QED
    BY <2>1, <2>6
<1>5. Nat \subseteq good
  <2> HIDE DEF good
  <2> QED
    BY <1>3, <1>4, EveryNumber
<1>6. Good(n)
  <2> HIDE DEF Good
  <2>1. n \in good
    BY <1>1, <1>5
  <2> QED
    BY <1>1, <2>1
<1> QED
  BY <1>1, <1>2, <1>6 DEF Dealts, n

-----------------------------------------------------------------------------
(***************************************************************************)
(* The windows of a plan and the halves of a window.                       *)
(***************************************************************************)

\* A list cut in two.
CutInto(s, m, n, left, right) ==
    /\ left = SubSeq(s, 1, m) /\ left # <<>>
    /\ right = SubSeq(s, m + 1, n) /\ right # <<>>
    /\ left \o right = s

\* A list cut in two.
LEMMA CutInTwo ==
    ASSUME NEW S, NEW s \in Seq(S), NEW n \in Nat, n = Len(s), NEW m \in Nat, 1 <= m, m < n
    PROVE  \E left, right \in Seq(S) : CutInto(s, m, n, left, right)
<1>1. n \in Int /\ m \in Int /\ m + 1 \in Int /\ m + 1 <= n /\ ~(n < m + 1)
  OBVIOUS
<1>2. \A i \in 1..n : s[i] \in S
  BY ElementOfSeq
<1>3. (\A i \in 1..m : i \in 1..n) /\ (\A i \in m + 1..n : i \in 1..n)
  OBVIOUS
<1>4. PICK left \in Seq(S) : left = SubSeq(s, 1, m) /\ Len(left) = m
  <2>1. \A i \in 1..m : s[i] \in S
    BY <1>2, <1>3
  <2>2. SubSeq(s, 1, m) \in Seq(S) /\ Len(SubSeq(s, 1, m)) = IF 1 <= m THEN m - 1 + 1 ELSE 0
    BY <2>1, SubSeqProperties
  <2>3. (IF 1 <= m THEN m - 1 + 1 ELSE 0) = m
    OBVIOUS
  <2>4. Len(SubSeq(s, 1, m)) = m
    BY <2>2, <2>3, Zenon
  <2> QED
    BY <2>2, <2>4
<1>5. PICK right \in Seq(S) : right = SubSeq(s, m + 1, n) /\ Len(right) = n - m
  <2>1. \A i \in m + 1..n : s[i] \in S
    BY <1>2, <1>3
  <2>2. /\ SubSeq(s, m + 1, n) \in Seq(S)
        /\ Len(SubSeq(s, m + 1, n)) = IF m + 1 <= n THEN n - (m + 1) + 1 ELSE 0
    BY <1>1, <2>1, SubSeqProperties
  <2>3. (IF m + 1 <= n THEN n - (m + 1) + 1 ELSE 0) = n - m
    BY <1>1
  <2>4. Len(SubSeq(s, m + 1, n)) = n - m
    BY <2>2, <2>3, Zenon
  <2> QED
    BY <2>2, <2>4
<1>6. left \o right = s
  <2>1. 1 \in 1..n + 1 /\ m \in 1 - 1..n /\ n \in m..n
    OBVIOUS
  <2>2. SubSeq(s, 1, m) \o SubSeq(s, m + 1, n) = SubSeq(s, 1, n)
    BY <2>1, ConcatAdjacentSubSeq
  <2>3. SubSeq(s, 1, n) = s
    BY SubSeqFull
  <2> QED
    BY <1>4, <1>5, <2>2, <2>3
<1>7. left # <<>> /\ right # <<>>
  <2>1. m # 0 /\ n - m # 0 /\ Len(<<>>) = 0
    OBVIOUS
  <2> QED
    BY <1>4, <1>5, <2>1
<1>8. CutInto(s, m, n, left, right)
  BY <1>4, <1>5, <1>6, <1>7 DEF CutInto
<1> QED
  BY <1>8

\* The beginning of a list, and of what follows it.
LEMMA Beginning ==
    ASSUME NEW S, NEW s \in Seq(S), s # <<>>, NEW t \in Seq(S), NEW k \in Nat, 1 <= k, k <= Len(s \o t)
    PROVE  /\ SubSeq(s \o t, 1, k) \in Seq(S) /\ SubSeq(s \o t, 1, k) # <<>>
           /\ Head(SubSeq(s \o t, 1, k)) = Head(s)
<1>1. PICK m, n \in Nat : m = Len(s) /\ n = Len(t) /\ m # 0
  BY LenProperties, EmptySeq
<1>2. PICK u \in Seq(S) :
         /\ u = s \o t /\ Len(u) = m + n
         /\ \A i \in 1..m + n : u[i] = IF i <= m THEN s[i] ELSE t[i - m]
  <2>0. /\ s \o t \in Seq(S) /\ Len(s \o t) = Len(s) + Len(t)
        /\ \A i \in 1..Len(s) + Len(t) :
              (s \o t)[i] = IF i <= Len(s) THEN s[i] ELSE t[i - Len(s)]
    BY ConcatProperties
  <2>1. PICK u \in Seq(S) : u = s \o t
    BY <2>0
  <2>2. Len(u) = m + n /\ \A i \in 1..m + n : u[i] = IF i <= m THEN s[i] ELSE t[i - m]
    BY <1>1, <2>0, <2>1, Zenon
  <2> QED
    BY <2>1, <2>2
<1>3. 1 \in 1..m + n /\ 1 <= m /\ k <= m + n
  BY <1>1, <1>2
<1>4. u[1] = s[1]
  BY <1>2, <1>3
<1>5. \A i \in 1..k : u[i] \in S
  <2>1. \A i \in 1..m + n : u[i] \in S
    BY <1>2, ElementOfSeq
  <2>2. \A i \in 1..k : i \in 1..m + n
    BY <1>3
  <2> QED
    BY <2>1, <2>2
<1>6. /\ SubSeq(u, 1, k) \in Seq(S)
      /\ Len(SubSeq(u, 1, k)) = IF 1 <= k THEN k - 1 + 1 ELSE 0
      /\ \A i \in 1..k - 1 + 1 : SubSeq(u, 1, k)[i] = u[1 + i - 1]
  BY <1>5, SubSeqProperties
<1>7. Len(SubSeq(u, 1, k)) = k /\ SubSeq(u, 1, k)[1] = u[1]
  BY <1>6
<1>8. PICK a \in Seq(S) : a = SubSeq(u, 1, k) /\ Len(a) = k /\ a[1] = u[1]
  BY <1>6, <1>7
<1>9. a # <<>>
  <2>1. Len(<<>>) = 0 /\ k # 0
    OBVIOUS
  <2> QED
    BY <1>8, <2>1
<1>10. Head(a) = a[1] /\ Head(s) = s[1]
  BY <1>9
<1> QED
  BY <1>2, <1>4, <1>8, <1>9, <1>10

\* The middle of a window, and how far its first half sees.
LEMMA Inside ==
    ASSUME NEW n \in Nat, n > 1
    PROVE  Greater(1, n \div 2) \in Nat /\ 1 <= Greater(1, n \div 2) /\ Greater(1, n \div 2) < n
<1>1. n \div 2 \in Nat /\ n \div 2 < n
  OBVIOUS
<1> QED
  BY <1>1 DEF Greater

\* How far the first half of a window sees: at least one segment, at most all there are.
LEMMA Reaches ==
    ASSUME NEW a \in Nat, NEW b \in Nat, 1 <= b
    PROVE  LET far == Lesser(Greater(a, 5), b) IN far \in Nat /\ 1 <= far /\ far <= b
BY DEF Lesser, Greater

\* The halves of a window ask for what it did, and are not empty; the first looks into the
\* second.
HalvesOf(w, halves, left, right, ahead) ==
    /\ left # <<>> /\ right # <<>> /\ left \o right = w.targets
    /\ ahead # <<>> /\ Head(ahead) = Head(right)
    /\ halves = << [targets |-> left,  after |-> ahead,   depth |-> w.depth + 1],
                   [targets |-> right, after |-> w.after, depth |-> w.depth + 1] >>

\* A window of two segments or more has such halves.
LEMMA Halves ==
    ASSUME NEW S, NEW w, w.targets \in Seq(S), w.after \in Seq(S), Len(w.targets) > 1
    PROVE  \E left, right, ahead \in Seq(S) : HalvesOf(w, Split(w), left, right, ahead)
<1>1. PICK all, after \in Seq(S), n \in Nat :
         all = w.targets /\ after = w.after /\ n = Len(all) /\ n > 1
  <2>1. PICK all, after \in Seq(S) : all = w.targets /\ after = w.after
    OBVIOUS
  <2>2. PICK n \in Nat : n = Len(all)
    BY LenProperties
  <2>3. n > 1
    BY <2>1, <2>2
  <2> QED
    BY <2>1, <2>2, <2>3
<1>2. PICK middle \in Nat : middle = Greater(1, n \div 2) /\ 1 <= middle /\ middle < n
  <2>1. n > 1
    BY <1>1
  <2> QED
    BY <2>1, Inside
<1>0. PICK left, right \in Seq(S) : CutInto(all, middle, n, left, right)
  <2>1. n = Len(all) /\ 1 <= middle /\ middle < n
    BY <1>1, <1>2
  <2> QED
    BY <2>1, CutInTwo
<1>3. /\ left = SubSeq(all, 1, middle) /\ left # <<>>
      /\ right = SubSeq(all, middle + 1, n) /\ right # <<>>
      /\ left \o right = all
  BY <1>0 DEF CutInto
<1>4. PICK reach \in Nat :
         /\ reach = Lesser(Greater(Len(after), 5), Len(right \o after))
         /\ 1 <= reach /\ reach <= Len(right \o after)
  <2>1. PICK a, b \in Nat : a = Len(after) /\ b = Len(right) /\ b # 0
    BY <1>3, LenProperties, EmptySeq
  <2>2. Len(right \o after) = b + a
    <3>1. Len(right \o after) = Len(right) + Len(after)
      BY ConcatProperties
    <3> QED
      BY <2>1, <3>1, Zenon
  <2>3. PICK c \in Nat : c = b + a /\ 1 <= c
    BY <2>1
  <2>4. PICK far \in Nat : far = Lesser(Greater(a, 5), c) /\ 1 <= far /\ far <= c
    BY <2>3, Reaches
  <2> QED
    BY <2>1, <2>2, <2>3, <2>4
<1>5. PICK ahead \in Seq(S) :
         ahead = SubSeq(right \o after, 1, reach) /\ ahead # <<>> /\ Head(ahead) = Head(right)
  <2>1. right # <<>> /\ 1 <= reach /\ reach <= Len(right \o after)
    BY <1>3, <1>4
  <2>2. /\ SubSeq(right \o after, 1, reach) \in Seq(S) /\ SubSeq(right \o after, 1, reach) # <<>>
        /\ Head(SubSeq(right \o after, 1, reach)) = Head(right)
    BY <2>1, Beginning
  <2> QED
    BY <2>2
<1>6. Split(w) = << [targets |-> left,  after |-> ahead,   depth |-> w.depth + 1],
                    [targets |-> right, after |-> w.after, depth |-> w.depth + 1] >>
  BY <1>1, <1>2, <1>3, <1>4, <1>5 DEF Split
<1>7. HalvesOf(w, Split(w), left, right, ahead)
  BY <1>1, <1>3, <1>5, <1>6 DEF HalvesOf
<1> QED
  BY <1>7

\* What two windows ask for.
LEMMA AskedOfTwo ==
    ASSUME NEW S, NEW a, NEW b, a.targets \in Seq(S), b.targets \in Seq(S)
    PROVE  Asked(<<a, b>>) = a.targets \o b.targets
<1>1. PICK s, t \in Seq(S) : s = a.targets /\ t = b.targets
  OBVIOUS
<1>2. [g \in DOMAIN <<a, b>> |-> <<a, b>>[g].targets] = <<s, t>>
  BY <1>1
<1>3. /\ <<>> \in Seq(Seq(S)) /\ <<s>> \in Seq(Seq(S))
      /\ Append(<<>>, s) = <<s>> /\ Append(<<s>>, t) = <<s, t>>
  <2>1. <<>> \in Seq(Seq(S))
    OBVIOUS
  <2>2. <<s>> \in Seq(Seq(S))
    OBVIOUS
  <2>3. Append(<<>>, s) = <<s>>
    OBVIOUS
  <2>4. Append(<<s>>, t) = <<s, t>>
    <3> DEFINE x == Append(<<s>>, t)
               y == <<s, t>>
    <3>1. /\ x \in Seq(Seq(S)) /\ Len(x) = Len(<<s>>) + 1
          /\ \A i \in 1..Len(<<s>>) : x[i] = <<s>>[i]
          /\ x[Len(<<s>>) + 1] = t
      BY <2>2, AppendProperties
    <3>2. Len(<<s>>) = 1 /\ <<s>>[1] = s /\ 1 \in 1..1 /\ 1 + 1 = 2
      OBVIOUS
    <3>3. Len(x) = 2 /\ x[1] = s /\ x[2] = t
      BY <3>1, <3>2, Zenon
    <3>4. y \in Seq(Seq(S)) /\ Len(y) = 2 /\ y[1] = s /\ y[2] = t
      OBVIOUS
    <3> HIDE DEF x, y
    <3>5. \A i \in 1..Len(x) : i = 1 \/ i = 2
      BY <3>3
    <3>6. Len(x) = Len(y) /\ \A i \in 1..Len(x) : x[i] = y[i]
      BY <3>3, <3>4, <3>5
    <3>7. x \in Seq(Seq(S)) /\ y \in Seq(Seq(S))
      BY <3>1, <3>4
    <3>8. x = y
      BY <3>6, <3>7, SeqEqual
    <3> QED
      BY <3>8 DEF x, y
  <2> QED
    BY <2>1, <2>2, <2>3, <2>4
<1>4. FlattenSeq(<<s>>) = <<>> \o s /\ FlattenSeq(<<s, t>>) = FlattenSeq(<<s>>) \o t
  <2>1. FlattenSeq(Append(<<>>, s)) = FlattenSeq(<<>>) \o s /\ FlattenSeq(<<>>) = <<>>
    BY <1>3, FlattenAppend
  <2>2. FlattenSeq(Append(<<s>>, t)) = FlattenSeq(<<s>>) \o t
    BY <1>3, FlattenAppend
  <2> QED
    BY <1>3, <2>1, <2>2
<1>5. <<>> \o s = s
  BY ConcatEmptySeq
<1> QED
  BY <1>1, <1>2, <1>4, <1>5 DEF Asked

\* What a plan's windows ask for are its groups.
Windowed(windows, groups, words, look) ==
    /\ DOMAIN windows = DOMAIN groups /\ Asked(windows) = FlattenSeq(groups)
    /\ \A g \in DOMAIN groups :
         windows[g] = [targets |-> groups[g],
                       after |-> After(words, Last(groups[g]), look), depth |-> 0]

\* Each window of a plan asks for one group, and shows what comes after it.
LEMMA PlanAsks ==
    ASSUME NEW words \in Seq(Nat), words # <<>>, NEW target, NEW look \in Nat, NEW most
    PROVE  Windowed(PlanWindows(words, target, look, most), Groups(words, target, most), words, look)
<1> DEFINE windows == PlanWindows(words, target, look, most)
           groups == Groups(words, target, most)
<1>1. groups \in Seq(Seq(Nat))
  BY GroupsCover
<1> HIDE DEF groups
<1>2. windows = [g \in DOMAIN groups |->
                   [targets |-> groups[g], after |-> After(words, Last(groups[g]), look), depth |-> 0]]
  BY DEF PlanWindows, groups
<1> HIDE DEF windows
<1>3. DOMAIN windows = DOMAIN groups
  BY <1>2
<1>4. \A g \in DOMAIN groups :
         windows[g] = [targets |-> groups[g], after |-> After(words, Last(groups[g]), look), depth |-> 0]
  BY <1>2
<1>5. [g \in DOMAIN windows |-> windows[g].targets] = groups
  <2>1. ASSUME NEW g \in DOMAIN groups PROVE windows[g].targets = groups[g]
    <3>1. PICK w : w = windows[g]
      OBVIOUS
    <3>2. w = [targets |-> groups[g], after |-> After(words, Last(groups[g]), look), depth |-> 0]
      BY <1>4, <3>1
    <3> QED
      BY <3>1, <3>2
  <2>2. [g \in DOMAIN windows |-> windows[g].targets] = [g \in DOMAIN groups |-> groups[g]]
    BY <1>3, <2>1
  <2>3. groups = [g \in DOMAIN groups |-> groups[g]]
    BY <1>1
  <2> QED
    BY <2>2, <2>3
<1> QED
  BY <1>3, <1>4, <1>5 DEF Asked, windows, groups, Windowed

\* The lesser of two numbers.
LEMMA LesserOfTwo ==
    ASSUME NEW a \in Nat, NEW b \in Nat
    PROVE  Lesser(a, b) \in Nat /\ Lesser(a, b) <= b
BY DEF Lesser

\* What a window shows after its targets are positions of the episode.
LEMMA AfterIsShown ==
    ASSUME NEW words \in Seq(Nat), NEW i \in 1..Len(words), NEW look \in Nat
    PROVE  /\ After(words, i, look) \in Seq(i + 1..Len(words))
           /\ Len(After(words, i, look)) = Lesser(look, Len(words) - i)
           /\ \A k \in DOMAIN After(words, i, look) : After(words, i, look)[k] = i + k
<1>1. PICK n \in Nat : n = Len(words)
  BY LenProperties
<1>2. PICK far \in Nat : far = Lesser(look, n - i) /\ far <= n - i
  <2>1. i \in Nat /\ i <= n
    BY <1>1
  <2>2. PICK m \in Nat : m = n - i
    BY <2>1
  <2>3. Lesser(look, m) \in Nat /\ Lesser(look, m) <= m
    BY LesserOfTwo
  <2> QED
    BY <2>2, <2>3
<1>3. After(words, i, look) = [k \in 1..far |-> i + k]
  BY <1>1, <1>2 DEF After
<1>4. \A k \in 1..far : i + k \in i + 1..n
  BY <1>1, <1>2
<1>5. [k \in 1..far |-> i + k] \in Seq(i + 1..n)
  <2>1. PICK T : T = i + 1..n
    OBVIOUS
  <2>2. [k \in 1..far |-> i + k] \in [1..far -> T]
    BY <1>4, <2>1
  <2>3. \A f \in [1..far -> T] : f \in Seq(T)
    OBVIOUS
  <2> QED
    BY <2>1, <2>2, <2>3
<1>6. Len([k \in 1..far |-> i + k]) = far
  BY <1>5, LenProperties
<1> QED
  BY <1>1, <1>2, <1>3, <1>5, <1>6

\* Whatever is said where, a plan asks for every segment exactly once, in the order of the
\* episode, in windows that are not empty; what a window shows besides is the whole lookahead,
\* or the rest of the episode, right after; and its halves, should it have to be split, ask for what it did, the first one
\* seeing where the second begins (plan_windows and Window.split in llm/fusion.py).
THEOREM PlanTheorem ==
    \A words \in Seq(Nat), target \in Nat, look \in Nat, most \in Nat \ {0} :
       PlanCovers(words, target, look, most)
<1> SUFFICES ASSUME NEW words \in Seq(Nat), NEW target \in Nat, NEW look \in Nat,
                    NEW most \in Nat \ {0}
             PROVE  PlanCovers(words, target, look, most)
  OBVIOUS
<1> DEFINE windows == PlanWindows(words, target, look, most)
           groups == Groups(words, target, most)
           n == Len(words)
<1>1. CASE words = <<>>
  <2>1. windows = <<>>
    BY <1>1 DEF PlanWindows
  <2>2. Asked(<<>>) = <<>>
    <3>1. [g \in DOMAIN <<>> |-> <<>>[g].targets] = <<>> /\ <<>> \in Seq(Seq(Nat)) /\ <<>> \in Seq(Nat)
      OBVIOUS
    <3>2. FlattenSeq(<<>>) = <<>>
      BY <3>1, FlattenAppend
    <3> QED
      BY <3>1, <3>2 DEF Asked
  <2>3. [i \in DOMAIN words |-> i] = <<>>
    BY <1>1
  <2>4. DOMAIN windows = {}
    BY <2>1
  <2>5. Asked(windows) = [i \in DOMAIN words |-> i]
    BY <2>1, <2>2, <2>3
  <2> QED
    BY <2>4, <2>5 DEF PlanCovers
<1>2. CASE words # <<>>
  <2>1. groups \in Seq(Seq(Nat)) /\ FlattenSeq(groups) = OneTo(n) /\ Full(groups)
    BY <1>2, GroupsCover
  <2>2. /\ DOMAIN windows = DOMAIN groups /\ Asked(windows) = FlattenSeq(groups)
        /\ \A g \in DOMAIN groups :
             windows[g] = [targets |-> groups[g],
                           after |-> After(words, Last(groups[g]), look), depth |-> 0]
    <3>1. Windowed(windows, groups, words, look)
      BY <1>2, PlanAsks
    <3> HIDE DEF windows, groups
    <3> QED
      BY <3>1 DEF Windowed
  <2> HIDE DEF windows, groups
  <2>3. n \in Nat /\ DOMAIN words = 1..n
    BY LenProperties
  <2>4. Asked(windows) = [i \in DOMAIN words |-> i]
    BY <2>1, <2>2, <2>3 DEF OneTo
  <2>5. ASSUME NEW g \in DOMAIN windows
        PROVE  LET w == windows[g]
               IN  /\ w.targets # <<>>
                   /\ Len(w.after) = Lesser(look, Len(words) - Last(w.targets))
                   /\ \A k \in DOMAIN w.after : w.after[k] = Last(w.targets) + k
                   /\ Len(w.targets) > 1 =>
                        /\ Asked(Split(w)) = w.targets
                        /\ Head(Split(w)[1].after) = Head(Split(w)[2].targets)
    <3> DEFINE w == windows[g]
    <3>1. PICK s \in Seq(Nat) : s = groups[g] /\ s # <<>>
      <4>1. g \in 1..Len(groups)
        BY <2>1, <2>2, <2>5, LenProperties
      <4> QED
        BY <2>1, <2>2, <4>1, ElementOfSeq DEF Full
    <3>2. w = [targets |-> s, after |-> After(words, Last(s), look), depth |-> 0]
      BY <2>2, <3>1
    <3>3. Last(s) \in 1..n
      <4>1. Range(FlattenSeq(groups)) = Members(groups)
        BY <2>1, FlattenFacts
      <4>2. Range(OneTo(n)) = 1..n
        BY DEF OneTo, Range
      <4>3. PICK m \in 1..Len(s) : m = Len(s)
        <5>1. Len(s) \in Nat /\ Len(s) # 0
          BY <3>1, LenProperties, EmptySeq
        <5> QED
          BY <5>1
      <4>4. s[m] \in Range(s)
        BY <4>3, LenProperties DEF Range
      <4>5. s[m] \in Members(groups)
        BY <2>2, <3>1, <4>4 DEF Members
      <4> QED
        BY <2>1, <4>1, <4>2, <4>3, <4>5 DEF Last
    <3>4. PICK after \in Seq(Nat) :
             /\ after = After(words, Last(s), look)
             /\ Len(after) = Lesser(look, Len(words) - Last(s))
             /\ \A k \in DOMAIN after : after[k] = Last(s) + k
      <4>1. PICK i \in 1..Len(words) : i = Last(s)
        BY <3>3
      <4>2. /\ After(words, i, look) \in Seq(i + 1..Len(words))
            /\ Len(After(words, i, look)) = Lesser(look, Len(words) - i)
            /\ \A k \in DOMAIN After(words, i, look) : After(words, i, look)[k] = i + k
        BY AfterIsShown
      <4>3. i + 1..Len(words) \subseteq Nat
        BY <2>3
      <4>4. After(words, i, look) \in Seq(Nat)
        BY <4>2, <4>3, SeqMonotonic
      <4> QED
        BY <4>1, <4>2, <4>4
    <3>5. w.targets = s /\ w.after = after /\ w.depth = 0
      BY <3>2, <3>4
    <3> HIDE DEF w
    <3>6. ASSUME Len(w.targets) > 1
          PROVE  /\ Asked(Split(w)) = w.targets
                 /\ Head(Split(w)[1].after) = Head(Split(w)[2].targets)
      <4>1. PICK left, right, ahead \in Seq(Nat) : HalvesOf(w, Split(w), left, right, ahead)
        <5>1. w.targets \in Seq(Nat) /\ w.after \in Seq(Nat)
          BY <3>5
        <5> QED
          BY <3>6, <5>1, Halves
      <4> DEFINE a == [targets |-> left,  after |-> ahead,   depth |-> w.depth + 1]
                 b == [targets |-> right, after |-> w.after, depth |-> w.depth + 1]
      <4>2. Split(w) = <<a, b>> /\ left \o right = w.targets /\ Head(ahead) = Head(right)
        BY <4>1 DEF HalvesOf
      <4>3. a.targets = left /\ b.targets = right /\ a.after = ahead
        OBVIOUS
      <4> HIDE DEF a, b
      <4>4. Asked(<<a, b>>) = a.targets \o b.targets
        BY <4>3, AskedOfTwo
      <4>5. <<a, b>>[1] = a /\ <<a, b>>[2] = b
        OBVIOUS
      <4> QED
        BY <4>2, <4>3, <4>4, <4>5
    <3> QED
      BY <3>1, <3>4, <3>5, <3>6 DEF w
  <2> QED
    BY <2>4, <2>5 DEF PlanCovers, windows
<1> QED
  BY <1>1, <1>2

\* The groups of a plan of n segments, and what its windows are.
PlannedBy(plan, groups, n) ==
    /\ groups \in Seq(Seq(1..n)) /\ Apart(groups) /\ Members(groups) = 1..n
    /\ DOMAIN plan = DOMAIN groups
    /\ \A g \in DOMAIN groups : \E after \in Seq(1..n) :
         plan[g] = [targets |-> groups[g], after |-> after, depth |-> 0]

\* A plan holds nothing but positions of the episode, each in one window.
LEMMA PlanPositions ==
    ASSUME NEW words \in Seq(Nat), words # <<>>, NEW target, NEW look \in Nat, NEW most
    PROVE  PlannedBy(PlanWindows(words, target, look, most), Groups(words, target, most), Len(words))
<1> DEFINE plan == PlanWindows(words, target, look, most)
           groups == Groups(words, target, most)
           n == Len(words)
<1>1. groups \in Seq(Seq(Nat)) /\ FlattenSeq(groups) = OneTo(n) /\ Full(groups)
  BY GroupsCover
<1>2. Windowed(plan, groups, words, look)
  BY PlanAsks
<1> HIDE DEF plan, groups
<1>3. n \in Nat
  BY LenProperties
<1>4. Range(OneTo(n)) = 1..n /\ IsInjective(OneTo(n))
  BY DEF OneTo, Range, IsInjective
<1>5. Members(groups) = 1..n /\ Apart(groups)
  BY <1>1, <1>4, FlattenFacts
<1>6. ASSUME NEW g \in DOMAIN groups
      PROVE  /\ groups[g] \in Seq(1..n)
             /\ \E after \in Seq(1..n) : plan[g] = [targets |-> groups[g], after |-> after, depth |-> 0]
  <2>1. PICK s \in Seq(Nat) : s = groups[g] /\ s # <<>>
    BY <1>1, <1>6, ElementOfSeq, LenProperties DEF Full
  <2>2. Range(s) \subseteq 1..n
    BY <1>5, <2>1 DEF Members
  <2>3. PICK m \in Nat : m = Len(s) /\ m # 0 /\ DOMAIN s = 1..m
    BY <2>1, LenProperties, EmptySeq
  <2>4. \A k \in 1..m : s[k] \in 1..n
    BY <2>2, <2>3 DEF Range
  <2>5. s \in Seq(1..n)
    <3>1. s = [k \in 1..m |-> s[k]]
      BY <2>3, LenProperties
    <3>2. [k \in 1..m |-> s[k]] \in [1..m -> 1..n]
      BY <2>4
    <3>3. [1..m -> 1..n] \subseteq Seq(1..n)
      BY SeqDef
    <3> QED
      BY <3>1, <3>2, <3>3
  <2>6. Last(s) \in 1..n
    BY <2>3, <2>4 DEF Last
  <2>7. After(words, Last(s), look) \in Seq(1..n)
    <3>1. PICK i \in 1..n : i = Last(s)
      BY <2>6
    <3>2. After(words, i, look) \in Seq(i + 1..n)
      BY AfterIsShown
    <3>3. i + 1..n \subseteq 1..n
      OBVIOUS
    <3> QED
      BY <3>1, <3>2, <3>3
  <2>8. plan[g] = [targets |-> groups[g], after |-> After(words, Last(s), look), depth |-> 0]
    BY <1>2, <2>1 DEF Windowed
  <2> QED
    BY <2>1, <2>5, <2>7, <2>8
<1>7. groups \in Seq(Seq(1..n))
  <2>1. PICK m \in Nat : m = Len(groups) /\ DOMAIN groups = 1..m
    BY <1>1, LenProperties
  <2>2. groups = [g \in 1..m |-> groups[g]]
    BY <1>1, <2>1, LenProperties
  <2>3. [g \in 1..m |-> groups[g]] \in [1..m -> Seq(1..n)]
    BY <1>6, <2>1
  <2>4. [1..m -> Seq(1..n)] \subseteq Seq(Seq(1..n))
    BY SeqDef
  <2> QED
    BY <2>2, <2>3, <2>4
<1>8. DOMAIN plan = DOMAIN groups
  BY <1>2 DEF Windowed
<1> QED
  BY <1>5, <1>6, <1>7, <1>8 DEF PlannedBy, plan, groups

-----------------------------------------------------------------------------
(***************************************************************************)
(* What several windows ask for, when the first is done with or split.     *)
(***************************************************************************)

\* Lists end to end, two and one or one and two.
LEMMA EndToEnd ==
    ASSUME NEW S, NEW a \in Seq(S), NEW b \in Seq(S), NEW c \in Seq(S)
    PROVE  (a \o b) \o c = a \o (b \o c)
BY ConcatAssociative

\* A list with one more is the list and a list of one.
LEMMA OneMore ==
    ASSUME NEW S, NEW us \in Seq(S), NEW x \in S
    PROVE  <<x>> \in Seq(S) /\ Append(us, x) = us \o <<x>> /\ Append(us, x) \in Seq(S)
BY AppendIsConcat, AppendProperties

\* Flattening lists end to end flattens each.
LEMMA FlattenConcat ==
    ASSUME NEW S, NEW ts \in Seq(Seq(S)), NEW list \in Seq(Seq(S))
    PROVE  FlattenSeq(ts \o list) = FlattenSeq(ts) \o FlattenSeq(list)
<1>a. ASSUME NEW us \in Seq(Seq(S)), NEW x \in Seq(S)
      PROVE  (ts \o us) \o <<x>> = ts \o (us \o <<x>>)
  <2>1. <<x>> \in Seq(Seq(S))
    BY OneMore
  <2> QED
    BY <2>1, EndToEnd
<1>b. ASSUME NEW a \in Seq(S), NEW b \in Seq(S), NEW c \in Seq(S)
      PROVE  (a \o b) \o c = a \o (b \o c)
  BY EndToEnd
<1> DEFINE good == {us \in Seq(Seq(S)) : FlattenSeq(ts \o us) = FlattenSeq(ts) \o FlattenSeq(us)}
<1>0. <<>> \in Seq(S) /\ <<>> \in Seq(Seq(S))
  OBVIOUS
<1>1. FlattenSeq(ts) \in Seq(S) /\ FlattenSeq(<<>>) = <<>>
  BY <1>0, FlattenAppend
<1>2. <<>> \in good
  <2>1. ts \o <<>> = ts /\ FlattenSeq(ts) \o <<>> = FlattenSeq(ts)
    BY <1>1, ConcatEmptySeq
  <2> QED
    BY <1>0, <1>1, <2>1
<1>3. ASSUME NEW us \in Seq(Seq(S)), NEW x \in Seq(S), us \in good PROVE Append(us, x) \in good
  <2>1. Append(us, x) = us \o <<x>> /\ Append(us, x) \in Seq(Seq(S)) /\ <<x>> \in Seq(Seq(S))
    BY OneMore
  <2>2. PICK both \in Seq(Seq(S)) : both = ts \o us
    BY ConcatProperties
  <2>4. (ts \o us) \o <<x>> = ts \o (us \o <<x>>)
    BY <1>a
  <2>5. Append(both, x) = both \o <<x>>
    BY OneMore
  <2>6. ts \o Append(us, x) = Append(both, x)
    BY <2>1, <2>2, <2>4, <2>5
  <2>7. PICK a, b, c \in Seq(S) : a = FlattenSeq(ts) /\ b = FlattenSeq(us) /\ c = x
    BY FlattenAppend
  <2>8. FlattenSeq(Append(both, x)) = FlattenSeq(both) \o x /\ FlattenSeq(Append(us, x)) = b \o x
    BY <2>7, FlattenAppend
  <2>9. FlattenSeq(both) = a \o b
    BY <1>3, <2>2, <2>7
  <2>10. (a \o b) \o c = a \o (b \o c)
    BY <1>b
  <2>11. FlattenSeq(ts \o Append(us, x)) = FlattenSeq(ts) \o FlattenSeq(Append(us, x))
    BY <2>6, <2>7, <2>8, <2>9, <2>10
  <2> QED
    BY <2>1, <2>11
<1>4. Seq(Seq(S)) \subseteq good
  <2> HIDE DEF good
  <2> QED
    BY <1>2, <1>3, EverySequence
<1> QED
  BY <1>4

Windows(S) == [targets : Seq(S), after : Seq(S), depth : Nat]

Targets(windows) == [g \in DOMAIN windows |-> windows[g].targets]

\* What windows ask for, as lists.
LEMMA TargetLists ==
    ASSUME NEW S, NEW windows \in Seq(Windows(S))
    PROVE  /\ Targets(windows) \in Seq(Seq(S)) /\ Len(Targets(windows)) = Len(windows)
           /\ Asked(windows) = FlattenSeq(Targets(windows)) /\ Asked(windows) \in Seq(S)
<1>1. PICK n \in Nat : n = Len(windows) /\ DOMAIN windows = 1..n
  BY LenProperties
<1>2. ASSUME NEW g \in 1..n PROVE windows[g].targets \in Seq(S)
  <2>1. PICK w \in Windows(S) : w = windows[g]
    BY <1>1, ElementOfSeq
  <2> QED
    BY <2>1 DEF Windows
<1>3. Targets(windows) \in [1..n -> Seq(S)]
  BY <1>1, <1>2 DEF Targets
<1>4. PICK ts \in Seq(Seq(S)) : ts = Targets(windows) /\ Len(ts) = n
  BY <1>3
<1>5. FlattenSeq(ts) \in Seq(S)
  BY FlattenFacts
<1> QED
  BY <1>1, <1>4, <1>5 DEF Asked, Targets

\* Windows end to end ask for what both ask for, end to end.
LEMMA AskedConcat ==
    ASSUME NEW S, NEW a \in Seq(Windows(S)), NEW b \in Seq(Windows(S))
    PROVE  Asked(a \o b) = Asked(a) \o Asked(b)
<1>1. PICK m, n \in Nat : m = Len(a) /\ n = Len(b) /\ DOMAIN a = 1..m /\ DOMAIN b = 1..n
  BY LenProperties
<1>2. PICK c \in Seq(Windows(S)) :
         /\ c = a \o b /\ Len(c) = m + n /\ DOMAIN c = 1..m + n
         /\ \A i \in 1..m + n : c[i] = IF i <= m THEN a[i] ELSE b[i - m]
  <2>1. /\ a \o b \in Seq(Windows(S)) /\ Len(a \o b) = Len(a) + Len(b)
        /\ \A i \in 1..Len(a) + Len(b) : (a \o b)[i] = IF i <= Len(a) THEN a[i] ELSE b[i - Len(a)]
    BY ConcatProperties
  <2>2. PICK c \in Seq(Windows(S)) : c = a \o b
    BY <2>1
  <2>3. Len(c) = m + n /\ \A i \in 1..m + n : c[i] = IF i <= m THEN a[i] ELSE b[i - m]
    BY <1>1, <2>1, <2>2, Zenon
  <2>4. DOMAIN c = 1..m + n
    BY <2>3, LenProperties
  <2> QED
    BY <2>2, <2>3, <2>4
<1>3. PICK s, t, u \in Seq(Seq(S)) :
         /\ s = Targets(a) /\ t = Targets(b) /\ u = Targets(c)
         /\ Len(s) = m /\ Len(t) = n /\ Len(u) = m + n
  BY <1>1, <1>2, TargetLists
<1>4. /\ s \o t \in Seq(Seq(S)) /\ Len(s \o t) = m + n
      /\ \A i \in 1..m + n : (s \o t)[i] = IF i <= m THEN s[i] ELSE t[i - m]
  <2>1. /\ s \o t \in Seq(Seq(S)) /\ Len(s \o t) = Len(s) + Len(t)
        /\ \A i \in 1..Len(s) + Len(t) : (s \o t)[i] = IF i <= Len(s) THEN s[i] ELSE t[i - Len(s)]
    BY ConcatProperties
  <2> QED
    BY <1>3, <2>1, Zenon
<1>5. /\ \A i \in 1..m : s[i] = a[i].targets
      /\ \A i \in 1..n : t[i] = b[i].targets
      /\ \A i \in 1..m + n : u[i] = c[i].targets
  BY <1>1, <1>2, <1>3 DEF Targets
<1>6. ASSUME NEW i \in 1..m + n PROVE u[i] = (s \o t)[i]
  <2>1. CASE i <= m
    <3>1. i \in 1..m
      BY <2>1
    <3> QED
      BY <1>2, <1>4, <1>5, <2>1, <3>1
  <2>2. CASE ~(i <= m)
    <3>1. i - m \in 1..n
      BY <2>2
    <3>2. c[i] = b[i - m] /\ (s \o t)[i] = t[i - m]
      BY <1>2, <1>4, <2>2
    <3> QED
      BY <1>5, <3>1, <3>2
  <2> QED
    BY <2>1, <2>2
<1>7. u = s \o t
  <2>1. Len(u) = Len(s \o t) /\ \A i \in 1..Len(u) : u[i] = (s \o t)[i]
    BY <1>3, <1>4, <1>6
  <2> QED
    BY <1>4, <2>1, SeqEqual
<1>8. FlattenSeq(s \o t) = FlattenSeq(s) \o FlattenSeq(t)
  BY FlattenConcat
<1>9. Asked(a) = FlattenSeq(s) /\ Asked(b) = FlattenSeq(t)
  BY <1>3, TargetLists
<1>10. Asked(c) = FlattenSeq(u)
  BY <1>3, TargetLists
<1> QED
  BY <1>2, <1>7, <1>8, <1>9, <1>10

\* The first window, then the others.
LEMMA AskedFirst ==
    ASSUME NEW S, NEW windows \in Seq(Windows(S)), windows # <<>>
    PROVE  /\ Head(windows) \in Windows(S) /\ Tail(windows) \in Seq(Windows(S))
           /\ Asked(windows) = Head(windows).targets \o Asked(Tail(windows))
<1>1. PICK w \in Windows(S), rest \in Seq(Windows(S)) : w = Head(windows) /\ rest = Tail(windows)
  BY HeadTailProperties
<1>2. windows = <<w>> \o rest
  <2>1. 1 \in 1..Len(windows) /\ Len(windows) \in 1..Len(windows)
    <3>1. Len(windows) \in Nat /\ Len(windows) # 0
      BY LenProperties, EmptySeq
    <3> QED
      BY <3>1
  <2>2. SubSeq(windows, 1, Len(windows)) = <<windows[1]>> \o SubSeq(windows, 1 + 1, Len(windows))
    BY <2>1, SubSeqRecursiveFirst
  <2>3. SubSeq(windows, 1, Len(windows)) = windows
    BY SubSeqFull
  <2>4. Tail(windows) = SubSeq(windows, 2, Len(windows)) /\ Head(windows) = windows[1]
    BY TailIsSubSeq
  <2> QED
    BY <1>1, <2>2, <2>3, <2>4
<1>3. <<w>> \in Seq(Windows(S)) /\ w.targets \in Seq(S)
  BY DEF Windows
<1>4. Asked(<<w>>) = w.targets
  <2>1. PICK s \in Seq(S) : s = w.targets
    BY <1>3
  <2>2. Targets(<<w>>) = <<s>> /\ <<>> \in Seq(Seq(S)) /\ <<>> \in Seq(S) /\ Append(<<>>, s) = <<s>>
    BY <2>1 DEF Targets
  <2>3. FlattenSeq(Append(<<>>, s)) = FlattenSeq(<<>>) \o s /\ FlattenSeq(<<>>) = <<>>
    BY <2>2, FlattenAppend
  <2>4. <<>> \o s = s
    BY ConcatEmptySeq
  <2> QED
    BY <1>3, <2>1, <2>2, <2>3, <2>4, TargetLists
<1>5. Asked(<<w>> \o rest) = Asked(<<w>>) \o Asked(rest)
  BY <1>3, AskedConcat
<1> QED
  BY <1>1, <1>2, <1>4, <1>5

\* The halves of a window ask for what it did.
LEMMA AskedInHalves ==
    ASSUME NEW S, NEW w \in Windows(S), Len(w.targets) > 1
    PROVE  Split(w) \in Seq(Windows(S)) /\ Asked(Split(w)) = w.targets
<1>1. w.targets \in Seq(S) /\ w.after \in Seq(S) /\ w.depth \in Nat
  BY DEF Windows
<1>2. PICK left, right, ahead \in Seq(S) : HalvesOf(w, Split(w), left, right, ahead)
  BY <1>1, Halves
<1> DEFINE a == [targets |-> left,  after |-> ahead,   depth |-> w.depth + 1]
           b == [targets |-> right, after |-> w.after, depth |-> w.depth + 1]
<1>3. Split(w) = <<a, b>> /\ left \o right = w.targets
  BY <1>2 DEF HalvesOf
<1>4. a \in Windows(S) /\ b \in Windows(S) /\ a.targets = left /\ b.targets = right
  BY <1>1 DEF Windows
<1> HIDE DEF a, b
<1>5. Asked(<<a, b>>) = a.targets \o b.targets
  BY <1>4, AskedOfTwo
<1>6. <<a, b>> \in Seq(Windows(S))
  BY <1>4
<1> QED
  BY <1>3, <1>4, <1>5, <1>6

-----------------------------------------------------------------------------
(***************************************************************************)
(* Totals, and how evenly the words are dealt.                             *)
(***************************************************************************)

\* t adds up the numbers of s, up to each of them.
Sums(t, s) == t[0] = 0 /\ \A i \in 1..Len(s) : t[i] = t[i - 1] + s[i]

\* A total is the last of the sums.
LEMMA TotalIsSum ==
    ASSUME NEW s \in Seq(Nat)
    PROVE  \E t \in [0..Len(s) -> Nat] : Sums(t, s) /\ Total(s) = t[Len(s)]
<1> DEFINE n == Len(s)
           step == [x \in (1..n) \X Nat |-> x[2] + s[x[1]]]
           fold(g) == [u \in SUBSET DOMAIN s |-> IF u = {} THEN 0 ELSE g[u \ {Max(u)}] + s[Max(u)]]
           chosen == CHOOSE g : g = fold(g)
<1>1. n \in Nat /\ DOMAIN s = 1..n /\ \A i \in 1..n : s[i] \in Nat
  BY LenProperties, ElementOfSeq
<1>2. step \in [(1..n) \X Nat -> Nat]
  BY <1>1
<1>3. PICK g \in [SUBSET (1..n) -> Nat] : FoldsBy(g, n, 0, step)
  <2> HIDE DEF step, n
  <2> QED
    BY <1>1, <1>2, FoldExists
<1>4. ASSUME NEW u \in SUBSET (1..n)
      PROVE  u # {} => Max(u) \in 1..n /\ u \ {Max(u)} \in SUBSET (1..n)
  <2> HIDE DEF n
  <2> QED
    BY <1>1, MaxOf
<1>5. ASSUME NEW u \in SUBSET (1..n)
      PROVE  g[u] = IF u = {} THEN 0 ELSE g[u \ {Max(u)}] + s[Max(u)]
  <2>1. g[u] = IF u = {} THEN 0 ELSE step[<<Max(u), g[u \ {Max(u)}]>>]
    BY <1>3 DEF FoldsBy
  <2>2. u # {} => Max(u) \in 1..n /\ g[u \ {Max(u)}] \in Nat
    BY <1>3, <1>4
  <2> HIDE DEF n
  <2> QED
    BY <2>1, <2>2
<1>6. g = fold(g)
  <2>1. g = [u \in SUBSET (1..n) |-> g[u]]
    BY <1>3
  <2> HIDE DEF n
  <2> QED
    BY <1>1, <1>5, <2>1
<1>7. chosen = fold(chosen)
  BY <1>6, Zenon
<1>8. Total(s) = chosen[DOMAIN s]
  BY DEF Total, FoldLeft, MapThenFoldSet
<1> HIDE DEF chosen
<1>9. ASSUME NEW u \in SUBSET (1..n)
      PROVE  chosen[u] = IF u = {} THEN 0 ELSE chosen[u \ {Max(u)}] + s[Max(u)]
  <2> DEFINE f == fold(chosen)
  <2>1. f[u] = IF u = {} THEN 0 ELSE chosen[u \ {Max(u)}] + s[Max(u)]
    BY <1>1
  <2> HIDE DEF f
  <2>2. chosen = f
    BY <1>7 DEF f
  <2> QED
    BY <2>1, <2>2
<1> DEFINE t == [i \in 0..n |-> chosen[1..i]]
<1>10. t[0] = 0
  <2>1. 1..0 \in SUBSET (1..n) /\ 1..0 = {} /\ 0 \in 0..n
    BY <1>1
  <2> QED
    BY <1>9, <2>1
<1>11. ASSUME NEW i \in 1..n PROVE t[i] = t[i - 1] + s[i]
  <2>1. i \in 0..n /\ i - 1 \in 0..n /\ i \in Nat \ {0} /\ 1..i \in SUBSET (1..n)
    BY <1>1
  <2>2. Max(1..i) = i /\ (1..i) \ {i} = 1..i - 1 /\ 1..i # {}
    BY <2>1, MaxOfFirst
  <2>3. chosen[1..i] = chosen[1..i - 1] + s[i]
    BY <1>9, <2>1, <2>2
  <2> QED
    BY <2>1, <2>3
<1>12. \A i \in 0..n : t[i] \in Nat
  <2> DEFINE reached == {i \in Nat : i <= n => t[i] \in Nat}
  <2>1. 0 \in reached
    BY <1>10
  <2>2. ASSUME NEW i \in Nat, i \in reached PROVE i + 1 \in reached
    <3> SUFFICES ASSUME i + 1 <= n PROVE t[i + 1] \in Nat
      OBVIOUS
    <3>1. PICK j \in 1..n : j = i + 1 /\ j - 1 = i /\ i <= n
      BY <1>1
    <3> HIDE DEF t
    <3> QED
      BY <1>1, <1>11, <2>2, <3>1
  <2>3. Nat \subseteq reached
    <3> HIDE DEF reached
    <3> QED
      BY <2>1, <2>2, EveryNumber
  <2> HIDE DEF t
  <2> QED
    BY <2>3
<1>13. t \in [0..n -> Nat] /\ Total(s) = t[n]
  BY <1>1, <1>8, <1>12
<1>14. Sums(t, s)
  <2> HIDE DEF t
  <2> QED
    BY <1>10, <1>11 DEF Sums
<1> HIDE DEF t
<1> QED
  BY <1>13, <1>14

\* There is one way to add up the first numbers of a list.
LEMMA SumsOnce ==
    ASSUME NEW n \in Nat, NEW s \in Seq(Nat), NEW r \in Seq(Nat), n <= Len(s), n <= Len(r),
           \A i \in 1..n : s[i] = r[i],
           NEW t, NEW u, Sums(t, s), Sums(u, r)
    PROVE  t[n] = u[n]
<1> DEFINE equal == {i \in Nat : i <= n => t[i] = u[i]}
<1>1. 0 \in equal
  BY DEF Sums
<1>2. ASSUME NEW i \in Nat, i \in equal PROVE i + 1 \in equal
  <2> SUFFICES ASSUME i + 1 <= n PROVE t[i + 1] = u[i + 1]
    OBVIOUS
  <2>1. PICK j \in 1..n : j = i + 1 /\ j - 1 = i /\ i <= n
    OBVIOUS
  <2>2. j \in 1..Len(s) /\ j \in 1..Len(r)
    BY LenProperties
  <2> QED
    BY <1>2, <2>1, <2>2 DEF Sums
<1>3. Nat \subseteq equal
  <2> HIDE DEF equal
  <2> QED
    BY <1>1, <1>2, EveryNumber
<1> QED
  BY <1>3

\* Nothing adds up to nothing, and one more number to so much more.
LEMMA TotalAppend ==
    /\ Total(<<>>) = 0
    /\ \A s \in Seq(Nat), x \in Nat : Total(s) \in Nat /\ Total(Append(s, x)) = Total(s) + x
<1>1. ASSUME NEW s \in Seq(Nat) PROVE Total(s) \in Nat
  <2>1. PICK t \in [0..Len(s) -> Nat] : Sums(t, s) /\ Total(s) = t[Len(s)]
    BY TotalIsSum
  <2>2. Len(s) \in 0..Len(s)
    BY LenProperties
  <2> QED
    BY <2>1, <2>2
<1>2. Total(<<>>) = 0
  <2>0. <<>> \in Seq(Nat) /\ Len(<<>>) = 0
    OBVIOUS
  <2>1. PICK s \in Seq(Nat) : s = <<>> /\ Len(s) = 0
    BY <2>0
  <2>2. PICK t \in [0..Len(s) -> Nat] : Sums(t, s) /\ Total(s) = t[Len(s)]
    BY TotalIsSum
  <2> QED
    BY <2>1, <2>2 DEF Sums
<1>3. ASSUME NEW s \in Seq(Nat), NEW x \in Nat PROVE Total(Append(s, x)) = Total(s) + x
  <2>1. PICK n \in Nat : n = Len(s)
    BY LenProperties
  <2>2. PICK r \in Seq(Nat) : /\ r = Append(s, x) /\ Len(r) = n + 1 /\ r[n + 1] = x
                              /\ \A i \in 1..n : r[i] = s[i]
    <3>1. /\ Append(s, x) \in Seq(Nat) /\ Len(Append(s, x)) = n + 1 /\ Append(s, x)[n + 1] = x
          /\ \A i \in 1..n : Append(s, x)[i] = s[i]
      BY <2>1, AppendProperties
    <3> QED
      BY <3>1
  <2>3. PICK t \in [0..Len(s) -> Nat] : Sums(t, s) /\ Total(s) = t[Len(s)]
    BY TotalIsSum
  <2>4. PICK u \in [0..Len(r) -> Nat] : Sums(u, r) /\ Total(r) = u[Len(r)]
    BY TotalIsSum
  <2>5. n <= Len(s) /\ n <= Len(r) /\ \A i \in 1..n : s[i] = r[i]
    BY <2>1, <2>2
  <2>6. t[n] = u[n]
    BY <2>3, <2>4, <2>5, SumsOnce
  <2>7. n + 1 \in 1..Len(r) /\ n + 1 - 1 = n
    BY <2>2
  <2>8. u[n + 1] = u[n] + r[n + 1]
    BY <2>4, <2>7 DEF Sums
  <2> QED
    BY <2>1, <2>2, <2>3, <2>4, <2>6, <2>8
<1> QED
  BY <1>1, <1>2, <1>3

\* The sums never fall.
LEMMA SumsGrow ==
    ASSUME NEW s \in Seq(Nat), NEW t \in [0..Len(s) -> Nat], Sums(t, s)
    PROVE  \A i \in 0..Len(s) : t[i] <= t[Len(s)]
<1>0. PICK n \in Nat : n = Len(s) /\ \A i \in 1..n : s[i] \in Nat
  BY LenProperties, ElementOfSeq
<1> DEFINE below == {k \in Nat : k <= n => t[n - k] <= t[n]}
<1>1. 0 \in below
  BY <1>0
<1>2. ASSUME NEW k \in Nat, k \in below PROVE k + 1 \in below
  <2> SUFFICES ASSUME k + 1 <= n PROVE t[n - (k + 1)] <= t[n]
    OBVIOUS
  <2>1. PICK j \in 1..n : j = n - k /\ j - 1 = n - (k + 1) /\ k <= n
    <3> HIDE DEF below
    <3>1. n - k \in 1..n /\ (n - k) - 1 = n - (k + 1) /\ k <= n
      OBVIOUS
    <3> QED
      BY <3>1
  <2>2. t[j] = t[j - 1] + s[j]
    BY <1>0, <2>1 DEF Sums
  <2>3. j - 1 \in 0..n /\ j \in 0..n /\ n \in 0..n
    BY <1>0
  <2>4. t[j - 1] \in Nat /\ t[j] \in Nat /\ t[n] \in Nat /\ s[j] \in Nat
    BY <1>0, <2>3
  <2>5. t[n - k] <= t[n] /\ n - k = j /\ n - (k + 1) = j - 1
    BY <1>2, <2>1
  <2>6. t[j] <= t[n] /\ t[j - 1] <= t[j]
    BY <2>2, <2>4, <2>5
  <2>7. t[j - 1] <= t[n]
    BY <2>4, <2>6
  <2> QED
    BY <2>5, <2>7
<1>3. Nat \subseteq below
  <2> HIDE DEF below
  <2> QED
    BY <1>1, <1>2, EveryNumber
<1>4. ASSUME NEW i \in 0..n PROVE t[i] <= t[n]
  <2>1. PICK k \in Nat : k = n - i /\ k <= n /\ n - k = i
    <3>1. n - i \in Nat /\ n - i <= n /\ n - (n - i) = i
      OBVIOUS
    <3> QED
      BY <3>1
  <2> QED
    BY <1>3, <2>1
<1> QED
  BY <1>0, <1>4

\* What a group of segments says.
Said(words, group) == Total([k \in DOMAIN group |-> words[group[k]]])

\* A group that a segment joins says so much more.
LEMMA SaidMore ==
    ASSUME NEW words \in Seq(Nat), NEW group \in Seq(DOMAIN words), NEW i \in DOMAIN words
    PROVE  /\ Said(words, group) \in Nat /\ words[i] \in Nat
           /\ Append(group, i) \in Seq(DOMAIN words)
           /\ Said(words, Append(group, i)) = Said(words, group) + words[i]
           /\ Said(words, <<i>>) = words[i] /\ Said(words, <<>>) = 0
<1>1. PICK S : S = DOMAIN words /\ \A k \in S : words[k] \in Nat
  BY LenProperties, ElementOfSeq
<1>2. PICK n \in Nat : n = Len(group) /\ DOMAIN group = 1..n /\ \A k \in 1..n : group[k] \in S
  BY <1>1, LenProperties, ElementOfSeq
<1>3. PICK x \in Nat : x = words[i]
  BY <1>1
<1>4. [k \in DOMAIN group |-> words[group[k]]] \in Seq(Nat)
  <2>1. [k \in 1..n |-> words[group[k]]] \in [1..n -> Nat]
    BY <1>1, <1>2
  <2> QED
    BY <1>2, <2>1, SeqDef
<1>5. PICK said \in Seq(Nat) : said = [k \in DOMAIN group |-> words[group[k]]] /\ Len(said) = n
                              /\ \A k \in 1..n : said[k] = words[group[k]]
  <2>1. Len([k \in DOMAIN group |-> words[group[k]]]) = n
    BY <1>2, <1>4, LenProperties
  <2> QED
    BY <1>2, <1>4, <2>1
<1>6. PICK longer \in Seq(S) : /\ longer = Append(group, i) /\ Len(longer) = n + 1
                              /\ longer[n + 1] = i /\ \A k \in 1..n : longer[k] = group[k]
  <2>1. /\ Append(group, i) \in Seq(S) /\ Len(Append(group, i)) = n + 1 /\ Append(group, i)[n + 1] = i
        /\ \A k \in 1..n : Append(group, i)[k] = group[k]
    BY <1>1, <1>2, AppendProperties
  <2> QED
    BY <2>1
<1>7. [k \in DOMAIN longer |-> words[longer[k]]] = Append(said, x)
  <2> DEFINE a == [k \in DOMAIN longer |-> words[longer[k]]]
             b == Append(said, x)
  <2>1. b \in Seq(Nat) /\ Len(b) = n + 1 /\ b[n + 1] = x /\ \A k \in 1..n : b[k] = said[k]
    BY <1>5, AppendProperties
  <2>2. DOMAIN longer = 1..n + 1
    BY <1>6, LenProperties
  <2>3. ASSUME NEW k \in 1..n + 1 PROVE words[longer[k]] = b[k]
    <3>1. CASE k = n + 1
      BY <1>3, <1>6, <2>1, <3>1
    <3>2. CASE k # n + 1
      <4>1. k \in 1..n
        BY <3>2
      <4> HIDE DEF b
      <4> QED
        BY <1>5, <1>6, <2>1, <4>1
    <3> QED
      BY <3>1, <3>2
  <2>4. a = [k \in 1..n + 1 |-> b[k]]
    <3> HIDE DEF b
    <3> QED
      BY <2>2, <2>3
  <2>5. b = [k \in 1..n + 1 |-> b[k]]
    <3> HIDE DEF b
    <3> QED
      BY <2>1, LenProperties
  <2> QED
    BY <2>4, <2>5
<1>8. Said(words, longer) = Said(words, group) + x
  <2>1. Total(Append(said, x)) = Total(said) + x
    BY TotalAppend
  <2> QED
    BY <1>5, <1>7, <2>1 DEF Said
<1>9. Said(words, <<i>>) = words[i]
  <2>0. PICK one : one = <<i>>
    OBVIOUS
  <2>1. [k \in DOMAIN one |-> words[one[k]]] = Append(<<>>, x) /\ <<>> \in Seq(Nat)
    BY <1>3, <2>0
  <2>2. Total(Append(<<>>, x)) = x
    <3>1. PICK none \in Seq(Nat) : none = <<>>
      BY <2>1
    <3>2. Total(Append(none, x)) = Total(none) + x
      BY TotalAppend
    <3> QED
      BY <3>1, <3>2, TotalAppend
  <2>3. Said(words, one) = x
    BY <2>1, <2>2 DEF Said
  <2> QED
    BY <1>3, <2>0, <2>3
<1>10. Said(words, <<>>) = 0
  <2>1. [k \in DOMAIN <<>> |-> words[<<>>[k]]] = <<>>
    OBVIOUS
  <2> QED
    BY <2>1, TotalAppend DEF Said
<1>11. Said(words, group) \in Nat
  BY <1>5, TotalAppend DEF Said
<1> QED
  BY <1>1, <1>3, <1>6, <1>8, <1>9, <1>10, <1>11

-----------------------------------------------------------------------------

\* A group joined by a segment whose middle is not past the group's end keeps to its share,
\* give or take the most that one segment says: with L groups dealt of c and e of all w words.
LEMMA ShareKept ==
    ASSUME NEW c \in Nat, NEW L \in Nat, NEW w \in Nat, NEW e \in Nat, NEW s \in Nat,
           NEW x \in Nat, NEW m \in Nat, x <= m,
           2 * w * (L - 1) <= 2 * (e - s) * c + m * c,
           (2 * e + x) * c <= 2 * w * L
    PROVE  (s + x) * c <= w + m * c
<1>1. x * c <= m * c
  OBVIOUS
<1>2. 2 * w * (L - 1) = 2 * (w * L) - 2 * w /\ 2 * w * L = 2 * (w * L)
  OBVIOUS
<1>3. 2 * (e - s) * c = 2 * (e * c) - 2 * (s * c)
  OBVIOUS
<1>4. (2 * e + x) * c = 2 * (e * c) + x * c /\ (s + x) * c = s * c + x * c
  OBVIOUS
<1>5. PICK wl, ec, sc, xc, mc \in Nat : wl = w * L /\ ec = e * c /\ sc = s * c /\ xc = x * c /\ mc = m * c
  OBVIOUS
<1> QED
  BY <1>1, <1>2, <1>3, <1>4, <1>5

\* So does the last group there may be.
LEMMA LastShareKept ==
    ASSUME NEW c \in Nat, NEW w \in Nat, NEW e \in Nat, NEW s \in Nat,
           NEW x \in Nat, NEW m \in Nat, x <= m, e + x <= w,
           2 * w * (c - 1) <= 2 * (e - s) * c + m * c
    PROVE  (s + x) * c <= w + m * c
<1>1. (e + x) * c <= w * c
  OBVIOUS
<1>2. 2 * w * (c - 1) = 2 * (w * c) - 2 * w
  OBVIOUS
<1>3. 2 * (e - s) * c = 2 * (e * c) - 2 * (s * c)
  OBVIOUS
<1>4. (e + x) * c = e * c + x * c /\ (s + x) * c = s * c + x * c
  OBVIOUS
<1>5. PICK wc, ec, sc, xc, mc \in Nat : wc = w * c /\ ec = e * c /\ sc = s * c /\ xc = x * c /\ mc = m * c
  OBVIOUS
<1> QED
  BY <1>1, <1>2, <1>3, <1>4, <1>5

\* A group begun by a segment whose middle is past the end of the groups before it.
LEMMA ShareBegun ==
    ASSUME NEW c \in Nat, NEW L \in Nat, NEW w \in Nat, NEW e \in Nat,
           NEW x \in Nat, NEW m \in Nat, x <= m, (2 * e + x) * c > 2 * w * L
    PROVE  2 * w * ((L + 1) - 1) <= 2 * ((e + x) - x) * c + m * c /\ x * c <= m * c
<1>1. x * c <= m * c
  OBVIOUS
<1>2. (2 * e + x) * c = 2 * (e * c) + x * c
  OBVIOUS
<1>3. (e + x) - x = e /\ (L + 1) - 1 = L /\ 2 * e * c = 2 * (e * c)
  OBVIOUS
<1>4. PICK wl, ec, xc, mc \in Nat : wl = 2 * w * L /\ ec = e * c /\ xc = x * c /\ mc = m * c
  OBVIOUS
<1> QED
  BY <1>1, <1>2, <1>3, <1>4

\* Where nothing is said yet, or nothing at all.
LEMMA ShareOfNothing ==
    ASSUME NEW c \in Nat, NEW L \in Nat, NEW w \in Nat, NEW m \in Nat
    PROVE  /\ 0 * c <= w + m * c
           /\ 2 * w * (1 - 1) <= 2 * (0 - 0) * c + m * c
           /\ 2 * 0 * ((L + 1) - 1) <= 2 * ((0 + 0) - 0) * c + m * c
<1>1. m * c \in Nat /\ 0 * c = 0 /\ 2 * w * (1 - 1) = 0 /\ 2 * (0 - 0) * c = 0
  OBVIOUS
<1>2. 2 * 0 * ((L + 1) - 1) = 0 /\ 2 * ((0 + 0) - 0) * c = 0
  OBVIOUS
<1> QED
  BY <1>1, <1>2

\* What one segment says is no more than a share and m.
LEMMA ShareOfOne ==
    ASSUME NEW c \in Nat, NEW w \in Nat, NEW x \in Nat, NEW m \in Nat, x <= m
    PROVE  x * c <= w + m * c /\ (0 + x) * c <= w + m * c
<1>1. PICK xc, mc \in Nat : xc = x * c /\ mc = m * c
  OBVIOUS
<1>2. xc <= mc
  BY <1>1
<1>3. 0 + x = x
  OBVIOUS
<1> QED
  BY <1>1, <1>2, <1>3

\* A group begun late by no more than half of what m allows ends late by no more either, if a
\* share is at least m: when a segment joins it before its middle is past the end,
LEMMA JoinsInTime ==
    ASSUME NEW c \in Nat, NEW L \in Nat, NEW w \in Nat, NEW e \in Nat,
           NEW x \in Nat, NEW m \in Nat, x <= m, (2 * e + x) * c <= 2 * w * L
    PROVE  2 * (e + x) * c <= 2 * w * L + m * c
<1>1. x * c <= m * c
  OBVIOUS
<1>2. (2 * e + x) * c = 2 * (e * c) + x * c /\ 2 * (e + x) * c = 2 * (e * c) + 2 * (x * c)
  OBVIOUS
<1>3. PICK wl, ec, xc, mc \in Int : wl = 2 * w * L /\ ec = e * c /\ xc = x * c /\ mc = m * c
  OBVIOUS
<1> QED
  BY <1>1, <1>2, <1>3

\* when it begins with a segment,
LEMMA BeginsInTime ==
    ASSUME NEW c \in Nat, NEW L \in Nat, NEW w \in Nat, NEW e \in Nat,
           NEW x \in Nat, NEW m \in Nat, x <= m, m * c <= w, 2 * e * c <= 2 * w * L + m * c
    PROVE  2 * (e + x) * c <= 2 * w * (L + 1) + m * c
<1>1. x * c <= m * c
  OBVIOUS
<1>2. 2 * e * c = 2 * (e * c) /\ 2 * (e + x) * c = 2 * (e * c) + 2 * (x * c)
  OBVIOUS
<1>3. 2 * w * L = 2 * (w * L) /\ 2 * w * (L + 1) = 2 * (w * L) + 2 * w
  OBVIOUS
<1>4. PICK wl, ec, xc, mc \in Int : wl = w * L /\ ec = e * c /\ xc = x * c /\ mc = m * c
  OBVIOUS
<1> QED
  BY <1>1, <1>2, <1>3, <1>4

\* and when all the words there are have been dealt to the last one there may be.
LEMMA EndsInTime ==
    ASSUME NEW c \in Nat, NEW w \in Nat, NEW e \in Nat, NEW m \in Nat, e <= w
    PROVE  2 * e * c <= 2 * w * c + m * c
<1>1. e * c <= w * c
  OBVIOUS
<1>2. 2 * e * c = 2 * (e * c) /\ 2 * w * c = 2 * (w * c)
  OBVIOUS
<1>3. PICK ec, wc, mc \in Nat : ec = e * c /\ wc = w * c /\ mc = m * c
  OBVIOUS
<1> QED
  BY <1>1, <1>2, <1>3

\* The last group ends with the words there are, however few groups there were.
LEMMA LastToEnd ==
    ASSUME NEW c \in Nat, NEW L \in Nat, NEW w \in Nat, NEW m \in Nat, L <= c
    PROVE  2 * w * L <= 2 * w * c + m * c
<1>1. w * L <= w * c
  OBVIOUS
<1>2. 2 * w * L = 2 * (w * L) /\ 2 * w * c = 2 * (w * c)
  OBVIOUS
<1>3. PICK wl, wc, mc \in Nat : wl = w * L /\ wc = w * c /\ mc = m * c
  OBVIOUS
<1> QED
  BY <1>1, <1>2, <1>3

\* A group that ends early by no more than half of what m allows, and begun late by no more,
\* has its share but for m.
LEMMA ShareReached ==
    ASSUME NEW c \in Nat, NEW L \in Nat, NEW w \in Nat, NEW e \in Nat, NEW s \in Nat, NEW m \in Nat,
           2 * w * L <= 2 * e * c + m * c,
           m * c <= w => 2 * (e - s) * c <= 2 * w * (L - 1) + m * c
    PROVE  w <= s * c + m * c
<1>1. CASE m * c <= w
  <2>1. 2 * (e - s) * c = 2 * (e * c) - 2 * (s * c)
    OBVIOUS
  <2>2. 2 * w * (L - 1) = 2 * (w * L) - 2 * w /\ 2 * w * L = 2 * (w * L) /\ 2 * e * c = 2 * (e * c)
    OBVIOUS
  <2>3. PICK wl, ec, sc, mc \in Nat : wl = w * L /\ ec = e * c /\ sc = s * c /\ mc = m * c
    OBVIOUS
  <2> QED
    BY <1>1, <2>1, <2>2, <2>3
<1>2. CASE ~(m * c <= w)
  <2>1. PICK sc, mc \in Nat : sc = s * c /\ mc = m * c
    OBVIOUS
  <2> QED
    BY <1>2, <2>1
<1> QED
  BY <1>1, <1>2

\* No segment says more than m.
AtMost(words, m) == \A k \in DOMAIN words : words[k] <= m

\* As far as the segments are dealt: no more groups than asked for, none above the cap but the
\* last there may be, and, as long as the cap cut none short, none above its share of the words
\* by more than m and none but the last below it by more.  The last one began and ends no
\* later than half of m after it should, unless m is more than a share.
Balanced(words, count, most, m, d) ==
    LET groups == d.groups
        L == Len(groups)
    IN  /\ groups \in Seq(Seq(DOMAIN words)) /\ L \in Nat \ {0} /\ L <= count
        /\ groups[L] # <<>> \/ (L = 1 /\ groups[L] = <<>> /\ d.elapsed = 0)
        /\ \A g \in 1..L : g < L \/ L < count => Len(groups[g]) <= most
        /\ (\A g \in 1..L : Len(groups[g]) < most) =>
              /\ \A g \in 1..L : Said(words, groups[g]) * count <= Total(words) + m * count
              /\ 2 * Total(words) * (L - 1)
                   <= 2 * (d.elapsed - Said(words, groups[L])) * count + m * count
              /\ \A g \in 1..L : g < L => Total(words) <= Said(words, groups[g]) * count + m * count
              /\ m * count <= Total(words) =>
                   /\ 2 * d.elapsed * count <= 2 * Total(words) * L + m * count
                   /\ 2 * (d.elapsed - Said(words, groups[L])) * count
                        <= 2 * Total(words) * (L - 1) + m * count

\* Dealing begins so.
LEMMA StartBalanced ==
    ASSUME NEW words \in Seq(Nat), NEW count \in Nat \ {0}, NEW most \in Nat \ {0}, NEW m \in Nat
    PROVE  Balanced(words, count, most, m, Start)
<1>1. PICK empty \in Seq(DOMAIN words) : empty = <<>> /\ Len(empty) = 0
  <2>1. <<>> \in Seq(DOMAIN words) /\ Len(<<>>) = 0
    OBVIOUS
  <2> QED
    BY <2>1
<1>2. PICK groups \in Seq(Seq(DOMAIN words)) : groups = <<empty>> /\ Len(groups) = 1 /\ groups[1] = empty
  <2>1. <<empty>> \in Seq(Seq(DOMAIN words)) /\ Len(<<empty>>) = 1 /\ <<empty>>[1] = empty
    OBVIOUS
  <2> QED
    BY <2>1
<1>3. Start.groups = groups /\ Start.elapsed = 0
  BY <1>1, <1>2 DEF Start
<1>4. Said(words, empty) = 0
  <2>1. [k \in DOMAIN <<>> |-> words[<<>>[k]]] = <<>>
    OBVIOUS
  <2> QED
    BY <1>1, <2>1, TotalAppend DEF Said
<1>5. PICK w \in Nat : w = Total(words)
  BY TotalAppend
<1>6. \A g \in 1..1 : Len(groups[g]) <= most
  BY <1>1, <1>2
<1>7. 0 * count <= w + m * count /\ 2 * w * (1 - 1) <= 2 * (0 - 0) * count + m * count
  BY ShareOfNothing
<1>8. 2 * 0 * count <= 2 * w * 1 + m * count /\ 2 * (0 - 0) * count <= 2 * w * (1 - 1) + m * count
  <2>1. m * count \in Nat /\ 2 * w * 1 \in Nat /\ 2 * w * (1 - 1) = 0
    OBVIOUS
  <2>2. 2 * 0 * count = 0 /\ 2 * (0 - 0) * count = 0
    OBVIOUS
  <2>3. PICK a, b, c \in Nat : a = m * count /\ b = 2 * w * 1 /\ c = 2 * w * (1 - 1) /\ c = 0
    BY <2>1
  <2>4. 0 <= b + a /\ 0 <= c + a
    OBVIOUS
  <2> QED
    BY ONLY <2>2, <2>3, <2>4, Zenon
<1>9. \A g \in 1..1 : ~(g < 1)
  OBVIOUS
<1> QED
  BY <1>1, <1>2, <1>3, <1>4, <1>5, <1>6, <1>7, <1>8, <1>9 DEF Balanced

\* And it stays so when a segment begins a group of its own.
LEMMA BalancedBegins ==
    ASSUME NEW words \in Seq(Nat), NEW count \in Nat \ {0}, NEW most \in Nat \ {0}, NEW m \in Nat,
           AtMost(words, m),
           NEW d \in Dealts, NEW i \in DOMAIN words, d.elapsed + words[i] <= Total(words),
           Balanced(words, count, most, m, d), Begins(words, count, most, d, i)
    PROVE  Balanced(words, count, most, m, Deal(words, count, most, d, i))
<1>1. PICK e \in Nat, x \in Nat, w \in Nat :
         e = d.elapsed /\ x = words[i] /\ x <= m /\ w = Total(words) /\ e + x <= w
  BY DealFacts, TotalAppend DEF AtMost
<1>2. PICK groups \in Seq(Seq(DOMAIN words)), L \in Nat \ {0} : groups = d.groups /\ L = Len(groups)
  BY DEF Balanced
<1>3. L < count /\ Last(groups) = groups[L] /\ groups[L] # <<>>
  BY <1>2 DEF Begins, Last
<1>4. PICK one \in Seq(DOMAIN words) : one = <<i>> /\ Len(one) = 1 /\ one # <<>>
  <2>1. <<i>> \in Seq(DOMAIN words) /\ Len(<<i>>) = 1 /\ <<i>> # <<>>
    OBVIOUS
  <2> QED
    BY <2>1
<1>5. PICK after \in Seq(Seq(DOMAIN words)) :
         /\ after = Append(groups, one) /\ Len(after) = L + 1 /\ after[L + 1] = one
         /\ \A g \in 1..L : after[g] = groups[g]
  <2>1. /\ Append(groups, one) \in Seq(Seq(DOMAIN words)) /\ Len(Append(groups, one)) = L + 1
        /\ Append(groups, one)[L + 1] = one /\ \A g \in 1..L : Append(groups, one)[g] = groups[g]
    BY <1>2, <1>4, AppendProperties
  <2> QED
    BY <2>1
<1>a. Deal(words, count, most, d, i) = [groups |-> after, elapsed |-> e + x]
  <2>1. Deal(words, count, most, d, i)
           = [groups |-> Append(d.groups, <<i>>), elapsed |-> d.elapsed + words[i]]
    BY DealBegins
  <2> QED
    BY <1>1, <1>2, <1>4, <1>5, <2>1
<1>b. PICK f : f = [groups |-> after, elapsed |-> e + x]
  OBVIOUS
<1>6. f = Deal(words, count, most, d, i) /\ f.groups = after /\ f.elapsed = e + x
  BY <1>a, <1>b
<1>7. Said(words, one) = x
  BY <1>1, <1>4, SaidMore
<1>8. ASSUME NEW g \in 1..L + 1 PROVE Len(after[g]) <= most
  <2>1. CASE g = L + 1
    BY <1>4, <1>5, <2>1
  <2>2. CASE g # L + 1
    <3>1. g \in 1..L
      BY <2>2
    <3> QED
      BY <1>2, <1>3, <1>5, <3>1 DEF Balanced
  <2> QED
    BY <2>1, <2>2
<1>9. ASSUME \A g \in 1..L + 1 : Len(after[g]) < most
      PROVE  /\ \A g \in 1..L + 1 : Said(words, after[g]) * count <= w + m * count
             /\ 2 * w * ((L + 1) - 1) <= 2 * ((e + x) - x) * count + m * count
             /\ \A g \in 1..L + 1 : g < L + 1 => w <= Said(words, after[g]) * count + m * count
             /\ m * count <= w => /\ 2 * (e + x) * count <= 2 * w * (L + 1) + m * count
                                 /\ 2 * ((e + x) - x) * count <= 2 * w * ((L + 1) - 1) + m * count
  <2>1. \A g \in 1..L : Len(groups[g]) < most
    BY <1>5, <1>9
  <2>2. \A g \in 1..L : Said(words, groups[g]) * count <= w + m * count
    BY <1>1, <1>2, <2>1 DEF Balanced
  <2>3. ThresholdCrossed(words, count, groups, e, i)
    <3>1. Len(groups[L]) \in Nat
      BY <1>2, ElementOfSeq, LenProperties
    <3>2. Len(groups[L]) < most
      BY <2>1
    <3>3. Len(Last(groups)) = Len(groups[L])
      BY <1>3
    <3>4. ~(Len(Last(groups)) >= most)
      BY <3>1, <3>2, <3>3
    <3> QED
      BY <1>1, <1>2, <3>4 DEF Begins
  <2>4. 2 * w * ((L + 1) - 1) <= 2 * ((e + x) - x) * count + m * count /\ x * count <= w + m * count
    <3>1. CASE w > 0
      <4>1. (2 * e + x) * count > 2 * w * L
        BY <1>1, <1>2, <2>3, <3>1 DEF ThresholdCrossed
      <4>2. 2 * w * ((L + 1) - 1) <= 2 * ((e + x) - x) * count + m * count /\ x * count <= m * count
        BY <1>1, <4>1, ShareBegun
      <4>3. x * count <= w + m * count
        BY <1>1, ShareOfOne
      <4> QED
        BY <4>2, <4>3
    <3>2. CASE w = 0
      <4>1. e = 0 /\ x = 0
        BY <1>1, <3>2
      <4>2. /\ 2 * 0 * ((L + 1) - 1) <= 2 * ((0 + 0) - 0) * count + m * count
            /\ 0 * count <= w + m * count
        BY ShareOfNothing
      <4> QED
        BY <3>2, <4>1, <4>2
    <3> QED
      BY <3>1, <3>2
  <2>5. ASSUME NEW g \in 1..L + 1 PROVE Said(words, after[g]) * count <= w + m * count
    <3>1. CASE g = L + 1
      BY <1>5, <1>7, <2>4, <3>1
    <3>2. CASE g # L + 1
      <4>1. g \in 1..L
        BY <3>2
      <4> QED
        BY <1>5, <2>2, <4>1
    <3> QED
      BY <3>1, <3>2
  <2>6. (e + x) - x = e /\ (L + 1) - 1 = L
    OBVIOUS
  <2>7. PICK s \in Nat : s = Said(words, groups[L])
    <3>1. groups[L] \in Seq(DOMAIN words)
      BY <1>2, ElementOfSeq
    <3> QED
      BY <3>1, SaidMore
  <2>8. /\ \A g \in 1..L : g < L => w <= Said(words, groups[g]) * count + m * count
        /\ m * count <= w => /\ 2 * e * count <= 2 * w * L + m * count
                            /\ 2 * (e - s) * count <= 2 * w * (L - 1) + m * count
    BY <1>1, <1>2, <2>1, <2>7 DEF Balanced
  <2>9. w <= s * count + m * count
    <3>1. 2 * w * L <= 2 * e * count + m * count
      BY <2>4, <2>6
    <3> QED
      BY <2>8, <3>1, ShareReached
  <2>10. ASSUME NEW g \in 1..L + 1, g < L + 1 PROVE w <= Said(words, after[g]) * count + m * count
    <3>1. g \in 1..L
      BY <2>10
    <3>2. CASE g = L
      BY <1>5, <2>7, <2>9, <3>1, <3>2
    <3>3. CASE g # L
      <4>1. g < L
        BY <3>1, <3>3
      <4> QED
        BY <1>5, <2>8, <3>1, <4>1
    <3> QED
      BY <3>2, <3>3
  <2>11. ASSUME m * count <= w
         PROVE  /\ 2 * (e + x) * count <= 2 * w * (L + 1) + m * count
                /\ 2 * ((e + x) - x) * count <= 2 * w * ((L + 1) - 1) + m * count
    <3>1. 2 * e * count <= 2 * w * L + m * count
      BY <2>8, <2>11
    <3> QED
      BY <1>1, <2>6, <2>11, <3>1, BeginsInTime
  <2> QED
    BY <2>4, <2>5, <2>10, <2>11
<1>10. L + 1 \in Nat \ {0} /\ L + 1 <= count
  <2>1. L < count
    BY <1>3
  <2> QED
    BY <2>1
<1>11. Balanced(words, count, most, m, f)
  BY <1>1, <1>4, <1>5, <1>6, <1>7, <1>8, <1>9, <1>10 DEF Balanced
<1> QED
  BY <1>6, <1>11

\* And when it joins the last one.
LEMMA BalancedJoins ==
    ASSUME NEW words \in Seq(Nat), NEW count \in Nat \ {0}, NEW most \in Nat \ {0}, NEW m \in Nat,
           AtMost(words, m),
           NEW d \in Dealts, NEW i \in DOMAIN words, d.elapsed + words[i] <= Total(words),
           Balanced(words, count, most, m, d), ~Begins(words, count, most, d, i)
    PROVE  Balanced(words, count, most, m, Deal(words, count, most, d, i))
<1>1. PICK e \in Nat, x \in Nat, w \in Nat :
         e = d.elapsed /\ x = words[i] /\ x <= m /\ w = Total(words) /\ e + x <= w
  BY DealFacts, TotalAppend DEF AtMost
<1>2. PICK groups \in Seq(Seq(DOMAIN words)), L \in Nat \ {0} : groups = d.groups /\ L = Len(groups)
  BY DEF Balanced
<1>3. PICK front, grown \in Seq(Seq(Nat)), last, longer \in Seq(Nat) :
         Lengthens(words, i, d, Deal(words, count, most, d, i), front, last, longer, grown)
  BY DealJoins
<1>a. Deal(words, count, most, d, i) = [groups |-> grown, elapsed |-> e + x]
  BY <1>1, <1>3 DEF Lengthens
<1>b. PICK f : f = [groups |-> grown, elapsed |-> e + x]
  OBVIOUS
<1>4. f = Deal(words, count, most, d, i) /\ f.groups = grown /\ f.elapsed = e + x
  BY <1>a, <1>b
<1>5. Len(front) = L - 1 /\ Len(front) \in Nat /\ groups[L] = last /\ \A g \in 1..L - 1 : groups[g] = front[g]
  <2>1. groups = Append(front, last)
    BY <1>2, <1>3 DEF Lengthens
  <2>2. /\ Len(front) \in Nat /\ L = Len(front) + 1 /\ groups[Len(front) + 1] = last
        /\ \A g \in 1..Len(front) : groups[g] = front[g]
    BY <1>2, <2>1, AppendProperties, LenProperties
  <2> QED
    BY <2>2
<1>6. Len(grown) = L /\ grown[L] = longer /\ \A g \in 1..L - 1 : grown[g] = groups[g]
  <2>1. grown = Append(front, longer)
    BY <1>3 DEF Lengthens
  <2>2. /\ Len(grown) = Len(front) + 1 /\ grown[Len(front) + 1] = longer
        /\ \A g \in 1..Len(front) : grown[g] = front[g]
    BY <2>1, AppendProperties
  <2> QED
    BY <1>5, <2>2
<1>7. /\ last \in Seq(DOMAIN words) /\ longer \in Seq(DOMAIN words) /\ longer # <<>>
      /\ Len(longer) = Len(last) + 1 /\ Len(last) \in Nat
      /\ Said(words, longer) = Said(words, last) + x /\ Said(words, last) \in Nat
  <2>1. last \in Seq(DOMAIN words)
    <3>1. L \in 1..L
      BY <1>2
    <3>2. groups[L] \in Seq(DOMAIN words)
      BY <1>2, <3>1, ElementOfSeq
    <3> QED
      BY <1>5, <3>2
  <2>2. longer = Append(last, i) /\ longer # <<>> /\ Len(longer) = Len(last) + 1
    <3>1. longer = last \o <<i>> /\ longer # <<>> /\ Len(longer) = Len(last) + 1
      BY <1>3 DEF Lengthens
    <3>2. Append(last, i) = last \o <<i>>
      BY <2>1, AppendIsConcat
    <3> QED
      BY <3>1, <3>2
  <2> QED
    BY <1>1, <2>1, <2>2, SaidMore, LenProperties
<1>8. grown \in Seq(Seq(DOMAIN words))
  <2>1. ASSUME NEW g \in 1..L PROVE grown[g] \in Seq(DOMAIN words)
    <3>1. CASE g = L
      BY <1>6, <1>7, <3>1
    <3>2. CASE g # L
      <4>1. g \in 1..L - 1 /\ g \in 1..Len(groups)
        BY <1>2, <3>2
      <4> QED
        BY <1>6, <4>1, ElementOfSeq
    <3> QED
      BY <3>1, <3>2
  <2>2. grown = [g \in 1..L |-> grown[g]]
    BY <1>6, LenProperties
  <2>3. [g \in 1..L |-> grown[g]] \in [1..L -> Seq(DOMAIN words)]
    BY <2>1
  <2>4. [1..L -> Seq(DOMAIN words)] \subseteq Seq(Seq(DOMAIN words))
    BY SeqDef
  <2> QED
    BY <2>2, <2>3, <2>4
<1>9. ASSUME NEW g \in 1..L, g < L \/ L < count PROVE Len(grown[g]) <= most
  <2>1. CASE g < L
    <3>1. g \in 1..L - 1
      BY <2>1
    <3> QED
      BY <1>2, <1>6, <2>1, <3>1 DEF Balanced
  <2>2. CASE g = L
    <3>1. L < count
      BY <1>9, <2>2
    <3>2. CASE last = <<>>
      <4>1. Len(last) = 0
        BY <3>2
      <4>2. Len(longer) = 1 /\ Len(grown[g]) = Len(longer)
        BY <1>6, <1>7, <2>2, <4>1
      <4> QED
        BY <4>2
    <3>3. CASE last # <<>>
      <4>1. ~(Len(last) >= most)
        BY <1>2, <1>5, <3>1, <3>3 DEF Begins, Last
      <4>2. PICK a \in Nat, b \in Nat : a = Len(last) /\ b = Len(longer) /\ b = a + 1
        BY <1>7
      <4>3. Len(grown[g]) = b
        BY <1>6, <2>2, <4>2
      <4> QED
        BY <4>1, <4>2, <4>3
    <3> QED
      BY <3>2, <3>3
  <2> QED
    BY <2>1, <2>2
<1>12. e + x \in Nat /\ e + x <= w
  <2>1. e + x \in Nat
    OBVIOUS
  <2>2. e + x <= w
    BY <1>1, Zenon
  <2> QED
    BY <2>1, <2>2
<1>10. ASSUME \A g \in 1..L : Len(grown[g]) < most
       PROVE  /\ \A g \in 1..L : Said(words, grown[g]) * count <= w + m * count
              /\ 2 * w * (L - 1) <= 2 * ((e + x) - Said(words, longer)) * count + m * count
              /\ \A g \in 1..L : g < L => w <= Said(words, grown[g]) * count + m * count
              /\ m * count <= w =>
                   /\ 2 * (e + x) * count <= 2 * w * L + m * count
                   /\ 2 * ((e + x) - Said(words, longer)) * count <= 2 * w * (L - 1) + m * count
  <2>1. PICK s \in Nat : s = Said(words, last)
    BY <1>7
  <2>2. \A g \in 1..L : Len(groups[g]) < most
    <3> SUFFICES ASSUME NEW g \in 1..L PROVE Len(groups[g]) < most
      OBVIOUS
    <3>1. CASE g = L
      <4>1. PICK a \in Nat, b \in Nat : a = Len(last) /\ b = Len(longer) /\ b = a + 1
        BY <1>7
      <4>2. b < most
        BY <1>6, <1>10, <3>1, <4>1
      <4>3. Len(groups[g]) = a
        BY <1>5, <3>1, <4>1
      <4> QED
        BY <4>1, <4>2, <4>3
    <3>2. CASE g # L
      <4>1. g \in 1..L - 1
        BY <3>2
      <4> QED
        BY <1>6, <1>10, <4>1
    <3> QED
      BY <3>1, <3>2
  <2>3. /\ \A g \in 1..L : Said(words, groups[g]) * count <= w + m * count
        /\ 2 * w * (L - 1) <= 2 * (e - s) * count + m * count
        /\ \A g \in 1..L : g < L => w <= Said(words, groups[g]) * count + m * count
        /\ m * count <= w => /\ 2 * e * count <= 2 * w * L + m * count
                            /\ 2 * (e - s) * count <= 2 * w * (L - 1) + m * count
    BY <1>1, <1>2, <1>5, <2>1, <2>2 DEF Balanced
  <2>4. (s + x) * count <= w + m * count
    <3>1. CASE L < count /\ last # <<>>
      <4>1. ~ThresholdCrossed(words, count, groups, e, i)
        BY <1>1, <1>2, <1>5, <3>1 DEF Begins, Last
      <4>2. CASE w > 0
        <5>1. (2 * e + x) * count <= 2 * w * L
          <6>1. ~((2 * e + x) * count > 2 * w * L)
            BY <1>1, <1>2, <4>1, <4>2 DEF ThresholdCrossed
          <6>2. (2 * e + x) * count \in Int /\ 2 * w * L \in Int
            OBVIOUS
          <6> QED
            BY <6>1, <6>2
        <5> QED
          BY <1>1, <2>3, <5>1, ShareKept
      <4>3. CASE w = 0
        <5>1. e = 0 /\ x = 0
          BY <1>1, <4>3
        <5>2. (s + 0) * count = s * count
          OBVIOUS
        <5>3. Said(words, groups[L]) * count <= w + m * count
          BY <2>3
        <5> QED
          BY <1>5, <2>1, <5>1, <5>2, <5>3
      <4> QED
        BY <4>2, <4>3
    <3>2. CASE L >= count
      <4>1. L = count
        BY <1>2, <3>2 DEF Balanced
      <4> QED
        BY <1>1, <2>3, <4>1, LastShareKept
    <3>3. CASE last = <<>>
      <4>1. s = 0
        BY <1>7, <2>1, <3>3, SaidMore
      <4>2. (0 + x) * count <= w + m * count
        BY <1>1, ShareOfOne
      <4> QED
        BY <4>1, <4>2
    <3> QED
      BY <1>2, <3>1, <3>2, <3>3
  <2>5. ASSUME NEW g \in 1..L PROVE Said(words, grown[g]) * count <= w + m * count
    <3>1. CASE g = L
      BY <1>6, <1>7, <2>1, <2>4, <3>1
    <3>2. CASE g # L
      <4>1. g \in 1..L - 1
        BY <3>2
      <4> QED
        BY <1>6, <2>3, <4>1
    <3> QED
      BY <3>1, <3>2
  <2>6. (e + x) - Said(words, longer) = e - s
    BY <1>7, <2>1
  <2>7. ASSUME NEW g \in 1..L, g < L PROVE w <= Said(words, grown[g]) * count + m * count
    <3>1. g \in 1..L - 1
      BY <2>7
    <3> QED
      BY <1>6, <2>3, <2>7, <3>1
  <2>8. ASSUME m * count <= w PROVE 2 * (e + x) * count <= 2 * w * L + m * count
    <3>1. CASE L < count /\ last # <<>>
      <4>1. ~ThresholdCrossed(words, count, groups, e, i)
        BY <1>1, <1>2, <1>5, <3>1 DEF Begins, Last
      <4>2. CASE w > 0
        <5>1. ~((2 * e + x) * count > 2 * w * L)
          BY <1>1, <1>2, <4>1, <4>2 DEF ThresholdCrossed
        <5>2. (2 * e + x) * count \in Int /\ 2 * w * L \in Int
          OBVIOUS
        <5>3. (2 * e + x) * count <= 2 * w * L
          BY <5>1, <5>2
        <5> QED
          BY <1>1, <5>3, JoinsInTime
      <4>3. CASE w = 0
        <5>1. e = 0 /\ x = 0
          BY <1>1, <4>3
        <5>2. PICK mc \in Nat : mc = m * count
          OBVIOUS
        <5>3. 2 * (0 + 0) * count = 0 /\ 2 * 0 * L = 0
          OBVIOUS
        <5> QED
          BY <4>3, <5>1, <5>2, <5>3
      <4> QED
        BY <4>2, <4>3
    <3>2. CASE L >= count
      <4>1. L = count
        BY <1>2, <3>2 DEF Balanced
      <4>2. PICK ex \in Nat : ex = e + x /\ ex <= w
        BY <1>1, <1>12
      <4>3. 2 * ex * count <= 2 * w * count + m * count
        BY <4>2, EndsInTime
      <4> QED
        BY <4>1, <4>2, <4>3
    <3>3. CASE last = <<>>
      <4>1. L = 1 /\ e = 0
        BY <1>1, <1>2, <1>5, <3>3 DEF Balanced
      <4>2. 2 * 0 * count <= 2 * w * 0 + m * count
        <5>1. PICK mc \in Nat : mc = m * count
          OBVIOUS
        <5>2. 2 * 0 * count = 0 /\ 2 * w * 0 = 0
          OBVIOUS
        <5> QED
          BY <5>1, <5>2
      <4>3. 2 * (0 + x) * count <= 2 * w * (0 + 1) + m * count
        BY <1>1, <2>8, <4>2, BeginsInTime
      <4>4. e + x = 0 + x /\ L = 0 + 1
        BY <4>1
      <4> QED
        BY <4>3, <4>4
    <3>4. L < count \/ L >= count
      OBVIOUS
    <3> QED
      BY <3>1, <3>2, <3>3, <3>4, Zenon
  <2>9. m * count <= w =>
           2 * ((e + x) - Said(words, longer)) * count <= 2 * w * (L - 1) + m * count
    BY <2>3, <2>6
  <2> QED
    BY <2>3, <2>5, <2>6, <2>7, <2>8, <2>9
<1>11. L <= count
  BY <1>2 DEF Balanced
<1>13. Balanced(words, count, most, m, f)
  BY <1>1, <1>4, <1>6, <1>7, <1>8, <1>9, <1>10, <1>11 DEF Balanced
<1> QED
  BY <1>4, <1>13

\* One of the numbers of a list is the greatest.
LEMMA MostSaid ==
    ASSUME NEW words \in Seq(Nat), words # <<>>
    PROVE  \E m \in Range(words) : AtMost(words, m)
<1>1. PICK n \in Nat : n = Len(words) /\ n # 0 /\ DOMAIN words = 1..n /\ \A k \in 1..n : words[k] \in Nat
  BY LenProperties, EmptySeq, ElementOfSeq
<1> DEFINE good == {j \in Nat : j + 1 <= n => \E h \in 1..n : \A k \in 1..j + 1 : words[k] <= words[h]}
<1>2. 0 \in good
  <2>1. 1 \in 1..n /\ \A k \in 1..0 + 1 : words[k] <= words[1]
    BY <1>1
  <2> QED
    BY <2>1
<1>3. ASSUME NEW j \in Nat, j \in good PROVE j + 1 \in good
  <2> SUFFICES ASSUME (j + 1) + 1 <= n
               PROVE  \E h \in 1..n : \A k \in 1..(j + 1) + 1 : words[k] <= words[h]
    OBVIOUS
  <2>1. PICK h \in 1..n : \A k \in 1..j + 1 : words[k] <= words[h]
    BY <1>3
  <2>2. PICK l \in 1..n : l = (j + 1) + 1 /\ \A k \in 1..l : k # l => k \in 1..j + 1
    <3>1. (j + 1) + 1 \in 1..n /\ \A k \in 1..(j + 1) + 1 : k # (j + 1) + 1 => k \in 1..j + 1
      BY <1>1
    <3> QED
      BY <3>1
  <2>3. CASE words[l] <= words[h]
    BY <2>1, <2>2, <2>3
  <2>4. CASE ~(words[l] <= words[h])
    <3>1. ASSUME NEW k \in 1..l PROVE words[k] <= words[l]
      <4>1. words[l] \in Nat /\ words[h] \in Nat
        BY <1>1
      <4>2. k # l => words[k] <= words[h] /\ words[k] \in Nat
        BY <1>1, <2>1, <2>2
      <4> QED
        BY <2>4, <4>1, <4>2
    <3> QED
      BY <2>2, <3>1
  <2> QED
    BY <2>3, <2>4
<1>4. Nat \subseteq good
  <2> HIDE DEF good
  <2> QED
    BY <1>2, <1>3, EveryNumber
<1>5. PICK h \in 1..n : \A k \in 1..n : words[k] <= words[h]
  <2>1. PICK j \in Nat : j + 1 = n
    <3>1. n - 1 \in Nat /\ (n - 1) + 1 = n
      BY <1>1
    <3> QED
      BY <3>1
  <2>2. j \in good
    BY <1>4
  <2> QED
    BY <2>1, <2>2
<1> QED
  BY <1>1, <1>5 DEF AtMost, Range

\* There is at least one window in a plan's count.
LEMMA CountPositive ==
    ASSUME NEW words \in Seq(Nat), NEW target \in Nat, NEW most \in Nat \ {0}
    PROVE  WindowCount(words, target, most) \in Nat \ {0}
<1>1. ASSUME NEW a \in Nat, NEW b \in Nat \ {0} PROVE CeilDiv(a, b) \in Nat
  <2>1. a + b - 1 \in Nat
    OBVIOUS
  <2> QED
    BY <2>1 DEF CeilDiv
<1>2. Total(words) \in Nat /\ Len(words) \in Nat
  BY TotalAppend, LenProperties
<1>3. (IF target > 0 THEN CeilDiv(Total(words), target) ELSE 1) \in Nat
  BY <1>1, <1>2
<1>4. CeilDiv(Len(words), most) \in Nat
  BY <1>1, <1>2
<1>5. ASSUME NEW a \in Nat, NEW b \in Nat PROVE Greater(a, Greater(1, b)) \in Nat \ {0}
  BY DEF Greater
<1> QED
  BY <1>3, <1>4, <1>5 DEF WindowCount

\* The groups of a plan keep to the count, the cap and their share.
LEMMA GroupsBalanced ==
    ASSUME NEW words \in Seq(Nat), NEW target \in Nat, NEW most \in Nat \ {0},
           NEW m \in Nat, AtMost(words, m)
    PROVE  \E d \in Dealts : /\ Groups(words, target, most) = d.groups /\ d.elapsed = Total(words)
                            /\ Balanced(words, WindowCount(words, target, most), most, m, d)
<1>1. PICK count \in Nat \ {0} : count = WindowCount(words, target, most)
  BY CountPositive
<1>2. PICK n \in Nat : n = Len(words) /\ DOMAIN words = 1..n /\ \A k \in 1..n : words[k] \in Nat
  BY LenProperties, ElementOfSeq
<1>3. PICK d \in [0..n -> Dealts] :
           Deals(d, words, count, most) /\ Groups(words, target, most) = d[n].groups
  BY <1>1, <1>2, GroupsAreDealt
<1>4. PICK t \in [0..n -> Nat] : Sums(t, words) /\ Total(words) = t[n] /\ \A i \in 0..n : t[i] <= t[n]
  <2>1. PICK t \in [0..Len(words) -> Nat] : Sums(t, words) /\ Total(words) = t[Len(words)]
    BY TotalIsSum
  <2>2. \A i \in 0..Len(words) : t[i] <= t[Len(words)]
    BY <2>1, SumsGrow
  <2> QED
    BY <1>2, <2>1, <2>2
<1> DEFINE Good(i) == Balanced(words, count, most, m, d[i]) /\ d[i].elapsed = t[i]
           good == {i \in Nat : i <= n => Good(i)}
<1>5. 0 \in good
  <2>1. d[0] = Start /\ t[0] = 0 /\ Start.elapsed = 0
    BY <1>3, <1>4 DEF Deals, Sums, Start
  <2>2. Good(0)
    BY <2>1, StartBalanced
  <2> HIDE DEF Good
  <2> QED
    BY <2>2
<1>6. ASSUME NEW i \in Nat, i \in good PROVE i + 1 \in good
  <2> SUFFICES ASSUME i + 1 <= n PROVE Good(i + 1)
    <3> HIDE DEF Good
    <3> QED
      OBVIOUS
  <2>1. PICK j \in 1..n : j = i + 1 /\ j - 1 = i /\ i <= n /\ j \in 0..n /\ i \in 0..n
    OBVIOUS
  <2>2. Good(i)
    <3> HIDE DEF Good
    <3> QED
      BY <1>6, <2>1
  <2>3. PICK e \in Dealts : e = d[i]
    BY <2>1
  <2>4. d[j] = Deal(words, count, most, e, j)
    BY <1>2, <1>3, <2>1, <2>3 DEF Deals
  <2>5. t[j] = t[i] + words[j] /\ t[j] <= Total(words)
    BY <1>2, <1>4, <2>1 DEF Sums
  <2>6. e.elapsed + words[j] <= Total(words) /\ Balanced(words, count, most, m, e)
    BY <2>2, <2>3, <2>5
  <2>7. j \in DOMAIN words
    BY <1>2
  <2>8. Balanced(words, count, most, m, Deal(words, count, most, e, j))
    BY <2>6, <2>7, BalancedBegins, BalancedJoins
  <2>9. Deal(words, count, most, e, j).elapsed = e.elapsed + words[j]
    BY DEF Deal
  <2>10. Good(j)
    BY <2>2, <2>3, <2>4, <2>5, <2>8, <2>9
  <2> QED
    BY <2>1, <2>10
<1>7. Nat \subseteq good
  <2> HIDE DEF good
  <2> QED
    BY <1>5, <1>6, EveryNumber
<1>8. Balanced(words, count, most, m, d[n]) /\ d[n].elapsed = Total(words)
  <2>1. n \in good /\ n <= n
    BY <1>7
  <2> QED
    BY <1>4, <2>1
<1>9. d[n] \in Dealts
  BY <1>2
<1> QED
  BY <1>1, <1>3, <1>8, <1>9

\* The words of an episode are dealt evenly as long as the cap allows it: a plan has no more
\* windows than it counts on, none but the last asks for more segments than the cap, and, where
\* no window has as many as the cap, each says as much as its even share of the words, give or
\* take what the longest segment says (plan_windows in llm/fusion.py).
THEOREM BalanceTheorem ==
    \A words \in Seq(Nat), target \in Nat, look \in Nat, most \in Nat \ {0} :
       PlanIsBalanced(words, target, look, most)
<1> SUFFICES ASSUME NEW words \in Seq(Nat), NEW target \in Nat, NEW look \in Nat,
                    NEW most \in Nat \ {0}
             PROVE  PlanIsBalanced(words, target, look, most)
  OBVIOUS
<1>1. PICK count \in Nat \ {0} : count = WindowCount(words, target, most)
  BY CountPositive
<1>2. CASE words = <<>>
  <2>1. PlanWindows(words, target, look, most) = <<>>
    BY <1>2 DEF PlanWindows
  <2>2. Len(<<>>) = 0 /\ DOMAIN <<>> = {} /\ 1..0 - 1 = {}
    OBVIOUS
  <2>3. \A windows : windows = <<>> => /\ Len(windows) <= count /\ DOMAIN windows = {}
                                      /\ 1..Len(windows) - 1 = {}
    BY <2>2
  <2> QED
    BY <1>1, <2>1, <2>3 DEF PlanIsBalanced
<1>3. CASE words # <<>>
  <2> DEFINE m == CHOOSE m \in Range(words) : \A i \in DOMAIN words : words[i] <= m
  <2>1. m \in Range(words) /\ AtMost(words, m)
    BY <1>3, MostSaid DEF AtMost
  <2> HIDE DEF m
  <2>2. m \in Nat
    <3>1. PICK k \in DOMAIN words : m = words[k]
      BY <2>1 DEF Range
    <3> QED
      BY <3>1, LenProperties, ElementOfSeq
  <2>3. PICK d \in Dealts : /\ Groups(words, target, most) = d.groups /\ d.elapsed = Total(words)
                            /\ Balanced(words, count, most, m, d)
    BY <1>1, <2>1, <2>2, GroupsBalanced
  <2>4. PICK groups \in Seq(Seq(Nat)), L \in Nat :
           groups = d.groups /\ L = Len(groups) /\ DOMAIN groups = 1..L
    <3>1. d.groups \in Seq(Seq(Nat))
      BY DEF Dealts
    <3> QED
      BY <3>1, LenProperties
  <2>5. PICK windows : windows = PlanWindows(words, target, look, most)
    OBVIOUS
  <2>6. /\ DOMAIN windows = 1..L /\ \A g \in 1..L : windows[g].targets = groups[g]
    <3>1. Windowed(windows, groups, words, look)
      BY <1>3, <2>3, <2>4, <2>5, PlanAsks
    <3>2. ASSUME NEW g \in 1..L PROVE windows[g].targets = groups[g]
      <4>1. PICK w : w = windows[g]
        OBVIOUS
      <4>2. w = [targets |-> groups[g], after |-> After(words, Last(groups[g]), look), depth |-> 0]
        BY <2>4, <3>1, <4>1 DEF Windowed
      <4> QED
        BY <4>1, <4>2
    <3> QED
      BY <2>4, <3>1, <3>2 DEF Windowed
  <2>7. Len(windows) = L
    <3>1. windows = [g \in DOMAIN groups |->
                       [targets |-> groups[g], after |-> After(words, Last(groups[g]), look), depth |-> 0]]
      BY <1>3, <2>3, <2>4, <2>5 DEF PlanWindows
    <3> QED
      BY <2>4, <3>1
  <2>8. /\ L <= count /\ \A g \in 1..L : g < L => Len(groups[g]) <= most
        /\ (\A g \in 1..L : Len(groups[g]) < most) =>
              \A g \in 1..L : Said(words, groups[g]) * count <= Total(words) + m * count
    BY <2>3, <2>4 DEF Balanced
  <2>11. ASSUME \A g \in 1..L : Len(groups[g]) < most, NEW g \in 1..L
         PROVE  Total(words) <= Said(words, groups[g]) * count + m * count
    <3>1. CASE g < L
      BY <2>3, <2>4, <2>11, <3>1 DEF Balanced
    <3>2. CASE g = L
      <4>1. PICK w \in Nat : w = Total(words)
        BY TotalAppend
      <4>2. PICK s \in Nat : s = Said(words, groups[L])
        <5>1. groups[L] \in Seq(DOMAIN words)
          BY <2>3, <2>4, <3>2, ElementOfSeq DEF Balanced
        <5>2. PICK i : i \in DOMAIN words
          <6>1. Len(words) \in Nat /\ Len(words) # 0 /\ DOMAIN words = 1..Len(words)
            BY <1>3, EmptySeq, LenProperties
          <6>2. 1 \in DOMAIN words
            BY <6>1
          <6> QED
            BY <6>2
        <5> QED
          BY <5>1, <5>2, SaidMore
      <4>3. m * count <= w => 2 * (w - s) * count <= 2 * w * (L - 1) + m * count
        BY <2>3, <2>4, <2>11, <4>1, <4>2 DEF Balanced
      <4>4. 2 * w * L <= 2 * w * count + m * count
        BY <2>2, <2>8, LastToEnd
      <4>5. w <= s * count + m * count
        BY <2>2, <4>3, <4>4, ShareReached
      <4> QED
        BY <3>2, <4>1, <4>2, <4>5
    <3> QED
      BY <3>1, <3>2
  <2>9. Len(windows) <= count /\ \A g \in 1..Len(windows) - 1 : Len(windows[g].targets) <= most
    <3>1. \A g \in 1..L - 1 : g \in 1..L /\ g < L
      OBVIOUS
    <3> QED
      BY <2>6, <2>7, <2>8, <3>1
  <2>10. ASSUME \A g \in DOMAIN windows : Len(windows[g].targets) < most, NEW g \in DOMAIN windows
         PROVE  LET said == Total([k \in DOMAIN windows[g].targets |-> words[windows[g].targets[k]]])
                IN  said * count <= Total(words) + m * count /\ Total(words) <= said * count + m * count
    <3>1. \A h \in 1..L : Len(groups[h]) < most
      BY <2>6, <2>10
    <3>2. g \in 1..L /\ windows[g].targets = groups[g]
      BY <2>6, <2>10
    <3>3. Said(words, groups[g]) * count <= Total(words) + m * count
      BY <2>8, <3>1, <3>2
    <3>4. Total(words) <= Said(words, groups[g]) * count + m * count
      BY <2>11, <3>1, <3>2
    <3> QED
      BY <3>2, <3>3, <3>4 DEF Said
  <2> QED
    BY <1>1, <2>5, <2>9, <2>10, Zenon DEF PlanIsBalanced, m
<1> QED
  BY <1>2, <1>3
=============================================================================
