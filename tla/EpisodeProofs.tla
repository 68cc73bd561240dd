--------------------------- MODULE EpisodeProofs ---------------------------
(***************************************************************************)
(* Proofs about what happens to an episode besides its checkpoint and its  *)
(* speakers, and about the run MCEpisode as a whole.                       *)
(*                                                                         *)
(* Corpus, for any clips, episodes, cuts and jobs: the object under a      *)
(* clip's key is the one its row was imported from, and a clip can be      *)
(* played unless a deletion is under way or went wrong.  Neither is        *)
(* inductive.  Both need to know what the open import has put into storage *)
(* for rows nobody sees yet, that there is one import, that it touches no  *)
(* clip with a row, and whose clips the open request is for.               *)
(*                                                                         *)
(* WordSlots, for any words none of which lies within another's: a scan    *)
(* that looks back over the open slots alone finds what one that looks     *)
(* back over all of them does.                                             *)
(*                                                                         *)
(* WordAlignment, for any two transcripts: what align counts is the least  *)
(* there is.  It costs the cells of a table from the first on, and the     *)
(* definition costs them from the last back; on a graph that leads upwards *)
(* the two agree.                                                          *)
(*                                                                         *)
(* MCEpisode: each of its behaviours is one of each machine, and what it   *)
(* says of its examples follows from the theorems for all inputs.          *)
(***************************************************************************)
EXTENDS MCEpisode, AudioProofs

Importing == [at : {"storing"}, ep : AllEpisodes, cut : Cuts, known : BOOLEAN,
              todo : SUBSET Clips, inserted : SUBSET Clips]
Deleting  == [at : {"segment", "bulk", "deleted", "episode"}, clips : SUBSET Clips]

CorpusTypeOK ==
    /\ rows \in [Clips -> Cuts \cup {None}]
    /\ episodes \subseteq AllEpisodes
    /\ gold \subseteq Clips
    /\ store \in [Clips -> Cuts \cup {None}]
    /\ import \in [Jobs -> Importing \cup {Idle}]
    /\ request \in Deleting \cup {Idle}
    /\ stranded \subseteq Clips

OneImport == \A i, j \in Jobs : import[i] # Idle /\ import[j] # Idle => i = j

\* What an import is about: clips of its episode that have no row.
ImportsAreNew == \A j \in Jobs : import[j] # Idle =>
    /\ import[j].todo \cup import[j].inserted \subseteq ClipsOf(import[j].ep)
    /\ \A c \in import[j].todo \cup import[j].inserted : rows[c] = None

\* What it has stored so far, unless a deletion took it.
StoredAsCut == \A j \in Jobs : import[j] # Idle =>
    \A c \in import[j].inserted : store[c] \in {None, import[j].cut}

AskedFor ==
    /\ request.at = "segment" => request.clips \subseteq Rows
    /\ request.at = "episode" => \E e \in AllEpisodes : request.clips = ClipsOf(e)

Excused(c) == c \in stranded \/ (request.at \in {"segment", "episode"} /\ c \in request.clips)

\* ClipIsPlayable, for the rows to come as well.
WillBePlayable == \A j \in Jobs : import[j] # Idle =>
    \A c \in import[j].inserted : store[c] = None => Excused(c)

CorpusInv ==
    /\ CorpusTypeOK
    /\ OneImport
    /\ ImportsAreNew
    /\ StoredAsCut
    /\ AskedFor
    /\ WillBePlayable
    /\ ObjectMatchesRow
    /\ ClipIsPlayable

-----------------------------------------------------------------------------
\* PlanImport: a new import has stored nothing yet.
LEMMA PlanImportKeeps ==
    ASSUME CorpusInv, NEW j \in Jobs, NEW clips \in SUBSET Clips, NEW cut \in Cuts, PlanImport(j, clips, cut)
    PROVE  CorpusInv'
<1>1. CorpusTypeOK'
  BY DEF CorpusInv, CorpusTypeOK, Importing, Deleting, Idle, PlanImport, LockIsFree
<1>2. OneImport'
  BY DEF CorpusInv, OneImport, Idle, PlanImport, LockIsFree
<1>3. ImportsAreNew'
  BY DEF CorpusInv, CorpusTypeOK, ImportsAreNew, Idle, ClipsOf, Rows, PlanImport, LockIsFree
<1>4. StoredAsCut' /\ WillBePlayable'
  BY DEF CorpusInv, StoredAsCut, WillBePlayable, Excused, Idle, PlanImport, LockIsFree
<1>5. AskedFor' /\ ObjectMatchesRow' /\ ClipIsPlayable'
  BY DEF CorpusInv, AskedFor, ObjectMatchesRow, ClipIsPlayable, Rows, Idle, PlanImport,
       LockIsFree
<1> QED
  BY <1>1, <1>2, <1>3, <1>4, <1>5 DEF CorpusInv

\* CommitImport: the import's rows appear, and what it stored is theirs.
LEMMA CommitImportKeeps ==
    ASSUME CorpusInv, NEW j \in Jobs, CommitImport(j)
    PROVE  CorpusInv'
<1>1. CorpusTypeOK'
  BY DEF CorpusInv, CorpusTypeOK, Importing, Deleting, Idle, CommitImport
<1>2. ImportsAreNew'
  BY DEF CorpusInv, CorpusTypeOK, OneImport, ImportsAreNew, Importing, Idle, ClipsOf,
       CommitImport
<1>3. AskedFor'
  BY DEF CorpusInv, CorpusTypeOK, ImportsAreNew, AskedFor, Importing, Idle, Rows, CommitImport
<1>4. ObjectMatchesRow'
  BY DEF CorpusInv, CorpusTypeOK, StoredAsCut, ObjectMatchesRow, Importing, Idle, Rows,
       CommitImport
<1>5. ClipIsPlayable'
  BY DEF CorpusInv, CorpusTypeOK, WillBePlayable, ClipIsPlayable, Importing, Idle, Excused,
       Rows, CommitImport
<1>6. OneImport' /\ StoredAsCut' /\ WillBePlayable'
  BY DEF CorpusInv, OneImport, StoredAsCut, WillBePlayable, Excused, CorpusTypeOK, Idle,
       CommitImport
<1> QED
  BY <1>1, <1>2, <1>3, <1>4, <1>5, <1>6 DEF CorpusInv

\* RollBackImport: nothing of the import is left but its objects.
LEMMA RollBackImportKeeps ==
    ASSUME CorpusInv, NEW j \in Jobs, RollBackImport(j)
    PROVE  CorpusInv'
<1>1. CorpusTypeOK'
  BY DEF CorpusInv, CorpusTypeOK, Importing, Deleting, Idle, RollBackImport
<1>2. OneImport' /\ ImportsAreNew' /\ StoredAsCut' /\ WillBePlayable'
  BY DEF CorpusInv, OneImport, ImportsAreNew, StoredAsCut, WillBePlayable, ClipsOf, Excused,
       Idle, RollBackImport
<1>3. AskedFor' /\ ObjectMatchesRow' /\ ClipIsPlayable'
  BY DEF CorpusInv, AskedFor, ObjectMatchesRow, ClipIsPlayable, Rows, Idle, RollBackImport
<1> QED
  BY <1>1, <1>2, <1>3 DEF CorpusInv

\* DeleteSegment: the object goes, and the request answers for it.
LEMMA DeleteSegmentKeeps ==
    ASSUME CorpusInv, NEW c \in Clips, DeleteSegment(c)
    PROVE  CorpusInv'
<1>1. CorpusTypeOK'
  BY DEF CorpusInv, CorpusTypeOK, Importing, Deleting, Idle, DeleteSegment, TakeObjects
<1>2. StoredAsCut'
  BY DEF CorpusInv, CorpusTypeOK, StoredAsCut, Importing, Idle, DeleteSegment, TakeObjects
<1>3. AskedFor'
  BY DEF CorpusInv, AskedFor, Rows, CorpusTypeOK, Idle, DeleteSegment, TakeObjects
<1>4. WillBePlayable'
  BY DEF CorpusInv, CorpusTypeOK, WillBePlayable, Importing, Idle, Excused, DeleteSegment,
       TakeObjects
<1>5. ObjectMatchesRow'
  BY DEF CorpusInv, ObjectMatchesRow, Rows, CorpusTypeOK, Idle, DeleteSegment, TakeObjects
<1>6. ClipIsPlayable'
  BY DEF CorpusInv, ClipIsPlayable, Rows, CorpusTypeOK, Idle, DeleteSegment, TakeObjects
<1>7. OneImport' /\ ImportsAreNew'
  BY DEF CorpusInv, OneImport, ImportsAreNew, ClipsOf, CorpusTypeOK, Idle, DeleteSegment,
       TakeObjects
<1> QED
  BY <1>1, <1>2, <1>3, <1>4, <1>5, <1>6, <1>7 DEF CorpusInv

\* CommitDeleteSegment: the clip had a row, so no import had stored it.
LEMMA CommitDeleteSegmentKeeps ==
    ASSUME CorpusInv, CommitDeleteSegment
    PROVE  CorpusInv'
<1>1. CorpusTypeOK'
  BY DEF CorpusInv, CorpusTypeOK, Importing, Deleting, Idle, CommitDeleteSegment, DropRows
<1>2. ImportsAreNew'
  BY DEF CorpusInv, ImportsAreNew, ClipsOf, CorpusTypeOK, Idle, CommitDeleteSegment, DropRows
<1>3. AskedFor'
  BY DEF CorpusInv, AskedFor, Rows, CorpusTypeOK, Idle, CommitDeleteSegment, DropRows
<1>4. WillBePlayable'
  BY DEF CorpusInv, CorpusTypeOK, ImportsAreNew, AskedFor, WillBePlayable, Importing, Idle,
       Excused, Rows, CommitDeleteSegment, DropRows
<1>5. ObjectMatchesRow'
  BY DEF CorpusInv, ObjectMatchesRow, Rows, CorpusTypeOK, Idle, CommitDeleteSegment, DropRows
<1>6. ClipIsPlayable'
  BY DEF CorpusInv, ClipIsPlayable, Rows, CorpusTypeOK, Idle, CommitDeleteSegment, DropRows
<1>7. OneImport' /\ StoredAsCut'
  BY DEF CorpusInv, OneImport, StoredAsCut, CorpusTypeOK, Idle, CommitDeleteSegment, DropRows
<1> QED
  BY <1>1, <1>2, <1>3, <1>4, <1>5, <1>6, <1>7 DEF CorpusInv

\* BulkDelete: nothing is touched yet.
LEMMA BulkDeleteKeeps ==
    ASSUME CorpusInv, NEW clips \in SUBSET Clips, BulkDelete(clips)
    PROVE  CorpusInv'
<1>1. CorpusTypeOK'
  BY DEF CorpusInv, CorpusTypeOK, Importing, Deleting, Idle, BulkDelete
<1>2. AskedFor'
  BY DEF CorpusInv, AskedFor, Rows, CorpusTypeOK, Idle, BulkDelete
<1>3. WillBePlayable'
  BY DEF CorpusInv, WillBePlayable, Excused, CorpusTypeOK, Idle, BulkDelete
<1>4. ClipIsPlayable'
  BY DEF CorpusInv, ClipIsPlayable, Rows, CorpusTypeOK, Idle, BulkDelete
<1>5. OneImport' /\ ImportsAreNew' /\ StoredAsCut' /\ ObjectMatchesRow'
  BY DEF CorpusInv, OneImport, ImportsAreNew, StoredAsCut, ObjectMatchesRow, ClipsOf, Rows,
       CorpusTypeOK, Idle, BulkDelete
<1> QED
  BY <1>1, <1>2, <1>3, <1>4, <1>5 DEF CorpusInv

\* CommitBulkDelete: rows go, objects stay.
LEMMA CommitBulkDeleteKeeps ==
    ASSUME CorpusInv, CommitBulkDelete
    PROVE  CorpusInv'
<1>1. CorpusTypeOK'
  BY DEF CorpusInv, CorpusTypeOK, Importing, Deleting, Idle, CommitBulkDelete, DropRows
<1>2. ImportsAreNew'
  BY DEF CorpusInv, ImportsAreNew, ClipsOf, CorpusTypeOK, Idle, CommitBulkDelete, DropRows
<1>3. AskedFor'
  BY DEF CorpusInv, AskedFor, Rows, CorpusTypeOK, Idle, CommitBulkDelete, DropRows
<1>4. WillBePlayable'
  BY DEF CorpusInv, WillBePlayable, Excused, CorpusTypeOK, Idle, CommitBulkDelete, DropRows
<1>5. ObjectMatchesRow'
  BY DEF CorpusInv, ObjectMatchesRow, Rows, CorpusTypeOK, Idle, CommitBulkDelete, DropRows
<1>6. ClipIsPlayable'
  BY DEF CorpusInv, ClipIsPlayable, Rows, CorpusTypeOK, Idle, CommitBulkDelete, DropRows
<1>7. OneImport' /\ StoredAsCut'
  BY DEF CorpusInv, OneImport, StoredAsCut, CorpusTypeOK, Idle, CommitBulkDelete, DropRows
<1> QED
  BY <1>1, <1>2, <1>3, <1>4, <1>5, <1>6, <1>7 DEF CorpusInv

\* DeleteBulkObjects: what a later import stored there is stranded.
LEMMA DeleteBulkObjectsKeeps ==
    ASSUME CorpusInv, DeleteBulkObjects
    PROVE  CorpusInv'
<1>1. CorpusTypeOK'
  BY DEF CorpusInv, CorpusTypeOK, Importing, Deleting, Idle, DeleteBulkObjects, TakeObjects
<1>2. StoredAsCut'
  BY DEF CorpusInv, CorpusTypeOK, StoredAsCut, Importing, Idle, DeleteBulkObjects, TakeObjects
<1>3. AskedFor'
  BY DEF CorpusInv, AskedFor, Rows, CorpusTypeOK, Idle, DeleteBulkObjects, TakeObjects
<1>4. WillBePlayable'
  BY DEF CorpusInv, CorpusTypeOK, WillBePlayable, Importing, Idle, Excused, DeleteBulkObjects,
       TakeObjects
<1>5. ObjectMatchesRow'
  BY DEF CorpusInv, ObjectMatchesRow, Rows, CorpusTypeOK, Idle, DeleteBulkObjects, TakeObjects
<1>6. ClipIsPlayable'
  BY DEF CorpusInv, ClipIsPlayable, Rows, CorpusTypeOK, Idle, DeleteBulkObjects, TakeObjects
<1>7. OneImport' /\ ImportsAreNew'
  BY DEF CorpusInv, OneImport, ImportsAreNew, ClipsOf, CorpusTypeOK, Idle, DeleteBulkObjects,
       TakeObjects
<1> QED
  BY <1>1, <1>2, <1>3, <1>4, <1>5, <1>6, <1>7 DEF CorpusInv

\* DeleteEpisode: the objects go, and the request answers for them.
LEMMA DeleteEpisodeKeeps ==
    ASSUME CorpusInv, NEW e \in AllEpisodes, DeleteEpisode(e)
    PROVE  CorpusInv'
<1>1. CorpusTypeOK'
  BY DEF CorpusInv, CorpusTypeOK, Importing, Deleting, Idle, ClipsOf, AllEpisodes,
       DeleteEpisode, TakeObjects
<1>2. StoredAsCut'
  BY DEF CorpusInv, CorpusTypeOK, StoredAsCut, Importing, Idle, DeleteEpisode, TakeObjects
<1>3. AskedFor'
  BY DEF CorpusInv, AskedFor, Rows, CorpusTypeOK, Idle, DeleteEpisode, TakeObjects
<1>4. WillBePlayable'
  BY DEF CorpusInv, CorpusTypeOK, WillBePlayable, Importing, Idle, Excused, DeleteEpisode,
       TakeObjects
<1>5. ObjectMatchesRow'
  BY DEF CorpusInv, ObjectMatchesRow, Rows, CorpusTypeOK, Idle, DeleteEpisode, TakeObjects
<1>6. ClipIsPlayable'
  BY DEF CorpusInv, ClipIsPlayable, Rows, CorpusTypeOK, Idle, DeleteEpisode, TakeObjects
<1>7. OneImport' /\ ImportsAreNew'
  BY DEF CorpusInv, OneImport, ImportsAreNew, ClipsOf, CorpusTypeOK, Idle, DeleteEpisode,
       TakeObjects
<1> QED
  BY <1>1, <1>2, <1>3, <1>4, <1>5, <1>6, <1>7 DEF CorpusInv

\* CommitDeleteEpisode: no import has stored a clip of the episode when its rows go.
LEMMA CommitDeleteEpisodeKeeps ==
    ASSUME CorpusInv, CommitDeleteEpisode
    PROVE  CorpusInv'
<1>1. CorpusTypeOK'
  BY DEF CorpusInv, CorpusTypeOK, Importing, Deleting, Idle, CommitDeleteEpisode, DropRows
<1>2. ImportsAreNew'
  BY DEF CorpusInv, ImportsAreNew, ClipsOf, CorpusTypeOK, Idle, CommitDeleteEpisode, DropRows
<1>3. AskedFor'
  BY DEF CorpusInv, AskedFor, Rows, CorpusTypeOK, Idle, CommitDeleteEpisode, DropRows
<1>4. WillBePlayable'
  BY DEF CorpusInv, CorpusTypeOK, ImportsAreNew, AskedFor, WillBePlayable, Importing, Idle,
       ClipsOf, Excused, CommitDeleteEpisode, DropRows
<1>5. ObjectMatchesRow'
  BY DEF CorpusInv, ObjectMatchesRow, Rows, CorpusTypeOK, Idle, CommitDeleteEpisode, DropRows
<1>6. ClipIsPlayable'
  BY DEF CorpusInv, ClipIsPlayable, Rows, CorpusTypeOK, Idle, CommitDeleteEpisode, DropRows
<1>7. OneImport' /\ StoredAsCut'
  BY DEF CorpusInv, OneImport, StoredAsCut, CorpusTypeOK, Idle, CommitDeleteEpisode, DropRows
<1> QED
  BY <1>1, <1>2, <1>3, <1>4, <1>5, <1>6, <1>7 DEF CorpusInv

\* IntoGold: only the pot changes.
LEMMA IntoGoldKeeps ==
    ASSUME CorpusInv, NEW c \in Clips, IntoGold(c)
    PROVE  CorpusInv'
<1>1. CorpusTypeOK'
  BY DEF CorpusInv, CorpusTypeOK, Importing, Deleting, Idle, IntoGold
<1>2. OneImport' /\ ImportsAreNew' /\ StoredAsCut' /\ WillBePlayable'
  BY DEF CorpusInv, OneImport, ImportsAreNew, StoredAsCut, WillBePlayable, ClipsOf, Excused,
       Idle, IntoGold
<1>3. AskedFor' /\ ObjectMatchesRow' /\ ClipIsPlayable'
  BY DEF CorpusInv, AskedFor, ObjectMatchesRow, ClipIsPlayable, Rows, Idle, IntoGold
<1> QED
  BY <1>1, <1>2, <1>3 DEF CorpusInv

\* Die: what the open request was for is stranded.
LEMMA DieKeeps ==
    ASSUME CorpusInv, Die
    PROVE  CorpusInv'
<1>1. CorpusTypeOK'
  BY DEF CorpusInv, CorpusTypeOK, Importing, Deleting, Idle, Die
<1>2. OneImport' /\ ImportsAreNew' /\ StoredAsCut' /\ WillBePlayable'
  BY DEF CorpusInv, OneImport, ImportsAreNew, StoredAsCut, WillBePlayable, ClipsOf, Excused,
       CorpusTypeOK, Idle, Die
<1>3. AskedFor'
  BY DEF CorpusInv, AskedFor, Rows, CorpusTypeOK, Idle, Die
<1>4. ObjectMatchesRow'
  BY DEF CorpusInv, ObjectMatchesRow, Rows, CorpusTypeOK, Idle, Die
<1>5. ClipIsPlayable'
  BY DEF CorpusInv, ClipIsPlayable, Rows, CorpusTypeOK, Idle, Die
<1> QED
  BY <1>1, <1>2, <1>3, <1>4, <1>5 DEF CorpusInv

\* StoreClip: the clip had no row, and now holds what its import cuts.
LEMMA StoreClipKeeps ==
    ASSUME CorpusInv, NEW j \in Jobs, NEW c \in Clips, StoreClip(j, c)
    PROVE  CorpusInv'
<1> DEFINE old == import[j]
           new == [old EXCEPT !.todo = @ \ {c}, !.inserted = @ \cup {c}]
<1>1. /\ old \in Importing /\ old # Idle /\ c \in old.todo
      /\ import' = [import EXCEPT ![j] = IF old.known /\ old.ep \notin episodes THEN Idle ELSE new]
  BY DEF CorpusInv, CorpusTypeOK, StoreClip
<1>2. /\ new \in Importing
      /\ new.ep = old.ep /\ new.cut = old.cut
      /\ new.todo = old.todo \ {c} /\ new.inserted = old.inserted \cup {c}
  BY <1>1 DEF Importing
<1>3. /\ import'[j] \in {Idle, new}
      /\ \A i \in Jobs : i # j => import'[i] = Idle
  BY <1>1 DEF CorpusInv, CorpusTypeOK, OneImport
<1>4. store'[c] = old.cut /\ old.cut # None /\ \A d \in Clips : d # c => store'[d] = store[d]
  BY <1>1, CutsAssumption DEF CorpusInv, CorpusTypeOK, StoreClip, Importing, None
<1>5. CorpusTypeOK'
  BY <1>1, <1>2 DEF CorpusInv, CorpusTypeOK, StoreClip, Importing
<1>6. OneImport'
  BY <1>3 DEF OneImport
<1>7. ImportsAreNew'
  BY <1>1, <1>2, <1>3 DEF CorpusInv, ImportsAreNew, StoreClip, ClipsOf
<1>8. StoredAsCut'
  BY <1>1, <1>2, <1>3, <1>4 DEF CorpusInv, StoredAsCut, Importing
<1>9. AskedFor'
  BY DEF CorpusInv, AskedFor, StoreClip, Rows
<1>10. WillBePlayable'
  BY <1>1, <1>2, <1>3, <1>4 DEF CorpusInv, WillBePlayable, Excused, StoreClip, Importing
<1>11. rows[c] = None
  BY <1>1 DEF CorpusInv, ImportsAreNew
<1>12. ObjectMatchesRow' /\ ClipIsPlayable'
  BY <1>4, <1>11 DEF CorpusInv, ObjectMatchesRow, ClipIsPlayable, StoreClip, Rows
<1> QED
  BY <1>5, <1>6, <1>7, <1>8, <1>9, <1>10, <1>12 DEF CorpusInv

-----------------------------------------------------------------------------
\* The invariant holds initially.
LEMMA InitHolds == CorpusInit => CorpusInv
BY DEF CorpusInit, CorpusInv, CorpusTypeOK, OneImport, ImportsAreNew, StoredAsCut, AskedFor, WillBePlayable,
       ObjectMatchesRow, ClipIsPlayable, Rows, Idle

\* Every step keeps the invariant.
LEMMA NextHolds == CorpusInv /\ [CorpusNext]_corpusVars => CorpusInv'
<1> SUFFICES ASSUME CorpusInv, [CorpusNext]_corpusVars PROVE CorpusInv'
  OBVIOUS
<1>1. ASSUME NEW j \in Jobs, NEW clips \in SUBSET Clips, NEW cut \in Cuts, PlanImport(j, clips, cut)
      PROVE  CorpusInv'
  BY <1>1, PlanImportKeeps
<1>2. ASSUME NEW j \in Jobs, NEW c \in Clips, StoreClip(j, c) PROVE CorpusInv'
  BY <1>2, StoreClipKeeps
<1>3. ASSUME NEW j \in Jobs, CommitImport(j) PROVE CorpusInv'
  BY <1>3, CommitImportKeeps
<1>4. ASSUME NEW j \in Jobs, RollBackImport(j) PROVE CorpusInv'
  BY <1>4, RollBackImportKeeps
<1>5. ASSUME NEW c \in Clips, DeleteSegment(c) PROVE CorpusInv'
  BY <1>5, DeleteSegmentKeeps
<1>6. ASSUME NEW clips \in SUBSET Clips, BulkDelete(clips) PROVE CorpusInv'
  BY <1>6, BulkDeleteKeeps
<1>7. ASSUME NEW e \in AllEpisodes, DeleteEpisode(e) PROVE CorpusInv'
  BY <1>7, DeleteEpisodeKeeps
<1>8. CASE CommitDeleteSegment \/ CommitBulkDelete \/ DeleteBulkObjects \/ CommitDeleteEpisode
  BY <1>8, CommitDeleteSegmentKeeps, CommitBulkDeleteKeeps, DeleteBulkObjectsKeeps,
     CommitDeleteEpisodeKeeps
<1>9. ASSUME NEW c \in Clips, IntoGold(c) PROVE CorpusInv'
  BY <1>9, IntoGoldKeeps
<1>10. CASE Die
  BY <1>10, DieKeeps
<1>11. CASE UNCHANGED corpusVars
  BY <1>11 DEF corpusVars, CorpusInv, CorpusTypeOK, OneImport, ImportsAreNew, StoredAsCut, AskedFor, Excused,
     WillBePlayable, ObjectMatchesRow, ClipIsPlayable, Rows
<1> QED
  BY <1>1, <1>2, <1>3, <1>4, <1>5, <1>6, <1>7, <1>8, <1>9, <1>10, <1>11 DEF CorpusNext

\* The invariant holds in every reachable state.
LEMMA Invariance == CorpusSpec => []CorpusInv
BY InitHolds, NextHolds, PTL DEF CorpusSpec

\* "An imported clip is never replaced": whatever was uploaded, rolled back, cut another way or
\* deleted in between, the object under a clip's key is the one its row was imported from.
THEOREM ObjectTheorem == CorpusSpec => []ObjectMatchesRow
<1>1. CorpusInv => ObjectMatchesRow
  BY DEF CorpusInv
<1> QED
  BY <1>1, Invariance, PTL

\* No import, failed, repeated or cut off by a crash, leaves a row without its object; only a
\* deletion does that, and only of the clips it was asked to delete.
THEOREM PlayableTheorem == CorpusSpec => []ClipIsPlayable
<1>1. CorpusInv => ClipIsPlayable
  BY DEF CorpusInv
<1> QED
  BY <1>1, Invariance, PTL

-----------------------------------------------------------------------------
(***************************************************************************)
(* WordSlots.  When no word lies within another's, words that are later by *)
(* their start are later by their end, and a word joins the last slot or   *)
(* none: what the scan leaves out could not have taken it.                 *)
(***************************************************************************)
Words   == [system : Int, start : Int, end : Int]
Moments == [start : Int, end : Int, words : SUBSET Words]

LEMMA SoonerOrders ==
    /\ \A v \in Words : ~Sooner(v, v)
    /\ \A v \in Words, w \in Words : v # w => Sooner(v, w) \/ Sooner(w, v)
    /\ \A u \in Words, v \in Words, w \in Words : Sooner(u, v) /\ Sooner(v, w) => Sooner(u, w)
<1>1. ASSUME NEW v \in Words, NEW w \in Words, v.start = w.start, v.end = w.end, v.system = w.system
      PROVE  v = w
  BY <1>1 DEF Words
<1>2. \A v \in Words : v.system \in Int /\ v.start \in Int /\ v.end \in Int
  BY DEF Words
<1> QED
  BY <1>1, <1>2 DEF Sooner

\* As many events as words, one after the other.
LEMMA EventsFollow ==
    ASSUME NEW words \in SUBSET Words, IsFiniteSet(words)
    PROVE  /\ Cardinality(words) \in Nat
           /\ Events(words) \in Seq(words) /\ Len(Events(words)) = Cardinality(words)
           /\ \A k \in 1..Cardinality(words) : \A j \in 1..k - 1 : Sooner(Events(words)[j], Events(words)[k])
<1> DEFINE N == Cardinality(words)
           before(w) == {v \in words : Sooner(v, w)}
           rank(w) == Cardinality(before(w))
           e == Events(words)
<1>1. N \in Nat
  BY FS_CardinalityType
<1>2. ASSUME NEW w \in words
      PROVE  IsFiniteSet(before(w)) /\ rank(w) \in 0..N - 1 /\ w \notin before(w)
  <2>1. w \notin before(w)
    BY SoonerOrders
  <2>2. PICK b \in SUBSET words : b = before(w) /\ w \notin b
    BY <2>1
  <2>3. IsFiniteSet(b) /\ Cardinality(b) <= N /\ (N = Cardinality(b) => words = b)
    BY <2>2, FS_Subset
  <2>4. Cardinality(b) \in Nat
    BY <2>3, FS_CardinalityType
  <2>5. Cardinality(b) # N
    BY <2>2, <2>3
  <2> HIDE DEF N
  <2> QED
    BY <1>1, <2>2, <2>3, <2>4, <2>5
<1>3. ASSUME NEW v \in words, NEW w \in words, Sooner(v, w) PROVE rank(v) < rank(w)
  <2>1. PICK b \in SUBSET words, c \in SUBSET words : b = before(v) /\ c = before(w)
    OBVIOUS
  <2>2. v \notin b /\ b \cup {v} \in SUBSET c
    BY <1>3, <2>1, SoonerOrders
  <2>3. IsFiniteSet(b) /\ IsFiniteSet(c)
    BY <1>2, <2>1
  <2>4. Cardinality(b \cup {v}) = Cardinality(b) + 1
    BY <2>2, <2>3, FS_AddElement
  <2>5. Cardinality(b \cup {v}) <= Cardinality(c)
    BY <2>2, <2>3, FS_Subset
  <2>6. Cardinality(b) \in Nat /\ Cardinality(c) \in Nat
    BY <2>3, FS_CardinalityType
  <2> QED
    BY <2>1, <2>4, <2>5, <2>6
<1>4. ASSUME NEW k \in 1..N PROVE \E w \in words : rank(w) = k - 1
  <2> SUFFICES ASSUME \A w \in words : rank(w) # k - 1 PROVE FALSE
    OBVIOUS
  <2>1. PICK T : T = (0..N - 1) \ {k - 1}
    OBVIOUS
  <2>2. IsFiniteSet(T) /\ Cardinality(T) < N
    <3> HIDE DEF N
    <3>1. IsFiniteSet(0..N - 1) /\ Cardinality(0..N - 1) = N
      <4>1. 0 \in Int /\ N - 1 \in Int
        BY <1>1
      <4>2. IsFiniteSet(0..N - 1) /\ Cardinality(0..N - 1) = IF 0 > N - 1 THEN 0 ELSE N - 1 - 0 + 1
        BY <4>1, FS_Interval
      <4> QED
        BY <1>1, <4>2
    <3>2. k - 1 \in 0..N - 1
      BY <1>1
    <3>3. PICK I : I = 0..N - 1
      OBVIOUS
    <3>4. IsFiniteSet(I \ {k - 1}) /\ Cardinality(I \ {k - 1}) = Cardinality(I) - 1
      BY <3>1, <3>2, <3>3, FS_RemoveElement
    <3> QED
      BY <1>1, <2>1, <3>1, <3>3, <3>4
  <2>3. PICK f : f = [w \in words |-> rank(w)]
    OBVIOUS
  <2>4. f \in [words -> T]
    <3>1. \A w \in words : rank(w) \in T
      BY <1>2, <2>1
    <3> HIDE DEF rank
    <3> QED
      BY <2>3, <3>1
  <2>5. \E v, w \in words : v # w /\ f[v] = f[w]
    BY <2>2, <2>4, FS_PigeonHole
  <2>6. PICK v \in words, w \in words : v # w /\ f[v] = f[w]
    BY <2>5
  <2>7. rank(v) = rank(w)
    BY <2>3, <2>6
  <2>8. rank(v) < rank(w) \/ rank(w) < rank(v)
    BY <1>3, <2>6, SoonerOrders
  <2>9. rank(v) \in Int /\ rank(w) \in Int
    <3>1. rank(v) \in 0..N - 1 /\ rank(w) \in 0..N - 1
      BY <1>2
    <3> HIDE DEF rank, N
    <3> QED
      BY <3>1
  <2> HIDE DEF rank
  <2> QED
    BY <2>7, <2>8, <2>9
<1>5. e = [k \in 1..N |-> CHOOSE w \in words : rank(w) = k - 1]
  BY DEF Events
<1> HIDE DEF e, N, rank
<1>6. ASSUME NEW k \in 1..N PROVE e[k] \in words /\ rank(e[k]) = k - 1
  BY <1>4, <1>5
<1>7. e \in [1..N -> words]
  <2>1. e = [k \in 1..N |-> e[k]]
    BY <1>5
  <2> QED
    BY <1>6, <2>1
<1>8. e \in Seq(words) /\ Len(e) = N
  BY <1>1, <1>7, SeqDef
<1>9. ASSUME NEW k \in 1..N, NEW j \in 1..k - 1 PROVE Sooner(e[j], e[k])
  <2>1. j \in 1..N /\ j < k
    BY <1>1
  <2>2. rank(e[j]) = j - 1 /\ rank(e[k]) = k - 1 /\ e[j] \in words /\ e[k] \in words
    BY <1>6, <2>1
  <2>3. e[j] # e[k]
    BY <2>1, <2>2
  <2>4. ~Sooner(e[k], e[j])
    <3>1. Sooner(e[k], e[j]) => rank(e[k]) < rank(e[j])
      BY <1>3, <2>2 DEF rank
    <3> QED
      BY <2>1, <2>2, <3>1
  <2> QED
    BY <2>2, <2>3, <2>4, SoonerOrders
<1> QED
  BY <1>1, <1>8, <1>9 DEF e, N

\* The words in the order in which they are placed: later by start and by end, and after the
\* words of the same system.
InLine(e) ==
    /\ e \in Seq(Words)
    /\ \A k \in 1..Len(e) : e[k].start < e[k].end
    /\ \A k \in 1..Len(e) : \A j \in 1..k - 1 :
         /\ e[j].start <= e[k].start /\ e[j].end <= e[k].end /\ e[j] # e[k]
         /\ e[j].system = e[k].system => e[j].end <= e[k].start

LEMMA EventsInLine ==
    ASSUME NEW words \in SUBSET Words, IsFiniteSet(words), \A w \in words : w.start < w.end,
           InTurn(words)
    PROVE  InLine(Events(words))
<1>1. PICK e \in Seq(words), n \in Nat :
          /\ e = Events(words) /\ n = Len(e)
          /\ \A k \in 1..n : \A j \in 1..k - 1 : Sooner(e[j], e[k])
  BY EventsFollow
<1>2. \A k \in 1..n : e[k] \in words
  BY <1>1, ElementOfSeq
<1>3. e \in Seq(Words)
  <2>1. words \subseteq Words
    OBVIOUS
  <2> QED
    BY <2>1, <1>1
<1>4. ASSUME NEW k \in 1..n, NEW j \in 1..k - 1
      PROVE  /\ e[j].start <= e[k].start /\ e[j].end <= e[k].end /\ e[j] # e[k]
             /\ e[j].system = e[k].system => e[j].end <= e[k].start
  <2>1. PICK v \in words, w \in words : v = e[j] /\ w = e[k] /\ Sooner(v, w)
    BY <1>1, <1>2
  <2>2. /\ v.system \in Int /\ v.start \in Int /\ v.end \in Int /\ v.start < v.end
        /\ w.system \in Int /\ w.start \in Int /\ w.end \in Int /\ w.start < w.end
    BY DEF Words
  <2>3. v # w
    BY <2>1, SoonerOrders
  <2>4. /\ v.system = w.system => v.end <= w.start \/ w.end <= v.start
        /\ Contained(v, w) => Contained(w, v)
        /\ Contained(w, v) => Contained(v, w)
    BY <2>3 DEF InTurn
  <2>5. v.start <= w.start
    BY <2>1, <2>2 DEF Sooner
  <2>6. v.end <= w.end
    BY <2>2, <2>4, <2>5 DEF Contained
  <2>7. v.system = w.system => v.end <= w.start
    BY <2>2, <2>4, <2>5
  <2> QED
    BY <2>1, <2>3, <2>5, <2>6, <2>7
<1> QED
  BY <1>1, <1>2, <1>3, <1>4 DEF InLine

-----------------------------------------------------------------------------
\* A step of the two scans.
ScanOf(slots, w)    == Place(slots, Fits(slots, FirstOpen(slots, w), w), w)
ScanAllOf(slots, w) == Place(slots, Fits(slots, 1, w), w)

LEMMA PlaceStays ==
    ASSUME NEW slots \in Seq(Moments), NEW w \in Words, NEW fits
    PROVE  Place(slots, fits, w) \in Seq(Moments)
<1>1. PICK s \in Moments : s = [start |-> w.start, end |-> w.end, words |-> {w}]
  BY DEF Words, Moments
<1>2. Append(slots, s) \in Seq(Moments)
  BY AppendProperties
<1>3. PICK n \in Nat : n = Len(slots) /\ slots \in [1..n -> Moments]
  BY LenProperties
<1>4. PICK c : c = Closest(slots, fits, w)
  OBVIOUS
<1> DEFINE joined(m) == [start |-> Least(m.start, w.start), end |-> Most(m.end, w.end), words |-> m.words \cup {w}]
<1>5. ASSUME NEW m \in Moments PROVE joined(m) \in Moments
  <2>1. m.start \in Int /\ m.end \in Int /\ m.words \in SUBSET Words /\ w.start \in Int /\ w.end \in Int
    BY DEF Moments, Words
  <2>2. Least(m.start, w.start) \in Int /\ Most(m.end, w.end) \in Int /\ m.words \cup {w} \in SUBSET Words
    BY <2>1 DEF Least, Most
  <2> QED
    BY <2>2 DEF Moments
<1>6. [slots EXCEPT ![c] = joined(@)] \in Seq(Moments)
  <2> HIDE DEF joined
  <2>1. PICK q : q = [slots EXCEPT ![c] = joined(@)]
    OBVIOUS
  <2>2. q \in [1..n -> Moments]
    BY <1>3, <1>5, <2>1
  <2> QED
    BY <2>1, <2>2, SeqDef
<1> QED
  BY <1>1, <1>2, <1>4, <1>6 DEF Place

\* The last word to end has joined the last slot, and every slot ended before what came later.
Laid(slots, e, i) ==
    /\ slots \in Seq(Moments)
    /\ \A k \in 1..Len(slots) :
         /\ slots[k].start < slots[k].end
         /\ \A j \in i + 1..Len(e) : slots[k].start <= e[j].start /\ slots[k].end <= e[j].end
         /\ \A z \in slots[k].words : \E j \in 1..i : z = e[j]
    /\ \A k \in 1..Len(slots) : \A h \in 1..k - 1 :
         /\ slots[h].start <= slots[k].start /\ slots[h].end <= slots[k].end
         /\ \A z \in slots[k].words : slots[h].end <= z.end

\* Products of numbers each at least as large as another's.
LEMMA LargerProduct ==
    ASSUME NEW a \in Nat, NEW b \in Nat, NEW c \in Nat, NEW d \in Nat, a <= b, c <= d
    PROVE  a * c \in Nat /\ b * d \in Nat /\ a * c <= b * d
<1>1. PICK x \in Nat : b = a + x
  <2>1. b - a \in Nat /\ b = a + (b - a)
    OBVIOUS
  <2> QED
    BY <2>1
<1>2. PICK y \in Nat : d = c + y
  <2>1. d - c \in Nat /\ d = c + (d - c)
    OBVIOUS
  <2> QED
    BY <2>1
<1>3. b * d = a * c + a * y + x * c + x * y
  BY <1>1, <1>2
<1>4. a * c \in Nat /\ a * y \in Nat /\ x * c \in Nat /\ x * y \in Nat /\ b * d \in Nat
  OBVIOUS
<1> QED
  BY <1>3, <1>4

\* What a slot that is laid and the next word share, and what they cover.
LEMMA NextWord ==
    ASSUME NEW e, InLine(e), NEW i \in Nat, i < Len(e), NEW slots, Laid(slots, e, i),
           NEW w, w = e[i + 1], NEW k \in 1..Len(slots)
    PROVE  /\ w \in Words /\ slots[k] \in Moments /\ w.start < w.end
           /\ slots[k].start < slots[k].end /\ slots[k].start <= w.start /\ slots[k].end <= w.end
           /\ Shared(slots[k], w) = Most(0, slots[k].end - w.start)
           /\ Hull(slots[k], w) = w.end - slots[k].start
           /\ Shared(slots[k], w) \in Nat /\ Hull(slots[k], w) \in Nat \ {0}
           /\ SameMoment(slots[k], w) => slots[k].end > w.start
<1>1. PICK n \in Nat : n = Len(e)
  BY LenProperties DEF InLine
<1>2. PICK j \in 1..n : j = i + 1
  <2>1. i + 1 \in 1..n
    BY <1>1
  <2> QED
    BY <2>1
<1>3. w \in Words /\ w.start < w.end /\ slots[k] \in Moments
  BY <1>1, <1>2, ElementOfSeq DEF InLine, Laid
<1>4. PICK s \in Int, t \in Int, a \in Int, b \in Int :
          s = slots[k].start /\ t = slots[k].end /\ a = w.start /\ b = w.end
  BY <1>3 DEF Words, Moments
<1>5. s < t /\ s <= a /\ t <= b /\ a < b
  <2>1. j \in i + 1..n
    BY <1>2
  <2> QED
    BY <1>1, <1>2, <1>3, <1>4, <2>1 DEF Laid
<1>6. Shared(slots[k], w) = Most(0, t - a) /\ Hull(slots[k], w) = b - s
  BY <1>4, <1>5 DEF Shared, Hull, Least, Most
<1>7. Most(0, t - a) \in Nat /\ b - s \in Nat \ {0}
  BY <1>5 DEF Most
<1>8. ASSUME SameMoment(slots[k], w) PROVE t > a
  <2>1. PICK p \in Nat \ {0} : p = IouPercent
    BY SlotsAssumption DEF SlotsAssumption
  <2>2. PICK h \in Nat \ {0}, x \in Nat : h = b - s /\ x = Most(0, t - a)
    BY <1>7
  <2>3. 100 * x >= p * h
    BY <1>6, <1>8, <2>1, <2>2 DEF SameMoment
  <2>4. 1 * 1 <= p * h /\ p * h \in Nat
    <3>1. 1 <= p /\ 1 <= h
      OBVIOUS
    <3> QED
      BY <3>1, LargerProduct
  <2>5. x > 0
    BY <2>3, <2>4
  <2> QED
    BY <2>2, <2>5 DEF Most
<1> QED
  BY <1>3, <1>4, <1>5, <1>6, <1>7, <1>8

\* A word that a slot may take, the last slot takes.
LEMMA LastFits ==
    ASSUME NEW e, InLine(e), NEW i \in Nat, i < Len(e), NEW slots, Laid(slots, e, i),
           NEW w, w = e[i + 1], NEW k \in Fits(slots, 1, w), NEW m, m = Len(slots)
    PROVE  /\ m \in 1..Len(slots) /\ m \in Fits(slots, 1, w) /\ slots[m].end > w.start
           /\ Shared(slots[k], w) * Hull(slots[m], w) <= Shared(slots[m], w) * Hull(slots[k], w)
           /\ Shared(slots[k], w) * Hull(slots[m], w) \in Nat
           /\ Shared(slots[m], w) * Hull(slots[k], w) \in Nat
<1>1. m \in Nat /\ k \in 1..m /\ m \in 1..m /\ w.system \notin Systems(slots[k]) /\ SameMoment(slots[k], w)
  <2>1. m \in Nat
    BY LenProperties DEF Laid
  <2> QED
    BY <2>1 DEF Fits
<1>2. PICK sk \in Nat, sm \in Nat, hk \in Nat \ {0}, hm \in Nat \ {0} :
          /\ sk = Shared(slots[k], w) /\ sm = Shared(slots[m], w)
          /\ hk = Hull(slots[k], w) /\ hm = Hull(slots[m], w)
  BY <1>1, NextWord
<1>3. PICK ek \in Int, em \in Int, bk \in Int, bm \in Int, a \in Int, b \in Int :
          /\ ek = slots[k].end /\ em = slots[m].end /\ bk = slots[k].start /\ bm = slots[m].start
          /\ a = w.start /\ b = w.end
  <2>1. slots[k] \in Moments /\ slots[m] \in Moments /\ w \in Words
    BY <1>1, NextWord
  <2> QED
    BY <2>1 DEF Moments, Words
<1>4. /\ sk = Most(0, ek - a) /\ sm = Most(0, em - a) /\ hk = b - bk /\ hm = b - bm /\ ek > a
  <2>1. /\ Shared(slots[k], w) = Most(0, slots[k].end - w.start)
        /\ Hull(slots[k], w) = w.end - slots[k].start
        /\ slots[k].end > w.start
    BY <1>1, NextWord
  <2>2. /\ Shared(slots[m], w) = Most(0, slots[m].end - w.start)
        /\ Hull(slots[m], w) = w.end - slots[m].start
    <3>1. PICK l \in 1..Len(slots) : l = m
      BY <1>1
    <3>2. /\ Shared(slots[l], w) = Most(0, slots[l].end - w.start)
          /\ Hull(slots[l], w) = w.end - slots[l].start
      BY NextWord
    <3> QED
      BY <3>1, <3>2
  <2> QED
    BY <1>2, <1>3, <2>1, <2>2
<1>5. ek <= em /\ bk <= bm
  <2>1. CASE k = m
    BY <1>3, <2>1
  <2>2. CASE k # m
    <3>1. k \in 1..m - 1
      BY <1>1, <2>2
    <3> QED
      BY <1>1, <1>3, <3>1 DEF Laid
  <2> QED
    BY <2>1, <2>2
<1>6. sk <= sm /\ hm <= hk
  BY <1>4, <1>5 DEF Most
<1>7. SameMoment(slots[m], w)
  <2>1. PICK p \in Nat : p = IouPercent
    BY SlotsAssumption DEF SlotsAssumption
  <2>2. 100 * sk >= p * hk
    BY <1>1, <1>2, <2>1 DEF SameMoment
  <2>3. p * hm <= p * hk /\ p * hm \in Nat /\ p * hk \in Nat
    <3>1. p <= p
      OBVIOUS
    <3> QED
      BY <1>6, <3>1, LargerProduct
  <2>4. 100 * sm >= p * hm
    BY <1>6, <2>2, <2>3
  <2> QED
    BY <1>2, <2>1, <2>4 DEF SameMoment
<1>8. w.system \notin Systems(slots[m])
  <2> SUFFICES ASSUME w.system \in Systems(slots[m]) PROVE FALSE
    OBVIOUS
  <2>1. PICK z \in slots[m].words : z.system = w.system
    BY DEF Systems
  <2>2. PICK h \in 1..i : z = e[h]
    BY <1>1, <2>1 DEF Laid
  <2>3. z.end <= a
    <3>1. PICK n \in Nat : n = Len(e)
      BY LenProperties DEF InLine
    <3>2. i + 1 \in 1..n /\ h \in 1..(i + 1) - 1
      BY <3>1
    <3> QED
      BY <1>3, <2>1, <2>2, <3>1, <3>2 DEF InLine
  <2>4. k \in 1..m - 1
    <3>1. k # m
      BY <1>1
    <3> QED
      BY <1>1, <3>1
  <2>5. ek <= z.end
    BY <1>1, <1>3, <2>1, <2>4 DEF Laid
  <2>6. z.end \in Int
    <3>1. slots[m] \in Moments
      BY <1>1, NextWord
    <3> QED
      BY <2>1, <3>1 DEF Moments, Words
  <2> QED
    BY <1>4, <2>3, <2>5, <2>6
<1>9. sk * hm <= sm * hk /\ sk * hm \in Nat /\ sm * hk \in Nat
  BY <1>6, LargerProduct
<1>10. m \in Fits(slots, 1, w)
  BY <1>1, <1>7, <1>8 DEF Fits
<1>11. slots[m].end > w.start
  <2>1. em > a
    BY <1>4, <1>5
  <2> QED
    BY <1>3, <2>1
<1>12. /\ Shared(slots[k], w) * Hull(slots[m], w) = sk * hm
       /\ Shared(slots[m], w) * Hull(slots[k], w) = sm * hk
  BY <1>2
<1> QED
  BY <1>1, <1>9, <1>10, <1>11, <1>12

\* And it is the closest of all that might.
LEMMA LastIsClosest ==
    ASSUME NEW e, InLine(e), NEW i \in Nat, i < Len(e), NEW slots, Laid(slots, e, i),
           NEW w, w = e[i + 1], NEW fits \in SUBSET Fits(slots, 1, w), NEW m, m = Len(slots), m \in fits
    PROVE  Closest(slots, fits, w) = m
<1> DEFINE best(k) == \A h \in fits \ {k} :
        \/ Shared(slots[k], w) * Hull(slots[h], w) > Shared(slots[h], w) * Hull(slots[k], w)
        \/ /\ Shared(slots[k], w) * Hull(slots[h], w) = Shared(slots[h], w) * Hull(slots[k], w)
           /\ k > h
<1>1. m \in Nat /\ \A k \in fits : k \in 1..m
  <2>1. m \in Nat
    BY LenProperties DEF Laid
  <2> QED
    BY <2>1 DEF Fits
<1>2. ASSUME NEW k \in fits
      PROVE  /\ Shared(slots[k], w) * Hull(slots[m], w) <= Shared(slots[m], w) * Hull(slots[k], w)
             /\ Shared(slots[k], w) * Hull(slots[m], w) \in Nat
             /\ Shared(slots[m], w) * Hull(slots[k], w) \in Nat
  BY LastFits
<1>3. best(m)
  <2> SUFFICES ASSUME NEW h \in fits \ {m}
               PROVE  \/ Shared(slots[m], w) * Hull(slots[h], w) > Shared(slots[h], w) * Hull(slots[m], w)
                      \/ /\ Shared(slots[m], w) * Hull(slots[h], w) = Shared(slots[h], w) * Hull(slots[m], w)
                         /\ m > h
    OBVIOUS
  <2>1. PICK x \in Nat, y \in Nat :
            x = Shared(slots[h], w) * Hull(slots[m], w) /\ y = Shared(slots[m], w) * Hull(slots[h], w) /\ x <= y
    BY <1>2
  <2>2. m > h
    BY <1>1
  <2>3. y > x \/ y = x
    BY <2>1
  <2> QED
    BY <2>1, <2>2, <2>3
<1>4. ASSUME NEW k \in fits, best(k) PROVE k = m
  <2> SUFFICES ASSUME k # m PROVE FALSE
    OBVIOUS
  <2>1. PICK x \in Nat, y \in Nat :
            x = Shared(slots[k], w) * Hull(slots[m], w) /\ y = Shared(slots[m], w) * Hull(slots[k], w) /\ x <= y
    BY <1>2
  <2>2. x > y \/ (x = y /\ k > m)
    BY <1>4, <2>1
  <2>3. k <= m
    BY <1>1
  <2> QED
    BY <1>1, <2>1, <2>2, <2>3
<1>5. Closest(slots, fits, w) = CHOOSE k \in fits : best(k)
  BY DEF Closest
<1> HIDE DEF best
<1> QED
  BY <1>3, <1>4, <1>5

\* What is left out of the scan had ended.
LEMMA OpenReachesLast ==
    ASSUME NEW e, InLine(e), NEW i \in Nat, i < Len(e), NEW slots, Laid(slots, e, i),
           NEW w, w = e[i + 1], NEW m \in 1..Len(slots), m = Len(slots), slots[m].end > w.start
    PROVE  FirstOpen(slots, w) \in 1..m
<1>1. m \in Nat /\ DOMAIN slots = 1..m
  BY LenProperties DEF Laid
<1>2. PICK ended \in SUBSET (1..m) : ended = {k \in 1..m : slots[k].end <= w.start}
  OBVIOUS
<1>3. FirstOpen(slots, w) = IF ended = {} THEN 1 ELSE (CHOOSE k \in ended : \A h \in ended : h <= k) + 1
  BY <1>1, <1>2 DEF FirstOpen
<1>4. CASE ended = {}
  BY <1>1, <1>3, <1>4
<1>5. CASE ended # {}
  <2>1. \E k \in ended : \A h \in ended : h <= k
    BY <1>1, <1>5, MaxOf
  <2>2. PICK k \in ended : k = CHOOSE c \in ended : \A h \in ended : h <= c
    BY <2>1
  <2>3. k \in 1..m /\ k # m
    <3>1. slots[m].end \in Int /\ w.start \in Int
      BY NextWord DEF Moments, Words
    <3>2. m \notin ended
      BY <1>2, <3>1
    <3> QED
      BY <3>2
  <2>4. FirstOpen(slots, w) = k + 1
    BY <1>3, <1>5, <2>2
  <2> QED
    BY <1>1, <2>3, <2>4
<1> QED
  BY <1>4, <1>5

\* So both scans take the last slot or none.
Taking(slots, fits, w) ==
    fits = {} \/ (Len(slots) \in 1..Len(slots) /\ Len(slots) \in fits /\ Closest(slots, fits, w) = Len(slots))

LEMMA BothTakeLast ==
    ASSUME NEW e, InLine(e), NEW i \in Nat, i < Len(e), NEW slots, Laid(slots, e, i), NEW w, w = e[i + 1]
    PROVE  /\ Taking(slots, Fits(slots, 1, w), w)
           /\ Taking(slots, Fits(slots, FirstOpen(slots, w), w), w)
           /\ Fits(slots, 1, w) = {} <=> Fits(slots, FirstOpen(slots, w), w) = {}
<1>1. PICK m \in Nat : m = Len(slots) /\ DOMAIN slots = 1..m
  BY LenProperties DEF Laid
<1>2. CASE Fits(slots, 1, w) = {}
  <2>1. FirstOpen(slots, w) \in Nat /\ FirstOpen(slots, w) >= 1
    <3>1. PICK ended \in SUBSET (1..m) : ended = {k \in 1..m : slots[k].end <= w.start}
      OBVIOUS
    <3>2. FirstOpen(slots, w) = IF ended = {} THEN 1 ELSE (CHOOSE k \in ended : \A h \in ended : h <= k) + 1
      BY <1>1, <3>1 DEF FirstOpen
    <3>3. CASE ended = {}
      BY <3>2, <3>3
    <3>4. CASE ended # {}
      <4>1. \E k \in ended : \A h \in ended : h <= k
        BY <3>4, MaxOf
      <4>2. PICK k \in ended : k = CHOOSE c \in ended : \A h \in ended : h <= c
        BY <4>1
      <4>3. FirstOpen(slots, w) = k + 1 /\ k \in 1..m
        BY <3>2, <3>4, <4>2
      <4> QED
        BY <4>3
    <3> QED
      BY <3>3, <3>4
  <2>2. Fits(slots, FirstOpen(slots, w), w) \subseteq Fits(slots, 1, w)
    <3>1. PICK f \in Nat : f = FirstOpen(slots, w) /\ f >= 1
      BY <2>1
    <3>2. f..m \subseteq 1..m
      BY <3>1
    <3> QED
      BY <1>1, <3>1, <3>2 DEF Fits
  <2> QED
    BY <1>2, <2>2 DEF Taking
<1>3. CASE Fits(slots, 1, w) # {}
  <2>1. PICK k \in Fits(slots, 1, w) : TRUE
    BY <1>3
  <2>2. m \in 1..m /\ m \in Fits(slots, 1, w) /\ slots[m].end > w.start
    BY <1>1, <2>1, LastFits
  <2>3. PICK f \in 1..m : f = FirstOpen(slots, w)
    BY <1>1, <2>2, OpenReachesLast
  <2>4. Fits(slots, f, w) \subseteq Fits(slots, 1, w) /\ m \in Fits(slots, f, w)
    <3>1. f..m \subseteq 1..m /\ m \in f..m
      BY <1>1
    <3> QED
      BY <1>1, <2>2, <3>1 DEF Fits
  <2>5. Closest(slots, Fits(slots, 1, w), w) = m
    <3>1. PICK fits \in SUBSET Fits(slots, 1, w) : fits = Fits(slots, 1, w)
      OBVIOUS
    <3> QED
      BY <1>1, <2>2, <3>1, LastIsClosest
  <2>6. Closest(slots, Fits(slots, f, w), w) = m
    <3>1. PICK fits \in SUBSET Fits(slots, 1, w) : fits = Fits(slots, f, w)
      BY <2>4
    <3> QED
      BY <1>1, <2>4, <3>1, LastIsClosest
  <2> QED
    BY <1>1, <1>3, <2>2, <2>3, <2>4, <2>5, <2>6 DEF Taking
<1> QED
  BY <1>2, <1>3

LEMMA ScanKeeps ==
    ASSUME NEW e, InLine(e), NEW i \in Nat, i < Len(e), NEW slots, Laid(slots, e, i), NEW w, w = e[i + 1],
           NEW fits, Taking(slots, fits, w)
    PROVE  Laid(Place(slots, fits, w), e, i + 1)
<1>1. PICK m \in Nat : m = Len(slots) /\ DOMAIN slots = 1..m /\ slots \in Seq(Moments) /\ slots \in [1..m -> Moments]
  BY LenProperties DEF Laid
<1>2. PICK n \in Nat : n = Len(e)
  BY LenProperties DEF InLine
<1>3. PICK g \in 1..n : g = i + 1 /\ i \in 0..n
  <2>1. i + 1 \in 1..n
    BY <1>2
  <2> QED
    BY <1>2, <2>1
<1>4. w = e[g] /\ w \in Words
  BY <1>2, <1>3, ElementOfSeq DEF InLine
<1>5. PICK a \in Int, b \in Int : a = w.start /\ b = w.end
  BY <1>4 DEF Words
<1>6. a < b /\ \A j \in g + 1..n : a <= e[j].start /\ b <= e[j].end
  <2>1. ASSUME NEW j \in g + 1..n PROVE a <= e[j].start /\ b <= e[j].end
    <3>1. j \in 1..n /\ g \in 1..j - 1
      OBVIOUS
    <3> QED
      BY <1>2, <1>4, <1>5, <3>1 DEF InLine
  <2>2. a < b
    BY <1>2, <1>4, <1>5 DEF InLine
  <2> QED
    BY <2>1, <2>2
<1>7. ASSUME NEW k \in 1..m
      PROVE  /\ slots[k].start \in Int /\ slots[k].end \in Int /\ slots[k].words \in SUBSET Words
             /\ slots[k].start < slots[k].end /\ slots[k].start <= a /\ slots[k].end <= b
             /\ \A j \in g + 1..n : slots[k].start <= e[j].start /\ slots[k].end <= e[j].end
             /\ \A z \in slots[k].words : \E j \in 1..g : z = e[j]
  <2>1. slots[k] \in Moments
    BY <1>1
  <2>2. g \in i + 1..n /\ \A j \in g + 1..n : j \in i + 1..n
    BY <1>3
  <2>3. \A j \in 1..i : j \in 1..g
    BY <1>3
  <2>4. /\ \A j \in g + 1..n : slots[k].start <= e[j].start /\ slots[k].end <= e[j].end
        /\ slots[k].start < slots[k].end /\ slots[k].start <= a /\ slots[k].end <= b
    BY <1>1, <1>2, <1>4, <1>5, <2>2 DEF Laid
  <2>5. \A z \in slots[k].words : \E j \in 1..g : z = e[j]
    BY <1>1, <2>3 DEF Laid
  <2> QED
    BY <2>1, <2>4, <2>5 DEF Moments
<1>8. PICK q : q = Place(slots, fits, w)
  OBVIOUS
<1>9. q \in Seq(Moments)
  BY <1>1, <1>4, <1>8, PlaceStays
<1>10. CASE fits = {}
  <2>1. PICK s \in Moments : s = [start |-> a, end |-> b, words |-> {w}]
    BY <1>4 DEF Moments
  <2>2. q = Append(slots, s)
    BY <1>5, <1>8, <1>10, <2>1 DEF Place
  <2>3. /\ Len(q) = m + 1 /\ q[m + 1] = s
        /\ \A k \in 1..m : q[k] = slots[k]
    BY <1>1, <2>2, AppendProperties
  <2>4. s.start = a /\ s.end = b /\ s.words = {w}
    BY <2>1
  <2>5. ASSUME NEW k \in 1..m + 1
        PROVE  /\ q[k].start < q[k].end
               /\ \A j \in g + 1..n : q[k].start <= e[j].start /\ q[k].end <= e[j].end
               /\ \A z \in q[k].words : \E j \in 1..g : z = e[j]
    <3>1. CASE k = m + 1
      BY <1>4, <1>6, <2>3, <2>4, <3>1
    <3>2. CASE k # m + 1
      <4>1. k \in 1..m
        BY <3>2
      <4> QED
        BY <1>7, <2>3, <4>1
    <3> QED
      BY <3>1, <3>2
  <2>6. ASSUME NEW k \in 1..m + 1, NEW h \in 1..k - 1
        PROVE  /\ q[h].start <= q[k].start /\ q[h].end <= q[k].end
               /\ \A z \in q[k].words : q[h].end <= z.end
    <3>1. h \in 1..m /\ q[h] = slots[h]
      BY <2>3
    <3>2. CASE k = m + 1
      BY <1>5, <1>7, <2>3, <2>4, <3>1, <3>2
    <3>3. CASE k # m + 1
      <4>1. k \in 1..m
        BY <3>3
      <4> QED
        BY <1>1, <2>3, <3>1, <4>1 DEF Laid
    <3> QED
      BY <3>2, <3>3
  <2>7. Laid(q, e, g)
    BY <1>2, <1>9, <2>3, <2>5, <2>6 DEF Laid
  <2> QED
    BY <1>3, <1>8, <2>7
<1>11. CASE fits # {}
  <2>1. m \in 1..m /\ Closest(slots, fits, w) = m
    BY <1>1, <1>11 DEF Taking
  <2>2. PICK last \in Moments : last = slots[m] /\ last.start <= a /\ last.end <= b /\ last.start < last.end
    BY <1>1, <1>7, <2>1
  <2>3. PICK c \in Int : c = last.start /\ c <= a
    BY <2>2 DEF Moments
  <2>4. PICK s \in Moments : s = [start |-> c, end |-> b, words |-> last.words \cup {w}]
    BY <1>4, <2>2 DEF Moments
  <2>5. s.start = c /\ s.end = b /\ s.words = last.words \cup {w}
    BY <2>4
  <2>6. s = [start |-> Least(last.start, w.start), end |-> Most(last.end, w.end), words |-> last.words \cup {w}]
    <3>1. Least(last.start, w.start) = c /\ Most(last.end, w.end) = b
      <4>1. last.end \in Int
        BY DEF Moments
      <4> QED
        BY <1>5, <2>2, <2>3, <4>1 DEF Least, Most
    <3> QED
      BY <2>4, <3>1
  <2>7. q = [slots EXCEPT ![m] = s]
    BY <1>8, <1>11, <2>1, <2>2, <2>6 DEF Place
  <2>8. /\ Len(q) = m /\ q[m] = s
        /\ \A k \in 1..m - 1 : q[k] = slots[k]
    <3>1. q \in [1..m -> Moments] /\ q[m] = s /\ \A k \in 1..m - 1 : q[k] = slots[k]
      <4>1. q = [k \in 1..m |-> IF k = m THEN s ELSE slots[k]]
        BY <1>1, <2>7
      <4>2. \A k \in 1..m : slots[k] \in Moments
        BY <1>1
      <4>3. q \in [1..m -> Moments]
        BY <4>1, <4>2
      <4>4. \A k \in 1..m - 1 : k \in 1..m /\ k # m
        OBVIOUS
      <4> QED
        BY <2>1, <4>1, <4>3, <4>4
    <3>2. DOMAIN q = 1..Len(q) /\ Len(q) \in Nat
      BY <1>9, LenProperties
    <3>3. 1..m = 1..Len(q)
      BY <3>1, <3>2
    <3>4. Len(q) = m
      <4>1. m \in 1..Len(q)
        BY <2>1, <3>3
      <4>2. Len(q) \in 1..Len(q)
        BY <3>2, <4>1
      <4>3. Len(q) \in 1..m
        BY <3>3, <4>2
      <4> QED
        BY <4>1, <4>3
    <3> QED
      BY <3>1, <3>4
  <2>9. ASSUME NEW k \in 1..m
        PROVE  /\ q[k].start < q[k].end
               /\ \A j \in g + 1..n : q[k].start <= e[j].start /\ q[k].end <= e[j].end
               /\ \A z \in q[k].words : \E j \in 1..g : z = e[j]
    <3>1. CASE k = m
      <4>1. c < b
        BY <1>6, <2>3
      <4>2. \A j \in g + 1..n : c <= e[j].start /\ b <= e[j].end
        BY <1>6, <1>7, <2>1, <2>2, <2>3
      <4>3. \A z \in last.words \cup {w} : \E j \in 1..g : z = e[j]
        <5>1. \A z \in last.words : \E j \in 1..g : z = e[j]
          BY <1>7, <2>1, <2>2
        <5>2. g \in 1..g
          BY <1>3
        <5> QED
          BY <1>4, <5>1, <5>2
      <4> QED
        BY <2>5, <2>8, <3>1, <4>1, <4>2, <4>3
    <3>2. CASE k # m
      <4>1. k \in 1..m - 1
        BY <3>2
      <4> QED
        BY <1>7, <2>8, <4>1
    <3> QED
      BY <3>1, <3>2
  <2>10. ASSUME NEW k \in 1..m, NEW h \in 1..k - 1
         PROVE  /\ q[h].start <= q[k].start /\ q[h].end <= q[k].end
                /\ \A z \in q[k].words : q[h].end <= z.end
    <3>1. h \in 1..m /\ h \in 1..m - 1 /\ q[h] = slots[h]
      BY <2>8
    <3>2. /\ slots[h].start <= slots[k].start /\ slots[h].end <= slots[k].end
          /\ \A z \in slots[k].words : slots[h].end <= z.end
      BY <1>1 DEF Laid
    <3>3. CASE k = m
      BY <1>5, <1>7, <2>2, <2>3, <2>5, <2>8, <3>1, <3>2, <3>3
    <3>4. CASE k # m
      <4>1. k \in 1..m - 1
        BY <3>4
      <4> QED
        BY <2>8, <3>1, <3>2, <4>1
    <3> QED
      BY <3>3, <3>4
  <2>11. Laid(q, e, g)
    BY <1>2, <1>9, <2>8, <2>9, <2>10 DEF Laid
  <2> QED
    BY <1>3, <1>8, <2>11
<1> QED
  BY <1>10, <1>11

\* The two scans do the same.
LEMMA SameStep ==
    ASSUME NEW e, InLine(e), NEW i \in Nat, i < Len(e), NEW slots, Laid(slots, e, i), NEW w, w = e[i + 1]
    PROVE  ScanOf(slots, w) = ScanAllOf(slots, w) /\ Laid(ScanOf(slots, w), e, i + 1)
<1>1. PICK near, all : near = Fits(slots, FirstOpen(slots, w), w) /\ all = Fits(slots, 1, w)
  OBVIOUS
<1>2. Taking(slots, near, w) /\ Taking(slots, all, w) /\ (near = {} <=> all = {})
  BY <1>1, BothTakeLast
<1>3. Place(slots, near, w) = Place(slots, all, w)
  BY <1>2 DEF Place, Taking
<1>4. Laid(Place(slots, near, w), e, i + 1)
  BY <1>2, ScanKeeps
<1> QED
  BY <1>1, <1>3, <1>4 DEF ScanOf, ScanAllOf

-----------------------------------------------------------------------------
\* Event after event g reaches the slots the scan builds, and those it would build by looking
\* at all of them.
ScannedBy(words, g) ==
    /\ g[1..0] = <<>>
    /\ \A i \in 1..Len(Events(words)) : g[1..i] = ScanOf(g[1..i - 1], Events(words)[i])
    /\ Scanned(words) = g[1..Len(Events(words))]
AllScannedBy(words, g) ==
    /\ g[1..0] = <<>>
    /\ \A i \in 1..Len(Events(words)) : g[1..i] = ScanAllOf(g[1..i - 1], Events(words)[i])
    /\ AllScanned(words) = g[1..Len(Events(words))]

LEMMA ScannedInSteps ==
    ASSUME NEW words \in SUBSET Words, IsFiniteSet(words)
    PROVE  \E g : ScannedBy(words, g)
<1> DEFINE line == Events(words)
           n == Len(line)
           Made == Seq(Moments)
           Scan(slots, w) == Place(slots, Fits(slots, FirstOpen(slots, w), w), w)
           step == [x \in (1..n) \X Made |-> Scan(x[2], line[x[1]])]
           fold(g) == [t \in SUBSET DOMAIN line |->
                         IF t = {} THEN <<>> ELSE Scan(g[t \ {Max(t)}], line[Max(t)])]
           chosen == CHOOSE g : g = fold(g)
<1>1. n \in Nat /\ DOMAIN line = 1..n /\ line \in Seq(Words)
  <2>1. line \in Seq(words) /\ words \subseteq Words
    BY EventsFollow
  <2> HIDE DEF line
  <2>2. line \in Seq(Words)
    BY <2>1
  <2> QED
    BY <2>2, LenProperties
<1> HIDE DEF line
<1>2. ASSUME NEW k \in 1..n, NEW t \in Made PROVE Scan(t, line[k]) \in Made
  <2>1. line[k] \in Words
    BY <1>1, ElementOfSeq
  <2> QED
    BY <2>1, PlaceStays
<1>3. step \in [(1..n) \X Made -> Made]
  <2>1. \A x \in (1..n) \X Made : Scan(x[2], line[x[1]]) \in Made
    <3> HIDE DEF n, Made, Scan
    <3> QED
      BY <1>2
  <2> QED
    BY <2>1
<1>4. ASSUME NEW t \in SUBSET (1..n)
      PROVE  t # {} => Max(t) \in 1..n /\ t \ {Max(t)} \in SUBSET (1..n)
  <2> HIDE DEF n
  <2> QED
    BY <1>1, MaxOf
<1>5. <<>> \in Made
  OBVIOUS
<1>6. Scanned(words) = chosen[DOMAIN line]
  BY DEF Scanned, FoldLeft, MapThenFoldSet, line
<1> HIDE DEF Made, Scan
<1>7. chosen = fold(chosen)
  <2>1. PICK g \in [SUBSET (1..n) -> Made] : FoldsBy(g, n, <<>>, step)
    <3> HIDE DEF step, n
    <3> QED
      BY <1>1, <1>3, <1>5, FoldExists
  <2>2. ASSUME NEW t \in SUBSET (1..n)
        PROVE  g[t] = IF t = {} THEN <<>> ELSE Scan(g[t \ {Max(t)}], line[Max(t)])
    <3>1. g[t] = IF t = {} THEN <<>> ELSE step[<<Max(t), g[t \ {Max(t)}]>>]
      BY <2>1 DEF FoldsBy
    <3>2. CASE t = {}
      BY <3>1, <3>2
    <3>3. CASE t # {}
      <4>1. Max(t) \in 1..n /\ g[t \ {Max(t)}] \in Made
        BY <2>1, <1>4, <3>3
      <4> HIDE DEF n
      <4> QED
        BY <3>1, <3>3, <4>1
    <3> QED
      BY <3>2, <3>3
  <2>3. g = fold(g)
    <3>1. g = [t \in SUBSET (1..n) |-> g[t]]
      BY <2>1
    <3> HIDE DEF n
    <3> QED
      BY <1>1, <2>2, <3>1
  <2> QED
    BY <2>3, Zenon
<1> HIDE DEF chosen
<1>8. ASSUME NEW t \in SUBSET (1..n)
      PROVE  chosen[t] = IF t = {} THEN <<>> ELSE Scan(chosen[t \ {Max(t)}], line[Max(t)])
  <2> DEFINE f == fold(chosen)
  <2>1. f[t] = IF t = {} THEN <<>> ELSE Scan(chosen[t \ {Max(t)}], line[Max(t)])
    BY <1>1
  <2> HIDE DEF f
  <2>2. chosen = f
    BY <1>7 DEF f
  <2> QED
    BY <2>1, <2>2
<1>9. FoldsWithin(chosen, n, Made, <<>>, step)
  <2>1. {} \in SUBSET (1..n)
    OBVIOUS
  <2>2. chosen[{}] = <<>>
    BY <1>8, <2>1
  <2>3. ASSUME NEW t \in SUBSET (1..n), t # {}, chosen[t \ {Max(t)}] \in Made
        PROVE  chosen[t] = step[<<Max(t), chosen[t \ {Max(t)}]>>]
    <3>1. Max(t) \in 1..n
      BY <1>4, <2>3
    <3> HIDE DEF n
    <3> QED
      BY <1>8, <2>3, <3>1
  <2> QED
    BY <2>2, <2>3 DEF FoldsWithin
<1>10. StepByStep(chosen, n, Made, <<>>, step)
  <2> HIDE DEF step, n
  <2> QED
    BY <1>1, <1>3, <1>5, <1>9, FoldIsARun
<1>11. ASSUME NEW i \in 1..n PROVE chosen[1..i] = Scan(chosen[1..i - 1], line[i])
  <2>1. i - 1 \in 0..n
    BY <1>1
  <2>2. chosen[1..i] = step[<<i, chosen[1..i - 1]>>] /\ chosen[1..i - 1] \in Made
    BY <1>10, <2>1 DEF StepByStep
  <2>3. step[<<i, chosen[1..i - 1]>>] = Scan(chosen[1..i - 1], line[i])
    <3> HIDE DEF n
    <3> QED
      BY <2>2
  <2> QED
    BY <2>2, <2>3
<1>12. chosen[1..0] = <<>> /\ Scanned(words) = chosen[1..n]
  BY <1>1, <1>6, <1>10 DEF StepByStep
<1> QED
  BY <1>11, <1>12 DEF ScannedBy, Scan, ScanOf, line

LEMMA AllScannedInSteps ==
    ASSUME NEW words \in SUBSET Words, IsFiniteSet(words)
    PROVE  \E g : AllScannedBy(words, g)
<1> DEFINE line == Events(words)
           n == Len(line)
           Made == Seq(Moments)
           ScanAll(slots, w) == Place(slots, Fits(slots, 1, w), w)
           step == [x \in (1..n) \X Made |-> ScanAll(x[2], line[x[1]])]
           fold(g) == [t \in SUBSET DOMAIN line |->
                         IF t = {} THEN <<>> ELSE ScanAll(g[t \ {Max(t)}], line[Max(t)])]
           chosen == CHOOSE g : g = fold(g)
<1>1. n \in Nat /\ DOMAIN line = 1..n /\ line \in Seq(Words)
  <2>1. line \in Seq(words) /\ words \subseteq Words
    BY EventsFollow
  <2> HIDE DEF line
  <2>2. line \in Seq(Words)
    BY <2>1
  <2> QED
    BY <2>2, LenProperties
<1> HIDE DEF line
<1>2. ASSUME NEW k \in 1..n, NEW t \in Made PROVE ScanAll(t, line[k]) \in Made
  <2>1. line[k] \in Words
    BY <1>1, ElementOfSeq
  <2> QED
    BY <2>1, PlaceStays
<1>3. step \in [(1..n) \X Made -> Made]
  <2>1. \A x \in (1..n) \X Made : ScanAll(x[2], line[x[1]]) \in Made
    <3> HIDE DEF n, Made, ScanAll
    <3> QED
      BY <1>2
  <2> QED
    BY <2>1
<1>4. ASSUME NEW t \in SUBSET (1..n)
      PROVE  t # {} => Max(t) \in 1..n /\ t \ {Max(t)} \in SUBSET (1..n)
  <2> HIDE DEF n
  <2> QED
    BY <1>1, MaxOf
<1>5. <<>> \in Made
  OBVIOUS
<1>6. AllScanned(words) = chosen[DOMAIN line]
  BY DEF AllScanned, FoldLeft, MapThenFoldSet, line
<1> HIDE DEF Made, ScanAll
<1>7. chosen = fold(chosen)
  <2>1. PICK g \in [SUBSET (1..n) -> Made] : FoldsBy(g, n, <<>>, step)
    <3> HIDE DEF step, n
    <3> QED
      BY <1>1, <1>3, <1>5, FoldExists
  <2>2. ASSUME NEW t \in SUBSET (1..n)
        PROVE  g[t] = IF t = {} THEN <<>> ELSE ScanAll(g[t \ {Max(t)}], line[Max(t)])
    <3>1. g[t] = IF t = {} THEN <<>> ELSE step[<<Max(t), g[t \ {Max(t)}]>>]
      BY <2>1 DEF FoldsBy
    <3>2. CASE t = {}
      BY <3>1, <3>2
    <3>3. CASE t # {}
      <4>1. Max(t) \in 1..n /\ g[t \ {Max(t)}] \in Made
        BY <2>1, <1>4, <3>3
      <4> HIDE DEF n
      <4> QED
        BY <3>1, <3>3, <4>1
    <3> QED
      BY <3>2, <3>3
  <2>3. g = fold(g)
    <3>1. g = [t \in SUBSET (1..n) |-> g[t]]
      BY <2>1
    <3> HIDE DEF n
    <3> QED
      BY <1>1, <2>2, <3>1
  <2> QED
    BY <2>3, Zenon
<1> HIDE DEF chosen
<1>8. ASSUME NEW t \in SUBSET (1..n)
      PROVE  chosen[t] = IF t = {} THEN <<>> ELSE ScanAll(chosen[t \ {Max(t)}], line[Max(t)])
  <2> DEFINE f == fold(chosen)
  <2>1. f[t] = IF t = {} THEN <<>> ELSE ScanAll(chosen[t \ {Max(t)}], line[Max(t)])
    BY <1>1
  <2> HIDE DEF f
  <2>2. chosen = f
    BY <1>7 DEF f
  <2> QED
    BY <2>1, <2>2
<1>9. FoldsWithin(chosen, n, Made, <<>>, step)
  <2>1. {} \in SUBSET (1..n)
    OBVIOUS
  <2>2. chosen[{}] = <<>>
    BY <1>8, <2>1
  <2>3. ASSUME NEW t \in SUBSET (1..n), t # {}, chosen[t \ {Max(t)}] \in Made
        PROVE  chosen[t] = step[<<Max(t), chosen[t \ {Max(t)}]>>]
    <3>1. Max(t) \in 1..n
      BY <1>4, <2>3
    <3> HIDE DEF n
    <3> QED
      BY <1>8, <2>3, <3>1
  <2> QED
    BY <2>2, <2>3 DEF FoldsWithin
<1>10. StepByStep(chosen, n, Made, <<>>, step)
  <2> HIDE DEF step, n
  <2> QED
    BY <1>1, <1>3, <1>5, <1>9, FoldIsARun
<1>11. ASSUME NEW i \in 1..n PROVE chosen[1..i] = ScanAll(chosen[1..i - 1], line[i])
  <2>1. i - 1 \in 0..n
    BY <1>1
  <2>2. chosen[1..i] = step[<<i, chosen[1..i - 1]>>] /\ chosen[1..i - 1] \in Made
    BY <1>10, <2>1 DEF StepByStep
  <2>3. step[<<i, chosen[1..i - 1]>>] = ScanAll(chosen[1..i - 1], line[i])
    <3> HIDE DEF n
    <3> QED
      BY <2>2
  <2> QED
    BY <2>2, <2>3
<1>12. chosen[1..0] = <<>> /\ AllScanned(words) = chosen[1..n]
  BY <1>1, <1>6, <1>10 DEF StepByStep
<1> QED
  BY <1>11, <1>12 DEF AllScannedBy, ScanAll, ScanAllOf, line

\* However many systems and words, as long as no word lies within another's: the slots are those
\* of a scan over all of them.  "Scanning back over those is enough" (consensus.py:131-132).
THEOREM ScanTheorem ==
    ASSUME NEW words \in SUBSET Words, IsFiniteSet(words), \A w \in words : w.start < w.end
    PROVE  ScanReachesAll(words)
<1> SUFFICES ASSUME InTurn(words) PROVE BuildSlots(words) = AllSlots(words)
  BY DEF ScanReachesAll
<1>1. PICK e : e = Events(words) /\ InLine(e)
  BY EventsInLine
<1>2. PICK n \in Nat : n = Len(e)
  BY <1>1, LenProperties DEF InLine
<1>3. PICK f : ScannedBy(words, f)
  BY ScannedInSteps
<1>4. PICK g : AllScannedBy(words, g)
  BY AllScannedInSteps
<1> DEFINE same == {i \in Nat : i <= n => f[1..i] = g[1..i] /\ Laid(f[1..i], e, i)}
<1>5. 0 \in same
  <2>1. <<>> \in Seq(Moments) /\ Len(<<>>) = 0
    BY EmptySeq
  <2>2. Laid(<<>>, e, 0)
    BY <2>1 DEF Laid
  <2> QED
    BY <1>3, <1>4, <2>2 DEF ScannedBy, AllScannedBy
<1>6. ASSUME NEW i \in Nat, i \in same PROVE i + 1 \in same
  <2> SUFFICES ASSUME i + 1 <= n PROVE f[1..i + 1] = g[1..i + 1] /\ Laid(f[1..i + 1], e, i + 1)
    OBVIOUS
  <2>1. PICK j \in 1..n : j = i + 1 /\ j - 1 = i /\ i < n
    <3>1. i + 1 \in 1..n /\ (i + 1) - 1 = i /\ i < n
      OBVIOUS
    <3> QED
      BY <3>1
  <2>2. f[1..j] = ScanOf(f[1..j - 1], e[j]) /\ g[1..j] = ScanAllOf(g[1..j - 1], e[j])
    BY <1>1, <1>2, <1>3, <1>4, <2>1 DEF ScannedBy, AllScannedBy
  <2>3. PICK slots : slots = f[1..i]
    OBVIOUS
  <2>4. slots = g[1..i] /\ Laid(slots, e, i)
    BY <1>6, <2>1, <2>3
  <2>5. PICK w : w = e[i + 1]
    OBVIOUS
  <2>6. ScanOf(slots, w) = ScanAllOf(slots, w) /\ Laid(ScanOf(slots, w), e, i + 1)
    BY <1>1, <1>2, <2>1, <2>4, <2>5, SameStep
  <2> QED
    BY <2>1, <2>2, <2>3, <2>4, <2>5, <2>6
<1>7. Nat \subseteq same
  <2> HIDE DEF same
  <2> QED
    BY <1>5, <1>6, EveryNumber
<1>8. Scanned(words) = AllScanned(words)
  BY <1>1, <1>2, <1>3, <1>4, <1>7 DEF ScannedBy, AllScannedBy
<1> QED
  BY <1>8 DEF BuildSlots, AllSlots

-----------------------------------------------------------------------------
(***************************************************************************)
(* WordAlignment.  The cells of a table and the steps between them are a   *)
(* graph: align works out what each cell costs from the first one, the     *)
(* definition what each costs to the last.                                 *)
(***************************************************************************)

\* Edges <<from, to, price>> that lead upwards.
Upward(D, E, h, top) ==
    /\ E \subseteq D \X D \X Nat
    /\ h \in [D -> Nat] /\ \A c \in D : h[c] <= top
    /\ \A e \in E : h[e[1]] < h[e[2]]

CostFrom(C, D, E, start) ==
    /\ C \in [D -> Nat] /\ start \in D /\ C[start] = 0
    /\ \A e \in E : C[e[2]] <= C[e[1]] + e[3]
    /\ \A c \in D \ {start} : \E e \in E : e[2] = c /\ C[c] = C[e[1]] + e[3]

CostTo(R, D, E, end) ==
    /\ R \in [D -> Nat] /\ end \in D /\ R[end] = 0
    /\ \A e \in E : R[e[1]] <= R[e[2]] + e[3]
    /\ \A c \in D \ {end} : \E e \in E : e[1] = c /\ R[c] = R[e[2]] + e[3]

\* What holds of a cell when it holds of all below it, and the same from above.
LEMMA FromBelow ==
    ASSUME NEW D, NEW h \in [D -> Nat], NEW T,
           \A c \in D : (\A b \in D : h[b] < h[c] => b \in T) => c \in T
    PROVE  D \subseteq T
<1> DEFINE low == {n \in Nat : \A c \in D : h[c] < n => c \in T}
<1>1. 0 \in low
  OBVIOUS
<1>2. ASSUME NEW n \in Nat, n \in low PROVE n + 1 \in low
  <2>1. ASSUME NEW c \in D, h[c] < n + 1 PROVE c \in T
    <3>1. h[c] \in Nat /\ h[c] <= n
      BY <2>1
    <3>2. ASSUME NEW b \in D, h[b] < h[c] PROVE b \in T
      <4>1. h[b] \in Nat /\ h[b] < n
        BY <3>1, <3>2
      <4> QED
        BY <1>2, <4>1
    <3> QED
      BY <3>2
  <2> QED
    BY <2>1
<1>3. Nat \subseteq low
  <2> HIDE DEF low
  <2> QED
    BY <1>1, <1>2, EveryNumber
<1>4. ASSUME NEW c \in D PROVE c \in T
  <2>1. h[c] + 1 \in Nat /\ h[c] < h[c] + 1
    OBVIOUS
  <2> QED
    BY <1>3, <2>1
<1> QED
  BY <1>4

LEMMA FromAbove ==
    ASSUME NEW D, NEW h \in [D -> Nat], NEW top \in Nat, \A c \in D : h[c] <= top, NEW T,
           \A c \in D : (\A b \in D : h[c] < h[b] => b \in T) => c \in T
    PROVE  D \subseteq T
<1> DEFINE g == [c \in D |-> top - h[c]]
<1>1. g \in [D -> Nat]
  OBVIOUS
<1>2. ASSUME NEW c \in D, NEW b \in D PROVE g[b] < g[c] <=> h[c] < h[b]
  OBVIOUS
<1>3. \A c \in D : (\A b \in D : g[b] < g[c] => b \in T) => c \in T
  <2> HIDE DEF g
  <2> QED
    BY <1>2
<1> HIDE DEF g
<1> QED
  BY <1>1, <1>3, FromBelow

\* From the first cell to the last costs what the last costs from the first.
LEMMA BothWays ==
    ASSUME NEW D, NEW E, NEW h, NEW top \in Nat, Upward(D, E, h, top), NEW start, NEW end,
           NEW C, CostFrom(C, D, E, start), NEW R, CostTo(R, D, E, end)
    PROVE  C[end] = R[start]
<1>1. /\ h \in [D -> Nat] /\ \A c \in D : h[c] <= top
      /\ start \in D /\ end \in D
      /\ C \in [D -> Nat] /\ R \in [D -> Nat]
  BY DEF Upward, CostFrom, CostTo
<1>2. \A e \in E : e[1] \in D /\ e[2] \in D /\ e[3] \in Nat /\ h[e[1]] < h[e[2]]
  BY DEF Upward
<1> DEFINE over == {c \in D : C[end] <= C[c] + R[c]}
           under == {c \in D : R[start] <= C[c] + R[c]}
<1>3. ASSUME NEW c \in D, \A b \in D : h[c] < h[b] => b \in over
      PROVE  c \in over
  <2>1. CASE c = end
    BY <1>1, <2>1 DEF CostTo
  <2>2. CASE c # end
    <3>1. PICK e \in E : e[1] = c /\ R[c] = R[e[2]] + e[3]
      BY <2>2 DEF CostTo
    <3>2. C[e[2]] <= C[c] + e[3]
      BY <3>1 DEF CostFrom
    <3>3. C[end] <= C[e[2]] + R[e[2]]
      BY <1>2, <1>3, <3>1
    <3>4. C[end] \in Nat /\ C[c] \in Nat /\ R[c] \in Nat /\ C[e[2]] \in Nat /\ R[e[2]] \in Nat /\ e[3] \in Nat
      BY <1>1, <1>2
    <3>5. C[end] <= C[c] + R[c]
      BY <3>1, <3>2, <3>3, <3>4
    <3> QED
      BY <3>5
  <2> QED
    BY <2>1, <2>2
<1>4. ASSUME NEW c \in D, \A b \in D : h[b] < h[c] => b \in under
      PROVE  c \in under
  <2>1. CASE c = start
    BY <1>1, <2>1 DEF CostFrom
  <2>2. CASE c # start
    <3>1. PICK e \in E : e[2] = c /\ C[c] = C[e[1]] + e[3]
      BY <2>2 DEF CostFrom
    <3>2. R[e[1]] <= R[c] + e[3]
      BY <3>1 DEF CostTo
    <3>3. R[start] <= C[e[1]] + R[e[1]]
      BY <1>2, <1>4, <3>1
    <3>4. R[start] \in Nat /\ C[c] \in Nat /\ R[c] \in Nat /\ C[e[1]] \in Nat /\ R[e[1]] \in Nat /\ e[3] \in Nat
      BY <1>1, <1>2
    <3>5. R[start] <= C[c] + R[c]
      BY <3>1, <3>2, <3>3, <3>4
    <3> QED
      BY <3>5
  <2> QED
    BY <2>1, <2>2
<1>5. D \subseteq over
  <2> HIDE DEF over
  <2> QED
    BY <1>1, <1>3, FromAbove
<1>6. D \subseteq under
  <2> HIDE DEF under
  <2> QED
    BY <1>1, <1>4, FromBelow
<1>7. C[end] <= C[start] + R[start] /\ R[start] <= C[end] + R[end]
  BY <1>1, <1>5, <1>6
<1>8. C[start] = 0 /\ R[end] = 0 /\ C[end] \in Nat /\ R[start] \in Nat
  BY <1>1 DEF CostFrom, CostTo
<1> QED
  BY <1>7, <1>8

\* Where every edge of one graph has one in another that costs no more, nor do the ways.
FollowsIn(p, B, F, last, D, E, end) ==
    /\ p \in [B -> D] /\ p[last] = end /\ E \subseteq D \X D \X Nat
    /\ \A f \in F : \E e \in E : e[1] = p[f[1]] /\ e[2] = p[f[2]] /\ e[3] <= f[3]

LEMMA NoDearer ==
    ASSUME NEW D, NEW E, NEW end, NEW R, CostTo(R, D, E, end),
           NEW B, NEW F, NEW g, NEW top \in Nat, Upward(B, F, g, top), NEW last, NEW S, CostTo(S, B, F, last),
           NEW p, FollowsIn(p, B, F, last, D, E, end)
    PROVE  \A b \in B : R[p[b]] <= S[b]
<1>1. /\ g \in [B -> Nat] /\ \A c \in B : g[c] <= top
      /\ R \in [D -> Nat] /\ S \in [B -> Nat]
      /\ p \in [B -> D] /\ p[last] = end /\ E \subseteq D \X D \X Nat
  BY DEF Upward, CostTo, FollowsIn
<1>2. \A f \in F : f[1] \in B /\ f[2] \in B /\ f[3] \in Nat /\ g[f[1]] < g[f[2]]
  BY DEF Upward
<1> DEFINE good == {b \in B : R[p[b]] <= S[b]}
<1>3. ASSUME NEW c \in B, \A b \in B : g[c] < g[b] => b \in good
      PROVE  c \in good
  <2>1. CASE c = last
    <3>1. R[p[c]] = 0 /\ S[c] = 0
      BY <1>1, <2>1 DEF CostTo
    <3> QED
      BY <3>1
  <2>2. CASE c # last
    <3>1. PICK f \in F : f[1] = c /\ S[c] = S[f[2]] + f[3]
      BY <2>2 DEF CostTo
    <3>2. PICK e \in E : e[1] = p[f[1]] /\ e[2] = p[f[2]] /\ e[3] <= f[3]
      BY DEF FollowsIn
    <3>3. R[e[1]] <= R[e[2]] + e[3]
      BY DEF CostTo
    <3>4. R[p[f[2]]] <= S[f[2]]
      BY <1>2, <1>3, <3>1
    <3>5. /\ R[e[1]] \in Nat /\ R[e[2]] \in Nat /\ e[3] \in Nat /\ f[3] \in Nat
          /\ S[f[2]] \in Nat /\ S[c] \in Nat
      BY <1>1, <1>2
    <3>6. R[p[c]] <= S[c]
      BY <3>1, <3>2, <3>3, <3>4, <3>5
    <3> QED
      BY <3>6
  <2> QED
    BY <2>1, <2>2
<1>4. B \subseteq good
  <2> HIDE DEF good
  <2> QED
    BY <1>1, <1>3, FromAbove
<1> QED
  BY <1>4

\* A function of the cells may be defined by what it is below.
ReadsBelow(F, D, V, h) ==
    /\ F \in [D \X [D -> V] -> V]
    /\ \A c \in D : \A f \in [D -> V], g \in [D -> V] :
          (\A b \in D : h[b] < h[c] => f[b] = g[b]) => F[<<c, f>>] = F[<<c, g>>]
Solves(f, F, D, V) == f \in [D -> V] /\ \A c \in D : f[c] = F[<<c, f>>]

LEMMA DefinedBelow ==
    ASSUME NEW D, NEW V, V # {}, NEW h \in [D -> Nat], NEW top \in Nat, \A c \in D : h[c] <= top,
           NEW F, ReadsBelow(F, D, V, h)
    PROVE  \E f : Solves(f, F, D, V)
<1>0. /\ F \in [D \X [D -> V] -> V]
      /\ \A c \in D : \A f \in [D -> V], g \in [D -> V] :
            (\A b \in D : h[b] < h[c] => f[b] = g[b]) => F[<<c, f>>] = F[<<c, g>>]
  BY DEF ReadsBelow
<1> DEFINE Upto(n) == \E f \in [D -> V] : \A c \in D : h[c] < n => f[c] = F[<<c, f>>]
           known == {n \in Nat : Upto(n)}
<1>1. 0 \in known
  <2>1. PICK v \in V : TRUE
    OBVIOUS
  <2>2. [c \in D |-> v] \in [D -> V] /\ \A c \in D : ~(h[c] < 0)
    OBVIOUS
  <2> QED
    BY <2>2
<1>2. ASSUME NEW n \in Nat, n \in known PROVE n + 1 \in known
  <2>1. PICK f \in [D -> V] : \A c \in D : h[c] < n => f[c] = F[<<c, f>>]
    BY <1>2
  <2> DEFINE g == [c \in D |-> IF h[c] = n THEN F[<<c, f>>] ELSE f[c]]
  <2>2. g \in [D -> V]
    BY <1>0
  <2>3. ASSUME NEW c \in D, h[c] < n + 1 PROVE g[c] = F[<<c, g>>]
    <3>1. h[c] \in Nat /\ h[c] <= n
      BY <2>3
    <3>2. \A b \in D : h[b] < h[c] => g[b] = f[b]
      BY <3>1
    <3>3. F[<<c, g>>] = F[<<c, f>>]
      BY <1>0, <2>2, <3>2
    <3>4. g[c] = F[<<c, f>>]
      <4>1. CASE h[c] = n
        BY <4>1
      <4>2. CASE h[c] < n
        BY <2>1, <3>1, <4>2
      <4> QED
        BY <3>1, <4>1, <4>2
    <3> QED
      BY <3>3, <3>4
  <2> HIDE DEF g
  <2> QED
    BY <2>2, <2>3
<1>3. Nat \subseteq known
  <2> HIDE DEF known
  <2> QED
    BY <1>1, <1>2, EveryNumber
<1>4. top + 1 \in known
  <2> HIDE DEF known
  <2> QED
    BY <1>3
<1>5. PICK f \in [D -> V] : \A c \in D : h[c] < top + 1 => f[c] = F[<<c, f>>]
  BY <1>4
<1>6. \A c \in D : h[c] < top + 1
  OBVIOUS
<1> QED
  BY <1>5, <1>6 DEF Solves

-----------------------------------------------------------------------------
Text     == Seq(Seq(Int))
OptionSet == [cost : Nat, rank : Nat, step : Nat \X Nat]

\* Sizes of a cell.
LEMMA CellsAre ==
    ASSUME NEW ref \in Text, NEW hyp \in Text
    PROVE  /\ Len(ref) \in Nat /\ Len(hyp) \in Nat
           /\ <<0, 0>> \in Cells(ref, hyp) /\ <<Len(ref), Len(hyp)>> \in Cells(ref, hyp)
           /\ \A c \in Cells(ref, hyp) : c[1] \in 0..Len(ref) /\ c[2] \in 0..Len(hyp) /\ c = <<c[1], c[2]>>
           /\ \A i \in 0..Len(ref), j \in 0..Len(hyp) : <<i, j>> \in Cells(ref, hyp)
<1>1. PICK m \in Nat, n \in Nat : m = Len(ref) /\ n = Len(hyp)
  BY DEF Text
<1>2. 0 \in 0..m /\ m \in 0..m /\ 0 \in 0..n /\ n \in 0..n
  OBVIOUS
<1> QED
  BY <1>1, <1>2 DEF Cells

\* A step takes words of either text, no more than there are.
StepFits(folded, i, j, s, a, b) ==
    /\ s = <<a, b>> /\ a <= i /\ b <= j
    /\ \/ s = <<1, 1>> \/ s = <<1, 0>> \/ s = <<0, 1>>
       \/ folded /\ 1 <= a /\ 1 <= b /\ 2 < a + b /\ a <= MaxMerge /\ b <= MaxMerge

LEMMA StepsAre ==
    ASSUME NEW ref, NEW hyp, NEW folded \in BOOLEAN, NEW i \in Nat, NEW j \in Nat,
           NEW s \in Steps(ref, hyp, folded, i, j)
    PROVE  \E a, b \in Nat : StepFits(folded, i, j, s, a, b)
<1>1. CASE s \in {<<1, 1>>, <<1, 0>>, <<0, 1>>} /\ s[1] <= i /\ s[2] <= j
  BY <1>1 DEF StepFits
<1>2. CASE /\ s \in (1..MaxMerge) \X (1..MaxMerge)
           /\ folded /\ s[1] + s[2] > 2 /\ s[1] <= i /\ s[2] <= j
  <2>1. PICK a \in 1..MaxMerge, b \in 1..MaxMerge : s = <<a, b>>
    BY <1>2
  <2>2. a \in Nat /\ b \in Nat /\ a <= MaxMerge /\ b <= MaxMerge /\ 1 <= a /\ 1 <= b
    BY <2>1, AlignmentAssumption DEF AlignmentAssumption
  <2>3. s[1] = a /\ s[2] = b
    BY <2>1
  <2>4. StepFits(folded, i, j, s, a, b)
    BY <1>2, <2>1, <2>2, <2>3 DEF StepFits
  <2> QED
    BY <2>2, <2>4
<1> QED
  BY <1>1, <1>2 DEF Steps

\* There is a step from somewhere to every cell but the first.
LEMMA SomeStep ==
    ASSUME NEW ref, NEW hyp, NEW folded \in BOOLEAN, NEW i \in Nat, NEW j \in Nat, i + j > 0
    PROVE  Steps(ref, hyp, folded, i, j) # {}
<1>1. <<1, 0>>[1] = 1 /\ <<1, 0>>[2] = 0 /\ <<0, 1>>[1] = 0 /\ <<0, 1>>[2] = 1
  OBVIOUS
<1>2. 1 <= i \/ 1 <= j
  OBVIOUS
<1>3. <<1, 0>> \in Steps(ref, hyp, folded, i, j) \/ <<0, 1>> \in Steps(ref, hyp, folded, i, j)
  BY <1>1, <1>2 DEF Steps
<1> QED
  BY <1>3

LEMMA PriceIs ==
    ASSUME NEW ref, NEW hyp, NEW folded, NEW i, NEW j, NEW s
    PROVE  /\ Price(ref, hyp, folded, i, j, s) \in {0, 1}
           /\ s = <<1, 1>> => Price(ref, hyp, folded, i, j, s) = IF Same(ref[i], hyp[j], folded) THEN 0 ELSE 1
           /\ s \in {<<1, 0>>, <<0, 1>>} => Price(ref, hyp, folded, i, j, s) = 1
           /\ s \notin {<<1, 1>>, <<1, 0>>, <<0, 1>>} => Price(ref, hyp, folded, i, j, s) = 0
<1>1. <<1, 1>> # <<1, 0>> /\ <<1, 1>> # <<0, 1>>
  OBVIOUS
<1>2. CASE s = <<1, 1>>
  BY <1>1, <1>2 DEF Price
<1>3. CASE s # <<1, 1>> /\ s \in {<<1, 0>>, <<0, 1>>}
  BY <1>1, <1>3 DEF Price
<1>4. CASE s # <<1, 1>> /\ s \notin {<<1, 0>>, <<0, 1>>}
  BY <1>4 DEF Price
<1> QED
  BY <1>1, <1>2, <1>3, <1>4

LEMMA RankIs ==
    ASSUME NEW folded, NEW i \in Nat, NEW j \in Nat, NEW s, NEW a \in Nat, NEW b \in Nat, StepFits(folded, i, j, s, a, b)
    PROVE  Rank(s) \in Nat
<1>1. s[1] = a /\ s[2] = b
  BY DEF StepFits
<1>2. CASE s = <<1, 1>>
  BY <1>2 DEF Rank
<1>3. CASE s = <<1, 0>>
  <2>1. s # <<1, 1>>
    BY <1>3
  <2> QED
    BY <1>3, <2>1 DEF Rank
<1>4. CASE s = <<0, 1>>
  <2>1. s # <<1, 1>> /\ s # <<1, 0>>
    BY <1>4
  <2> QED
    BY <1>4, <2>1 DEF Rank
<1>5. CASE s # <<1, 1>> /\ s # <<1, 0>> /\ s # <<0, 1>>
  <2>1. 2 < a + b
    BY <1>5 DEF StepFits
  <2>2. Rank(s) = a + b - 2
    BY <1>1, <1>5 DEF Rank
  <2> QED
    BY <2>1, <2>2
<1> QED
  BY <1>2, <1>3, <1>4, <1>5

\* How options compare.
LEMMA BeforeIs ==
    ASSUME NEW o \in OptionSet, NEW p \in OptionSet
    PROVE  Before(o, p) <=>
             \/ o.cost < p.cost
             \/ o.cost = p.cost /\ o.rank < p.rank
             \/ o.cost = p.cost /\ o.rank = p.rank /\ o.step[1] < p.step[1]
             \/ o.cost = p.cost /\ o.rank = p.rank /\ o.step[1] = p.step[1] /\ o.step[2] < p.step[2]
<1> DEFINE left  == <<o.cost, o.rank, o.step[1], o.step[2]>>
           right == <<p.cost, p.rank, p.step[1], p.step[2]>>
<1>1. Before(o, p) <=> \E k \in 1..4 : left[k] < right[k] /\ \A h \in 1..k - 1 : left[h] = right[h]
  BY DEF Before
<1>2. /\ left[1] = o.cost /\ left[2] = o.rank /\ left[3] = o.step[1] /\ left[4] = o.step[2]
      /\ right[1] = p.cost /\ right[2] = p.rank /\ right[3] = p.step[1] /\ right[4] = p.step[2]
  OBVIOUS
<1>3. 1..4 = {1, 2, 3, 4} /\ 1..1 - 1 = {} /\ 1..2 - 1 = {1} /\ 1..3 - 1 = {1, 2} /\ 1..4 - 1 = {1, 2, 3}
  OBVIOUS
<1> HIDE DEF left, right
<1>4. Before(o, p) <=>
        \/ left[1] < right[1]
        \/ left[1] = right[1] /\ left[2] < right[2]
        \/ left[1] = right[1] /\ left[2] = right[2] /\ left[3] < right[3]
        \/ left[1] = right[1] /\ left[2] = right[2] /\ left[3] = right[3] /\ left[4] < right[4]
  BY <1>1, <1>3
<1> QED
  BY <1>2, <1>4

\* Of options for different steps there is a first one, and none costs less.
LEMMA FirstIs ==
    ASSUME NEW options \in SUBSET OptionSet, options # {},
           \A o \in options, p \in options : o.step = p.step => o = p
    PROVE  First(options) \in options /\ \A p \in options : First(options).cost <= p.cost
<1>1. PICK c \in {o.cost : o \in options} : \A d \in {o.cost : o \in options} : c <= d
  <2>1. {o.cost : o \in options} \in SUBSET Nat /\ {o.cost : o \in options} # {}
    BY DEF OptionSet
  <2> QED
    BY <2>1, LeastMember
<1> DEFINE cheap == {o \in options : o.cost = c}
<1>2. PICK r \in {o.rank : o \in cheap} : \A d \in {o.rank : o \in cheap} : r <= d
  <2>1. {o.rank : o \in cheap} \in SUBSET Nat /\ {o.rank : o \in cheap} # {}
    BY <1>1 DEF OptionSet
  <2> QED
    BY <2>1, LeastMember
<1> DEFINE good == {o \in cheap : o.rank = r}
<1>3. PICK a \in {o.step[1] : o \in good} : \A d \in {o.step[1] : o \in good} : a <= d
  <2>1. {o.step[1] : o \in good} \in SUBSET Nat /\ {o.step[1] : o \in good} # {}
    BY <1>2 DEF OptionSet
  <2> QED
    BY <2>1, LeastMember
<1> DEFINE best == {o \in good : o.step[1] = a}
<1>4. PICK b \in {o.step[2] : o \in best} : \A d \in {o.step[2] : o \in best} : b <= d
  <2>1. {o.step[2] : o \in best} \in SUBSET Nat /\ {o.step[2] : o \in best} # {}
    BY <1>3 DEF OptionSet
  <2> QED
    BY <2>1, LeastMember
<1>5. PICK o \in best : o.step[2] = b
  BY <1>4
<1>6. o \in options /\ o.cost = c /\ o.rank = r /\ o.step[1] = a /\ o.step[2] = b
  BY <1>5
<1>7. ASSUME NEW p \in options \ {o} PROVE Before(o, p)
  <2>1. o \in OptionSet /\ p \in OptionSet /\ p \in options
    BY <1>6
  <2>2. /\ c <= p.cost
        /\ p.cost = c => r <= p.rank
        /\ p.cost = c /\ p.rank = r => a <= p.step[1]
        /\ p.cost = c /\ p.rank = r /\ p.step[1] = a => b <= p.step[2]
    BY <1>1, <1>2, <1>3, <1>4
  <2>3. ~(o.step[1] = p.step[1] /\ o.step[2] = p.step[2])
    <3>1. o.step = <<o.step[1], o.step[2]>> /\ p.step = <<p.step[1], p.step[2]>>
      BY <2>1 DEF OptionSet
    <3> QED
      BY <1>6, <1>7, <3>1
  <2>4. /\ p.cost \in Nat /\ p.rank \in Nat /\ p.step[1] \in Nat /\ p.step[2] \in Nat
        /\ c \in Nat /\ r \in Nat /\ a \in Nat /\ b \in Nat
    BY <1>6, <2>1 DEF OptionSet
  <2> QED
    BY <1>6, <2>1, <2>2, <2>3, <2>4, BeforeIs
<1>8. First(options) \in options /\ \A p \in options \ {First(options)} : Before(First(options), p)
  BY <1>6, <1>7 DEF First
<1>9. PICK f \in options : f = First(options) /\ \A p \in options \ {f} : Before(f, p)
  BY <1>8
<1>10. ASSUME NEW p \in options PROVE f.cost <= p.cost
  <2>1. f \in OptionSet /\ p \in OptionSet /\ f.cost \in Nat /\ p.cost \in Nat
    BY DEF OptionSet
  <2>2. CASE p = f
    BY <2>1, <2>2
  <2>3. CASE p # f
    <3>1. Before(f, p)
      BY <1>9, <2>3
    <3> QED
      BY <2>1, <3>1, BeforeIs
  <2> QED
    BY <2>2, <2>3
<1> QED
  BY <1>9, <1>10

-----------------------------------------------------------------------------
\* The table gives each cell the first of the options its cells below make.
TableOf(t, ref, hyp, folded) ==
    /\ t \in [Cells(ref, hyp) -> OptionSet]
    /\ \A c \in Cells(ref, hyp) :
          t[c] = IF c = <<0, 0>> THEN Option(0, 0, <<0, 0>>)
                 ELSE First(Options(t, ref, hyp, folded, c[1], c[2]))

\* An option for each step.
LEMMA OptionsAre ==
    ASSUME NEW ref \in Text, NEW hyp \in Text, NEW folded \in BOOLEAN,
           NEW f \in [Cells(ref, hyp) -> OptionSet], NEW i \in 0..Len(ref), NEW j \in 0..Len(hyp), i + j > 0
    PROVE  /\ Options(f, ref, hyp, folded, i, j) \in SUBSET OptionSet
           /\ Options(f, ref, hyp, folded, i, j) # {}
           /\ \A o \in Options(f, ref, hyp, folded, i, j), p \in Options(f, ref, hyp, folded, i, j) :
                 o.step = p.step => o = p
<1> DEFINE made(s) == Option(f[<<i - s[1], j - s[2]>>].cost + Price(ref, hyp, folded, i, j, s), Rank(s), s)
           steps == Steps(ref, hyp, folded, i, j)
<1>1. i \in Nat /\ j \in Nat
  BY CellsAre
<1>2. Options(f, ref, hyp, folded, i, j) = {made(s) : s \in steps}
  BY DEF Options
<1>3. ASSUME NEW s \in steps PROVE made(s) \in OptionSet /\ made(s).step = s
  <2>1. PICK a \in Nat, b \in Nat : StepFits(folded, i, j, s, a, b)
    BY <1>1, StepsAre
  <2>2. s[1] = a /\ s[2] = b /\ s = <<a, b>> /\ a <= i /\ b <= j
    BY <2>1 DEF StepFits
  <2>3. i - a \in 0..Len(ref) /\ j - b \in 0..Len(hyp)
    BY <1>1, <2>2, CellsAre
  <2>4. f[<<i - a, j - b>>] \in OptionSet
    BY <2>3, CellsAre
  <2>5. f[<<i - a, j - b>>].cost \in Nat
    BY <2>4 DEF OptionSet
  <2>6. Price(ref, hyp, folded, i, j, s) \in Nat
    BY PriceIs
  <2>7. Rank(s) \in Nat
    BY <1>1, <2>1, RankIs
  <2>8. f[<<i - a, j - b>>].cost + Price(ref, hyp, folded, i, j, s) \in Nat
    BY <2>5, <2>6
  <2> QED
    BY <2>2, <2>7, <2>8 DEF Option, OptionSet
<1>4. steps # {}
  BY <1>1, SomeStep
<1> HIDE DEF made, steps
<1> QED
  BY <1>2, <1>3, <1>4

AgreeBelow(f, g, ref, hyp, i, j) ==
    \A b \in Cells(ref, hyp) : b[1] + b[2] < i + j => f[b] = g[b]

LEMMA OptionsBelow ==
    ASSUME NEW ref \in Text, NEW hyp \in Text, NEW folded \in BOOLEAN,
           NEW i \in 0..Len(ref), NEW j \in 0..Len(hyp), NEW f, NEW g, AgreeBelow(f, g, ref, hyp, i, j)
    PROVE  Options(f, ref, hyp, folded, i, j) = Options(g, ref, hyp, folded, i, j)
<1>1. i \in Nat /\ j \in Nat
  BY CellsAre
<1>2. ASSUME NEW s \in Steps(ref, hyp, folded, i, j)
      PROVE  f[<<i - s[1], j - s[2]>>] = g[<<i - s[1], j - s[2]>>]
  <2>1. PICK a \in Nat, b \in Nat : StepFits(folded, i, j, s, a, b)
    BY <1>1, StepsAre
  <2>2. s[1] = a /\ s[2] = b /\ s = <<a, b>> /\ a <= i /\ b <= j /\ a + b > 0
    BY <2>1 DEF StepFits
  <2>3. i - a \in 0..Len(ref) /\ j - b \in 0..Len(hyp) /\ (i - a) + (j - b) < i + j
    BY <1>1, <2>2, CellsAre
  <2>a. PICK k \in 0..Len(ref), l \in 0..Len(hyp) : k = i - a /\ l = j - b
    BY <2>3
  <2>b. <<k, l>> \in Cells(ref, hyp) /\ <<k, l>>[1] = k /\ <<k, l>>[2] = l
    BY CellsAre
  <2>4. PICK c \in Cells(ref, hyp) : c = <<i - a, j - b>> /\ c[1] = i - a /\ c[2] = j - b
    BY <2>a, <2>b
  <2>5. f[c] = g[c]
    BY <2>3, <2>4 DEF AgreeBelow
  <2> QED
    BY <2>2, <2>4, <2>5
<1> QED
  BY <1>2 DEF Options

\* There is such a table, and the table of the model is one.
LEMMA TableExists ==
    ASSUME NEW ref \in Text, NEW hyp \in Text, NEW folded \in BOOLEAN
    PROVE  TableOf(Table(ref, hyp, folded), ref, hyp, folded)
<1> DEFINE D == Cells(ref, hyp)
           h == [c \in D |-> c[1] + c[2]]
           cell(f, c) == IF c = <<0, 0>> THEN Option(0, 0, <<0, 0>>)
                         ELSE First(Options(f, ref, hyp, folded, c[1], c[2]))
           F == [x \in D \X [D -> OptionSet] |-> cell(x[2], x[1])]
           top == Len(ref) + Len(hyp)
           chosen == CHOOSE t : t = [at \in D |-> cell(t, at)]
<1>1. /\ top \in Nat /\ h \in [D -> Nat] /\ \A c \in D : h[c] <= top
      /\ \A c \in D : h[c] = c[1] + c[2]
  <2>1. PICK m \in Nat, n \in Nat : m = Len(ref) /\ n = Len(hyp)
    BY CellsAre
  <2>2. \A c \in D : c[1] \in 0..m /\ c[2] \in 0..n
    BY <2>1, CellsAre
  <2>3. \A c \in D : c[1] + c[2] \in Nat /\ c[1] + c[2] <= m + n
    BY <2>2
  <2> HIDE DEF D
  <2> QED
    BY <2>1, <2>3
<1>2. ASSUME NEW c \in D, NEW f \in [D -> OptionSet] PROVE cell(f, c) \in OptionSet
  <2>1. c[1] \in 0..Len(ref) /\ c[2] \in 0..Len(hyp) /\ c = <<c[1], c[2]>>
    BY CellsAre
  <2>2. CASE c = <<0, 0>>
    BY <2>2 DEF Option, OptionSet
  <2>3. CASE c # <<0, 0>>
    <3>1. c[1] + c[2] > 0
      BY <2>1, <2>3, CellsAre
    <3>2. PICK O \in SUBSET OptionSet : /\ O = Options(f, ref, hyp, folded, c[1], c[2])
                                        /\ O # {} /\ \A o \in O, p \in O : o.step = p.step => o = p
      BY <2>1, <3>1, OptionsAre
    <3>3. First(O) \in O
      BY <3>2, FirstIs
    <3> QED
      BY <2>3, <3>2, <3>3
  <2> QED
    BY <2>2, <2>3
<1>3. F \in [D \X [D -> OptionSet] -> OptionSet]
  <2> HIDE DEF cell
  <2> QED
    BY <1>2
<1>4. ASSUME NEW c \in D, NEW f \in [D -> OptionSet], NEW g \in [D -> OptionSet],
             \A b \in D : h[b] < h[c] => f[b] = g[b]
      PROVE  F[<<c, f>>] = F[<<c, g>>]
  <2>1. c[1] \in 0..Len(ref) /\ c[2] \in 0..Len(hyp)
    BY CellsAre
  <2>2. AgreeBelow(f, g, ref, hyp, c[1], c[2])
    BY <1>1, <1>4 DEF AgreeBelow
  <2>3. Options(f, ref, hyp, folded, c[1], c[2]) = Options(g, ref, hyp, folded, c[1], c[2])
    BY <2>1, <2>2, OptionsBelow
  <2>4. F[<<c, f>>] = cell(f, c) /\ F[<<c, g>>] = cell(g, c)
    <3> HIDE DEF cell
    <3> QED
      OBVIOUS
  <2> QED
    BY <2>3, <2>4
<1>5. \E f : Solves(f, F, D, OptionSet)
  <2>1. OptionSet # {}
    <3>1. Option(0, 0, <<0, 0>>) \in OptionSet
      BY DEF Option, OptionSet
    <3> QED
      BY <3>1
  <2>2. ReadsBelow(F, D, OptionSet, h)
    <3> HIDE DEF D, h, F
    <3> QED
      BY <1>3, <1>4 DEF ReadsBelow
  <2>3. \A c \in D : h[c] <= top
    BY <1>1
  <2> HIDE DEF D, h, F, top
  <2> QED
    BY <1>1, <2>1, <2>2, <2>3, DefinedBelow
<1>6. PICK f \in [D -> OptionSet] : \A c \in D : f[c] = cell(f, c)
  <2>1. PICK f : Solves(f, F, D, OptionSet)
    BY <1>5
  <2>2. f \in [D -> OptionSet] /\ \A c \in D : f[c] = cell(f, c)
    <3> HIDE DEF cell
    <3> QED
      BY <2>1 DEF Solves
  <2> HIDE DEF cell
  <2> QED
    BY <2>2
<1>7. f = [at \in D |-> cell(f, at)]
  <2> HIDE DEF cell
  <2> QED
    BY <1>6
<1>8. chosen = [at \in D |-> cell(chosen, at)]
  <2> HIDE DEF cell
  <2> QED
    BY <1>7, Zenon
<1>9. Table(ref, hyp, folded) = chosen
  BY DEF Table
<1>10. PICK t : t = chosen /\ \A c \in D : t[c] = cell(t, c)
  <2> HIDE DEF cell, chosen, D
  <2> QED
    BY <1>8
<1> DEFINE same == {c \in D : t[c] = f[c]}
<1>11. ASSUME NEW c \in D, \A b \in D : h[b] < h[c] => b \in same
       PROVE  c \in same
  <2>1. c[1] \in 0..Len(ref) /\ c[2] \in 0..Len(hyp)
    BY CellsAre
  <2>2. AgreeBelow(t, f, ref, hyp, c[1], c[2])
    BY <1>1, <1>11 DEF AgreeBelow
  <2>3. PICK i \in 0..Len(ref), j \in 0..Len(hyp) : i = c[1] /\ j = c[2]
    BY <2>1
  <2>4. Options(t, ref, hyp, folded, i, j) = Options(f, ref, hyp, folded, i, j)
    BY <2>2, <2>3, OptionsBelow
  <2>5. cell(t, c) = cell(f, c)
    BY <2>3, <2>4
  <2> HIDE DEF cell
  <2> QED
    BY <1>6, <1>10, <2>5
<1>12. D \subseteq same
  <2> HIDE DEF D, h, same
  <2> QED
    BY <1>1, <1>11, FromBelow
<1>13. t = f
  <2>1. t = [at \in D |-> cell(t, at)]
    <3> HIDE DEF cell, D
    <3> QED
      BY <1>8, <1>10
  <2>2. t = [at \in D |-> t[at]] /\ f = [at \in D |-> f[at]]
    <3> HIDE DEF cell, D
    <3> QED
      BY <2>1
  <2>3. \A at \in D : t[at] = f[at]
    BY <1>12
  <2> HIDE DEF cell, D
  <2> QED
    BY <2>2, <2>3
<1> QED
  BY <1>6, <1>9, <1>10, <1>13 DEF TableOf

-----------------------------------------------------------------------------
\* The graph: an edge for each step, at its price.
From(c, s) == <<c[1] - s[1], c[2] - s[2]>>
Edges(ref, hyp, folded) ==
    {e \in Cells(ref, hyp) \X Cells(ref, hyp) \X {0, 1} :
        \E s \in Steps(ref, hyp, folded, e[2][1], e[2][2]) :
            /\ e[1] = From(e[2], s)
            /\ e[3] = Price(ref, hyp, folded, e[2][1], e[2][2], s)}
Height(ref, hyp) == [c \in Cells(ref, hyp) |-> c[1] + c[2]]

LEMMA HeightIs ==
    ASSUME NEW ref \in Text, NEW hyp \in Text
    PROVE  /\ Len(ref) + Len(hyp) \in Nat
           /\ Height(ref, hyp) \in [Cells(ref, hyp) -> Nat]
           /\ \A c \in Cells(ref, hyp) : Height(ref, hyp)[c] = c[1] + c[2]
           /\ \A c \in Cells(ref, hyp) : Height(ref, hyp)[c] <= Len(ref) + Len(hyp)
<1>1. PICK m \in Nat, n \in Nat : m = Len(ref) /\ n = Len(hyp)
  BY CellsAre
<1>2. \A c \in Cells(ref, hyp) : c[1] \in 0..m /\ c[2] \in 0..n
  BY <1>1, CellsAre
<1>3. \A c \in Cells(ref, hyp) : c[1] + c[2] \in Nat /\ c[1] + c[2] <= m + n
  BY <1>2
<1> QED
  BY <1>1, <1>3 DEF Height

\* A step ends at a cell and comes from one below.
LEMMA StepIsEdge ==
    ASSUME NEW ref \in Text, NEW hyp \in Text, NEW folded \in BOOLEAN, NEW c \in Cells(ref, hyp),
           NEW s \in Steps(ref, hyp, folded, c[1], c[2])
    PROVE  /\ From(c, s) \in Cells(ref, hyp)
           /\ From(c, s)[1] + From(c, s)[2] < c[1] + c[2]
           /\ c # <<0, 0>>
           /\ <<From(c, s), c, Price(ref, hyp, folded, c[1], c[2], s)>> \in Edges(ref, hyp, folded)
<1>1. PICK i \in 0..Len(ref), j \in 0..Len(hyp) : c = <<i, j>> /\ c[1] = i /\ c[2] = j
  BY CellsAre
<1>2. i \in Nat /\ j \in Nat
  BY CellsAre
<1>3. PICK x \in Nat, y \in Nat : StepFits(folded, i, j, s, x, y)
  BY <1>1, <1>2, StepsAre
<1>4. s[1] = x /\ s[2] = y /\ x <= i /\ y <= j /\ x + y > 0
  BY <1>3 DEF StepFits
<1>5. i - x \in 0..Len(ref) /\ j - y \in 0..Len(hyp) /\ (i - x) + (j - y) < i + j
  BY <1>2, <1>4, CellsAre
<1>6. From(c, s) = <<i - x, j - y>> /\ From(c, s)[1] = i - x /\ From(c, s)[2] = j - y
  BY <1>1, <1>4 DEF From
<1>7. From(c, s) \in Cells(ref, hyp)
  <2>1. PICK k \in 0..Len(ref), l \in 0..Len(hyp) : k = i - x /\ l = j - y
    BY <1>5
  <2>2. <<k, l>> \in Cells(ref, hyp)
    BY CellsAre
  <2> QED
    BY <1>6, <2>1, <2>2
<1>8. PICK b \in Cells(ref, hyp), p \in {0, 1} : b = From(c, s) /\ p = Price(ref, hyp, folded, c[1], c[2], s)
  BY <1>7, PriceIs
<1> DEFINE e == <<b, c, p>>
<1>9. e \in Cells(ref, hyp) \X Cells(ref, hyp) \X {0, 1} /\ e[1] = b /\ e[2] = c /\ e[3] = p
  OBVIOUS
<1> HIDE DEF e
<1>10. e \in Edges(ref, hyp, folded)
  BY <1>8, <1>9 DEF Edges
<1>11. c # <<0, 0>>
  BY <1>1, <1>2, <1>4
<1> QED
  BY <1>1, <1>2, <1>5, <1>6, <1>7, <1>8, <1>10, <1>11 DEF e

LEMMA EdgeIsStep ==
    ASSUME NEW ref \in Text, NEW hyp \in Text, NEW folded \in BOOLEAN, NEW e \in Edges(ref, hyp, folded)
    PROVE  \E b, c \in Cells(ref, hyp), p \in {0, 1} :
              /\ e = <<b, c, p>> /\ e[1] = b /\ e[2] = c /\ e[3] = p
              /\ \E s \in Steps(ref, hyp, folded, c[1], c[2]) :
                    b = From(c, s) /\ p = Price(ref, hyp, folded, c[1], c[2], s)
BY DEF Edges

LEMMA EdgesLeadUp ==
    ASSUME NEW ref \in Text, NEW hyp \in Text, NEW folded \in BOOLEAN
    PROVE  Upward(Cells(ref, hyp), Edges(ref, hyp, folded), Height(ref, hyp), Len(ref) + Len(hyp))
<1>1. ASSUME NEW e \in Edges(ref, hyp, folded)
      PROVE  Height(ref, hyp)[e[1]] < Height(ref, hyp)[e[2]]
  <2>1. PICK b \in Cells(ref, hyp), c \in Cells(ref, hyp) :
           /\ e[1] = b /\ e[2] = c
           /\ \E s \in Steps(ref, hyp, folded, c[1], c[2]) : b = From(c, s)
    BY EdgeIsStep
  <2>2. b[1] + b[2] < c[1] + c[2]
    BY <2>1, StepIsEdge
  <2> QED
    BY <2>1, <2>2, HeightIs
<1>2. Edges(ref, hyp, folded) \subseteq Cells(ref, hyp) \X Cells(ref, hyp) \X Nat
  BY DEF Edges
<1> QED
  BY <1>1, <1>2, HeightIs DEF Upward

\* What align works out for a cell: the best that a step from below makes of it.
Taken(t, ref, hyp, folded, c) ==
    /\ t[c].step \in Steps(ref, hyp, folded, c[1], c[2])
    /\ t[c].cost = t[From(c, t[c].step)].cost
                     + Price(ref, hyp, folded, c[1], c[2], t[c].step)
    /\ \A s \in Steps(ref, hyp, folded, c[1], c[2]) :
          t[c].cost <= t[From(c, s)].cost + Price(ref, hyp, folded, c[1], c[2], s)

LEMMA StepTaken ==
    ASSUME NEW ref \in Text, NEW hyp \in Text, NEW folded \in BOOLEAN,
           NEW t, TableOf(t, ref, hyp, folded), NEW c \in Cells(ref, hyp), c # <<0, 0>>
    PROVE  Taken(t, ref, hyp, folded, c)
<1>1. c[1] \in 0..Len(ref) /\ c[2] \in 0..Len(hyp) /\ c = <<c[1], c[2]>> /\ c[1] + c[2] > 0
  <2>1. PICK i \in 0..Len(ref), j \in 0..Len(hyp) : c = <<i, j>> /\ c[1] = i /\ c[2] = j
    BY CellsAre
  <2>2. i \in Nat /\ j \in Nat
    BY CellsAre
  <2>3. i # 0 \/ j # 0
    BY <2>1
  <2>4. i + j > 0
    BY <2>2, <2>3
  <2> QED
    BY <2>1, <2>4
<1>2. t \in [Cells(ref, hyp) -> OptionSet] /\ t[c] = First(Options(t, ref, hyp, folded, c[1], c[2]))
  BY DEF TableOf
<1>3. PICK O \in SUBSET OptionSet : /\ O = Options(t, ref, hyp, folded, c[1], c[2])
                                    /\ O # {} /\ \A o \in O, p \in O : o.step = p.step => o = p
  BY <1>1, <1>2, OptionsAre
<1>4. t[c] \in O /\ \A p \in O : t[c].cost <= p.cost
  BY <1>2, <1>3, FirstIs
<1> DEFINE made(s) == Option(t[From(c, s)].cost + Price(ref, hyp, folded, c[1], c[2], s), Rank(s), s)
<1>5. O = {made(s) : s \in Steps(ref, hyp, folded, c[1], c[2])}
  BY <1>3 DEF Options, From
<1>6. ASSUME NEW s
      PROVE  made(s).step = s
             /\ made(s).cost = t[From(c, s)].cost + Price(ref, hyp, folded, c[1], c[2], s)
  BY DEF Option
<1>7. PICK s \in Steps(ref, hyp, folded, c[1], c[2]) : t[c] = made(s)
  BY <1>4, <1>5
<1>8. t[c].step = s /\ t[c].cost = t[From(c, s)].cost + Price(ref, hyp, folded, c[1], c[2], s)
  BY <1>6, <1>7
<1>9. ASSUME NEW r \in Steps(ref, hyp, folded, c[1], c[2])
      PROVE  t[c].cost <= t[From(c, r)].cost + Price(ref, hyp, folded, c[1], c[2], r)
  <2>1. made(r) \in O
    BY <1>5
  <2>2. t[c].cost <= made(r).cost
    BY <1>4, <2>1
  <2> QED
    BY <1>6, <2>2
<1> QED
  BY <1>8, <1>9 DEF Taken

LEMMA TableCosts ==
    ASSUME NEW ref \in Text, NEW hyp \in Text, NEW folded \in BOOLEAN, NEW t, TableOf(t, ref, hyp, folded)
    PROVE  CostFrom([c \in Cells(ref, hyp) |-> t[c].cost], Cells(ref, hyp), Edges(ref, hyp, folded), <<0, 0>>)
<1> DEFINE C == [c \in Cells(ref, hyp) |-> t[c].cost]
<1>1. \A c \in Cells(ref, hyp) : t[c] \in OptionSet /\ t[c].cost \in Nat
  BY DEF TableOf, OptionSet
<1>2. C \in [Cells(ref, hyp) -> Nat] /\ \A c \in Cells(ref, hyp) : C[c] = t[c].cost
  BY <1>1
<1>3. <<0, 0>> \in Cells(ref, hyp) /\ C[<<0, 0>>] = 0
  <2>1. <<0, 0>> \in Cells(ref, hyp)
    BY CellsAre
  <2>2. t[<<0, 0>>].cost = 0
    BY <2>1 DEF TableOf, Option
  <2> QED
    BY <2>1, <2>2
<1> HIDE DEF C
<1>4. ASSUME NEW e \in Edges(ref, hyp, folded) PROVE C[e[2]] <= C[e[1]] + e[3]
  <2>1. PICK b \in Cells(ref, hyp), c \in Cells(ref, hyp), p \in {0, 1} :
           /\ e[1] = b /\ e[2] = c /\ e[3] = p
           /\ \E s \in Steps(ref, hyp, folded, c[1], c[2]) :
                 b = From(c, s) /\ p = Price(ref, hyp, folded, c[1], c[2], s)
    BY EdgeIsStep
  <2>2. PICK s \in Steps(ref, hyp, folded, c[1], c[2]) :
           b = From(c, s) /\ p = Price(ref, hyp, folded, c[1], c[2], s)
    BY <2>1
  <2>3. c # <<0, 0>>
    BY <2>2, StepIsEdge
  <2>4. t[c].cost <= t[b].cost + p
    BY <2>2, <2>3, StepTaken DEF Taken
  <2> QED
    BY <1>2, <2>1, <2>4
<1>5. ASSUME NEW c \in Cells(ref, hyp) \ {<<0, 0>>}
      PROVE  \E e \in Edges(ref, hyp, folded) : e[2] = c /\ C[c] = C[e[1]] + e[3]
  <2>1. Taken(t, ref, hyp, folded, c)
    BY StepTaken
  <2>2. PICK s \in Steps(ref, hyp, folded, c[1], c[2]) :
           t[c].cost = t[From(c, s)].cost + Price(ref, hyp, folded, c[1], c[2], s)
    BY <2>1 DEF Taken
  <2>3. PICK b \in Cells(ref, hyp), p \in {0, 1} :
           /\ b = From(c, s) /\ p = Price(ref, hyp, folded, c[1], c[2], s)
           /\ <<b, c, p>> \in Edges(ref, hyp, folded)
    BY StepIsEdge, PriceIs
  <2>4. C[c] = C[b] + p
    BY <1>2, <2>2, <2>3
  <2>5. <<b, c, p>>[1] = b /\ <<b, c, p>>[2] = c /\ <<b, c, p>>[3] = p
    OBVIOUS
  <2> QED
    BY <2>3, <2>4, <2>5
<1> QED
  BY <1>2, <1>3, <1>4, <1>5 DEF CostFrom, C

-----------------------------------------------------------------------------
(***************************************************************************)
(* The least number of errors, what is left to read at each cell given.    *)
(***************************************************************************)
WaysOn(ref, hyp, folded, i, j) ==
    {s \in (1..Len(ref) - i) \X (1..Len(hyp) - j) :
        \/ s = <<1, 1>>
        \/ folded /\ s[1] <= MaxMerge /\ s[2] <= MaxMerge
           /\ Merges(SubSeq(ref, i + 1, i + s[1]), SubSeq(hyp, j + 1, j + s[2]))}
WayCosts(rest, ref, hyp, folded, i, j) ==
    {rest[<<i + s[1], j + s[2]>>] +
        (IF s = <<1, 1>> /\ ~Same(ref[i + 1], hyp[j + 1], folded) THEN 1 ELSE 0) : s \in WaysOn(ref, hyp, folded, i, j)}
    \cup {rest[<<i + 1, j>>] + 1, rest[<<i, j + 1>>] + 1}
LeastOf(all) == CHOOSE c \in all : \A d \in all : c <= d
RestCell(rest, ref, hyp, folded, at) ==
    IF at[1] = Len(ref) THEN Len(hyp) - at[2]
    ELSE IF at[2] = Len(hyp) THEN Len(ref) - at[1]
    ELSE LeastOf(WayCosts(rest, ref, hyp, folded, at[1], at[2]))
RestOf(R, ref, hyp, folded) ==
    /\ R \in [Cells(ref, hyp) -> Nat]
    /\ \A c \in Cells(ref, hyp) : R[c] = RestCell(R, ref, hyp, folded, c)

LEMMA LeastOfIs ==
    ASSUME NEW all \in SUBSET Nat, all # {}
    PROVE  LeastOf(all) \in all /\ \A d \in all : LeastOf(all) <= d
<1>1. \E c \in all : \A d \in all : c <= d
  BY LeastMember
<1> QED
  BY <1>1 DEF LeastOf

\* A way on from a cell is a step that ends further on, and the price is the same.
LEMMA WayIsStep ==
    ASSUME NEW ref \in Text, NEW hyp \in Text, NEW folded \in BOOLEAN,
           NEW i \in 0..Len(ref), NEW j \in 0..Len(hyp), NEW s \in WaysOn(ref, hyp, folded, i, j)
    PROVE  /\ i + s[1] \in 0..Len(ref) /\ j + s[2] \in 0..Len(hyp)
           /\ s[1] \in Nat /\ s[2] \in Nat /\ s[1] + s[2] > 0
           /\ s \in Steps(ref, hyp, folded, i + s[1], j + s[2])
           /\ Price(ref, hyp, folded, i + s[1], j + s[2], s) =
                 IF s = <<1, 1>> /\ ~Same(ref[i + 1], hyp[j + 1], folded) THEN 1 ELSE 0
<1>1. PICK m \in Nat, n \in Nat : m = Len(ref) /\ n = Len(hyp) /\ i \in 0..m /\ j \in 0..n
  BY CellsAre
<1>2. PICK a \in 1..m - i, b \in 1..n - j : s = <<a, b>> /\ s[1] = a /\ s[2] = b
  BY <1>1 DEF WaysOn
<1>3. /\ a \in Nat /\ b \in Nat /\ a >= 1 /\ b >= 1 /\ i \in Nat /\ j \in Nat
      /\ i + a \in 0..m /\ j + b \in 0..n /\ a <= i + a /\ b <= j + b /\ a + b > 0
      /\ i + a - a + 1 = i + 1 /\ j + b - b + 1 = j + 1
  BY <1>1, <1>2
<1>4. s \in Steps(ref, hyp, folded, i + a, j + b)
  <2>1. CASE s = <<1, 1>>
    BY <1>2, <1>3, <2>1 DEF Steps
  <2>2. CASE s # <<1, 1>>
    <3>1. folded /\ a <= MaxMerge /\ b <= MaxMerge /\ Merges(SubSeq(ref, i + 1, i + a), SubSeq(hyp, j + 1, j + b))
      BY <1>2, <2>2 DEF WaysOn
    <3>2. a \in 1..MaxMerge /\ b \in 1..MaxMerge
      BY <1>3, <3>1, AlignmentAssumption DEF AlignmentAssumption
    <3>3. a + b > 2
      BY <1>2, <1>3, <2>2
    <3>4. Merges(SubSeq(ref, i + a - a + 1, i + a), SubSeq(hyp, j + b - b + 1, j + b))
      BY <1>3, <3>1
    <3> QED
      BY <1>2, <1>3, <3>1, <3>2, <3>3, <3>4 DEF Steps
  <2> QED
    BY <2>1, <2>2
<1>5. Price(ref, hyp, folded, i + a, j + b, s) =
         IF s = <<1, 1>> /\ ~Same(ref[i + 1], hyp[j + 1], folded) THEN 1 ELSE 0
  <2>1. s # <<1, 0>> /\ s # <<0, 1>>
    BY <1>2, <1>3
  <2>2. CASE s = <<1, 1>>
    <3>1. a = 1 /\ b = 1
      BY <1>2, <2>2
    <3> QED
      BY <2>2, <3>1, PriceIs
  <2>3. CASE s # <<1, 1>>
    BY <2>1, <2>3, PriceIs
  <2> QED
    BY <2>2, <2>3
<1> QED
  BY <1>1, <1>2, <1>3, <1>4, <1>5

\* Every step but those of one word of either text is a way on from where it comes from.
LEMMA StepIsWay ==
    ASSUME NEW ref \in Text, NEW hyp \in Text, NEW folded \in BOOLEAN, NEW c \in Cells(ref, hyp),
           NEW s \in Steps(ref, hyp, folded, c[1], c[2]), s # <<1, 0>>, s # <<0, 1>>
    PROVE  /\ s \in WaysOn(ref, hyp, folded, From(c, s)[1], From(c, s)[2])
           /\ c = <<From(c, s)[1] + s[1], From(c, s)[2] + s[2]>>
           /\ From(c, s)[1] # Len(ref) /\ From(c, s)[2] # Len(hyp)
<1>1. PICK m \in Nat, n \in Nat : m = Len(ref) /\ n = Len(hyp)
  BY CellsAre
<1>2. PICK i \in 0..m, j \in 0..n : c = <<i, j>> /\ c[1] = i /\ c[2] = j
  BY <1>1, CellsAre
<1>3. PICK x \in Nat, y \in Nat : StepFits(folded, i, j, s, x, y)
  BY <1>2, StepsAre
<1>4. s = <<x, y>> /\ s[1] = x /\ s[2] = y /\ x <= i /\ y <= j /\ x >= 1 /\ y >= 1
  BY <1>3 DEF StepFits
<1>5. PICK k \in Nat, l \in Nat : k = i - x /\ l = j - y /\ i = k + x /\ j = l + y
  BY <1>2, <1>4
<1>6. From(c, s) = <<k, l>> /\ From(c, s)[1] = k /\ From(c, s)[2] = l
  BY <1>2, <1>4, <1>5 DEF From
<1>7. x \in 1..m - k /\ y \in 1..n - l /\ k # m /\ l # n /\ i - x + 1 = k + 1 /\ j - y + 1 = l + 1
  BY <1>2, <1>4, <1>5
<1>8. s \in WaysOn(ref, hyp, folded, k, l)
  <2>1. s \in (1..m - k) \X (1..n - l)
    BY <1>4, <1>7
  <2>2. CASE s = <<1, 1>>
    BY <1>1, <2>1, <2>2 DEF WaysOn
  <2>3. CASE s # <<1, 1>>
    <3>1. /\ folded /\ s \in (1..MaxMerge) \X (1..MaxMerge)
          /\ Merges(SubSeq(ref, i - x + 1, i), SubSeq(hyp, j - y + 1, j))
      BY <1>2, <1>4, <2>3 DEF Steps
    <3>2. x <= MaxMerge /\ y <= MaxMerge
      BY <1>4, <3>1, AlignmentAssumption DEF AlignmentAssumption
    <3>3. Merges(SubSeq(ref, k + 1, k + x), SubSeq(hyp, l + 1, l + y))
      BY <1>5, <1>7, <3>1
    <3> QED
      BY <1>1, <1>4, <2>1, <3>1, <3>2, <3>3 DEF WaysOn
  <2> QED
    BY <2>2, <2>3
<1> QED
  BY <1>1, <1>2, <1>4, <1>5, <1>6, <1>7, <1>8

LEMMA WayCostsAre ==
    ASSUME NEW ref \in Text, NEW hyp \in Text, NEW folded \in BOOLEAN, NEW f \in [Cells(ref, hyp) -> Nat],
           NEW i \in 0..Len(ref), NEW j \in 0..Len(hyp), i # Len(ref), j # Len(hyp)
    PROVE  WayCosts(f, ref, hyp, folded, i, j) \in SUBSET Nat /\ WayCosts(f, ref, hyp, folded, i, j) # {}
<1> DEFINE dear(s) == IF s = <<1, 1>> /\ ~Same(ref[i + 1], hyp[j + 1], folded) THEN 1 ELSE 0
           cost(s) == f[<<i + s[1], j + s[2]>>] + dear(s)
<1>1. ASSUME NEW k \in 0..Len(ref), NEW l \in 0..Len(hyp) PROVE f[<<k, l>>] \in Nat
  BY CellsAre
<1>2. ASSUME NEW s \in WaysOn(ref, hyp, folded, i, j) PROVE cost(s) \in Nat
  <2>1. i + s[1] \in 0..Len(ref) /\ j + s[2] \in 0..Len(hyp)
    BY WayIsStep
  <2>2. f[<<i + s[1], j + s[2]>>] \in Nat
    BY <1>1, <2>1
  <2>3. dear(s) \in Nat
    OBVIOUS
  <2> HIDE DEF dear
  <2> QED
    BY <2>2, <2>3
<1>3. i + 1 \in 0..Len(ref) /\ j + 1 \in 0..Len(hyp)
  <2>1. PICK m \in Nat, n \in Nat : m = Len(ref) /\ n = Len(hyp) /\ i \in 0..m /\ j \in 0..n
    BY CellsAre
  <2> QED
    BY <2>1
<1>4. f[<<i + 1, j>>] + 1 \in Nat /\ f[<<i, j + 1>>] + 1 \in Nat
  <2>1. f[<<i + 1, j>>] \in Nat /\ f[<<i, j + 1>>] \in Nat
    BY <1>1, <1>3
  <2> QED
    BY <2>1
<1>5. WayCosts(f, ref, hyp, folded, i, j) =
        {cost(s) : s \in WaysOn(ref, hyp, folded, i, j)} \cup {f[<<i + 1, j>>] + 1, f[<<i, j + 1>>] + 1}
  BY DEF WayCosts
<1> HIDE DEF cost
<1> QED
  BY <1>2, <1>4, <1>5

LEMMA RestCellIs ==
    ASSUME NEW ref \in Text, NEW hyp \in Text, NEW folded \in BOOLEAN,
           NEW f \in [Cells(ref, hyp) -> Nat], NEW c \in Cells(ref, hyp)
    PROVE  RestCell(f, ref, hyp, folded, c) \in Nat
<1>1. PICK m \in Nat, n \in Nat : m = Len(ref) /\ n = Len(hyp)
  BY CellsAre
<1>2. c[1] \in 0..m /\ c[2] \in 0..n
  BY <1>1, CellsAre
<1>3. CASE c[1] = m
  BY <1>1, <1>2, <1>3 DEF RestCell
<1>4. CASE c[1] # m /\ c[2] = n
  BY <1>1, <1>2, <1>4 DEF RestCell
<1>5. CASE c[1] # m /\ c[2] # n
  <2>1. RestCell(f, ref, hyp, folded, c) = LeastOf(WayCosts(f, ref, hyp, folded, c[1], c[2]))
    BY <1>1, <1>5 DEF RestCell
  <2>2. PICK W \in SUBSET Nat : W = WayCosts(f, ref, hyp, folded, c[1], c[2]) /\ W # {}
    BY <1>1, <1>2, <1>5, WayCostsAre
  <2> QED
    BY <2>1, <2>2, LeastOfIs
<1> QED
  BY <1>3, <1>4, <1>5

\* What is left at a cell is told by what is left further on.
LEMMA RestCellAbove ==
    ASSUME NEW ref \in Text, NEW hyp \in Text, NEW folded \in BOOLEAN, NEW c \in Cells(ref, hyp), NEW f, NEW g,
           \A b \in Cells(ref, hyp) : c[1] + c[2] < b[1] + b[2] => f[b] = g[b]
    PROVE  RestCell(f, ref, hyp, folded, c) = RestCell(g, ref, hyp, folded, c)
<1>1. PICK m \in Nat, n \in Nat : m = Len(ref) /\ n = Len(hyp)
  BY CellsAre
<1>2. PICK i \in 0..m, j \in 0..n : i = c[1] /\ j = c[2]
  BY <1>1, CellsAre
<1>3. CASE i = m \/ j = n
  BY <1>1, <1>2, <1>3 DEF RestCell
<1>4. CASE i # m /\ j # n
  <2>1. ASSUME NEW k \in 0..m, NEW l \in 0..n, i + j < k + l PROVE f[<<k, l>>] = g[<<k, l>>]
    <3>1. PICK b \in Cells(ref, hyp) : b = <<k, l>> /\ b[1] = k /\ b[2] = l
      <4>1. <<k, l>> \in Cells(ref, hyp) /\ <<k, l>>[1] = k /\ <<k, l>>[2] = l
        BY <1>1, CellsAre
      <4> QED
        BY <4>1
    <3> QED
      BY <1>2, <2>1, <3>1
  <2>2. ASSUME NEW s \in WaysOn(ref, hyp, folded, i, j)
        PROVE  f[<<i + s[1], j + s[2]>>] = g[<<i + s[1], j + s[2]>>]
    <3>1. /\ i + s[1] \in 0..m /\ j + s[2] \in 0..n /\ s[1] \in Nat /\ s[2] \in Nat /\ s[1] + s[2] > 0
      BY <1>1, WayIsStep
    <3>2. i + j < (i + s[1]) + (j + s[2])
      BY <3>1
    <3> QED
      BY <2>1, <3>1, <3>2
  <2>3. f[<<i + 1, j>>] = g[<<i + 1, j>>] /\ f[<<i, j + 1>>] = g[<<i, j + 1>>]
    <3>1. i + 1 \in 0..m /\ j + 1 \in 0..n /\ i + j < (i + 1) + j /\ i + j < i + (j + 1)
      BY <1>2, <1>4
    <3> QED
      BY <2>1, <3>1
  <2>4. WayCosts(f, ref, hyp, folded, i, j) = WayCosts(g, ref, hyp, folded, i, j)
    BY <2>2, <2>3 DEF WayCosts
  <2> QED
    BY <1>1, <1>2, <1>4, <2>4 DEF RestCell
<1> QED
  BY <1>3, <1>4

LEMMA RestExists ==
    ASSUME NEW ref \in Text, NEW hyp \in Text, NEW folded \in BOOLEAN
    PROVE  \E R : RestOf(R, ref, hyp, folded) /\ LeastErrors(ref, hyp, folded) = R[<<0, 0>>]
<1> DEFINE D == Cells(ref, hyp)
           top == Len(ref) + Len(hyp)
           H == Height(ref, hyp)
           h == [c \in D |-> top - H[c]]
           cell(f, c) == RestCell(f, ref, hyp, folded, c)
           F == [x \in D \X [D -> Nat] |-> cell(x[2], x[1])]
           chosen == CHOOSE t : t = [at \in D |-> cell(t, at)]
<1>1. /\ top \in Nat /\ h \in [D -> Nat]
      /\ \A c \in D : h[c] <= top
      /\ \A b, c \in D : h[b] < h[c] <=> c[1] + c[2] < b[1] + b[2]
  <2>1. PICK w \in Nat : w = top
    BY HeightIs
  <2>2. \A c \in D : H[c] \in Nat /\ H[c] <= w /\ H[c] = c[1] + c[2]
    BY <2>1, HeightIs
  <2> HIDE DEF D, H, top
  <2>3. h = [c \in D |-> w - H[c]]
    BY <2>1
  <2> HIDE DEF h
  <2>4. h \in [D -> Nat] /\ \A c \in D : h[c] <= w /\ h[c] = w - H[c]
    BY <2>2, <2>3
  <2>5. \A b, c \in D : h[b] < h[c] <=> H[c] < H[b]
    BY <2>2, <2>4
  <2> QED
    BY <2>1, <2>2, <2>4, <2>5
<1>2. ASSUME NEW c \in D, NEW f \in [D -> Nat] PROVE cell(f, c) \in Nat
  BY RestCellIs
<1>3. F \in [D \X [D -> Nat] -> Nat]
  <2> HIDE DEF cell, D
  <2> QED
    BY <1>2
<1>4. ASSUME NEW c \in D, NEW f \in [D -> Nat], NEW g \in [D -> Nat],
             \A b \in D : h[b] < h[c] => f[b] = g[b]
      PROVE  F[<<c, f>>] = F[<<c, g>>]
  <2>1. \A b \in D : c[1] + c[2] < b[1] + b[2] => f[b] = g[b]
    <3> HIDE DEF h, D
    <3> QED
      BY <1>1, <1>4
  <2>2. cell(f, c) = cell(g, c)
    BY <2>1, RestCellAbove
  <2>3. F[<<c, f>>] = cell(f, c) /\ F[<<c, g>>] = cell(g, c)
    <3> HIDE DEF cell, D
    <3> QED
      OBVIOUS
  <2> HIDE DEF cell, F, D
  <2> QED
    BY <2>2, <2>3
<1>5. \E f : Solves(f, F, D, Nat)
  <2>1. ReadsBelow(F, D, Nat, h)
    <3> HIDE DEF D, h, F
    <3> QED
      BY <1>3, <1>4 DEF ReadsBelow
  <2>2. \A c \in D : h[c] <= top
    BY <1>1
  <2>3. Nat # {}
    OBVIOUS
  <2> HIDE DEF D, h, F, top
  <2> QED
    BY <1>1, <2>1, <2>2, <2>3, DefinedBelow
<1>6. PICK f \in [D -> Nat] : \A c \in D : f[c] = cell(f, c)
  <2>1. PICK f : Solves(f, F, D, Nat)
    BY <1>5
  <2>2. f \in [D -> Nat] /\ \A c \in D : f[c] = cell(f, c)
    <3> HIDE DEF cell, D
    <3> QED
      BY <2>1 DEF Solves
  <2> HIDE DEF cell, D
  <2> QED
    BY <2>2
<1>7. f = [at \in D |-> cell(f, at)]
  <2> HIDE DEF cell, D
  <2> QED
    BY <1>6
<1>8. chosen = [at \in D |-> cell(chosen, at)]
  <2> HIDE DEF cell, D
  <2> QED
    BY <1>7, Zenon
<1>9. LeastErrors(ref, hyp, folded) = chosen[<<0, 0>>]
  BY DEF LeastErrors, RestCell, WayCosts, WaysOn, LeastOf
<1>10. PICK t : t = chosen /\ \A c \in D : t[c] = cell(t, c)
  <2> HIDE DEF cell, chosen, D
  <2> QED
    BY <1>8
<1> DEFINE same == {c \in D : t[c] = f[c]}
<1>11. ASSUME NEW c \in D, \A b \in D : h[b] < h[c] => b \in same
       PROVE  c \in same
  <2>1. \A b \in D : c[1] + c[2] < b[1] + b[2] => t[b] = f[b]
    <3> HIDE DEF h, D
    <3> QED
      BY <1>1, <1>11
  <2>2. cell(t, c) = cell(f, c)
    <3>1. \A b \in Cells(ref, hyp) : c[1] + c[2] < b[1] + b[2] => t[b] = f[b]
      BY <2>1
    <3>2. c \in Cells(ref, hyp)
      OBVIOUS
    <3>3. PICK u, v : u = t /\ v = f
      OBVIOUS
    <3>4. \A b \in Cells(ref, hyp) : c[1] + c[2] < b[1] + b[2] => u[b] = v[b]
      BY <3>1, <3>3
    <3>5. RestCell(u, ref, hyp, folded, c) = RestCell(v, ref, hyp, folded, c)
      <4> HIDE DEF D, h, F, chosen, same, top
      <4> QED
        BY <3>2, <3>4, RestCellAbove
    <3> QED
      BY <3>3, <3>5
  <2> HIDE DEF cell, D
  <2> QED
    BY <1>6, <1>10, <2>2
<1>12. D \subseteq same
  <2> HIDE DEF D, h, same
  <2> QED
    BY <1>1, <1>11, FromBelow
<1>13. t[<<0, 0>>] = f[<<0, 0>>]
  BY <1>12, CellsAre
<1>14. RestOf(f, ref, hyp, folded)
  BY <1>6 DEF RestOf
<1> HIDE DEF chosen
<1> QED
  BY <1>9, <1>10, <1>13, <1>14

\* What is left at each cell costs the least that a step onwards makes of it.
LEMMA RestCosts ==
    ASSUME NEW ref \in Text, NEW hyp \in Text, NEW folded \in BOOLEAN, NEW R, RestOf(R, ref, hyp, folded)
    PROVE  CostTo(R, Cells(ref, hyp), Edges(ref, hyp, folded), <<Len(ref), Len(hyp)>>)
<1>1. PICK m \in Nat, n \in Nat : m = Len(ref) /\ n = Len(hyp)
  BY CellsAre
<1>2. R \in [Cells(ref, hyp) -> Nat] /\ \A c \in Cells(ref, hyp) : R[c] = RestCell(R, ref, hyp, folded, c)
  BY DEF RestOf
<1>3. ASSUME NEW i \in 0..m, NEW j \in 0..n
      PROVE  /\ <<i, j>> \in Cells(ref, hyp) /\ R[<<i, j>>] \in Nat
             /\ i = m => R[<<i, j>>] = n - j
             /\ j = n => R[<<i, j>>] = m - i
             /\ i # m /\ j # n => R[<<i, j>>] = LeastOf(WayCosts(R, ref, hyp, folded, i, j))
  <2>1. <<i, j>> \in Cells(ref, hyp) /\ <<i, j>>[1] = i /\ <<i, j>>[2] = j
    BY <1>1, CellsAre
  <2>2. PICK c \in Cells(ref, hyp) : c = <<i, j>> /\ c[1] = i /\ c[2] = j
    BY <2>1
  <2>3. R[c] = RestCell(R, ref, hyp, folded, c) /\ R[c] \in Nat
    BY <1>2
  <2>4. i = m /\ j = n => n - j = m - i
    OBVIOUS
  <2>5. CASE i = m
    <3>1. R[c] = n - j
      BY <1>1, <2>2, <2>3, <2>5 DEF RestCell
    <3> QED
      BY <2>1, <2>2, <2>3, <2>4, <2>5, <3>1
  <2>6. CASE i # m /\ j = n
    <3>1. R[c] = m - i
      BY <1>1, <2>2, <2>3, <2>6 DEF RestCell
    <3> QED
      BY <2>1, <2>2, <2>3, <2>6, <3>1
  <2>7. CASE i # m /\ j # n
    <3>1. R[c] = LeastOf(WayCosts(R, ref, hyp, folded, i, j))
      BY <1>1, <2>2, <2>3, <2>7 DEF RestCell
    <3> QED
      BY <2>1, <2>2, <2>3, <2>7, <3>1
  <2> QED
    BY <2>5, <2>6, <2>7
<1>4. ASSUME NEW i \in 0..m, NEW j \in 0..n, i # m, j # n
      PROVE  /\ R[<<i, j>>] \in WayCosts(R, ref, hyp, folded, i, j)
             /\ \A d \in WayCosts(R, ref, hyp, folded, i, j) : R[<<i, j>>] <= d
  <2>1. PICK W \in SUBSET Nat : W = WayCosts(R, ref, hyp, folded, i, j) /\ W # {}
    BY <1>1, <1>2, <1>4, WayCostsAre
  <2> QED
    BY <1>3, <1>4, <2>1, LeastOfIs
<1>5. ASSUME NEW e \in Edges(ref, hyp, folded) PROVE R[e[1]] <= R[e[2]] + e[3]
  <2>1. PICK b \in Cells(ref, hyp), c \in Cells(ref, hyp), p \in {0, 1} :
           /\ e[1] = b /\ e[2] = c /\ e[3] = p
           /\ \E s \in Steps(ref, hyp, folded, c[1], c[2]) :
                 b = From(c, s) /\ p = Price(ref, hyp, folded, c[1], c[2], s)
    BY EdgeIsStep
  <2>2. PICK s \in Steps(ref, hyp, folded, c[1], c[2]) :
           b = From(c, s) /\ p = Price(ref, hyp, folded, c[1], c[2], s)
    BY <2>1
  <2>3. PICK i \in 0..m, j \in 0..n : b = <<i, j>> /\ b[1] = i /\ b[2] = j
    BY <1>1, CellsAre
  <2>4. PICK k \in 0..m, l \in 0..n : c = <<k, l>> /\ c[1] = k /\ c[2] = l
    BY <1>1, CellsAre
  <2>5. R[b] \in Nat /\ R[c] \in Nat
    BY <1>2
  <2>6. CASE s = <<1, 0>>
    <3>1. i = k - 1 /\ j = l /\ p = 1 /\ s[1] = 1 /\ s[2] = 0
      BY <2>2, <2>3, <2>4, <2>6, PriceIs DEF From
    <3>2. CASE j = n
      BY <1>3, <2>1, <2>3, <2>4, <3>1, <3>2
    <3>3. CASE j # n
      <4>1. i # m /\ k = i + 1
        BY <3>1
      <4>2. R[<<i + 1, j>>] + 1 \in WayCosts(R, ref, hyp, folded, i, j)
        BY DEF WayCosts
      <4>3. R[b] <= R[<<i + 1, j>>] + 1
        BY <1>4, <2>3, <3>3, <4>1, <4>2
      <4> QED
        BY <2>1, <2>4, <3>1, <4>1, <4>3
    <3> QED
      BY <3>2, <3>3
  <2>7. CASE s = <<0, 1>>
    <3>1. i = k /\ j = l - 1 /\ p = 1 /\ s[1] = 0 /\ s[2] = 1
      BY <2>2, <2>3, <2>4, <2>7, PriceIs DEF From
    <3>2. CASE i = m
      BY <1>3, <2>1, <2>3, <2>4, <3>1, <3>2
    <3>3. CASE i # m
      <4>1. j # n /\ l = j + 1
        BY <3>1
      <4>2. R[<<i, j + 1>>] + 1 \in WayCosts(R, ref, hyp, folded, i, j)
        BY DEF WayCosts
      <4>3. R[b] <= R[<<i, j + 1>>] + 1
        BY <1>4, <2>3, <3>3, <4>1, <4>2
      <4> QED
        BY <2>1, <2>4, <3>1, <4>1, <4>3
    <3> QED
      BY <3>2, <3>3
  <2>8. CASE s # <<1, 0>> /\ s # <<0, 1>>
    <3>0. /\ s \in WaysOn(ref, hyp, folded, b[1], b[2]) /\ c = <<b[1] + s[1], b[2] + s[2]>>
          /\ b[1] # Len(ref) /\ b[2] # Len(hyp)
      BY <2>2, <2>8, StepIsWay
    <3>1. /\ s \in WaysOn(ref, hyp, folded, i, j) /\ c = <<i + s[1], j + s[2]>>
          /\ i # m /\ j # n
      BY <1>1, <2>3, <3>0
    <3>2. i + s[1] = k /\ j + s[2] = l
      BY <2>4, <3>1
    <3>a. Price(ref, hyp, folded, i + s[1], j + s[2], s) =
             IF s = <<1, 1>> /\ ~Same(ref[i + 1], hyp[j + 1], folded) THEN 1 ELSE 0
      BY <1>1, <3>1, WayIsStep
    <3>3. p = IF s = <<1, 1>> /\ ~Same(ref[i + 1], hyp[j + 1], folded) THEN 1 ELSE 0
      BY <2>2, <2>4, <3>2, <3>a
    <3>4. R[<<i + s[1], j + s[2]>>] +
             (IF s = <<1, 1>> /\ ~Same(ref[i + 1], hyp[j + 1], folded) THEN 1 ELSE 0)
            \in WayCosts(R, ref, hyp, folded, i, j)
      BY <3>1 DEF WayCosts
    <3>5. R[c] + p \in WayCosts(R, ref, hyp, folded, i, j)
      BY <3>1, <3>3, <3>4
    <3> QED
      BY <1>4, <2>1, <2>3, <3>1, <3>5
  <2> QED
    BY <2>6, <2>7, <2>8
<1>6. ASSUME NEW c \in Cells(ref, hyp) \ {<<m, n>>}
      PROVE  \E e \in Edges(ref, hyp, folded) : e[1] = c /\ R[c] = R[e[2]] + e[3]
  <2>1. PICK i \in 0..m, j \in 0..n : c = <<i, j>> /\ c[1] = i /\ c[2] = j
    BY <1>1, CellsAre
  <2>2. i # m \/ j # n
    BY <2>1
  <2>3. ASSUME NEW k \in 0..m, NEW l \in 0..n, NEW s \in Steps(ref, hyp, folded, k, l),
               k - s[1] = i, l - s[2] = j, R[c] = R[<<k, l>>] + Price(ref, hyp, folded, k, l, s)
        PROVE  \E e \in Edges(ref, hyp, folded) : e[1] = c /\ R[c] = R[e[2]] + e[3]
    <3>1. <<k, l>> \in Cells(ref, hyp) /\ <<k, l>>[1] = k /\ <<k, l>>[2] = l
      BY <1>3
    <3>2. PICK d \in Cells(ref, hyp) : d = <<k, l>> /\ d[1] = k /\ d[2] = l
      BY <3>1
    <3>3. From(d, s) = c
      BY <2>1, <2>3, <3>2 DEF From
    <3>4. <<c, d, Price(ref, hyp, folded, k, l, s)>> \in Edges(ref, hyp, folded)
      BY <3>2, <3>3, StepIsEdge
    <3>5. PICK p : p = Price(ref, hyp, folded, k, l, s)
      OBVIOUS
    <3>6. <<c, d, p>>[1] = c /\ <<c, d, p>>[2] = d /\ <<c, d, p>>[3] = p
      OBVIOUS
    <3> QED
      BY <2>3, <3>2, <3>4, <3>5, <3>6
  <2>4. ASSUME i # m PROVE <<1, 0>> \in Steps(ref, hyp, folded, i + 1, j)
    <3>1. <<1, 0>>[1] = 1 /\ <<1, 0>>[2] = 0 /\ 1 <= i + 1 /\ 0 <= j
      OBVIOUS
    <3> QED
      BY <3>1 DEF Steps
  <2>5. ASSUME j # n PROVE <<0, 1>> \in Steps(ref, hyp, folded, i, j + 1)
    <3>1. <<0, 1>>[1] = 0 /\ <<0, 1>>[2] = 1 /\ 1 <= j + 1 /\ 0 <= i
      OBVIOUS
    <3> QED
      BY <3>1 DEF Steps
  <2>6. /\ i # m => i + 1 \in 0..m /\ i + 1 - <<1, 0>>[1] = i /\ j - <<1, 0>>[2] = j
        /\ j # n => j + 1 \in 0..n /\ i - <<0, 1>>[1] = i /\ j + 1 - <<0, 1>>[2] = j
    OBVIOUS
  <2>7. ASSUME i # m, R[c] = R[<<i + 1, j>>] + 1
        PROVE  \E e \in Edges(ref, hyp, folded) : e[1] = c /\ R[c] = R[e[2]] + e[3]
    <3>1. PICK s \in Steps(ref, hyp, folded, i + 1, j) : s = <<1, 0>>
      BY <2>4, <2>7
    <3>2. Price(ref, hyp, folded, i + 1, j, s) = 1
      BY <3>1, PriceIs
    <3>3. PICK k \in 0..m : k = i + 1 /\ k - s[1] = i /\ j - s[2] = j
      BY <2>6, <2>7, <3>1
    <3>4. s \in Steps(ref, hyp, folded, k, j) /\ R[c] = R[<<k, j>>] + Price(ref, hyp, folded, k, j, s)
      BY <2>7, <3>1, <3>2, <3>3
    <3> QED
      BY <2>3, <3>3, <3>4
  <2>8. ASSUME j # n, R[c] = R[<<i, j + 1>>] + 1
        PROVE  \E e \in Edges(ref, hyp, folded) : e[1] = c /\ R[c] = R[e[2]] + e[3]
    <3>1. PICK s \in Steps(ref, hyp, folded, i, j + 1) : s = <<0, 1>>
      BY <2>5, <2>8
    <3>2. Price(ref, hyp, folded, i, j + 1, s) = 1
      BY <3>1, PriceIs
    <3>3. PICK l \in 0..n : l = j + 1 /\ i - s[1] = i /\ l - s[2] = j
      BY <2>6, <2>8, <3>1
    <3>4. s \in Steps(ref, hyp, folded, i, l) /\ R[c] = R[<<i, l>>] + Price(ref, hyp, folded, i, l, s)
      BY <2>8, <3>1, <3>2, <3>3
    <3> QED
      BY <2>3, <3>3, <3>4
  <2>9. CASE i = m
    <3>1. j + 1 \in 0..n /\ R[c] = n - j /\ R[<<i, j + 1>>] = n - (j + 1)
      BY <1>3, <2>1, <2>2, <2>6, <2>9
    <3>2. R[c] = R[<<i, j + 1>>] + 1
      BY <3>1
    <3> QED
      BY <2>2, <2>8, <2>9, <3>2
  <2>10. CASE i # m /\ j = n
    <3>1. i + 1 \in 0..m /\ R[c] = m - i /\ R[<<i + 1, j>>] = m - (i + 1)
      BY <1>3, <2>1, <2>2, <2>6, <2>10
    <3>2. R[c] = R[<<i + 1, j>>] + 1
      BY <3>1
    <3> QED
      BY <2>7, <2>10, <3>2
  <2>11. CASE i # m /\ j # n
    <3>1. R[c] \in WayCosts(R, ref, hyp, folded, i, j)
      BY <1>4, <2>1, <2>11
    <3>2. CASE R[c] = R[<<i + 1, j>>] + 1 \/ R[c] = R[<<i, j + 1>>] + 1
      BY <2>7, <2>8, <2>11, <3>2
    <3>3. CASE \E s \in WaysOn(ref, hyp, folded, i, j) :
                  R[c] = R[<<i + s[1], j + s[2]>>] +
                            (IF s = <<1, 1>> /\ ~Same(ref[i + 1], hyp[j + 1], folded) THEN 1 ELSE 0)
      <4>1. PICK s \in WaysOn(ref, hyp, folded, i, j) :
                  R[c] = R[<<i + s[1], j + s[2]>>] +
                            (IF s = <<1, 1>> /\ ~Same(ref[i + 1], hyp[j + 1], folded) THEN 1 ELSE 0)
        BY <3>3
      <4>a. /\ i + s[1] \in 0..m /\ j + s[2] \in 0..n /\ s[1] \in Nat /\ s[2] \in Nat
            /\ s \in Steps(ref, hyp, folded, i + s[1], j + s[2])
            /\ Price(ref, hyp, folded, i + s[1], j + s[2], s) =
                  IF s = <<1, 1>> /\ ~Same(ref[i + 1], hyp[j + 1], folded) THEN 1 ELSE 0
        <5>1. i \in 0..Len(ref) /\ j \in 0..Len(hyp)
          BY <1>1
        <5>2. /\ i + s[1] \in 0..Len(ref) /\ j + s[2] \in 0..Len(hyp) /\ s[1] \in Nat /\ s[2] \in Nat
              /\ s \in Steps(ref, hyp, folded, i + s[1], j + s[2])
              /\ Price(ref, hyp, folded, i + s[1], j + s[2], s) =
                    IF s = <<1, 1>> /\ ~Same(ref[i + 1], hyp[j + 1], folded) THEN 1 ELSE 0
          BY <5>1, <4>1, WayIsStep, SMTT(40)
        <5> QED
          BY <1>1, <5>2
      <4>2. /\ i + s[1] \in 0..m /\ j + s[2] \in 0..n /\ s[1] \in Nat /\ s[2] \in Nat
            /\ s \in Steps(ref, hyp, folded, i + s[1], j + s[2])
            /\ R[c] = R[<<i + s[1], j + s[2]>>] + Price(ref, hyp, folded, i + s[1], j + s[2], s)
        BY ONLY <4>1, <4>a
      <4>3. PICK k \in 0..m, l \in 0..n : k = i + s[1] /\ l = j + s[2] /\ k - s[1] = i /\ l - s[2] = j
        BY <4>2
      <4> QED
        BY <2>3, <4>2, <4>3
    <3> QED
      BY <3>1, <3>2, <3>3 DEF WayCosts
  <2> QED
    BY <2>9, <2>10, <2>11
<1>7. <<m, n>> \in Cells(ref, hyp) /\ R[<<m, n>>] = 0
  <2>1. m \in 0..m /\ n \in 0..n /\ n - n = 0
    OBVIOUS
  <2> QED
    BY <1>3, <2>1
<1> QED
  BY <1>1, <1>2, <1>5, <1>6, <1>7 DEF CostTo

\* What the table has for the last cell is the least number of errors.
LEMMA TableIsLeast ==
    ASSUME NEW ref \in Text, NEW hyp \in Text, NEW folded \in BOOLEAN, NEW t, TableOf(t, ref, hyp, folded)
    PROVE  t[<<Len(ref), Len(hyp)>>].cost = LeastErrors(ref, hyp, folded)
<1> DEFINE C == [c \in Cells(ref, hyp) |-> t[c].cost]
           end == <<Len(ref), Len(hyp)>>
<1>1. PICK R : RestOf(R, ref, hyp, folded) /\ LeastErrors(ref, hyp, folded) = R[<<0, 0>>]
  BY RestExists
<1>2. CostTo(R, Cells(ref, hyp), Edges(ref, hyp, folded), end)
  BY <1>1, RestCosts
<1>3. CostFrom(C, Cells(ref, hyp), Edges(ref, hyp, folded), <<0, 0>>)
  BY TableCosts
<1>4. Upward(Cells(ref, hyp), Edges(ref, hyp, folded), Height(ref, hyp), Len(ref) + Len(hyp))
      /\ Len(ref) + Len(hyp) \in Nat
  BY EdgesLeadUp, HeightIs
<1>5. C[end] = R[<<0, 0>>]
  <2> HIDE DEF C, end
  <2> QED
    BY <1>2, <1>3, <1>4, BothWays
<1>6. C[end] = t[end].cost
  BY CellsAre
<1> QED
  BY <1>1, <1>5, <1>6

-----------------------------------------------------------------------------
(***************************************************************************)
(* The path back through the table.                                        *)
(***************************************************************************)
Kinds == {"del", "ins", "match", "fold", "sub", "merge"}
OpSet == [kind : Kinds, ref : Text, hyp : Text]
Wrong   == {o \in OpSet : o.kind \in {"sub", "del", "ins"}}
Respelt == {o \in OpSet : o.kind = "match" /\ o.ref # o.hyp}
Counted(ops, B) == Cardinality({k \in DOMAIN ops : ops[k] \in B})
Refs(ops) == [k \in DOMAIN ops |-> ops[k].ref]
Hyps(ops) == [k \in DOMAIN ops |-> ops[k].hyp]

\* One operation more.
LEMMA OneOpMore ==
    ASSUME NEW ops \in Seq(OpSet), NEW o \in OpSet, NEW B
    PROVE  /\ Append(ops, o) \in Seq(OpSet)
           /\ Refs(ops) \in Seq(Text) /\ Refs(Append(ops, o)) = Append(Refs(ops), o.ref)
           /\ Hyps(ops) \in Seq(Text) /\ Hyps(Append(ops, o)) = Append(Hyps(ops), o.hyp)
           /\ Counted(ops, B) \in Nat
           /\ Counted(Append(ops, o), B) = Counted(ops, B) + (IF o \in B THEN 1 ELSE 0)
<1>1. PICK n \in Nat : n = Len(ops) /\ DOMAIN ops = 1..n /\ \A k \in 1..n : ops[k] \in OpSet
  BY LenProperties, ElementOfSeq
<1>2. PICK more \in Seq(OpSet) :
         /\ more = Append(ops, o) /\ DOMAIN more = 1..n + 1 /\ more[n + 1] = o
         /\ \A k \in 1..n : more[k] = ops[k]
  <2>1. /\ Append(ops, o) \in Seq(OpSet) /\ Len(Append(ops, o)) = n + 1 /\ Append(ops, o)[n + 1] = o
        /\ \A k \in 1..n : Append(ops, o)[k] = ops[k]
    BY <1>1, AppendProperties
  <2>2. DOMAIN Append(ops, o) = 1..n + 1
    BY <2>1, LenProperties
  <2> QED
    BY <2>1, <2>2
<1>3. o.ref \in Text /\ o.hyp \in Text /\ \A k \in 1..n : ops[k].ref \in Text /\ ops[k].hyp \in Text
  BY <1>1 DEF OpSet
<1>4. Refs(ops) \in Seq(Text) /\ Refs(more) = Append(Refs(ops), o.ref)
  <2>1. Refs(ops) = [k \in 1..n |-> ops[k].ref]
    BY <1>1 DEF Refs
  <2>2. Refs(ops) \in Seq(Text) /\ Len(Refs(ops)) = n
    BY <1>3, <2>1, IsASeq
  <2>3. Append(Refs(ops), o.ref) = [k \in 1..n + 1 |-> IF k <= n THEN ops[k].ref ELSE o.ref]
    BY <2>1, <2>2
  <2>4. Refs(more) = [k \in 1..n + 1 |-> more[k].ref]
    BY <1>2 DEF Refs
  <2>5. \A k \in 1..n + 1 : more[k].ref = IF k <= n THEN ops[k].ref ELSE o.ref
    BY <1>2
  <2> QED
    BY <2>2, <2>3, <2>4, <2>5
<1>5. Hyps(ops) \in Seq(Text) /\ Hyps(more) = Append(Hyps(ops), o.hyp)
  <2>1. Hyps(ops) = [k \in 1..n |-> ops[k].hyp]
    BY <1>1 DEF Hyps
  <2>2. Hyps(ops) \in Seq(Text) /\ Len(Hyps(ops)) = n
    BY <1>3, <2>1, IsASeq
  <2>3. Append(Hyps(ops), o.hyp) = [k \in 1..n + 1 |-> IF k <= n THEN ops[k].hyp ELSE o.hyp]
    BY <2>1, <2>2
  <2>4. Hyps(more) = [k \in 1..n + 1 |-> more[k].hyp]
    BY <1>2 DEF Hyps
  <2>5. \A k \in 1..n + 1 : more[k].hyp = IF k <= n THEN ops[k].hyp ELSE o.hyp
    BY <1>2
  <2> QED
    BY <2>2, <2>3, <2>4, <2>5
<1>6. Counted(ops, B) \in Nat /\ Counted(more, B) = Counted(ops, B) + (IF o \in B THEN 1 ELSE 0)
  <2>1. PICK K : K = {k \in 1..n : ops[k] \in B}
    OBVIOUS
  <2>2. Counted(ops, B) = Cardinality(K)
    BY <1>1, <2>1 DEF Counted
  <2>3. IsFiniteSet(1..n)
    BY FS_Interval
  <2>4. IsFiniteSet(K) /\ Cardinality(K) \in Nat /\ n + 1 \notin K
    <3>1. K \in SUBSET (1..n) /\ n + 1 \notin 1..n
      BY <2>1
    <3> QED
      BY <2>3, <3>1, FS_Subset, FS_CardinalityType
  <2>5. {k \in DOMAIN more : more[k] \in B} = IF o \in B THEN K \cup {n + 1} ELSE K
    BY <1>2, <2>1
  <2>6. Cardinality(K \cup {n + 1}) = Cardinality(K) + 1
    BY <2>4, FS_AddElement
  <2>7. Counted(more, B) = IF o \in B THEN Cardinality(K \cup {n + 1}) ELSE Cardinality(K)
    BY <2>5 DEF Counted
  <2>8. CASE o \in B
    BY <2>2, <2>4, <2>6, <2>7, <2>8
  <2>9. CASE o \notin B
    BY <2>2, <2>4, <2>7, <2>9
  <2> QED
    BY <2>8, <2>9
<1> QED
  BY <1>2, <1>4, <1>5, <1>6

LEMMA NoOps ==
    ASSUME NEW B
    PROVE  /\ <<>> \in Seq(OpSet) /\ Refs(<<>>) = <<>> /\ Hyps(<<>>) = <<>> /\ Counted(<<>>, B) = 0
<1>1. DOMAIN <<>> = {} /\ <<>> \in Seq(OpSet)
  OBVIOUS
<1>2. Counted(<<>>, B) = 0
  BY FS_EmptySet DEF Counted
<1>3. Refs(<<>>) = <<>> /\ Hyps(<<>>) = <<>>
  BY DEF Refs, Hyps
<1> QED
  BY <1>1, <1>2, <1>3

LEMMA ErrorsAre ==
    ASSUME NEW ops \in Seq(OpSet)
    PROVE  /\ Errors(ops) = Counted(ops, Wrong)
           /\ Cardinality({k \in DOMAIN ops : ops[k].kind = "match" /\ ops[k].ref # ops[k].hyp}) = Counted(ops, Respelt)
<1>1. \A k \in DOMAIN ops : ops[k] \in OpSet
  BY LenProperties, ElementOfSeq
<1>2. {k \in DOMAIN ops : ops[k].kind \in {"sub", "del", "ins"}} = {k \in DOMAIN ops : ops[k] \in Wrong}
  BY <1>1 DEF Wrong
<1>3. {k \in DOMAIN ops : ops[k].kind = "match" /\ ops[k].ref # ops[k].hyp} = {k \in DOMAIN ops : ops[k] \in Respelt}
  BY <1>1 DEF Respelt
<1> QED
  BY <1>2, <1>3 DEF Errors, Counted

\* The words a step takes.
LEMMA WordsOf ==
    ASSUME NEW text \in Text, NEW i \in 0..Len(text), NEW a \in Nat, a <= i
    PROVE  /\ SubSeq(text, i - a + 1, i) \in Text /\ Len(SubSeq(text, i - a + 1, i)) = a
           /\ a = 0 => SubSeq(text, i - a + 1, i) = <<>>
           /\ a > 0 => SubSeq(text, i - a + 1, i) # <<>>
           /\ a = 1 => SubSeq(text, i - a + 1, i) = <<text[i]>>
<1>1. PICK n \in Nat : n = Len(text) /\ i \in Nat /\ i <= n
  BY DEF Text
<1> DEFINE w == SubSeq(text, i - a + 1, i)
<1>2. i - a + 1 \in 1..n + 1 /\ i \in 0..n /\ i - (i - a + 1) + 1 = a
  BY <1>1
<1>3. w \in Text /\ Len(w) = a /\ \A k \in 1..a : w[k] = text[i - a + 1 + k - 1]
  <2>1. PICK k \in Int : k = i - a + 1 /\ k \in 1..n + 1 /\ i \in k - 1..n /\ i - k + 1 = a
    BY <1>1, <1>2
  <2>2. /\ SubSeq(text, k, i) \in Seq(Seq(Int)) /\ Len(SubSeq(text, k, i)) = IF k <= i THEN i - k + 1 ELSE 0
        /\ \A l \in 1..i - k + 1 : SubSeq(text, k, i)[l] = text[k + l - 1]
    BY <1>1, <2>1, SubSeqProperties DEF Text
  <2>3. Len(SubSeq(text, k, i)) = a
    BY <1>1, <2>1, <2>2
  <2> QED
    BY <2>1, <2>2, <2>3 DEF Text
<1>4. a = 0 => w = <<>>
  <2> HIDE DEF w
  <2> QED
    BY <1>3, EmptySeq DEF Text
<1>5. a > 0 => w # <<>>
  <2> HIDE DEF w
  <2> QED
    BY <1>3
<1>6. ASSUME a = 1 PROVE w = <<text[i]>>
  <2>1. Len(w) = 1 /\ w[1] = text[i]
    <3>1. 1 \in 1..a /\ i - a + 1 + 1 - 1 = i
      BY <1>1, <1>6
    <3>2. w[1] = text[i - a + 1 + 1 - 1]
      BY <1>3, <3>1
    <3> QED
      BY <1>3, <1>6, <3>1, <3>2
  <2> HIDE DEF w
  <2>2. w \in Seq(Seq(Int))
    BY <1>3 DEF Text
  <2> QED
    BY <2>1, <2>2
<1> QED
  BY <1>3, <1>4, <1>5, <1>6

LEMMA WrongIs ==
    ASSUME NEW o \in OpSet
    PROVE  /\ o \in Wrong <=> o.kind = "sub" \/ o.kind = "del" \/ o.kind = "ins"
           /\ o \in Respelt <=> o.kind = "match" /\ o.ref # o.hyp
BY DEF Wrong, Respelt

LEMMA KindIs ==
    ASSUME NEW r \in Text, NEW h \in Text, NEW folded
    PROVE  /\ Len(r) = 1 /\ Len(h) = 0 => Kind(r, h, folded) = "del"
           /\ Len(r) = 0 /\ Len(h) = 1 => Kind(r, h, folded) = "ins"
           /\ Len(r) = 1 /\ Len(h) = 1 =>
                 Kind(r, h, folded) = IF SpellingKey(r[1]) = SpellingKey(h[1]) THEN "match"
                                      ELSE IF Same(r[1], h[1], folded) THEN "fold" ELSE "sub"
           /\ Len(r) > 0 /\ Len(h) > 0 /\ Len(r) + Len(h) > 2 => Kind(r, h, folded) = "merge"
<1>1. PICK m \in Nat, n \in Nat : m = Len(r) /\ n = Len(h)
  BY DEF Text
<1>2. (m = 0 <=> r = <<>>) /\ (n = 0 <=> h = <<>>)
  <2>1. Len(<<>>) = 0
    BY EmptySeq
  <2>2. (r # <<>> => m # 0) /\ (h # <<>> => n # 0)
    BY <1>1, EmptySeq DEF Text
  <2> QED
    BY <1>1, <2>1, <2>2
<1>3. CASE m = 1 /\ n = 0
  <2>1. h = <<>> /\ r # <<>> /\ ~(Len(r) = 1 /\ Len(h) = 1)
    BY <1>1, <1>2, <1>3
  <2>2. Kind(r, h, folded) = "del"
    BY <2>1 DEF Kind
  <2> QED
    BY <1>1, <1>3, <2>2
<1>4. CASE m = 0 /\ n = 1
  <2>1. h # <<>> /\ r = <<>> /\ ~(Len(r) = 1 /\ Len(h) = 1)
    BY <1>1, <1>2, <1>4
  <2>2. Kind(r, h, folded) = "ins"
    BY <2>1 DEF Kind
  <2> QED
    BY <1>1, <1>4, <2>2
<1>5. CASE n = 1 /\ m = 1
  <2>1. h # <<>> /\ r # <<>> /\ Len(r) = 1 /\ Len(h) = 1
    BY <1>1, <1>2, <1>5
  <2>2. Kind(r, h, folded) = IF SpellingKey(r[1]) = SpellingKey(h[1]) THEN "match"
                             ELSE IF Same(r[1], h[1], folded) THEN "fold" ELSE "sub"
    BY <2>1 DEF Kind
  <2> QED
    BY <1>1, <1>5, <2>2
<1>6. CASE n # 0 /\ m # 0 /\ ~(n = 1 /\ m = 1)
  <2>1. h # <<>> /\ r # <<>> /\ ~(Len(r) = 1 /\ Len(h) = 1)
    BY <1>1, <1>2, <1>6
  <2>2. Kind(r, h, folded) = "merge"
    BY <2>1 DEF Kind
  <2> QED
    BY <1>1, <1>6, <2>2
<1> QED
  BY <1>1, <1>3, <1>4, <1>5, <1>6

\* What a kind stands for, and that its price says whether the words differ.
Fair(o, folded, p) ==
    /\ o \in OpSet
    /\ o.kind = "merge" => Merges(o.ref, o.hyp)
    /\ folded => (o \in Wrong <=> p = 1)
    /\ ~folded => (o \in Wrong \/ o \in Respelt <=> p = 1) /\ ~(o \in Wrong /\ o \in Respelt)

LEMMA OpIs ==
    ASSUME NEW ref \in Text, NEW hyp \in Text, NEW folded \in BOOLEAN, NEW c \in Cells(ref, hyp),
           NEW s \in Steps(ref, hyp, folded, c[1], c[2])
    PROVE  /\ Fair(Op(ref, hyp, folded, c, s), folded, Price(ref, hyp, folded, c[1], c[2], s))
           /\ Op(ref, hyp, folded, c, s).ref = SubSeq(ref, From(c, s)[1] + 1, c[1])
           /\ Op(ref, hyp, folded, c, s).hyp = SubSeq(hyp, From(c, s)[2] + 1, c[2])
<1>1. PICK i \in 0..Len(ref), j \in 0..Len(hyp) : c = <<i, j>> /\ c[1] = i /\ c[2] = j
  BY CellsAre
<1>2. i \in Nat /\ j \in Nat
  BY CellsAre
<1>3. PICK x \in Nat, y \in Nat : StepFits(folded, i, j, s, x, y)
  BY <1>1, <1>2, StepsAre
<1>4. s = <<x, y>> /\ s[1] = x /\ s[2] = y /\ x <= i /\ y <= j
  BY <1>3 DEF StepFits
<1>5. PICK r \in Text, h \in Text : r = SubSeq(ref, i - x + 1, i) /\ h = SubSeq(hyp, j - y + 1, j)
  BY <1>4, WordsOf
<1>6. /\ Len(r) = x /\ (x = 1 => r = <<ref[i]>>)
      /\ Len(h) = y /\ (y = 1 => h = <<hyp[j]>>)
  BY <1>4, <1>5, WordsOf
<1>7. PICK o : /\ o = Op(ref, hyp, folded, c, s) /\ o = [kind |-> Kind(r, h, folded), ref |-> r, hyp |-> h]
               /\ o.kind = Kind(r, h, folded) /\ o.ref = r /\ o.hyp = h
  <2>1. SubSeq(ref, c[1] - s[1] + 1, c[1]) = r /\ SubSeq(hyp, c[2] - s[2] + 1, c[2]) = h
    BY <1>1, <1>4, <1>5
  <2>2. Op(ref, hyp, folded, c, s) = [kind |-> Kind(r, h, folded), ref |-> r, hyp |-> h]
    BY <2>1 DEF Op
  <2> QED
    BY <2>2
<1>8. PICK p \in {0, 1} : p = Price(ref, hyp, folded, c[1], c[2], s) /\ p = Price(ref, hyp, folded, i, j, s)
  BY <1>1, PriceIs
<1>9. Fair(o, folded, p)
  <2>1. o.kind \in Kinds => o \in OpSet
    BY <1>7 DEF OpSet
  <2>2. CASE s = <<1, 0>>
    <3>1. x = 1 /\ y = 0 /\ p = 1
      BY <1>4, <1>8, <2>2, PriceIs
    <3>2. o.kind = "del"
      BY <1>6, <1>7, <3>1, KindIs
    <3>3. o \in OpSet
      BY <1>7, <2>1, <3>2 DEF Kinds
    <3> QED
      BY <3>1, <3>2, <3>3, WrongIs DEF Fair
  <2>3. CASE s = <<0, 1>>
    <3>1. x = 0 /\ y = 1 /\ p = 1
      BY <1>4, <1>8, <2>3, PriceIs
    <3>2. o.kind = "ins"
      BY <1>6, <1>7, <3>1, KindIs
    <3>3. o \in OpSet
      BY <1>7, <2>1, <3>2 DEF Kinds
    <3> QED
      BY <3>1, <3>2, <3>3, WrongIs DEF Fair
  <2>4. CASE s = <<1, 1>>
    <3>a. x = 1 /\ y = 1
      BY <1>4, <2>4
    <3>b. r = <<ref[i]>> /\ h = <<hyp[j]>>
      BY <1>6, <3>a
    <3>1. r[1] = ref[i] /\ h[1] = hyp[j] /\ (r = h <=> r[1] = h[1])
      BY <3>b
    <3>2. p = IF Same(r[1], h[1], folded) THEN 0 ELSE 1
      BY <1>8, <2>4, <3>1, PriceIs
    <3>3. o.kind = IF SpellingKey(r[1]) = SpellingKey(h[1]) THEN "match"
                   ELSE IF Same(r[1], h[1], folded) THEN "fold" ELSE "sub"
      BY <1>6, <1>7, <3>a, KindIs
    <3>4. o \in OpSet
      BY <1>7, <2>1, <3>3 DEF Kinds
    <3>5. o.kind # "merge"
      BY <3>3
    <3>6. CASE folded
      <4>1. Same(r[1], h[1], folded) <=> SameWord(r[1], h[1])
        BY <3>6 DEF Same
      <4>2. SpellingKey(r[1]) = SpellingKey(h[1]) => SameWord(r[1], h[1])
        BY DEF SameWord
      <4>3. o \in Wrong <=> o.kind = "sub" \/ o.kind = "del" \/ o.kind = "ins"
        BY <3>4, WrongIs
      <4>4. o \in Wrong <=> p = 1
        BY <3>2, <3>3, <4>1, <4>2, <4>3
      <4> QED
        BY <3>4, <3>5, <3>6, <4>4 DEF Fair
    <3>7. CASE ~folded
      <4>1. Same(r[1], h[1], folded) <=> r[1] = h[1]
        BY <3>7 DEF Same
      <4>2. r[1] = h[1] => SpellingKey(r[1]) = SpellingKey(h[1])
        OBVIOUS
      <4>3. /\ o \in Wrong <=> o.kind = "sub" \/ o.kind = "del" \/ o.kind = "ins"
            /\ o \in Respelt <=> o.kind = "match" /\ r # h
        BY <1>7, <3>4, WrongIs
      <4>4. (o \in Wrong \/ o \in Respelt <=> p = 1) /\ ~(o \in Wrong /\ o \in Respelt)
        BY <3>1, <3>2, <3>3, <4>1, <4>2, <4>3
      <4> QED
        BY <3>4, <3>5, <3>7, <4>4 DEF Fair
    <3> QED
      BY <3>6, <3>7
  <2>5. CASE s \notin {<<1, 1>>, <<1, 0>>, <<0, 1>>}
    <3>1. folded /\ 1 <= x /\ 1 <= y /\ 2 < x + y /\ p = 0
      BY <1>3, <1>8, <2>5, PriceIs DEF StepFits
    <3>2. Len(r) > 0 /\ Len(h) > 0 /\ Len(r) + Len(h) > 2
      BY <1>6, <3>1
    <3>3. o.kind = "merge"
      BY <1>7, <3>2, KindIs
    <3>4. o \in OpSet
      BY <1>7, <2>1, <3>3 DEF Kinds
    <3>5. Merges(SubSeq(ref, i - x + 1, i), SubSeq(hyp, j - y + 1, j))
      BY <1>1, <1>4, <2>5 DEF Steps
    <3>6. Merges(r, h)
      BY <1>5, <3>5
    <3>7. o \notin Wrong
      BY <3>3, <3>4, WrongIs
    <3> QED
      BY <1>7, <3>1, <3>3, <3>4, <3>6, <3>7 DEF Fair
  <2> QED
    BY <2>2, <2>3, <2>4, <2>5
<1>10. From(c, s)[1] = i - x /\ From(c, s)[2] = j - y
  BY <1>1, <1>4 DEF From
<1>11. r = SubSeq(ref, From(c, s)[1] + 1, c[1]) /\ h = SubSeq(hyp, From(c, s)[2] + 1, c[2])
  BY <1>1, <1>5, <1>10
<1> QED
  BY <1>7, <1>8, <1>9, <1>11

PathOf(w, ref, hyp, folded, t) ==
    /\ w \in [Cells(ref, hyp) -> Seq(OpSet)]
    /\ \A c \in Cells(ref, hyp) :
          w[c] = IF c = <<0, 0>> THEN <<>>
                 ELSE Append(w[From(c, t[c].step)], Op(ref, hyp, folded, c, t[c].step))

\* What the step taken to a cell comes from, and the operation it stands for.
LEMMA StepBack ==
    ASSUME NEW ref \in Text, NEW hyp \in Text, NEW folded \in BOOLEAN,
           NEW t, TableOf(t, ref, hyp, folded), NEW c \in Cells(ref, hyp), c # <<0, 0>>
    PROVE  /\ t[c].step \in Steps(ref, hyp, folded, c[1], c[2])
           /\ From(c, t[c].step) \in Cells(ref, hyp)
           /\ From(c, t[c].step)[1] + From(c, t[c].step)[2] < c[1] + c[2]
           /\ Op(ref, hyp, folded, c, t[c].step) \in OpSet
<1>1. PICK s \in Steps(ref, hyp, folded, c[1], c[2]) : s = t[c].step
  BY StepTaken DEF Taken
<1> QED
  BY <1>1, StepIsEdge, OpIs DEF Fair

\* There is such a path, and what align gives is where it ends.
LEMMA PathExists ==
    ASSUME NEW ref \in Text, NEW hyp \in Text, NEW folded \in BOOLEAN
    PROVE  \E w : /\ PathOf(w, ref, hyp, folded, Table(ref, hyp, folded))
                  /\ Align(ref, hyp, folded) = w[<<Len(ref), Len(hyp)>>]
<1>1. PICK t : t = Table(ref, hyp, folded) /\ TableOf(t, ref, hyp, folded)
  BY TableExists
<1> DEFINE D == Cells(ref, hyp)
           h == Height(ref, hyp)
           V == Seq(OpSet)
           cell(f, c) == IF c = <<0, 0>> THEN <<>>
                         ELSE Append(f[From(c, t[c].step)], Op(ref, hyp, folded, c, t[c].step))
           F == [x \in D \X [D -> V] |-> cell(x[2], x[1])]
           chosen == CHOOSE p : p = [at \in D |-> cell(p, at)]
<1>2. ASSUME NEW c \in D, NEW f \in [D -> V] PROVE cell(f, c) \in V
  <2>1. CASE c = <<0, 0>>
    BY <2>1
  <2>2. CASE c # <<0, 0>>
    <3>1. PICK b \in D, o \in OpSet : b = From(c, t[c].step) /\ o = Op(ref, hyp, folded, c, t[c].step)
      BY <1>1, <2>2, StepBack
    <3>2. f[b] \in V
      OBVIOUS
    <3>3. Append(f[b], o) \in V
      BY <3>2, AppendProperties
    <3> QED
      BY <2>2, <3>1, <3>3
  <2> QED
    BY <2>1, <2>2
<1>3. F \in [D \X [D -> V] -> V]
  <2> HIDE DEF cell, D, V
  <2> QED
    BY <1>2
<1>a. ASSUME NEW c \in D, NEW f, NEW g, \A b \in D : h[b] < h[c] => f[b] = g[b]
      PROVE  cell(f, c) = cell(g, c)
  <2>1. CASE c = <<0, 0>>
    BY <2>1
  <2>2. CASE c # <<0, 0>>
    <3>1. PICK b \in D : b = From(c, t[c].step) /\ b[1] + b[2] < c[1] + c[2]
      BY <1>1, <2>2, StepBack
    <3>2. h[b] < h[c]
      BY <3>1, HeightIs
    <3>3. f[b] = g[b]
      BY <1>a, <3>2
    <3> QED
      BY <2>2, <3>1, <3>3
  <2> QED
    BY <2>1, <2>2
<1>4. ASSUME NEW c \in D, NEW f \in [D -> V], NEW g \in [D -> V],
             \A b \in D : h[b] < h[c] => f[b] = g[b]
      PROVE  F[<<c, f>>] = F[<<c, g>>]
  <2>1. cell(f, c) = cell(g, c)
    BY <1>4, <1>a
  <2>2. F[<<c, f>>] = cell(f, c) /\ F[<<c, g>>] = cell(g, c)
    <3> HIDE DEF cell, D, V
    <3> QED
      OBVIOUS
  <2> QED
    BY <2>1, <2>2
<1>5. PICK f : Solves(f, F, D, V)
  <2>1. V # {}
    <3>1. <<>> \in V
      OBVIOUS
    <3> QED
      BY <3>1
  <2>2. ReadsBelow(F, D, V, h)
    <3> HIDE DEF D, h, F, V
    <3> QED
      BY <1>3, <1>4 DEF ReadsBelow
  <2>3. PICK top \in Nat : h \in [D -> Nat] /\ \A c \in D : h[c] <= top
    BY HeightIs
  <2> HIDE DEF D, h, F, V
  <2> QED
    BY <2>1, <2>2, <2>3, DefinedBelow
<1>6. f \in [D -> V] /\ \A c \in D : f[c] = cell(f, c)
  <2> HIDE DEF cell, V
  <2> QED
    BY <1>5 DEF Solves
<1>7. f = [at \in D |-> cell(f, at)]
  <2> HIDE DEF cell, D, V
  <2> QED
    BY <1>6
<1>8. chosen = [at \in D |-> cell(chosen, at)]
  <2> HIDE DEF cell, D
  <2> QED
    BY <1>7, Zenon
<1>9. Align(ref, hyp, folded) = chosen[<<Len(ref), Len(hyp)>>]
  BY <1>1 DEF Align, From
<1>10. PICK w : w = chosen /\ \A c \in D : w[c] = cell(w, c)
  <2> HIDE DEF cell, chosen, D
  <2> QED
    BY <1>8
<1> DEFINE same == {c \in D : w[c] = f[c]}
<1>11. ASSUME NEW c \in D, \A b \in D : h[b] < h[c] => b \in same
       PROVE  c \in same
  <2>1. \A b \in D : h[b] < h[c] => w[b] = f[b]
    BY <1>11
  <2>2. cell(w, c) = cell(f, c)
    <3> HIDE DEF cell, h, D
    <3> QED
      BY <1>a, <2>1
  <2> HIDE DEF cell
  <2> QED
    BY <1>6, <1>10, <2>2
<1>12. D \subseteq same
  <2>1. h \in [D -> Nat]
    BY HeightIs
  <2> HIDE DEF D, h, same
  <2> QED
    BY <1>11, <2>1, FromBelow
<1>13. w = f
  <2>1. w = [at \in D |-> cell(w, at)]
    <3> HIDE DEF cell, D
    <3> QED
      BY <1>8, <1>10
  <2>2. w = [at \in D |-> w[at]] /\ f = [at \in D |-> f[at]]
    <3> HIDE DEF cell, D
    <3> QED
      BY <1>6, <2>1
  <2>3. \A at \in D : w[at] = f[at]
    BY <1>12
  <2> HIDE DEF cell, D
  <2> QED
    BY <2>2, <2>3
<1>14. PathOf(f, ref, hyp, folded, t)
  BY <1>6 DEF PathOf
<1> QED
  BY <1>1, <1>9, <1>10, <1>13, <1>14

\* The operations up to a cell read both texts so far, and their errors are its cost.
Reads(ops, ref, hyp, folded, c, cost) ==
    /\ FlattenSeq(Refs(ops)) = SubSeq(ref, 1, c[1]) /\ FlattenSeq(Hyps(ops)) = SubSeq(hyp, 1, c[2])
    /\ \A k \in DOMAIN ops : ops[k].kind = "merge" => Merges(ops[k].ref, ops[k].hyp)
    /\ folded => Counted(ops, Wrong) = cost
    /\ ~folded => Counted(ops, Wrong) + Counted(ops, Respelt) = cost

LEMMA StepReads ==
    ASSUME NEW ref \in Text, NEW hyp \in Text, NEW folded \in BOOLEAN,
           NEW b \in Cells(ref, hyp), NEW c \in Cells(ref, hyp), b[1] <= c[1], b[2] <= c[2],
           NEW ops \in Seq(OpSet), NEW n \in Nat, Reads(ops, ref, hyp, folded, b, n),
           NEW o, NEW p \in {0, 1}, Fair(o, folded, p),
           o.ref = SubSeq(ref, b[1] + 1, c[1]), o.hyp = SubSeq(hyp, b[2] + 1, c[2])
    PROVE  Reads(Append(ops, o), ref, hyp, folded, c, n + p)
<1>1. o \in OpSet /\ o.ref \in Text /\ o.hyp \in Text
  BY DEF Fair, OpSet
<1>2. PICK more \in Seq(OpSet) :
         /\ more = Append(ops, o)
         /\ Refs(ops) \in Seq(Text) /\ Refs(more) = Append(Refs(ops), o.ref)
         /\ Hyps(ops) \in Seq(Text) /\ Hyps(more) = Append(Hyps(ops), o.hyp)
  BY <1>1, OneOpMore
<1>3. \A B : /\ Counted(ops, B) \in Nat
             /\ Counted(more, B) = Counted(ops, B) + (IF o \in B THEN 1 ELSE 0)
  BY <1>1, <1>2, OneOpMore
<1>4. FlattenSeq(Refs(more)) = SubSeq(ref, 1, c[1])
  <2>1. FlattenSeq(Refs(more)) = FlattenSeq(Refs(ops)) \o o.ref
    BY <1>1, <1>2, FlattenAppend DEF Text
  <2>2. FlattenSeq(Refs(ops)) = SubSeq(ref, 1, b[1])
    BY DEF Reads
  <2>3. PICK m \in Nat : m = Len(ref)
    BY CellsAre
  <2>4. PICK k \in 0..m, l \in 0..m : k = b[1] /\ l = c[1] /\ k <= l
    BY <2>3, CellsAre
  <2>5. 1 \in 1..m + 1 /\ k \in 1 - 1..m /\ l \in k..m
    BY <2>4
  <2>6. SubSeq(ref, 1, k) \o SubSeq(ref, k + 1, l) = SubSeq(ref, 1, l)
    BY <2>3, <2>5, ConcatAdjacentSubSeq DEF Text
  <2> QED
    BY <2>1, <2>2, <2>4, <2>6
<1>5. FlattenSeq(Hyps(more)) = SubSeq(hyp, 1, c[2])
  <2>1. FlattenSeq(Hyps(more)) = FlattenSeq(Hyps(ops)) \o o.hyp
    BY <1>1, <1>2, FlattenAppend DEF Text
  <2>2. FlattenSeq(Hyps(ops)) = SubSeq(hyp, 1, b[2])
    BY DEF Reads
  <2>3. PICK m \in Nat : m = Len(hyp)
    BY CellsAre
  <2>4. PICK k \in 0..m, l \in 0..m : k = b[2] /\ l = c[2] /\ k <= l
    BY <2>3, CellsAre
  <2>5. 1 \in 1..m + 1 /\ k \in 1 - 1..m /\ l \in k..m
    BY <2>4
  <2>6. SubSeq(hyp, 1, k) \o SubSeq(hyp, k + 1, l) = SubSeq(hyp, 1, l)
    BY <2>3, <2>5, ConcatAdjacentSubSeq DEF Text
  <2> QED
    BY <2>1, <2>2, <2>4, <2>6
<1>6. ASSUME NEW k \in DOMAIN more, more[k].kind = "merge" PROVE Merges(more[k].ref, more[k].hyp)
  <2>1. PICK l \in Nat : l = Len(ops) /\ DOMAIN ops = 1..l
    BY LenProperties
  <2>2. Len(more) = l + 1 /\ more[l + 1] = o /\ \A i \in 1..l : more[i] = ops[i]
    BY <1>1, <1>2, <2>1, AppendProperties
  <2>3. k \in 1..l + 1
    BY <2>2, LenProperties
  <2>4. CASE k = l + 1
    BY <1>6, <2>2, <2>4 DEF Fair
  <2>5. CASE k \in 1..l
    <3>1. more[k] = ops[k] /\ k \in DOMAIN ops
      BY <2>1, <2>2, <2>5
    <3>2. ops[k].kind = "merge" => Merges(ops[k].ref, ops[k].hyp)
      BY <3>1 DEF Reads
    <3> QED
      BY <1>6, <3>1, <3>2
  <2> QED
    BY <2>3, <2>4, <2>5
<1>7. ASSUME folded PROVE Counted(more, Wrong) = n + p
  <2>1. Counted(ops, Wrong) = n /\ (o \in Wrong <=> p = 1)
    BY <1>7 DEF Reads, Fair
  <2> QED
    BY <1>3, <2>1
<1>8. ASSUME ~folded PROVE Counted(more, Wrong) + Counted(more, Respelt) = n + p
  <2>1. /\ Counted(ops, Wrong) + Counted(ops, Respelt) = n
        /\ o \in Wrong \/ o \in Respelt <=> p = 1
        /\ ~(o \in Wrong /\ o \in Respelt)
    BY <1>8 DEF Reads, Fair
  <2>2. PICK x \in Nat, y \in Nat : x = Counted(ops, Wrong) /\ y = Counted(ops, Respelt)
    BY <1>3
  <2>3. /\ Counted(more, Wrong) = x + (IF o \in Wrong THEN 1 ELSE 0)
        /\ Counted(more, Respelt) = y + (IF o \in Respelt THEN 1 ELSE 0)
    BY <1>3, <2>2
  <2> QED
    BY <2>1, <2>2, <2>3
<1> QED
  BY <1>2, <1>4, <1>5, <1>6, <1>7, <1>8 DEF Reads

LEMMA PathReads ==
    ASSUME NEW ref \in Text, NEW hyp \in Text, NEW folded \in BOOLEAN,
           NEW t, TableOf(t, ref, hyp, folded), NEW w, PathOf(w, ref, hyp, folded, t)
    PROVE  \A c \in Cells(ref, hyp) : Reads(w[c], ref, hyp, folded, c, t[c].cost)
<1> DEFINE D == Cells(ref, hyp)
           h == Height(ref, hyp)
           done == {c \in D : Reads(w[c], ref, hyp, folded, c, t[c].cost)}
<1>1. \A c \in D : w[c] \in Seq(OpSet) /\ t[c].cost \in Nat
  BY DEF PathOf, TableOf, OptionSet
<1>2. ASSUME NEW c \in D, \A b \in D : h[b] < h[c] => b \in done
      PROVE  c \in done
  <2>1. CASE c = <<0, 0>>
    <3>1. w[c] = <<>> /\ t[c].cost = 0 /\ c[1] = 0 /\ c[2] = 0
      BY <2>1 DEF PathOf, TableOf, Option
    <3>2. SubSeq(ref, 1, 0) = <<>> /\ SubSeq(hyp, 1, 0) = <<>>
      BY SubSeqEmpty
    <3>3. FlattenSeq(<<>>) = <<>>
      <4>1. <<>> \in Seq(Seq(Int)) /\ <<>> \in Seq(Int)
        OBVIOUS
      <4> QED
        BY <4>1, FlattenAppend
    <3>4. Refs(<<>>) = <<>> /\ Hyps(<<>>) = <<>> /\ Counted(<<>>, Wrong) = 0 /\ Counted(<<>>, Respelt) = 0
      BY NoOps
    <3>5. \A k \in DOMAIN <<>> : <<>>[k].kind = "merge" => Merges(<<>>[k].ref, <<>>[k].hyp)
      OBVIOUS
    <3>6. Reads(<<>>, ref, hyp, folded, c, 0)
      <4>1. PICK a, b, d, e : a = FlattenSeq(Refs(<<>>)) /\ b = FlattenSeq(Hyps(<<>>))
                              /\ d = SubSeq(ref, 1, c[1]) /\ e = SubSeq(hyp, 1, c[2])
        OBVIOUS
      <4>2. a = d /\ b = e
        BY <3>1, <3>2, <3>3, <3>4, <4>1
      <4>3. Counted(<<>>, Wrong) = 0 /\ Counted(<<>>, Wrong) + Counted(<<>>, Respelt) = 0
        BY <3>4
      <4> QED
        BY <3>5, <4>1, <4>2, <4>3 DEF Reads
    <3> QED
      BY <3>1, <3>6
  <2>2. CASE c # <<0, 0>>
    <3>1. PICK s \in Steps(ref, hyp, folded, c[1], c[2]) :
             /\ s = t[c].step
             /\ t[c].cost = t[From(c, s)].cost + Price(ref, hyp, folded, c[1], c[2], s)
      BY <2>2, StepTaken DEF Taken
    <3>2. PICK b \in D : b = From(c, s) /\ b[1] + b[2] < c[1] + c[2]
      BY <3>1, StepIsEdge
    <3>3. b[1] <= c[1] /\ b[2] <= c[2]
      <4>a. PICK i \in 0..Len(ref), j \in 0..Len(hyp) : c[1] = i /\ c[2] = j
        BY CellsAre
      <4>1. i \in Nat /\ j \in Nat /\ c[1] = i /\ c[2] = j
        BY <4>a, CellsAre
      <4>2. PICK x \in Nat, y \in Nat : StepFits(folded, i, j, s, x, y)
        BY <4>1, StepsAre
      <4>3. b[1] = i - x /\ b[2] = j - y /\ x <= i /\ y <= j
        BY <3>2, <4>1, <4>2 DEF From, StepFits
      <4> QED
        BY <4>1, <4>3
    <3>a. /\ Price(ref, hyp, folded, c[1], c[2], s) \in {0, 1}
          /\ Fair(Op(ref, hyp, folded, c, s), folded, Price(ref, hyp, folded, c[1], c[2], s))
          /\ Op(ref, hyp, folded, c, s).ref = SubSeq(ref, b[1] + 1, c[1])
          /\ Op(ref, hyp, folded, c, s).hyp = SubSeq(hyp, b[2] + 1, c[2])
      BY <3>2, OpIs, PriceIs
    <3>b. PICK p \in {0, 1} : p = Price(ref, hyp, folded, c[1], c[2], s)
      BY <3>a
    <3>c. PICK o : o = Op(ref, hyp, folded, c, s)
      OBVIOUS
    <3>4. /\ o = Op(ref, hyp, folded, c, s) /\ p = Price(ref, hyp, folded, c[1], c[2], s)
             /\ Fair(o, folded, p)
             /\ o.ref = SubSeq(ref, b[1] + 1, c[1]) /\ o.hyp = SubSeq(hyp, b[2] + 1, c[2])
      BY <3>a, <3>b, <3>c
    <3>5. h[b] < h[c]
      BY <3>2, HeightIs
    <3>6. Reads(w[b], ref, hyp, folded, b, t[b].cost)
      BY <1>2, <3>5
    <3>7. Reads(Append(w[b], o), ref, hyp, folded, c, t[b].cost + p)
      BY <1>1, <3>3, <3>4, <3>6, StepReads
    <3>8. w[c] = Append(w[b], o) /\ t[c].cost = t[b].cost + p
      BY <2>2, <3>1, <3>2, <3>4 DEF PathOf
    <3> QED
      BY <3>7, <3>8
  <2> QED
    BY <2>1, <2>2
<1>3. D \subseteq done
  <2>1. h \in [D -> Nat]
    BY HeightIs
  <2> HIDE DEF D, h, done
  <2> QED
    BY <1>2, <2>1, FromBelow
<1> QED
  BY <1>3

\* What align gives, of either mode.
LEMMA AlignReads ==
    ASSUME NEW ref \in Text, NEW hyp \in Text, NEW folded \in BOOLEAN
    PROVE  /\ Align(ref, hyp, folded) \in Seq(OpSet)
           /\ LeastErrors(ref, hyp, folded) \in Nat
           /\ Reads(Align(ref, hyp, folded), ref, hyp, folded, <<Len(ref), Len(hyp)>>, LeastErrors(ref, hyp, folded))
<1>1. PICK t : t = Table(ref, hyp, folded) /\ TableOf(t, ref, hyp, folded)
  BY TableExists
<1>2. PICK w : PathOf(w, ref, hyp, folded, t) /\ Align(ref, hyp, folded) = w[<<Len(ref), Len(hyp)>>]
  BY <1>1, PathExists
<1>3. PICK end \in Cells(ref, hyp) : end = <<Len(ref), Len(hyp)>>
  BY CellsAre
<1>4. w[end] \in Seq(OpSet) /\ t[end].cost \in Nat
  BY <1>1, <1>2 DEF PathOf, TableOf, OptionSet
<1>5. t[end].cost = LeastErrors(ref, hyp, folded)
  BY <1>1, <1>3, TableIsLeast
<1>6. Reads(w[end], ref, hyp, folded, end, t[end].cost)
  BY <1>1, <1>2, PathReads
<1> QED
  BY <1>2, <1>3, <1>4, <1>5, <1>6

-----------------------------------------------------------------------------
\* With the two texts exchanged each step has its mirror, at the same price.
Turned(c) == <<c[2], c[1]>>

LEMMA SameWordTurned ==
    ASSUME NEW a \in Seq(Int), NEW b \in Seq(Int)
    PROVE  SameWord(a, b) <=> SameWord(b, a)
<1>1. Len(a) = Len(b) => DOMAIN a = DOMAIN b
  BY LenProperties
<1>2. (Scripts(a) # Scripts(b) <=> Scripts(b) # Scripts(a)) /\ (SpellingKey(a) = SpellingKey(b) <=> SpellingKey(b) = SpellingKey(a))
  OBVIOUS
<1> QED
  BY <1>1, <1>2 DEF SameWord

LEMMA MergesTurned ==
    ASSUME NEW r \in Text, NEW h \in Text
    PROVE  Merges(r, h) <=> Merges(h, r)
<1>1. FlattenSeq(r) \in Seq(Int) /\ FlattenSeq(h) \in Seq(Int)
  <2>1. <<>> \in Seq(Int)
    OBVIOUS
  <2> QED
    BY <2>1, FlattenAppend DEF Text
<1>2. PICK x, y : x \in Seq(Int) /\ y \in Seq(Int) /\ x = FlattenSeq(r) /\ y = FlattenSeq(h)
  BY <1>1
<1>3. Len(r) + Len(h) = Len(h) + Len(r)
  BY LenProperties DEF Text
<1>4. /\ Merges(r, h) = IF Len(r) + Len(h) = 3 THEN SameWord(x, y) ELSE SpellingKey(x) = SpellingKey(y)
      /\ Merges(h, r) = IF Len(h) + Len(r) = 3 THEN SameWord(y, x) ELSE SpellingKey(y) = SpellingKey(x)
  BY <1>2 DEF Merges
<1> QED
  BY <1>2, <1>3, <1>4, SameWordTurned

LEMMA StepTurned ==
    ASSUME NEW ref \in Text, NEW hyp \in Text, NEW folded \in BOOLEAN, NEW c \in Cells(ref, hyp),
           NEW s \in Steps(ref, hyp, folded, c[1], c[2])
    PROVE  /\ Turned(c) \in Cells(hyp, ref)
           /\ Turned(s) \in Steps(hyp, ref, folded, Turned(c)[1], Turned(c)[2])
           /\ From(Turned(c), Turned(s)) = Turned(From(c, s))
           /\ Price(hyp, ref, folded, Turned(c)[1], Turned(c)[2], Turned(s)) = Price(ref, hyp, folded, c[1], c[2], s)
<1>1. PICK i \in 0..Len(ref), j \in 0..Len(hyp) : c = <<i, j>> /\ c[1] = i /\ c[2] = j
  BY CellsAre
<1>2. i \in Nat /\ j \in Nat
  BY CellsAre
<1>3. PICK x \in Nat, y \in Nat : StepFits(folded, i, j, s, x, y)
  BY <1>1, <1>2, StepsAre
<1>4. s = <<x, y>> /\ s[1] = x /\ s[2] = y /\ x <= i /\ y <= j
  BY <1>3 DEF StepFits
<1>5. /\ Turned(c) = <<j, i>> /\ Turned(c)[1] = j /\ Turned(c)[2] = i
      /\ Turned(s) = <<y, x>> /\ Turned(s)[1] = y /\ Turned(s)[2] = x
  BY <1>1, <1>4 DEF Turned
<1>6. Turned(c) \in Cells(hyp, ref)
  <2>1. <<j, i>> \in Cells(hyp, ref)
    BY CellsAre
  <2> QED
    BY <1>5, <2>1
<1>7. From(Turned(c), Turned(s)) = Turned(From(c, s))
  BY <1>1, <1>4, <1>5 DEF From, Turned
<1>a. PICK q : q = <<y, x>>
  OBVIOUS
<1>8. q = <<y, x>> /\ q[1] = y /\ q[2] = x
  BY <1>a
<1>9. q \in Steps(hyp, ref, folded, j, i) /\ Price(hyp, ref, folded, j, i, q) = Price(ref, hyp, folded, i, j, s)
  <2>1. CASE s = <<1, 0>>
    <3>1. q = <<0, 1>> /\ 0 <= j /\ 1 <= i
      BY <1>4, <1>8, <2>1
    <3>2. q \in Steps(hyp, ref, folded, j, i)
      BY <1>2, <1>8, <3>1 DEF Steps
    <3> QED
      BY <2>1, <3>1, <3>2, PriceIs
  <2>2. CASE s = <<0, 1>>
    <3>1. q = <<1, 0>> /\ 0 <= i /\ 1 <= j
      BY <1>4, <1>8, <2>2
    <3>2. q \in Steps(hyp, ref, folded, j, i)
      BY <1>2, <1>8, <3>1 DEF Steps
    <3> QED
      BY <2>2, <3>1, <3>2, PriceIs
  <2>3. CASE s = <<1, 1>>
    <3>1. q = <<1, 1>> /\ 1 <= i /\ 1 <= j /\ i \in 1..Len(ref) /\ j \in 1..Len(hyp)
      BY <1>1, <1>2, <1>4, <1>8, <2>3
    <3>2. q \in Steps(hyp, ref, folded, j, i)
      BY <1>2, <1>8, <3>1 DEF Steps
    <3>3. PICK a \in Seq(Int), b \in Seq(Int) : a = ref[i] /\ b = hyp[j]
      BY <3>1, ElementOfSeq DEF Text
    <3>4. Same(a, b, folded) <=> Same(b, a, folded)
      BY SameWordTurned DEF Same
    <3>5. /\ Price(ref, hyp, folded, i, j, s) = IF Same(a, b, folded) THEN 0 ELSE 1
          /\ Price(hyp, ref, folded, j, i, q) = IF Same(b, a, folded) THEN 0 ELSE 1
      BY <2>3, <3>1, <3>3, PriceIs
    <3> QED
      BY <3>2, <3>4, <3>5
  <2>4. CASE s \notin {<<1, 1>>, <<1, 0>>, <<0, 1>>}
    <3>1. q \notin {<<1, 1>>, <<1, 0>>, <<0, 1>>}
      BY <1>4, <1>8, <2>4
    <3>2. /\ folded /\ s \in (1..MaxMerge) \X (1..MaxMerge) /\ s[1] + s[2] > 2
          /\ Merges(SubSeq(ref, i - s[1] + 1, i), SubSeq(hyp, j - s[2] + 1, j))
      BY <1>1, <2>4 DEF Steps
    <3>3. Merges(SubSeq(hyp, j - y + 1, j), SubSeq(ref, i - x + 1, i))
      <4>1. PICK r \in Text, h \in Text : r = SubSeq(ref, i - x + 1, i) /\ h = SubSeq(hyp, j - y + 1, j)
        BY <1>4, WordsOf
      <4>2. Merges(r, h)
        BY <1>4, <3>2, <4>1
      <4> QED
        BY <4>1, <4>2, MergesTurned
    <3>4. q \in (1..MaxMerge) \X (1..MaxMerge) /\ q[1] + q[2] > 2
      BY <1>4, <1>8, <3>2
    <3>5. q \in Steps(hyp, ref, folded, j, i)
      BY <1>4, <1>8, <3>2, <3>3, <3>4 DEF Steps
    <3> QED
      BY <2>4, <3>1, <3>5, PriceIs
  <2> QED
    BY <2>1, <2>2, <2>3, <2>4
<1> QED
  BY <1>1, <1>5, <1>6, <1>7, <1>8, <1>9

\* So the count from either side is no more than from the other.
LEMMA NoDearerTurned ==
    ASSUME NEW ref \in Text, NEW hyp \in Text, NEW folded \in BOOLEAN
    PROVE  LeastErrors(hyp, ref, folded) <= LeastErrors(ref, hyp, folded)
<1> DEFINE B == Cells(ref, hyp)
           D == Cells(hyp, ref)
           F == Edges(ref, hyp, folded)
           E == Edges(hyp, ref, folded)
           p == [c \in B |-> Turned(c)]
<1>1. PICK S : RestOf(S, ref, hyp, folded) /\ LeastErrors(ref, hyp, folded) = S[<<0, 0>>]
  BY RestExists
<1>2. PICK R : RestOf(R, hyp, ref, folded) /\ LeastErrors(hyp, ref, folded) = R[<<0, 0>>]
  BY RestExists
<1>3. CostTo(S, B, F, <<Len(ref), Len(hyp)>>) /\ CostTo(R, D, E, <<Len(hyp), Len(ref)>>)
  BY <1>1, <1>2, RestCosts
<1>4. PICK top \in Nat : Upward(B, F, Height(ref, hyp), top)
  BY EdgesLeadUp, HeightIs
<1>5. E \subseteq D \X D \X Nat
  BY EdgesLeadUp DEF Upward
<1>6. \A c \in B : Turned(c) \in D
  <2>1. ASSUME NEW c \in B PROVE Turned(c) \in D
    <3>1. c[1] \in 0..Len(ref) /\ c[2] \in 0..Len(hyp)
      BY CellsAre
    <3> QED
      BY <3>1, CellsAre DEF Turned
  <2> QED
    BY <2>1
<1>7. p \in [B -> D] /\ \A c \in B : p[c] = Turned(c)
  <2> HIDE DEF B, D
  <2> QED
    BY <1>6
<1>8. p[<<Len(ref), Len(hyp)>>] = <<Len(hyp), Len(ref)>> /\ p[<<0, 0>>] = <<0, 0>>
      /\ <<0, 0>> \in B
  <2>1. <<0, 0>> \in B /\ <<Len(ref), Len(hyp)>> \in B
    BY CellsAre
  <2>2. Turned(<<0, 0>>) = <<0, 0>> /\ Turned(<<Len(ref), Len(hyp)>>) = <<Len(hyp), Len(ref)>>
    BY DEF Turned
  <2> HIDE DEF B, D, p
  <2> QED
    BY <1>7, <2>1, <2>2
<1>9. ASSUME NEW f \in F
      PROVE  \E e \in E : e[1] = p[f[1]] /\ e[2] = p[f[2]] /\ e[3] <= f[3]
  <2>1. PICK b \in B, c \in B, n \in {0, 1} :
           /\ f[1] = b /\ f[2] = c /\ f[3] = n
           /\ \E s \in Steps(ref, hyp, folded, c[1], c[2]) : b = From(c, s) /\ n = Price(ref, hyp, folded, c[1], c[2], s)
    BY EdgeIsStep
  <2>2. PICK s \in Steps(ref, hyp, folded, c[1], c[2]) : b = From(c, s) /\ n = Price(ref, hyp, folded, c[1], c[2], s)
    BY <2>1
  <2>3. PICK d \in D : d = Turned(c)
    BY <1>6
  <2>4. PICK q \in Steps(hyp, ref, folded, d[1], d[2]) :
           q = Turned(s) /\ From(d, q) = Turned(b) /\ Price(hyp, ref, folded, d[1], d[2], q) = n
    BY <2>2, <2>3, StepTurned
  <2>5. <<Turned(b), d, n>> \in E
    BY <2>4, StepIsEdge
  <2>6. p[b] = Turned(b) /\ p[c] = d
    BY <1>7, <2>3
  <2>7. <<Turned(b), d, n>>[1] = Turned(b) /\ <<Turned(b), d, n>>[2] = d /\ <<Turned(b), d, n>>[3] = n /\ n <= n
    OBVIOUS
  <2> HIDE DEF B, D, E, F, p
  <2> QED
    BY <2>1, <2>5, <2>6, <2>7
<1>10. \A b \in B : R[p[b]] <= S[b]
  <2> HIDE DEF B, D, E, F, p
  <2>1. PICK last, end : CostTo(S, B, F, last) /\ CostTo(R, D, E, end) /\ p[last] = end
    BY <1>3, <1>8
  <2>2. FollowsIn(p, B, F, last, D, E, end)
    BY <1>5, <1>7, <1>9, <2>1 DEF FollowsIn
  <2> QED
    BY <1>4, <2>1, <2>2, NoDearer
<1> QED
  BY <1>1, <1>2, <1>8, <1>10

\* Folding adds steps and lowers prices.
LEMMA PriceFolded ==
    ASSUME NEW ref, NEW hyp, NEW yes \in BOOLEAN, yes, NEW no \in BOOLEAN, ~no, NEW i, NEW j, NEW s
    PROVE  Price(ref, hyp, yes, i, j, s) <= Price(ref, hyp, no, i, j, s)
<1>1. PICK m \in {0, 1} : m = Price(ref, hyp, yes, i, j, s)
  BY PriceIs
<1>2. PICK n \in {0, 1} : n = Price(ref, hyp, no, i, j, s)
  BY PriceIs
<1>3. m = 1 => n = 1
  <2>1. CASE s = <<1, 1>>
    <3>1. Same(ref[i], hyp[j], no) => Same(ref[i], hyp[j], yes)
      BY DEF Same, SameWord
    <3> QED
      BY <1>1, <1>2, <2>1, <3>1, PriceIs
  <2>2. CASE s # <<1, 1>>
    <3>1. (s = <<1, 0>> \/ s = <<0, 1>>) => n = 1
      BY <1>2, PriceIs
    <3>2. ~(s = <<1, 0>> \/ s = <<0, 1>>) => m = 0
      BY <1>1, <2>2 DEF Price
    <3> QED
      BY <2>2, <3>1, <3>2
  <2> QED
    BY <2>1, <2>2
<1>4. m <= n
  BY <1>3
<1> QED
  BY <1>1, <1>2, <1>4

LEMMA NoDearerFolded ==
    ASSUME NEW ref \in Text, NEW hyp \in Text, NEW yes \in BOOLEAN, yes, NEW no \in BOOLEAN, ~no
    PROVE  LeastErrors(ref, hyp, yes) <= LeastErrors(ref, hyp, no)
<1> DEFINE D == Cells(ref, hyp)
           F == Edges(ref, hyp, no)
           E == Edges(ref, hyp, yes)
           p == [c \in D |-> c]
<1>1. PICK S : RestOf(S, ref, hyp, no) /\ LeastErrors(ref, hyp, no) = S[<<0, 0>>]
  BY RestExists
<1>2. PICK R : RestOf(R, ref, hyp, yes) /\ LeastErrors(ref, hyp, yes) = R[<<0, 0>>]
  BY RestExists
<1>3. CostTo(S, D, F, <<Len(ref), Len(hyp)>>) /\ CostTo(R, D, E, <<Len(ref), Len(hyp)>>)
  BY <1>1, <1>2, RestCosts
<1>4. PICK top \in Nat : Upward(D, F, Height(ref, hyp), top)
  BY EdgesLeadUp, HeightIs
<1>5. E \subseteq D \X D \X Nat
  BY EdgesLeadUp DEF Upward
<1>6. /\ p \in [D -> D] /\ \A c \in D : p[c] = c
      /\ <<Len(ref), Len(hyp)>> \in D /\ <<0, 0>> \in D
  <2>1. <<0, 0>> \in D /\ <<Len(ref), Len(hyp)>> \in D
    BY CellsAre
  <2> HIDE DEF D
  <2> QED
    BY <2>1
<1>7. ASSUME NEW f \in F
      PROVE  \E e \in E : e[1] = p[f[1]] /\ e[2] = p[f[2]] /\ e[3] <= f[3]
  <2>1. PICK b \in D, c \in D, n \in {0, 1} :
           /\ f[1] = b /\ f[2] = c /\ f[3] = n
           /\ \E s \in Steps(ref, hyp, no, c[1], c[2]) : b = From(c, s) /\ n = Price(ref, hyp, no, c[1], c[2], s)
    BY EdgeIsStep
  <2>2. PICK s \in Steps(ref, hyp, no, c[1], c[2]) : b = From(c, s) /\ n = Price(ref, hyp, no, c[1], c[2], s)
    BY <2>1
  <2>3. s \in Steps(ref, hyp, yes, c[1], c[2])
    BY DEF Steps
  <2>4. PICK m \in {0, 1} : m = Price(ref, hyp, yes, c[1], c[2], s)
    BY PriceIs
  <2>5. m <= n
    BY <2>2, <2>4, PriceFolded
  <2>6. <<b, c, m>> \in E
    BY <2>2, <2>3, <2>4, StepIsEdge
  <2>7. <<b, c, m>>[1] = b /\ <<b, c, m>>[2] = c /\ <<b, c, m>>[3] = m
    OBVIOUS
  <2> HIDE DEF D, E, F, p
  <2> QED
    BY <1>6, <2>1, <2>5, <2>6, <2>7
<1>8. \A b \in D : R[p[b]] <= S[b]
  <2> HIDE DEF D, E, F, p
  <2>1. PICK end : CostTo(S, D, F, end) /\ CostTo(R, D, E, end) /\ p[end] = end
    BY <1>3, <1>6
  <2>2. FollowsIn(p, D, F, end, D, E, end)
    BY <1>5, <1>6, <1>7, <2>1 DEF FollowsIn
  <2> QED
    BY <1>4, <2>1, <2>2, NoDearer
<1>9. R[p[<<0, 0>>]] <= S[<<0, 0>>] /\ p[<<0, 0>>] = <<0, 0>>
  <2> HIDE DEF D, p
  <2> QED
    BY <1>6, <1>8
<1> QED
  BY <1>1, <1>2, <1>9

-----------------------------------------------------------------------------
\* The folded alignment of any two transcripts reads both through, joins only words that may
\* be joined, makes the fewest errors, as many with the two exchanged, and no more than raw.
THEOREM FoldedTheorem == \A ref \in Text, hyp \in Text : FoldedIsLeast(ref, hyp)
<1> SUFFICES ASSUME NEW ref \in Text, NEW hyp \in Text
             PROVE  FoldedIsLeast(ref, hyp)
  OBVIOUS
<1>1. PICK ops \in Seq(OpSet) :
         /\ ops = Align(ref, hyp, TRUE)
         /\ Reads(ops, ref, hyp, TRUE, <<Len(ref), Len(hyp)>>, LeastErrors(ref, hyp, TRUE))
  BY AlignReads
<1>2. PICK back \in Seq(OpSet) :
         /\ back = Align(hyp, ref, TRUE)
         /\ Reads(back, hyp, ref, TRUE, <<Len(hyp), Len(ref)>>, LeastErrors(hyp, ref, TRUE))
  BY AlignReads
<1>3. Errors(ops) = LeastErrors(ref, hyp, TRUE) /\ Errors(back) = LeastErrors(hyp, ref, TRUE)
  BY <1>1, <1>2, ErrorsAre DEF Reads
<1>4. /\ LeastErrors(ref, hyp, TRUE) \in Nat /\ LeastErrors(hyp, ref, TRUE) \in Nat
      /\ LeastErrors(ref, hyp, FALSE) \in Nat
  BY AlignReads
<1>5. Errors(ops) = Errors(back) /\ Errors(ops) <= LeastErrors(ref, hyp, FALSE)
  <2>a. TRUE \in BOOLEAN /\ FALSE \in BOOLEAN /\ ~FALSE
    OBVIOUS
  <2>1. /\ LeastErrors(hyp, ref, TRUE) <= LeastErrors(ref, hyp, TRUE)
        /\ LeastErrors(ref, hyp, TRUE) <= LeastErrors(hyp, ref, TRUE)
        /\ LeastErrors(ref, hyp, TRUE) <= LeastErrors(ref, hyp, FALSE)
    BY <2>a, NoDearerTurned, NoDearerFolded, Zenon
  <2>2. PICK a \in Nat, b \in Nat, c \in Nat :
           a = LeastErrors(ref, hyp, TRUE) /\ b = LeastErrors(hyp, ref, TRUE) /\ c = LeastErrors(ref, hyp, FALSE)
    BY <1>4
  <2>b. b <= a /\ a <= b /\ a <= c
    BY <2>1, <2>2, Zenon
  <2>3. a = b /\ a <= c
    BY <2>b
  <2> QED
    BY <1>3, <2>2, <2>3
<1>6. SubSeq(ref, 1, Len(ref)) = ref /\ SubSeq(hyp, 1, Len(hyp)) = hyp
  BY SubSeqFull DEF Text
<1>7. FlattenSeq(Refs(ops)) = ref /\ FlattenSeq(Hyps(ops)) = hyp
  BY <1>1, <1>6 DEF Reads
<1>8. \A k \in DOMAIN ops : ops[k].kind = "merge" => Merges(ops[k].ref, ops[k].hyp)
  BY <1>1 DEF Reads
<1> QED
  BY <1>1, <1>2, <1>3, <1>5, <1>7, <1>8 DEF FoldedIsLeast, Refs, Hyps

\* The raw count of any two transcripts is their edit distance less the words that align
\* names a match although they are spelt differently.
THEOREM RawTheorem == \A ref \in Text, hyp \in Text : RawLeavesOutSpellings(ref, hyp)
<1> SUFFICES ASSUME NEW ref \in Text, NEW hyp \in Text
             PROVE  RawLeavesOutSpellings(ref, hyp)
  OBVIOUS
<1>1. PICK ops \in Seq(OpSet) :
         /\ ops = Align(ref, hyp, FALSE)
         /\ Reads(ops, ref, hyp, FALSE, <<Len(ref), Len(hyp)>>, LeastErrors(ref, hyp, FALSE))
  BY AlignReads
<1>2. Counted(ops, Wrong) + Counted(ops, Respelt) = LeastErrors(ref, hyp, FALSE)
  BY <1>1 DEF Reads
<1> QED
  BY <1>1, <1>2, ErrorsAre DEF RawLeavesOutSpellings

-----------------------------------------------------------------------------
(***************************************************************************)
(* MCEpisode.                                                              *)
(***************************************************************************)

\* Nothing changes which example a behaviour is for.
ExampleKept == part \in DOMAIN MCExamples /\ example \in MCExamples[part]

LEMMA ExampleInv == Spec => []ExampleKept
<1>1. Init => ExampleKept
  BY DEF Init, ExampleKept
<1>2. ExampleKept /\ [Next]_<<paidVars, corpusVars, voicesVars, part, example>> => ExampleKept'
  <2>1. [Next]_<<paidVars, corpusVars, voicesVars, part, example>> => UNCHANGED <<part, example>>
    BY DEF Next
  <2> QED
    BY <2>1 DEF ExampleKept
<1> QED
  BY <1>1, <1>2, PTL DEF Spec

\* A behaviour of the run is one of each machine.
LEMMA PartsOfSpec ==
    Spec => PaidSpec /\ CorpusSpec /\ VoicesInit /\ [][VoicesNext]_voicesVars
<1>1. Init => PaidInit /\ CorpusInit /\ VoicesInit
  BY DEF Init
<1>2. [Next]_<<paidVars, corpusVars, voicesVars, part, example>> =>
        [PaidNext]_paidVars /\ [CorpusNext]_corpusVars /\ [VoicesNext]_voicesVars
  BY DEF Next
<1> QED
  BY <1>1, <1>2, PTL DEF Spec, PaidSpec, CorpusSpec

\* A sequence of at most n members.
LEMMA UpToIsSeq ==
    ASSUME NEW n \in Nat, NEW S, NEW s \in UpTo(n, S)
    PROVE  s \in Seq(S)
<1>1. PICK k \in 0..n : s \in [1..k -> S]
  BY DEF UpTo
<1>2. k \in Nat
  BY <1>1
<1> QED
  BY <1>1, <1>2, SeqDef

\* Every episode the run plans windows for has its segments asked for exactly once, with the
\* lookahead on both sides, and, where no window reaches the cap, in windows that are each
\* within one segment of their even share of the words (plan_windows in llm/fusion.py).
THEOREM PlansTheorem == Spec => []EveryPlanIsSound
<1>1. ExampleKept => EveryPlanIsSound
  <2> SUFFICES ASSUME ExampleKept, part = "plan" PROVE EveryPlanIsSound
    BY DEF EveryPlanIsSound
  <2>1. example \in [words : UpTo(5, {0, 1, 3}), target : {1, 2, 4}, look : {2}, most : {1, 2, 3, 6}]
    BY DEF ExampleKept, MCExamples
  <2>2. /\ example.words \in UpTo(5, {0, 1, 3}) /\ example.target \in Nat
        /\ example.look \in Nat /\ example.most \in Nat \ {0}
    BY <2>1
  <2>3. example.words \in Seq(Nat)
    <3>1. example.words \in Seq({0, 1, 3})
      BY <2>2, UpToIsSeq
    <3> QED
      BY <3>1
  <2> QED
    BY <2>2, <2>3, PlanTheorem, BalanceTheorem DEF EveryPlanIsSound
<1> QED
  BY <1>1, ExampleInv, PTL

\* Every recording the run cuts keeps its speech, within the bounds, but for what is read as
\* below the minimum, wherever its quiet moments are (segment_audio_to_slices in silero_vad.py).
THEOREM EveryCutTheorem == Spec => []EveryCutIsSound
<1>1. ExampleKept => EveryCutIsSound
  <2> SUFFICES ASSUME ExampleKept, part = "cut" PROVE EveryCutIsSound
    BY DEF EveryCutIsSound
  <2>1. example \in MCTurns
    BY DEF ExampleKept, MCExamples
  <2>2. MCRecording \in Nat
    BY DEF MCRecording
  <2>3. Detected(example, MCRecording)
    <3>1. example \in Seq(Spans(MCRecording))
      <4>1. CASE example \in UpTo(2, Spans(MCRecording))
        BY <4>1, UpToIsSeq
      <4>2. CASE example \in UpTo(3, {s \in Spans(MCRecording) : Length(s) \in {1, 5}})
        <5>1. example \in Seq({s \in Spans(MCRecording) : Length(s) \in {1, 5}})
          BY <4>2, UpToIsSeq
        <5> QED
          BY <5>1
      <4> QED
        BY <2>1, <4>1, <4>2 DEF MCTurns
    <3>2. \A k \in 2..Len(example) : example[k - 1][1] < example[k][1]
      BY <2>1 DEF MCTurns
    <3>3. Spans(MCRecording) \subseteq Points
      BY DEF Spans, MCRecording, Points
    <3>4. \A k \in 1..Len(example) : example[k] \in Spans(MCRecording)
      BY <3>1
    <3>5. \A s \in Spans(MCRecording) :
            s[1] \in Int /\ s[2] \in Int /\ 0 <= s[1] /\ s[1] < s[2] /\ s[2] <= MCRecording
      BY DEF Spans, MCRecording
    <3>6. \A k \in 2..Len(example) : example[k - 1][1] <= example[k][1]
      <4> SUFFICES ASSUME NEW k \in 2..Len(example) PROVE example[k - 1][1] <= example[k][1]
        OBVIOUS
      <4>1. k - 1 \in 1..Len(example) /\ k \in 1..Len(example)
        BY <3>1
      <4> QED
        BY <4>1, <3>2, <3>4, <3>5
    <3>7. example \in Seq(Points)
      BY <3>1, <3>3
    <3> QED
      BY <3>4, <3>5, <3>6, <3>7 DEF Detected
  <2> QED
    BY <2>2, <2>3, CutsTheorem DEF EveryCutIsSound
<1> QED
  BY <1>1, ExampleInv, PTL

\* What a recogniser of the run hears is finitely many words.
LEMMA SystemWordsAre ==
    ASSUME NEW n \in Int, NEW most, NEW words \in MCSystemWords(n, most)
    PROVE  /\ words \in SUBSET Words /\ IsFiniteSet(words)
           /\ \A w \in words : w.start < w.end
<1> DEFINE D == (0..4) \X (0..4)
           R == [system : {n}, start : 0..4, end : 0..4]
           f == [p \in D |-> [system |-> n, start |-> p[1], end |-> p[2]]]
<1>1. words \in SUBSET R /\ \A w \in words : w.start < w.end
  BY DEF MCSystemWords
<1>2. R \subseteq Words
  BY DEF Words
<1>3. IsFiniteSet(R)
  <2>1. IsFiniteSet(0..4)
    <3>1. 0 \in Int /\ 4 \in Int
      OBVIOUS
    <3> QED
      BY ONLY <3>1, FS_Interval, Zenon
  <2>2. IsFiniteSet(D)
    BY <2>1, FS_Product
  <2>3. f \in Surjection(D, R)
    <3>1. f \in [D -> R]
      OBVIOUS
    <3>2. \A r \in R : \E p \in D : f[p] = r
      <4> SUFFICES ASSUME NEW r \in R PROVE \E p \in D : f[p] = r
        OBVIOUS
      <4>1. <<r.start, r.end>> \in D
        OBVIOUS
      <4>2. f[<<r.start, r.end>>] = [system |-> n, start |-> r.start, end |-> r.end]
        BY <4>1
      <4>3. r = [system |-> n, start |-> r.start, end |-> r.end]
        OBVIOUS
      <4> QED
        BY <4>1, <4>2, <4>3
    <3> QED
      BY <3>1, <3>2 DEF Surjection
  <2> HIDE DEF D, R, f
  <2> QED
    BY <2>2, <2>3, FS_Surjection
<1> HIDE DEF R
<1> QED
  BY <1>1, <1>2, <1>3, FS_Subset

\* Where no word lies within another's, every word the recognisers of the run hear finds its
\* slot, though only the open ones are looked at (build_slots in consensus.py).
THEOREM EveryScanTheorem == Spec => []EveryScanReachesAll
<1>1. ExampleKept => EveryScanReachesAll
  <2> SUFFICES ASSUME ExampleKept, part = "slots" PROVE EveryScanReachesAll
    BY DEF EveryScanReachesAll
  <2>1. \E a \in MCSystemWords(1, 2), b \in MCSystemWords(2, 2), c \in MCSystemWords(3, 1) :
          example = a \cup b \cup c
    BY DEF ExampleKept, MCExamples
  <2>2. PICK a \in MCSystemWords(1, 2), b \in MCSystemWords(2, 2), c \in MCSystemWords(3, 1) :
          example = a \cup b \cup c
    BY <2>1
  <2>3. /\ a \in SUBSET Words /\ IsFiniteSet(a) /\ \A w \in a : w.start < w.end
        /\ b \in SUBSET Words /\ IsFiniteSet(b) /\ \A w \in b : w.start < w.end
        /\ c \in SUBSET Words /\ IsFiniteSet(c) /\ \A w \in c : w.start < w.end
    BY SystemWordsAre
  <2>4. IsFiniteSet(a \cup b)
    BY <2>3, FS_Union
  <2>5. IsFiniteSet(example)
    BY <2>2, <2>3, <2>4, FS_Union
  <2>6. example \in SUBSET Words /\ \A w \in example : w.start < w.end
    BY <2>2, <2>3
  <2> QED
    BY <2>5, <2>6, ScanTheorem DEF EveryScanReachesAll
<1> QED
  BY <1>1, ExampleInv, PTL

\* The transcripts of the run are texts.
LEMMA TranscriptsAre ==
    ASSUME ExampleKept, part = "align"
    PROVE  example[1] \in Text /\ example[2] \in Text
<1>1. example \in UpTo(3, MCWords) \X UpTo(2, MCWords)
  BY DEF ExampleKept, MCExamples
<1>2. PICK x \in UpTo(3, MCWords), y \in UpTo(2, MCWords) : example[1] = x /\ example[2] = y
  BY <1>1
<1>3. MCWords \subseteq Seq(Int)
  BY DEF MCWords
<1>4. x \in Seq(MCWords) /\ y \in Seq(MCWords)
  BY UpToIsSeq
<1> QED
  BY <1>2, <1>3, <1>4 DEF Text

\* Every folded count of the run is the least there is (align in services/fold.py).
THEOREM EveryFoldedCountTheorem == Spec => []EveryFoldedCountIsLeast
<1>1. ExampleKept => EveryFoldedCountIsLeast
  BY TranscriptsAre, FoldedTheorem DEF EveryFoldedCountIsLeast
<1> QED
  BY <1>1, ExampleInv, PTL
=============================================================================
