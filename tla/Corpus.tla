------------------------------- MODULE Corpus -------------------------------
(***************************************************************************)
(* What an import puts into the corpus and a deletion takes out of it: the *)
(* episodes' clips as database rows and as objects in storage, which share *)
(* no transaction.  services/importer.py, the import lock of               *)
(* services/ingest/pipeline.py, the delete handlers of api/segments.py and *)
(* api/episodes.py, storage/local.py.                                      *)
(*                                                                         *)
(* A clip's key in storage is its name, so two ingests of one episode      *)
(* write the same keys; its checksum is the cut it was made by.  Checks    *)
(* and commits are steps of their own, with the storage calls between.     *)
(*                                                                         *)
(* Abstracted: hypotheses and scores; peaks, which go with their clip; the *)
(* episode's own recording; the speaker turns (Voices).                    *)
(***************************************************************************)
EXTENDS FiniteSets

CONSTANTS
    Clips,          \* clips, by external id
    EpisodeOf,      \* clip -> its episode
    Cuts,           \* ways the source may be cut; a clip's checksum
    Jobs            \* ingest jobs that have come to their import

VARIABLES
    rows,     \* segments: clip -> the checksum on its row, or None
    episodes, \* episodes with a row
    gold,     \* clips in the gold pot
    store,    \* object storage: clip -> the checksum of the object at its key, or None
    import,   \* job -> how far its import is
    request,  \* the delete request that is open; bound: one at a time
    stranded  \* clips a deletion took the object of without, or before, taking the row

\* A row's checksum is a cut's, never the mark of no row.
ASSUME CutsAssumption == "none" \notin Cuts

corpusVars == <<rows, episodes, gold, store, import, request, stranded>>

None == "none"
Idle == [at |-> "idle"]
AllEpisodes == {EpisodeOf[c] : c \in Clips}
ClipsOf(e)  == {c \in Clips : EpisodeOf[c] = e}
Rows        == {c \in Clips : rows[c] # None}

CorpusInit ==
    /\ rows = [c \in Clips |-> None] /\ episodes = {} /\ gold = {}
    /\ store = [c \in Clips |-> None]
    /\ import = [j \in Jobs |-> Idle] /\ request = Idle
    /\ stranded = {}

-----------------------------------------------------------------------------
(* An import: one at a time (_IMPORT_LOCK), the rows in one transaction. *)

\* Had imports not taken turns.
NoLock == TRUE

LockIsFree == \A j \in Jobs : import[j] = Idle

\* _plan: a clip with a row must have its checksum, or the import fails before it writes.
PlanImport(j, clips, cut) ==
    /\ import[j] = Idle /\ LockIsFree
    /\ \A c \in clips \cap Rows : rows[c] = cut
    /\ \E e \in AllEpisodes :
         /\ clips # {} /\ clips \subseteq ClipsOf(e)
         /\ import' = [import EXCEPT ![j] =
                [at |-> "storing", ep |-> e, cut |-> cut, known |-> e \in episodes,
                 todo |-> clips \ Rows, inserted |-> {}]]
    /\ UNCHANGED <<rows, episodes, gold, store, request, stranded>>

\* _store_clip_and_peaks, then the row, which waits for the commit; its episode's row must
\* still be there.
StoreClip(j, c) ==
    LET mine == import[j]
        next == [mine EXCEPT !.todo = mine.todo \ {c}, !.inserted = mine.inserted \cup {c}]
    IN  /\ mine # Idle /\ c \in mine.todo
        /\ store' = [store EXCEPT ![c] = mine.cut]
        /\ stranded' = stranded \ {c}
        /\ import' = [import EXCEPT ![j] = IF mine.known /\ mine.ep \notin episodes THEN Idle ELSE next]
        /\ UNCHANGED <<rows, episodes, gold, request>>

\* Had the rows been committed before the clips were stored.
CommitBeforeStoring(j) ==
    /\ import[j] # Idle
    /\ rows' = [c \in Clips |-> IF c \in import[j].inserted \cup import[j].todo THEN import[j].cut ELSE rows[c]]
    /\ episodes' = episodes \cup {import[j].ep}
    /\ import' = [import EXCEPT ![j] = Idle]
    /\ UNCHANGED <<gold, store, request, stranded>>

\* The speaker turns, the queue and the commit of stage 6.
CommitImport(j) ==
    /\ import[j] # Idle /\ import[j].todo = {}
    /\ rows' = [c \in Clips |-> IF c \in import[j].inserted THEN import[j].cut ELSE rows[c]]
    /\ episodes' = IF import[j].known THEN episodes ELSE episodes \cup {import[j].ep}
    /\ import' = [import EXCEPT ![j] = Idle]
    /\ UNCHANGED <<gold, store, request, stranded>>

\* Anything in stage 6 raises: the rows go back, the objects stay.
RollBackImport(j) ==
    /\ import[j] # Idle /\ import' = [import EXCEPT ![j] = Idle]
    /\ UNCHANGED <<rows, episodes, gold, store, request, stranded>>

-----------------------------------------------------------------------------
(* Deletions, and the pot a clip is in. *)

\* delete_objects: as far as storage lets them go; a failure is only logged.
TakeObjects(clips) ==
    \E gone \in SUBSET clips : store' = [c \in Clips |-> IF c \in gone THEN None ELSE store[c]]

\* The commit of a deletion.
DropRows(clips) ==
    /\ rows' = [c \in Clips |-> IF c \in clips THEN None ELSE rows[c]]
    /\ gold' = gold \ clips

\* delete_segment: the objects first, the row at the end of the request.
DeleteSegment(c) ==
    /\ request = Idle /\ c \in Rows
    /\ request' = [at |-> "segment", clips |-> {c}]
    /\ TakeObjects({c})
    /\ UNCHANGED <<rows, episodes, gold, import, stranded>>

CommitDeleteSegment ==
    /\ request.at = "segment" /\ request' = Idle
    /\ DropRows(request.clips)
    /\ UNCHANGED <<episodes, store, import, stranded>>

\* bulk_delete_segments: refused if a clip is gold; the objects go after the commit.
BulkDelete(clips) ==
    /\ request = Idle /\ clips # {} /\ clips \subseteq Rows \ gold
    /\ request' = [at |-> "bulk", clips |-> clips]
    /\ UNCHANGED <<rows, episodes, gold, store, import, stranded>>

CommitBulkDelete ==
    /\ request.at = "bulk" /\ request' = [request EXCEPT !.at = "deleted"]
    /\ DropRows(request.clips)
    /\ UNCHANGED <<episodes, store, import, stranded>>

\* By key: an object an import has put there since goes too.
DeleteBulkObjects ==
    /\ request.at = "deleted" /\ request' = Idle
    /\ TakeObjects(request.clips)
    /\ stranded' = stranded \cup request.clips
    /\ UNCHANGED <<rows, episodes, gold, import>>

\* delete_episode: the objects, by key and by directory, then the row and all that hangs on it.
DeleteEpisode(e) ==
    /\ request = Idle /\ e \in episodes
    /\ request' = [at |-> "episode", clips |-> ClipsOf(e)]
    /\ TakeObjects(ClipsOf(e))
    /\ UNCHANGED <<rows, episodes, gold, import, stranded>>

\* Waits for an import that has put clips under this episode's row (the foreign key's lock).
CommitDeleteEpisode ==
    /\ request.at = "episode" /\ request' = Idle
    /\ \E e \in AllEpisodes :
         /\ request.clips = ClipsOf(e)
         /\ \A j \in Jobs : import[j] # Idle /\ import[j].ep = e => import[j].inserted = {}
         /\ episodes' = episodes \ {e}
    /\ DropRows(request.clips)
    /\ UNCHANGED <<store, import, stranded>>

\* A label's tier or api/pots.py moves a clip into gold.
IntoGold(c) ==
    /\ c \in Rows /\ gold' = gold \cup {c}
    /\ UNCHANGED <<rows, episodes, store, import, request, stranded>>

\* The server dies: no open transaction commits, and storage stays as it is.
Die ==
    /\ import' = [j \in Jobs |-> Idle] /\ request' = Idle
    /\ stranded' = IF request.at \in {"segment", "episode"} THEN stranded \cup request.clips ELSE stranded
    /\ UNCHANGED <<rows, episodes, gold, store>>

CorpusNext ==
    \/ \E j \in Jobs :
         \/ \E clips \in SUBSET Clips, cut \in Cuts : PlanImport(j, clips, cut)
         \/ \E c \in Clips : StoreClip(j, c)
         \/ CommitImport(j)
         \/ RollBackImport(j)
    \/ \E c \in Clips : DeleteSegment(c)
    \/ \E clips \in SUBSET Clips : BulkDelete(clips)
    \/ \E e \in AllEpisodes : DeleteEpisode(e)
    \/ CommitDeleteSegment \/ CommitBulkDelete \/ DeleteBulkObjects \/ CommitDeleteEpisode
    \/ \E c \in Clips : IntoGold(c)
    \/ Die

CorpusSpec == CorpusInit /\ [][CorpusNext]_corpusVars

-----------------------------------------------------------------------------
\* The object under a clip's key is the clip its row was imported from, whatever was uploaded,
\* rolled back, cut again or deleted in between: "an imported clip is never replaced".
ObjectMatchesRow == \A c \in Rows : store[c] # None => store[c] = rows[c]

\* A clip in the corpus can be played unless a deletion is under way or went wrong: an import
\* that fails, is repeated or dies never leaves a row without its object.
ClipIsPlayable == \A c \in Rows :
    store[c] = None => c \in stranded \/ (request.at \in {"segment", "episode"} /\ c \in request.clips)
=============================================================================
