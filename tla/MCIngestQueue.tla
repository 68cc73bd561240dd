--------------------------- MODULE MCIngestQueue ---------------------------
(***************************************************************************)
(* TLC instance of IngestQueue: every job ingests an episode of its own.   *)
(***************************************************************************)
EXTENDS IngestQueue, QueueRefinement, TLC

MCEpisodeOf  == [j \in Jobs |-> j]
MCWorkers    == Permutations(Workers)

\* Two workers have jobs at the same time only before the server has crashed.
MCBound == crashes = 0 \/ Cardinality({w \in Workers : run[w] # Idle}) <= 1
=============================================================================
