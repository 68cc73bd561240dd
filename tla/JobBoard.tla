------------------------------ MODULE JobBoard ------------------------------
(***************************************************************************)
(* What the ingestion queue promises to whoever submits work to it, with   *)
(* no word of threads, lists, locks or files: where each job stands.       *)
(*                                                                         *)
(*   none     not submitted yet                                            *)
(*   line     accepted, and it will be started                             *)
(*   run      a worker runs it                                             *)
(*   closing  its run is over, and the end is not on disk for certain      *)
(*   ended    over, and it stays over unless somebody asks again           *)
(*   cut      a crash came while it was in line or running, and nobody has *)
(*            taken it up since                                            *)
(*   off      cancelled while in line: nothing is promised of it           *)
(*   gone     deleted                                                      *)
(*                                                                         *)
(* IngestQueue implements it: see QueueRefinement.                         *)
(***************************************************************************)
EXTENDS Naturals, FiniteSets

CONSTANTS Jobs, Limit

VARIABLES
    phase,  \* job -> where it stands
    alive   \* the server is up

board == <<phase, alive>>

Phases == {"none", "line", "run", "closing", "ended", "cut", "off", "gone"}
In(places) == {j \in Jobs : phase[j] \in places}
Put(j, place) == phase' = [phase EXCEPT ![j] = place]

Init ==
    /\ phase = [j \in Jobs |-> "none"]
    /\ alive = TRUE

\* Accepting a job may make room for it: some that are over are dropped.
Over == In({"ended", "cut"})
Accept(j) ==
    /\ alive /\ phase[j] = "none"
    /\ \E old \in SUBSET Over :
        phase' = [i \in Jobs |-> IF i = j THEN "line" ELSE IF i \in old THEN "gone" ELSE phase[i]]
    /\ UNCHANGED alive

Drop ==
    /\ alive
    /\ \E old \in SUBSET Over :
        phase' = [i \in Jobs |-> IF i \in old THEN "gone" ELSE phase[i]]
    /\ UNCHANGED alive

Withdraw(j) == alive /\ phase[j] = "line" /\ Put(j, "off") /\ UNCHANGED alive
End(j)      == alive /\ phase[j] = "run" /\ Put(j, "closing") /\ UNCHANGED alive
Rest(j)     == alive /\ phase[j] = "closing" /\ Put(j, "ended") /\ UNCHANGED alive

Start(j) ==
    /\ alive /\ phase[j] = "line"
    /\ Cardinality(In({"run"})) < Limit
    /\ Put(j, "run")
    /\ UNCHANGED alive

\* What a crash makes of a job.  What had ended, and what was deleted, stays so; nothing that
\* was in line or running is forgotten.
AfterCrash(place) ==
    CASE place \in {"line", "run"} -> {"cut"}
      [] place = "closing" -> {"cut", "ended"}
      [] place = "off" -> {"cut", "ended", "gone"}
      [] OTHER -> {place}

Crash ==
    /\ alive /\ alive' = FALSE
    /\ phase' \in [Jobs -> Phases]
    /\ \A j \in Jobs : phase'[j] \in AfterCrash(phase[j])

Restart == ~alive /\ alive' = TRUE /\ UNCHANGED phase

\* Back in line: by a person, or by the restart for what was cut.
Again(j) ==
    /\ alive /\ phase[j] \in {"ended", "closing", "cut"}
    /\ Put(j, "line")
    /\ UNCHANGED alive

\* A cut job turns out to have been finished, or is given up.
LetBe(j) == alive /\ phase[j] = "cut" /\ Put(j, "ended") /\ UNCHANGED alive

Next ==
    \/ \E j \in Jobs : Accept(j) \/ Withdraw(j) \/ Again(j) \/ Start(j)
                       \/ End(j) \/ Rest(j) \/ LetBe(j)
    \/ Drop \/ Crash \/ Restart

Spec == Init /\ [][Next]_board
=============================================================================
