----------------------------- MODULE MCLabeling -----------------------------
(***************************************************************************)
(* TLC instance of Labeling.                                               *)
(***************************************************************************)
EXTENDS Labeling, TLC

MCRequests == Permutations(Requests)
=============================================================================
