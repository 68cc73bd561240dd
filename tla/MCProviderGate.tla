--------------------------- MODULE MCProviderGate ---------------------------
(***************************************************************************)
(* TLC instance of ProviderGate.                                           *)
(***************************************************************************)
EXTENDS ProviderGate, TLC

MCCallers == Permutations(Callers)
=============================================================================
