--------------------------- MODULE MCProviderCall ---------------------------
(***************************************************************************)
(* Provider Calls for TLC: three process instances of one Run, enough for  *)
(* a claim that expires, its stale holder, and a worker that crashed.      *)
(***************************************************************************)
EXTENDS ProviderCall, TLC

CONSTANTS w1, w2, w3

Symmetry == Permutations(Workers)
=============================================================================
