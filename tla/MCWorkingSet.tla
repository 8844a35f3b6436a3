---------------------------- MODULE MCWorkingSet ----------------------------
(***************************************************************************)
(* A small Run whose Working Set two processes revise: one slot, one       *)
(* document and what the caller answered, beside the Provider Calls.       *)
(***************************************************************************)
EXTENDS WorkingSet, TLC

CONSTANTS w1, w2, a1, a2, s1, s2, d1
=============================================================================
