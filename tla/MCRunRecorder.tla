---------------------------- MODULE MCRunRecorder ----------------------------
(***************************************************************************)
(* Two processes that record what they made of one Run.                    *)
(***************************************************************************)
EXTENDS RunRecorder, TLC

CONSTANTS w1, w2, paused, ended, failed, n1

Symmetry == Permutations(Workers)
=============================================================================
