----------------------------- MODULE MCToolStep -----------------------------
(***************************************************************************)
(* Tool steps for TLC: a batch of an exec and a read, worked through by    *)
(* two process instances whose clocks agree or differ.                     *)
(***************************************************************************)
EXTENDS ToolStep, TLC

CONSTANTS w1, w2

OneExec == {1}
Symmetry == Permutations(Workers)
=============================================================================
