--------------------------- MODULE MCRepairBridge ---------------------------
(* A repair of six Tool calls, the fewest that complete one by edits.         *)
EXTENDS RepairBridge

=============================================================================
