---------------------------- MODULE MCMaintenance ----------------------------
(***************************************************************************)
(* Small Journals that an operator maintains with the doctor or with       *)
(* backups: they share nothing but what they read, so that TLC need not go *)
(* on where both are at work.                                              *)
(***************************************************************************)
EXTENDS MCHarnessJournal, Maintenance

OneAtATime == audit = None \/ backup = None
=============================================================================
