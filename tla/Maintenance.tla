---------------------------- MODULE Maintenance ----------------------------
(***************************************************************************)
(* A Journal that operators maintain while its workers write: doctor and   *)
(* backup read the store of HarnessJournal between any two transactions of *)
(* it, and of each other, and write nothing there.                         *)
(***************************************************************************)
EXTENDS JournalDoctor, StoreBackup

MaintenanceInit == DoctorInit /\ BackupInit

MaintenanceNext ==
    \/ Next /\ UNCHANGED <<audit, backup>>
    \/ DoctorStep /\ UNCHANGED <<jvars, backup>>
    \/ BackupStep /\ UNCHANGED <<jvars, audit>>

MaintenanceSpec == MaintenanceInit /\ [][MaintenanceNext]_<<jvars, audit, backup>>
=============================================================================
