----------------------------- MODULE StoreBackup -----------------------------
(***************************************************************************)
(* Backup, verification and restore of an authority root (store_ops.py)    *)
(* beside the workers of HarnessJournal.  The database is copied in one    *)
(* read transaction; the references of the live store are listed in a      *)
(* second, and their objects copied, which nobody changes or removes.      *)
(***************************************************************************)
EXTENDS HarnessJournal, SequencesExt

VARIABLE backup   \* the backup under way or last published, or None

(* A backup has the database it copied in `db` and both its manifest and its
   copied files in `objects`; `before` remembers the Events when it began.  *)

(* Table object_refs: filled by the transactions of create_run and
   append_events, not by put_object.  A Contract is the payload of its
   creation Event.                                                         *)
ObjectRefs(logs) ==
    UNION {UNION {{logs[r][i].payload} \union logs[r][i].refs : i \in DOMAIN logs[r]} :
             r \in Runs}

BackupInit == Init /\ backup = None

(* A free destination; the full doctor does not alarm.                     *)
Begin ==
    /\ backup # None => backup.at \in {"rejected", "restored"}
    /\ backup' = [at |-> "begun", before |-> log, db |-> None, objects |-> {}]

(* Mutant: the Events are not those of the same transaction as the rows.   *)
CopyDatabaseTorn ==
    /\ backup # None /\ backup.at = "begun"
    /\ backup' = [backup EXCEPT !.at = "copied",
                                !.db = [run |-> run, log |-> backup.before]]

CopyDatabase ==
    /\ backup # None /\ backup.at = "begun"
    /\ backup' = [backup EXCEPT !.at = "copied", !.db = [run |-> run, log |-> log]]

(* Mutant: the references were listed before the database was copied.      *)
CopyObjectsListedEarly ==
    /\ backup # None /\ backup.at = "copied"
    /\ backup' = [backup EXCEPT !.at = "published", !.objects = ObjectRefs(backup.before)]

(* The references of the live store, a second doctor, the rename.          *)
CopyObjects ==
    /\ backup # None /\ backup.at = "copied"
    /\ backup' = [backup EXCEPT !.at = "published", !.objects = ObjectRefs(log)]

(* Either doctor alarmed: nothing is published.                            *)
Abandon ==
    /\ backup # None /\ backup.at \in {"begun", "copied"}
    /\ backup' = None

(* verify_harness_backup, of what is published already.                    *)
Verify ==
    /\ backup # None /\ backup.at = "published"
    /\ backup' = [backup EXCEPT !.at = IF ObjectRefs(backup.db.log) = backup.objects
                                         THEN "verified" ELSE "rejected"]

(* The full doctor of the restored copy.                                   *)
DoctorAccepts(db, objects) ==
    /\ ObjectRefs(db.log) \subseteq objects
    /\ \A r \in Runs : IF db.run[r] = None THEN db.log[r] = <<>>
                                           ELSE HistoryAgrees(db.run[r], db.log[r])

Restore ==
    /\ backup # None /\ backup.at = "verified"
    /\ DoctorAccepts(backup.db, backup.objects)
    /\ backup' = [backup EXCEPT !.at = "restored"]

BackupStep == Begin \/ CopyDatabase \/ CopyObjects \/ Abandon \/ Verify \/ Restore

-----------------------------------------------------------------------------
Verified == backup # None /\ backup.at \in {"verified", "restored"}

(* A verified backup restores, whoever wrote while it was taken: its rows
   and Events are of one moment after it began, so that it has what was
   acknowledged before and nothing that did not happen, and it carries
   every object they reference and no other.                               *)
VerifiedRestores ==
    Verified =>
        /\ DoctorAccepts(backup.db, backup.objects)
        /\ backup.objects = ObjectRefs(backup.db.log)
        /\ \A r \in Runs : /\ IsPrefix(backup.before[r], backup.db.log[r])
                            /\ IsPrefix(backup.db.log[r], log[r])

(* The verification refuses a backup only because the store was written to
   after its database was copied.                                          *)
RejectionMeansRaced ==
    backup # None /\ backup.at = "rejected" => log # backup.db.log

=============================================================================
