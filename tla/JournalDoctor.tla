--------------------------- MODULE JournalDoctor ---------------------------
(***************************************************************************)
(* The doctor (and every opening of a Run's continuity) beside the workers *)
(* of HarnessJournal: _validate_run_history reads the row of a Run and     *)
(* then its Events in two statements, outside any transaction, so a worker *)
(* may admit a batch between them.                                         *)
(***************************************************************************)
EXTENDS HarnessJournal

VARIABLE audit   \* the validation under way or last ended, or None

DoctorInit == Init /\ audit = None

(* The first statement, load_run.                                          *)
ReadRow(r) ==
    /\ audit # None => audit.verdict # "pending"
    /\ Exists(r)
    /\ audit' = [run |-> r, row |-> run[r], verdict |-> "pending"]

(* The second, list_run_events, and the comparison of the two.             *)
ReadEvents ==
    /\ audit # None /\ audit.verdict = "pending"
    /\ audit' = [audit EXCEPT !.verdict =
                   IF HistoryAgrees(audit.row, log[audit.run]) THEN "healthy" ELSE "corrupt"]

DoctorStep == (\E r \in Runs : ReadRow(r)) \/ ReadEvents

-----------------------------------------------------------------------------
(* A Run nobody writes to never alarms the doctor: if it raised, the row
   has moved on since it was read.                                         *)
AlarmMeansRaced ==
    audit # None /\ audit.verdict = "corrupt" =>
        run[audit.run].revision > audit.row.revision

=============================================================================
