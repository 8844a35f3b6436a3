-------------------------- MODULE MCHarnessJournal --------------------------
(***************************************************************************)
(* Small Journals for TLC.  RacingBatches: two workers on one Run submit   *)
(* batches that clash, overlap in part, pause, end the Run and go on after *)
(* its end.  RivalContracts: two Contracts compete for one Run, two for    *)
(* one caller binding, and CrossRunBatches reuse an Event identity or name *)
(* a cause across Runs.                                                    *)
(***************************************************************************)
EXTENDS HarnessJournal, TLC

CONSTANTS r1, r2, k1, k2, c1, c2, c3, e1, e2, e3, o1, o2, w1, w2

OneContract == {[run |-> r1, caller |-> k1, creation |-> c1, obj |-> o1, at |-> 0]}

RivalContracts ==
    OneContract \union
    {[run |-> r1, caller |-> k2, creation |-> c2, obj |-> o2, at |-> 0],
     [run |-> r2, caller |-> k2, creation |-> c3, obj |-> o1, at |-> 1]}

W(id, kind, payload, refs, cause, at) ==
    [id |-> id, kind |-> kind, payload |-> payload, refs |-> refs,
     cause |-> cause, at |-> at]

RacingBatches ==
    {<<W(e1, "work", o1, {}, None, 1)>>,
     <<W(e1, "paused", o1, {o2}, None, 1), W(e2, "trace", o1, {}, e1, 2)>>,
     <<W(e2, "trace", o1, {}, e1, 1), W(e3, "completed", o2, {}, e2, 2)>>,
     <<W(e3, "stopped", o1, {}, None, 1), W(e2, "work", o1, {}, None, 1)>>,
     <<W(e3, "failed", o1, {}, None, 0)>>}

CrossRunBatches ==
    {<<W(e1, "work", o1, {}, None, 1)>>,
     <<W(e2, "failed", o1, {}, e1, 1)>>}

Symmetry == Permutations(Workers)
=============================================================================
