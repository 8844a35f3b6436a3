----------------------------- MODULE RunEvents -----------------------------
(***************************************************************************)
(* The vocabulary of the Harness Journal: Contracts, submitted Events,     *)
(* admitted Events, the Run status each Event kind leads to, and what a    *)
(* well-formed batch of Events is.  Pure operators, shared by the detailed *)
(* Journal and by the ledger it implements.                                *)
(***************************************************************************)
EXTENDS Integers, Sequences

CONSTANTS
    Runs,       \* Harness Run identities
    Callers,    \* (caller id, caller run reference) pairs
    EventIds,   \* Event identities
    Objects,    \* digests of content-addressed objects
    Contracts,  \* the Run Contracts callers may submit
    Batches,    \* the Event batches callers may submit
    None        \* "absent", a NULL column

(* Event kinds, by their effect on the Run status.  "work" stands for the
   kinds that (re)activate a Run, "trace" for the two kinds that preserve
   its status (trace-recorded and run-recovery-recorded).                  *)
TerminalKinds == {"stopped", "completed", "failed"}
PreservingKinds == {"trace"}
Kinds == {"created", "work", "paused"} \union PreservingKinds \union TerminalKinds

Statuses == {"created", "active", "paused", "stopped", "completed", "failed"}
TerminalStatuses == {"stopped", "completed", "failed"}

StatusAfter(kind) == IF kind = "work" THEN "active" ELSE kind

(* A Contract: its Run and caller binding, the identity of the creation
   Event derived from its digest, the object(s) that store it, and its
   creation time.                                                          *)
Contract == [run: Runs, caller: Callers, creation: EventIds, obj: Objects, at: Nat]

(* An Event as a caller submits it, and as the Journal admits it.          *)
Write == [id: EventIds, kind: Kinds \ {"created"}, payload: Objects,
          refs: SUBSET Objects, cause: EventIds \union {None}, at: Nat]
Event == [id: EventIds, kind: Kinds, payload: Objects, refs: SUBSET Objects,
          cause: EventIds \union {None}, at: Nat, rev: Nat \ {0}]

ASSUME NoneAssumption == None \notin Contracts \union EventIds

(* A batch is a non-empty sequence of Events with distinct identities.     *)
ASSUME BatchesAssumption ==
    \A b \in Batches :
        /\ b \in Seq(Write)
        /\ b # <<>>
        /\ \A i, j \in DOMAIN b : b[i].id = b[j].id => i = j

(* Creation identities are digests of Contracts: two Contracts never share
   one, and no caller submits an Event under one.                          *)
ASSUME ContractsAssumption ==
    /\ Contracts \subseteq Contract
    /\ \A c, d \in Contracts : c.creation = d.creation => c = d
    /\ \A c \in Contracts, b \in Batches : \A i \in DOMAIN b : b[i].id # c.creation

(* The Events of batch b when the first one takes revision n + 1.          *)
Stamped(b, n) ==
    [i \in 1 .. Len(b) |->
        [id |-> b[i].id, kind |-> b[i].kind, payload |-> b[i].payload,
         refs |-> b[i].refs, cause |-> b[i].cause, at |-> b[i].at, rev |-> n + i]]

CreationEvent(c) ==
    [id |-> c.creation, kind |-> "created", payload |-> c.obj, refs |-> {},
     cause |-> None, at |-> c.at, rev |-> 1]

Ids(s) == {s[i].id : i \in DOMAIN s}

(* Replaying the Events of s from status `from` ends in status `to`: the
   last Event that does not preserve the status decides.                   *)
ReplaysTo(s, from, to) ==
    \/ /\ \A i \in DOMAIN s : s[i].kind \in PreservingKinds
       /\ to = from
    \/ \E i \in DOMAIN s :
          /\ s[i].kind \notin PreservingKinds
          /\ \A j \in DOMAIN s : j > i => s[j].kind \in PreservingKinds
          /\ to = StatusAfter(s[i].kind)

(* Only the last Event of s may end the Run.                               *)
TerminalOnlyLast(s) ==
    \A i \in DOMAIN s : s[i].kind \in TerminalKinds => i = Len(s)

TimesMonotone(s) == \A i, j \in DOMAIN s : i <= j => s[i].at <= s[j].at

(* Every cause in batch b is an Event of the history s or an earlier Event
   of the batch.                                                           *)
CausesKnown(b, s) ==
    \A i \in DOMAIN b :
        \/ b[i].cause = None
        \/ b[i].cause \in Ids(s)
        \/ \E j \in DOMAIN b : j < i /\ b[j].id = b[i].cause
=============================================================================
