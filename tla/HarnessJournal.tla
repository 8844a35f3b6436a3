--------------------------- MODULE HarnessJournal ---------------------------
(***************************************************************************)
(* The SQLite Journal and content-addressed store of the Harness           *)
(* (src/src/ordivon_harness/sqlite_store.py), used by several workers at   *)
(* once.  One action is one BEGIN IMMEDIATE transaction of the code, or a  *)
(* step outside any: publishing objects and fixing the batch of a request. *)
(* A worker is one process instance; a crashed worker is one that takes no *)
(* further step, its handle and request being private to it.  A lost       *)
(* answer is a Submit the worker repeats.                                  *)
(*                                                                         *)
(* A definition whose comment says "Mutant" is a plausible bug of the code *)
(* below it; the mutation runs put it in the place of the definition that  *)
(* follows, to see that a property notices.                                *)
(***************************************************************************)
EXTENDS RunEvents

CONSTANTS
    Workers,   \* process instances: each is its own lease owner
    Readings,  \* clock readings workers may pass in
    TTL        \* lease time to live

ASSUME TimeAssumption == Readings \subseteq Nat /\ TTL \in Nat \ {0}

VARIABLES
    run,     \* [Runs -> row of table runs, or None]
    log,     \* [Runs -> rows of table run_events, in sequence order]
    lease,   \* [Runs -> row of table run_leases, or None]
    cas,     \* objects published in the objects/ directory
    hand,    \* [Workers -> the lease handle the worker keeps, or None]
    req,     \* [Workers -> the append_events request it (re)submits, or None]
    reply    \* [Workers -> the last answer it was given, or None]

jvars == <<run, log, lease, cas, hand, req, reply>>

-----------------------------------------------------------------------------
Row == [contract: Contracts, status: Statuses, revision: Nat \ {0},
        updated: Nat, terminal: EventIds \union {None}]
Lease == [run: Runs, owner: Workers, generation: Nat \ {0},
          rev: Nat \ {0}, expires: Nat]
Request == [run: Runs, batch: Batches, expected: Nat \ {0}]
Results == {"created", "existing", "refused"}
Reply == [op: {"create"}, to: Contracts, result: Results]
         \union [op: {"append"}, to: Request, result: Results]

(* None is no row, lease, request or reply.                                *)
ASSUME NullAssumption ==
    None \notin Row /\ None \notin Lease /\ None \notin Request /\ None \notin Reply

Exists(r) == run[r] # None
Admitted(r) == Ids(log[r])
AllAdmitted == UNION {Admitted(r) : r \in Runs}

Answer(w, op, to, result) ==
    reply' = [reply EXCEPT ![w] = [op |-> op, to |-> to, result |-> result]]

Init ==
    /\ run = [r \in Runs |-> None]
    /\ log = [r \in Runs |-> <<>>]
    /\ lease = [r \in Runs |-> None]
    /\ cas = {}
    /\ hand = [w \in Workers |-> None]
    /\ req = [w \in Workers |-> None]
    /\ reply = [w \in Workers |-> None]

-----------------------------------------------------------------------------
(* create_run.  The Contract object is published before the transaction,
   so it stays published when the transaction refuses.                     *)
CreateMatches(c) ==
    /\ run[c.run].contract = c
    /\ run[c.run].revision = 1
    /\ run[c.run].status = "created"

CallerBound(c) == \E r \in Runs : Exists(r) /\ run[r].contract.caller = c.caller

(* Mutant: the row forgets the time of its creation.                       *)
NewRowEpoch(c) == [contract |-> c, status |-> "created", revision |-> 1,
                   updated |-> 0, terminal |-> None]

NewRow(c) == [contract |-> c, status |-> "created", revision |-> 1,
              updated |-> c.at, terminal |-> None]

CreateNew(w, c) ==
    /\ ~Exists(c.run) /\ ~CallerBound(c)
    /\ cas' = cas \union {c.obj}
    /\ run' = [run EXCEPT ![c.run] = NewRow(c)]
    /\ log' = [log EXCEPT ![c.run] = <<CreationEvent(c)>>]
    /\ Answer(w, "create", c, "created")
    /\ UNCHANGED <<lease, hand, req>>

CreateAgain(w, c) ==
    /\ Exists(c.run) \/ CallerBound(c)
    /\ cas' = cas \union {c.obj}
    /\ Answer(w, "create", c,
              IF Exists(c.run) /\ CreateMatches(c) THEN "existing" ELSE "refused")
    /\ UNCHANGED <<run, log, lease, hand, req>>

(* put_object: publish an object a later Event will reference.             *)
PutObject(o) ==
    /\ o \notin cas
    /\ cas' = cas \union {o}
    /\ UNCHANGED <<run, log, lease, hand, req, reply>>

-----------------------------------------------------------------------------
(* acquire_run_lease.  The Journal reads no clock: `seen` is its now_ms
   argument, whatever the caller's clock said whenever it looked.          *)

(* Mutant: ended Runs can be leased.                                       *)
LeasableEvenEnded(r) == Exists(r)

Leasable(r) == Exists(r) /\ run[r].status \notin TerminalStatuses

Reacquire(w, r) ==
    /\ Leasable(r)
    /\ lease[r] # None
    /\ \E seen \in Readings : lease[r].expires > seen
    /\ lease[r].owner = w /\ lease[r].rev = run[r].revision
    /\ hand' = [hand EXCEPT ![w] = lease[r]]
    /\ UNCHANGED <<run, log, lease, cas, req, reply>>

NewLease(w, r, seen) ==
    [run |-> r, owner |-> w,
     generation |-> IF lease[r] = None THEN 1 ELSE lease[r].generation + 1,
     rev |-> run[r].revision, expires |-> seen + TTL]

Acquire(w, r) ==
    /\ Leasable(r)
    /\ \E seen \in Readings :
          /\ lease[r] # None => lease[r].expires <= seen
          /\ lease' = [lease EXCEPT ![r] = NewLease(w, r, seen)]
          /\ hand' = [hand EXCEPT ![w] = NewLease(w, r, seen)]
    /\ UNCHANGED <<run, log, cas, req, reply>>

(* release_run_lease deletes the row only if it still is this exact lease;
   the worker may go on using its (now stale) handle.                      *)
Release(w) ==
    /\ hand[w] # None
    /\ lease' = [lease EXCEPT ![hand[w].run] = IF @ = hand[w] THEN None ELSE @]
    /\ UNCHANGED <<run, log, cas, hand, req, reply>>

-----------------------------------------------------------------------------
(* append_events, first half: the caller fixes its batch and the revision
   it expects, that of its lease or one it has just read; the payloads are
   published and every other referenced object must already be there.  A
   new request is a new question: the last answer is forgotten.            *)

(* Mutant: only the first payload of a batch is published.                 *)
FirstPayload(b) == {b[1].payload}

Payloads(b) == {b[i].payload : i \in DOMAIN b}

Prepare(w, r, b) ==
    /\ hand[w] # None
    /\ \A i \in DOMAIN b : b[i].refs \subseteq cas
    /\ \E n \in {hand[w].rev} \union (IF Exists(r) THEN {run[r].revision} ELSE {}) :
          req' = [req EXCEPT ![w] = [run |-> r, batch |-> b, expected |-> n]]
    /\ reply' = [reply EXCEPT ![w] = None]
    /\ cas' = cas \union Payloads(b)
    /\ UNCHANGED <<run, log, lease, hand>>

(* append_events, second half: the transaction, under the lease handle the
   worker holds and a reading of the clock made before it.  Submitting the
   same request again is the retry after a lost answer.                    *)

(* The batch is stored exactly where the request says (_require_exact_event
   for each of its Events).                                                *)
StoredExactly(q) ==
    /\ q.expected + Len(q.batch) <= Len(log[q.run])
    /\ \A i \in 1 .. Len(q.batch) :
          log[q.run][q.expected + i] = Stamped(q.batch, q.expected)[i]

LeaseExact(q, l) ==
    /\ lease[l.run] = l
    /\ \E seen \in Readings : l.expires > seen
    /\ l.run = q.run
    /\ l.rev = q.expected

(* Mutant: times are compared inside the batch only.                       *)
BatchFollowsUntimed(q) ==
    /\ TimesMonotone(q.batch)
    /\ CausesKnown(q.batch, log[q.run])
    /\ TerminalOnlyLast(q.batch)

(* Mutant: causes are not looked up.                                       *)
BatchFollowsUncaused(q) ==
    /\ TimesMonotone(q.batch)
    /\ \A i \in DOMAIN q.batch : q.batch[i].at >= run[q.run].updated
    /\ TerminalOnlyLast(q.batch)

BatchFollows(q) ==
    /\ TimesMonotone(q.batch)
    /\ \A i \in DOMAIN q.batch : q.batch[i].at >= run[q.run].updated
    /\ CausesKnown(q.batch, log[q.run])
    /\ TerminalOnlyLast(q.batch)

Admissible(q, l) ==
    /\ Exists(q.run)
    /\ run[q.run].revision = q.expected
    /\ run[q.run].status \notin TerminalStatuses
    /\ LeaseExact(q, l)
    /\ BatchFollows(q)

(* Mutant: an identity admitted in another Run goes unnoticed.             *)
SeenInRun(q) == Ids(q.batch) \intersect Admitted(q.run) # {}

SeenBefore(q) == Ids(q.batch) \intersect AllAdmitted # {}

SubmitNew(w) ==
    /\ req[w] # None
    /\ LET q == req[w]
           b == q.batch
           final == b[Len(b)]
       IN /\ ~SeenBefore(q)
          /\ Admissible(q, hand[w])
          /\ \E status \in Statuses :
                /\ ReplaysTo(b, run[q.run].status, status)
                /\ run' = [run EXCEPT ![q.run] =
                      [contract |-> @.contract, status |-> status,
                       revision |-> q.expected + Len(b), updated |-> final.at,
                       terminal |-> IF status \in TerminalStatuses
                                      THEN final.id ELSE None]]
          /\ log' = [log EXCEPT ![q.run] = @ \o Stamped(b, q.expected)]
          /\ lease' = [lease EXCEPT ![q.run] = None]
          /\ Answer(w, "append", q, "created")
    /\ UNCHANGED <<cas, hand, req>>

LeaseLate(w) == \E seen \in Readings : hand[w].expires <= seen

(* Mutant: one known identity is taken for the whole batch.                *)
SubmitReplayLoose(w) ==
    /\ req[w] # None
    /\ SeenBefore(req[w])
    /\ Answer(w, "append", req[w], "existing")
    /\ UNCHANGED <<run, log, lease, cas, hand, req>>

(* The whole batch is there already: the answer was lost, not the write.   *)
SubmitReplay(w) ==
    /\ req[w] # None
    /\ SeenBefore(req[w])
    /\ StoredExactly(req[w])
    /\ Answer(w, "append", req[w], "existing")
    /\ UNCHANGED <<run, log, lease, cas, hand, req>>

(* Mutant: the lease is examined before the replay.                        *)
SubmitRefusedEarly(w) ==
    /\ req[w] # None
    /\ LeaseLate(w) \/ ~Admissible(req[w], hand[w])
    /\ Answer(w, "append", req[w], "refused")
    /\ UNCHANGED <<run, log, lease, cas, hand, req>>

SubmitRefused(w) ==
    /\ req[w] # None
    /\ IF SeenBefore(req[w])
         THEN ~StoredExactly(req[w])
         ELSE LeaseLate(w) \/ ~Admissible(req[w], hand[w])
    /\ Answer(w, "append", req[w], "refused")
    /\ UNCHANGED <<run, log, lease, cas, hand, req>>

Next ==
    \/ \E o \in Objects : PutObject(o)
    \/ \E w \in Workers :
          \/ \E c \in Contracts : CreateNew(w, c) \/ CreateAgain(w, c)
          \/ \E r \in Runs : Reacquire(w, r) \/ Acquire(w, r)
          \/ Release(w)
          \/ \E r \in Runs, b \in Batches : Prepare(w, r, b)
          \/ SubmitNew(w) \/ SubmitReplay(w) \/ SubmitRefused(w)

Spec == Init /\ [][Next]_jvars

-----------------------------------------------------------------------------
TypeOK ==
    /\ run \in [Runs -> Row \union {None}]
    /\ log \in [Runs -> Seq(Event)]
    /\ lease \in [Runs -> Lease \union {None}]
    /\ cas \subseteq Objects
    /\ hand \in [Workers -> Lease \union {None}]
    /\ req \in [Workers -> Request \union {None}]
    /\ reply \in [Workers -> Reply \union {None}]

(* What doctor and validate_run_history recompute from the Events of a Run
   is what its projection row says: contiguous revisions from 1, creation
   first, times that never regress, the replayed status, nothing after a
   terminal Event, and its identity in the row.                            *)
HistoryAgrees(row, s) ==
    /\ s # <<>>
    /\ s[1] = CreationEvent(row.contract)
    /\ \A i \in DOMAIN s : s[i].rev = i
    /\ TimesMonotone(s)
    /\ TerminalOnlyLast(s)
    /\ ReplaysTo(s, "created", row.status)
    /\ row.revision = Len(s)
    /\ row.updated = s[Len(s)].at
    /\ row.terminal = IF row.status \in TerminalStatuses THEN s[Len(s)].id ELSE None

ProjectionMatchesHistory ==
    \A r \in Runs : IF Exists(r) THEN HistoryAgrees(run[r], log[r]) ELSE log[r] = <<>>

(* No Event identity is admitted twice, in one Run or in two, however often
   requests are retried or raced (append_events' replay check).            *)
AdmittedOnce ==
    \A r, s \in Runs : \A i \in DOMAIN log[r], j \in DOMAIN log[s] :
        log[r][i].id = log[s][j].id => r = s /\ i = j

(* A row of run_leases always fences the current head of a Run that can
   still go on: an admission leaves no lease on the revision it ended.     *)
LeasePinsHead ==
    \A r \in Runs : lease[r] # None =>
        /\ Exists(r) /\ run[r].status \notin TerminalStatuses
        /\ lease[r].run = r /\ lease[r].rev = run[r].revision

(* Whatever the Journal references is in the object store: objects are
   published before the transaction that references them.                  *)
ReferencesPublished ==
    \A r \in Runs :
        /\ Exists(r) => run[r].contract.obj \in cas
        /\ \A i \in DOMAIN log[r] :
              log[r][i].payload \in cas /\ log[r][i].refs \subseteq cas

(* One caller reference is bound to at most one Run (caller_bindings).     *)
OneRunPerCaller ==
    \A r, s \in Runs :
        Exists(r) /\ Exists(s) /\ run[r].contract.caller = run[s].contract.caller
        => r = s

(* An acknowledged batch stays where it was acknowledged, whoever writes
   afterwards, and an acknowledged creation stays the Run's Contract.      *)
AcknowledgedIsDurable ==
    \A w \in Workers :
        reply[w] # None /\ reply[w].result # "refused" =>
            IF reply[w].op = "create"
              THEN Exists(reply[w].to.run) /\ run[reply[w].to.run].contract = reply[w].to
              ELSE StoredExactly(reply[w].to)

(* A resubmitted batch is refused only if it is not stored: a worker whose
   answer was lost never learns "refused" about a write that happened,
   even after its lease is gone and the Run moved on or ended.             *)
RefusalMeansAbsent ==
    [][\A w \in Workers :
         req[w] # None /\ reply'[w] # reply[w]
            /\ reply'[w] = [op |-> "append", to |-> req[w], result |-> "refused"]
            => ~StoredExactly(req[w])]_jvars

(* The Journal implements the ledger its callers rely on.                  *)
Ledger == INSTANCE RunLedger
            WITH bound <- [r \in Runs |-> IF run[r] = None THEN None ELSE run[r].contract],
                 ledger <- log

ImplementsLedger == Ledger!Spec
=============================================================================
