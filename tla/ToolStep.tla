------------------------------ MODULE ToolStep ------------------------------
(***************************************************************************)
(* The durable Tool step protocol: several process instances work through  *)
(* the Tool calls of one Provider result, in order, each call prepared in  *)
(* the Journal, dispatched to the Runtime under its fence, and receipted   *)
(* (sqlite_runtime_bridge.py, the Tool methods of sqlite_run_store.py, and *)
(* the batch recovery of loop.py and run_recovery.py).                     *)
(*                                                                         *)
(* One action is one step of a worker between two reads or writes of the   *)
(* Journal or of the Runtime; a write under a Run lease is one step with   *)
(* the reads made under it (LeasesPinHeads).  A crash is a worker that     *)
(* takes no further step.  The Runtime is outside: a request it was sent   *)
(* may land whenever, or never, and its answer may be lost.                *)
(***************************************************************************)
EXTENDS Integers, Sequences, FiniteSets

CONSTANTS
    Workers,   \* process instances
    Size,      \* Tool calls in the batch that lower to the Runtime: the others are
               \* rejected without a step, by every worker alike
    Execs,     \* those lowered to workspace.exec; the others only read
    Times,     \* clock readings an intent may be created at
    None

ASSUME BatchAssumption == Size \in Nat \ {0} /\ Execs \subseteq 1 .. Size
ASSUME TimesAssumption == Times \subseteq Nat /\ Times # {}

VARIABLES
    rev,       \* revision of the Run, counted from the start of the batch
    prepared,  \* intents with a tool-step-prepared Event
    head,      \* the current Tool step, also the one the Snapshot holds open
    receipts,  \* receipts recorded, with the intents they close
    ended,     \* a terminal Event is recorded
    me,        \* [Workers -> where the loop stands and what it remembers]
    jobs       \* the requests sent to the Runtime, in order

vars == <<rev, prepared, head, receipts, ended, me, jobs>>

-----------------------------------------------------------------------------
Calls == 1 .. Size
(* An intent is its call and its creation time; the client request identity
   depends on the call only.                                                *)
Intent == [call: Calls, at: Times]
Statuses == {"observed", "rejected", "unknown", "cancelled"}
Receipt == [intent: Intent, status: Statuses]
Job == [intent: Intent, by: Workers, state: {"flying", "landed", "refused"}]
Step == [intent: Intent, rev: Nat \ {0}, receipt: Statuses \union {None}]

ASSUME NullAssumption == None \notin Intent \union Step \union Statuses

Places == {"new", "ready", "preparing", "prepared", "fenced", "out", "lookup",
           "recover", "record", "stop", "gone"}

(* What a loop remembers: where it stands, its call, the revision it read,
   its intent, and the outcome it is to record or last had.                *)
Loop == [at: Places, call: 1 .. Size + 1, seen: Nat,
         kept: Intent \union {None}, status: Statuses \union {None}]

(* A loop that stopped remembers nothing of the batch.                      *)
Blank(place) == [at |-> place, call |-> 1, seen |-> 0, kept |-> None, status |-> None]

Go(w, place) == me' = [me EXCEPT ![w].at = place]
Quit(w, place) == me' = [me EXCEPT ![w] = Blank(place)]
Answered(w, status) == me' = [me EXCEPT ![w].at = "record", ![w].status = status]

(* retain_tool_observation, then the next pending call or the next turn.    *)
(* Mutant: an unknown outcome does not stop the batch.                      *)
OnwardHeedless(m, status) ==
    [m EXCEPT !.status = status, !.call = @ + 1,
              !.at = IF m.call = Size THEN "gone" ELSE "ready"]

Onward(m, status) ==
    IF status \in {"observed", "rejected"}
      THEN [m EXCEPT !.status = status, !.call = @ + 1,
                     !.at = IF m.call = Size THEN "gone" ELSE "ready"]
      ELSE Blank("stop")

Init ==
    /\ rev = 0
    /\ prepared = {}
    /\ head = None
    /\ receipts = {}
    /\ ended = FALSE
    /\ me = [w \in Workers |-> Blank("new")]
    /\ jobs = <<>>

-----------------------------------------------------------------------------
(* A worker has the batch: from the Provider result, live or replayed, while
   no step was prepared, or from the Snapshot, whose open step is the current
   one (_recover_tool_batch finds its call), which it recovers.             *)
Enter(w) ==
    /\ me[w].at = "new" /\ ~ended
    /\ me' = [me EXCEPT ![w].at = IF head = None THEN "ready" ELSE "recover",
                        ![w].call = IF head = None THEN 1 ELSE head.intent.call]
    /\ UNCHANGED <<rev, prepared, head, receipts, ended, jobs>>

(* The intent is created, and prepare_tool_step reads the Run's revision.   *)
Observe(w, t) ==
    /\ me[w].at = "ready"
    /\ me' = [me EXCEPT ![w].at = "preparing", ![w].seen = rev, ![w].status = None,
                        ![w].kept = [call |-> me[w].call, at |-> t]]
    /\ UNCHANGED <<rev, prepared, head, receipts, ended, jobs>>

(* prepare_tool_step, under a lease on the revision it read.  The identity
   of its Event is that of the intent, so an intent is prepared once.       *)
(* Mutant: an intent that is prepared already is taken for one's own.       *)
PrepareAgain(w) ==
    /\ me[w].at = "preparing" /\ ~ended
    /\ rev = me[w].seen
    /\ prepared' = prepared \union {me[w].kept}
    /\ head' = [intent |-> me[w].kept, rev |-> rev + 1, receipt |-> None]
    /\ rev' = rev + 1
    /\ me' = [me EXCEPT ![w].at = "prepared", ![w].seen = 0]
    /\ UNCHANGED <<receipts, ended, jobs>>

Prepare(w) ==
    /\ me[w].at = "preparing" /\ ~ended
    /\ rev = me[w].seen
    /\ me[w].kept \notin prepared
    /\ prepared' = prepared \union {me[w].kept}
    /\ head' = [intent |-> me[w].kept, rev |-> rev + 1, receipt |-> None]
    /\ rev' = rev + 1
    /\ me' = [me EXCEPT ![w].at = "prepared", ![w].seen = 0]
    /\ UNCHANGED <<receipts, ended, jobs>>

(* assert_dispatch_fence_current; the Runtime call is a step of its own.    *)
AssertFence(w) ==
    /\ me[w].at = "prepared"
    /\ head.intent = me[w].kept /\ head.rev = rev
    /\ Go(w, "fenced")
    /\ UNCHANGED <<rev, prepared, head, receipts, ended, jobs>>

(* A stop was requested after the preparation.                              *)
Decline(w) ==
    /\ me[w].at = "fenced"
    /\ Answered(w, "rejected")
    /\ UNCHANGED <<rev, prepared, head, receipts, ended, jobs>>

Dispatch(w) ==
    /\ me[w].at = "fenced"
    /\ jobs' = Append(jobs, [intent |-> me[w].kept, by |-> w, state |-> "flying"])
    /\ Go(w, "out")
    /\ UNCHANGED <<rev, prepared, head, receipts, ended>>

-----------------------------------------------------------------------------
(* The Runtime.  A request lands, becoming a Job; or is refused before it
   commits anything, and the worker told so; or stays on its way for ever.  *)
Land(i) ==
    /\ jobs[i].state = "flying"
    /\ jobs' = [jobs EXCEPT ![i].state = "landed"]
    /\ UNCHANGED <<rev, prepared, head, receipts, ended, me>>

Mine(w, i) == jobs[i].intent = me[w].kept /\ jobs[i].by = w

(* What the answer of a landed call is read as: _terminal_observation, or,
   of a read, also a rejection because the source is not the expected one.  *)
Readings(call) ==
    IF call \in Execs THEN {"observed", "cancelled", "unknown"}
                      ELSE {"observed", "rejected"}

Answer(w, status) ==
    /\ me[w].at = "out"
    /\ \E i \in DOMAIN jobs : Mine(w, i) /\ jobs[i].state = "landed"
    /\ status \in Readings(me[w].call)
    /\ Answered(w, status)
    /\ UNCHANGED <<rev, prepared, head, receipts, ended, jobs>>

(* commit_state is not_started or not_committed.                            *)
RejectUncommitted(w) ==
    /\ me[w].at = "out"
    /\ \E i \in DOMAIN jobs :
          /\ Mine(w, i) /\ jobs[i].state = "flying"
          /\ jobs' = [jobs EXCEPT ![i].state = "refused"]
    /\ Answered(w, "rejected")
    /\ UNCHANGED <<rev, prepared, head, receipts, ended>>

(* No usable answer: an exec is looked up, a read is never repeated.        *)
Uncertain(m) ==
    IF m.call \in Execs THEN [m EXCEPT !.at = "lookup"]
                        ELSE [m EXCEPT !.at = "record", !.status = "unknown"]

LoseAnswer(w) ==
    /\ me[w].at = "out"
    /\ me' = [me EXCEPT ![w] = Uncertain(@)]
    /\ UNCHANGED <<rev, prepared, head, receipts, ended, jobs>>

(* reconcile_current_tool_step(_with_call): a receipt is taken as it is;
   without one the step is reconciled, never dispatched.                    *)
Recover(w) ==
    /\ me[w].at = "recover"
    /\ head.intent.call = me[w].call
    /\ LET m == [me[w] EXCEPT !.kept = head.intent]
       IN me' = [me EXCEPT ![w] = IF head.receipt # None THEN Onward(m, head.receipt)
                                                         ELSE Uncertain(m)]
    /\ UNCHANGED <<rev, prepared, head, receipts, ended, jobs>>

(* _reconcile_by_client_request: only exactly one Job decides anything.     *)
Matches(w) == {i \in DOMAIN jobs : jobs[i].intent.call = me[w].call
                                   /\ jobs[i].state = "landed"}

(* Mutant: no Job means that nothing was started.                           *)
LookupOptimistic(w, status) ==
    /\ me[w].at = "lookup"
    /\ status = (IF Matches(w) = {} THEN "rejected" ELSE "observed")
    /\ Answered(w, status)
    /\ UNCHANGED <<rev, prepared, head, receipts, ended, jobs>>

(* Mutant: the lookup is repeated until there is one Job.                   *)
LookupPatient(w, status) ==
    /\ me[w].at = "lookup"
    /\ status \in Readings(me[w].call) /\ Cardinality(Matches(w)) = 1
    /\ Answered(w, status)
    /\ UNCHANGED <<rev, prepared, head, receipts, ended, jobs>>

Lookup(w, status) ==
    /\ me[w].at = "lookup"
    /\ \/ status = "unknown"
       \/ status \in Readings(me[w].call) /\ Cardinality(Matches(w)) = 1
    /\ Answered(w, status)
    /\ UNCHANGED <<rev, prepared, head, receipts, ended, jobs>>

-----------------------------------------------------------------------------
(* record_tool_step_receipt: the step must be current, and every receipt of
   this bridge is terminal, so it must have none.                           *)
(* Mutant: the receipt of another worker is replaced.                       *)
RecordOver(w) ==
    /\ me[w].at = "record" /\ ~ended
    /\ head.intent = me[w].kept
    /\ head' = [head EXCEPT !.receipt = me[w].status]
    /\ receipts' = receipts \union {[intent |-> me[w].kept, status |-> me[w].status]}
    /\ rev' = rev + 1
    /\ me' = [me EXCEPT ![w] = Onward(@, @.status)]
    /\ UNCHANGED <<prepared, ended, jobs>>

Record(w) ==
    /\ me[w].at = "record" /\ ~ended
    /\ head.intent = me[w].kept /\ head.receipt = None
    /\ head' = [head EXCEPT !.receipt = me[w].status]
    /\ receipts' = receipts \union {[intent |-> me[w].kept, status |-> me[w].status]}
    /\ rev' = rev + 1
    /\ me' = [me EXCEPT ![w] = Onward(@, @.status)]
    /\ UNCHANGED <<prepared, ended, jobs>>

(* record_result with the code the loop stopped with, whatever step is open. *)
Stop(w) ==
    /\ me[w].at = "stop" /\ ~ended
    /\ ended' = TRUE
    /\ rev' = rev + 1
    /\ Quit(w, "gone")
    /\ UNCHANGED <<prepared, head, receipts, jobs>>

(* The Run lease is held or was lost, the Run ended, the step is not the one
   expected, the fence expired, or a stop was requested: the loop stops; or
   its result is refused, and it leaves.                                    *)
(* Mutant: a refused receipt does not stop the loop.                        *)
RefuseHeedless(w) ==
    /\ me[w].at \in {"ready", "preparing", "prepared", "recover", "record", "stop"}
    /\ me' = [me EXCEPT ![w] = IF @.at = "record" THEN Onward(@, @.status)
                               ELSE Blank(IF @.at = "stop" THEN "gone" ELSE "stop")]
    /\ UNCHANGED <<rev, prepared, head, receipts, ended, jobs>>

Refuse(w) ==
    /\ me[w].at \in {"ready", "preparing", "prepared", "recover", "record", "stop"}
    /\ Quit(w, IF me[w].at = "stop" THEN "gone" ELSE "stop")
    /\ UNCHANGED <<rev, prepared, head, receipts, ended, jobs>>

WorkerStep(w) ==
    \/ \E t \in Times : Observe(w, t)
    \/ Prepare(w) \/ AssertFence(w) \/ Decline(w) \/ Dispatch(w)
    \/ \E status \in Statuses : Answer(w, status) \/ Lookup(w, status)
    \/ RejectUncommitted(w) \/ LoseAnswer(w) \/ Recover(w)
    \/ Record(w) \/ Stop(w) \/ Refuse(w)

Next ==
    \/ \E w \in Workers : Enter(w) \/ WorkerStep(w)
    \/ \E i \in DOMAIN jobs : Land(i)

Spec == Init /\ [][Next]_vars

(* Workers that do not crash go on; nothing is assumed of the Runtime.      *)
FairSpec == Spec /\ \A w \in Workers : WF_vars(WorkerStep(w))

-----------------------------------------------------------------------------
TypeOK ==
    /\ rev \in Nat
    /\ prepared \subseteq Intent
    /\ head \in Step \union {None}
    /\ receipts \subseteq Receipt
    /\ ended \in BOOLEAN
    /\ me \in [Workers -> Loop]
    /\ jobs \in Seq(Job)

(* A prepared step is consumed by one physical request, although any worker
   may find it in the Journal: the others reconcile it.                     *)
StepDispatchedOnce ==
    \A i, j \in DOMAIN jobs : jobs[i].intent = jobs[j].intent => i = j

(* A receipt says of the physical world what is true and stays true: an
   observed call ran, and the step of a rejected exec neither ran nor will,
   even if its worker was thought dead when others reconciled it.           *)
ReceiptsTruthful ==
    \A r \in receipts :
        /\ r.status = "observed" =>
              \E i \in DOMAIN jobs : jobs[i].intent.call = r.intent.call
                                     /\ jobs[i].state = "landed"
        /\ r.status = "rejected" /\ r.intent.call \in Execs =>
              \A i \in DOMAIN jobs : jobs[i].intent = r.intent => jobs[i].state = "refused"

(* A step has one receipt: the worker with the late answer and the one that
   reconciled meanwhile do not both record theirs.                          *)
OneReceiptPerStep ==
    \A r, s \in receipts : r.intent = s.intent => r = s

(* No Tool is dispatched until the call before it in the batch is known to
   have been observed or rejected, by whichever worker.                     *)
BatchInOrder ==
    \A i \in DOMAIN jobs : jobs[i].intent.call > 1 =>
        \E r \in receipts : r.intent.call = jobs[i].intent.call - 1
                            /\ r.status \in {"observed", "rejected"}

(* A worker goes past a call only with the outcome the Journal has for the
   step: what the model is told next is what every later worker will find.  *)
ToldAsRecorded ==
    [][\A w \in Workers :
         me[w].at # "new" /\ me'[w].call > me[w].call =>
            [intent |-> me'[w].kept, status |-> me'[w].status] \in receipts']_vars

(* Every started worker that keeps running leaves the batch, even if the
   Runtime never answers.                                                   *)
WorkersFinish == \A w \in Workers : me[w].at # "new" ~> me[w].at = "gone"

(* "Concurrent workers dispatch one physical Runtime call".                 *)
ConcurrentWorkersDispatchOnce ==
    \A i, j \in DOMAIN jobs : jobs[i].intent.call = jobs[j].intent.call => i = j
=============================================================================
