----------------------------- MODULE AgentLoop -----------------------------
(***************************************************************************)
(* One Run of the Agent loop (loop.py) driven by one process after another:*)
(* the budgets, the gate on external Tools, the turns and what becomes of  *)
(* every kind of answer, the Tool batch and the Tool program, and resuming *)
(* from the Snapshot or from the current Provider Call after a crash.      *)
(*                                                                         *)
(* Processes racing on one Run, and the records under Run leases, are the  *)
(* subject of ProviderCall, ToolStep and WorkingSet: here a process dies   *)
(* before the next begins, a Provider Call is claimed, admitted and closed *)
(* in three steps, and a Tool step prepared, sent and receipted in three.  *)
(* Counters stand for the remaining budget of the Run state, whose         *)
(* messages and Observations are abstracted to what the loop reads back.   *)
(***************************************************************************)
EXTENDS ToolProgram, FiniteSets

CONSTANTS
    MaxModelCalls, MaxRetries, MaxToolCalls,         \* RunBudget
    MaxToolCorrections, MaxConclusionCorrections,
    MaxObservationOnly, MaxNoProgress,               \* 0: no such limit
    Modes,        \* how the Run may be composed
    Looking,      \* Tools that only observe
    Answers,      \* what the model may answer
    MaxStarts     \* bound: processes that drive the Run

ASSUME BudgetAssumption ==
    /\ MaxModelCalls \in Nat \ {0}
    /\ {MaxRetries, MaxToolCalls, MaxToolCorrections, MaxConclusionCorrections,
        MaxObservationOnly, MaxNoProgress, MaxStarts} \subseteq Nat
    /\ Looking \subseteq Tools

(* deliberate: the first turn is without Tools.  projected: the Run has a
   Working Set.  clocked: the Adapter's body carries the wall time left.     *)
Mode == [deliberate: BOOLEAN, projected: BOOLEAN, clocked: BOOLEAN]
ASSUME ModesAssumption == Modes \subseteq Mode /\ Modes # {}

VARIABLES
    mode,    \* how the Run was composed
    at,      \* where the process stands
    code,    \* RunStopCode of the last process that left the loop, or None
    m,       \* the loop's state: counters and the Tool batch in hand
    shut,    \* the external observation gate of this process
    cancel,  \* this process was asked to stop
    late,    \* the deadline of the Run has passed
    prov,    \* the current Provider Call record, or None
    snap,    \* the current Snapshot, or None
    steps,   \* the Tool steps prepared in the Journal, with their fate
    starts   \* processes so far

vars == <<mode, at, code, m, shut, cancel, late, prov, snap, steps, starts>>

-----------------------------------------------------------------------------
(* Calls of an answer: a Tool, the history control, a name that this turn
   does not offer, or arguments the Adapter could not read.                 *)
Special == {"recall", "gone", "bad"}
ASSUME NamesAssumption == Special \intersect Tools = {}

Plain(is) == [is |-> is, calls |-> <<>>, program |-> None]
ToolCalls(calls) == [is |-> "tools", calls |-> calls, program |-> None]
ProgramAction(p) ==
    [is |-> "program", calls |-> [i \in DOMAIN p.steps |-> p.steps[i].tool], program |-> p]

(* What an answer may be made of.  The calls of a program are its steps.    *)
ASSUME AnswersAssumption ==
    \A a \in Answers : /\ a.calls \in Seq(Tools \union Special)
                       /\ a.program \in Program \union {None}
                       /\ a.program # None => a = ProgramAction(a.program)

Outcomes == Content \union {"rejected", "unknown", "cancelled"}

External(calls) == {i \in DOMAIN calls : calls[i] \in Tools \union {"bad"}}

(* The Tool batch in hand: its turn, how many of its calls are seen, and
   the outcomes of those that have an Observation.                          *)
NoBatch == [turn |-> 0, calls |-> <<>>, program |-> None, seen |-> 0, got |-> <<>>]
Batch(turn, a) == [turn |-> turn, calls |-> a.calls, program |-> a.program,
                   seen |-> 0, got |-> <<>>]

(* HarnessRunState, as bind_run_state gives it to the Journal.  gap: of the
   current attempt an answer with calls has one without durable evidence.   *)
Fresh == [n |-> 0, retry |-> 0, t |-> 0, fix |-> 0, con |-> 0, look |-> 0, idle |-> 0,
          ev |-> {}, told |-> 0, observed |-> FALSE, gap |-> FALSE, batch |-> NoBatch]

(* soft_observation_gate_reason, which is closed for good in a process.     *)
Soft(s) ==
    \/ MaxNoProgress > 0 /\ s.idle >= MaxNoProgress
    \/ MaxObservationOnly > 0 /\ s.look >= MaxObservationOnly

Gate == shut \/ m.t >= MaxToolCalls

(* The request of the next turn, by what the record compares: dispatch_digest
   leaves the wall time and the retries out, the Adapter's body does not.   *)
Request(s, gate) ==
    [state |-> [s EXCEPT !.retry = 0],
     tools |-> ~gate /\ ~(mode.deliberate /\ s.n = 0),
     clock |-> IF mode.clocked THEN starts ELSE 0]

(* What the records hold.  A request holds the state it was made on.        *)
BatchInHand == [turn: Nat, calls: Seq(Tools \union Special), program: Program \union {None},
                seen: Nat, got: Seq(Outcomes)]
State == [n: Nat, retry: Nat, t: Nat, fix: Nat, con: Nat, look: Nat, idle: Nat,
          ev: SUBSET Content, told: Nat, observed: BOOLEAN, gap: BOOLEAN, batch: BatchInHand]
CallRecord == [turn: Nat, state: State,
               request: [state: State, tools: BOOLEAN, clock: Nat],
               status: {"claimed", "out", "completed"}, answer: Answers \union {None}]
ActiveStep == [turn: Nat, i: Nat]
Snapshot == [state: State, active: ActiveStep \union {None}]

(* RunStopCode, and an exception that leaves the loop.                        *)
Codes == {"NO_PROGRESS", "CANCELLED", "BUDGET_EXHAUSTED", "PROVIDER_FAILED",
          "PROVIDER_STATE_UNKNOWN", "INVALID_MODEL_OUTPUT", "CANCEL_UNKNOWN",
          "CANDIDATE_COMPLETED", "NEEDS_INPUT", "INVALID_TOOL_CALL", "RUNTIME_UNKNOWN",
          "HARNESS_FAILED", "REFUSED"}

ASSUME NoneAssumption == None \notin CallRecord \union ActiveStep \union Snapshot \union Codes

Record(s, request) == [turn |-> s.n + 1, state |-> s, request |-> request,
                       status |-> "claimed", answer |-> None]

(* A Tool step: its turn, the exact call, and what is known of its fate.    *)
ToolIntent(turn, i, call) ==
    [turn |-> turn, i |-> i, call |-> call, sent |-> FALSE, outcome |-> None]

Running == {"top", "claimed", "out", "answered", "batch", "prepared", "sent", "recovering"}

-----------------------------------------------------------------------------
Init ==
    /\ mode \in Modes
    /\ at = "down" /\ code = None
    /\ m = Fresh /\ shut = FALSE /\ cancel = FALSE /\ late = FALSE
    /\ prov = None /\ snap = None /\ steps = <<>>
    /\ starts = 0

(* The loop returns; a terminal code ends the Run, needs_input has paused it
   and no_progress leaves it as it is, for a later process.                 *)
Stop(c) ==
    /\ at' = IF c \in {"NO_PROGRESS", "REFUSED"} THEN "down" ELSE "ended"
    /\ code' = c
    /\ UNCHANGED <<mode, shut, cancel, late, starts>>

Go(place) ==
    /\ at' = place
    /\ UNCHANGED <<mode, code, cancel, late, starts>>

Quiet == ~cancel /\ ~late
StoppedBy(pending, expired) == IF cancel THEN pending ELSE expired

(* The caller cancels, or time runs out: nothing else changes.              *)
Cancel ==
    /\ at \in Running /\ ~cancel
    /\ cancel' = TRUE
    /\ UNCHANGED <<mode, at, code, m, shut, late, prov, snap, steps, starts>>

Expire ==
    /\ at \in Running /\ ~late
    /\ late' = TRUE
    /\ UNCHANGED <<mode, at, code, m, shut, cancel, prov, snap, steps, starts>>

Crash ==
    /\ at \in Running
    /\ at' = "down" /\ code' = None
    /\ m' = Fresh /\ shut' = FALSE /\ cancel' = FALSE
    /\ UNCHANGED <<mode, late, prov, snap, steps, starts>>

-----------------------------------------------------------------------------
Begin(s, place) ==
    /\ starts < MaxStarts /\ starts' = starts + 1
    /\ m' = s /\ shut' = Soft(s) /\ cancel' = FALSE
    /\ at' = IF late THEN "ended" ELSE place
    /\ code' = IF late THEN "BUDGET_EXHAUSTED" ELSE None
    /\ UNCHANGED <<mode, late, prov, snap, steps>>

(* OrdivonAgentLoop.run: a Run without a Snapshot begins from nothing.      *)
Run ==
    /\ at = "down" /\ snap = None
    /\ Begin(Fresh, "top")

(* load_provider_replay_state: the state bound to the current record, which
   continues the Snapshot and the caller's messages, unless it is out.      *)
Replaying == prov # None /\ prov.status # "out"
Continues(say) == Replaying => prov.state.told >= snap.state.told + say

(* Counters of progress restart with new caller messages; a projected Run
   does so whether or not the current record has them already.              *)
ResumeState(say) ==
    LET base == IF Replaying THEN prov.state ELSE [snap.state EXCEPT !.told = @ + say]
        new  == say > 0 /\ (mode.projected \/ ~Replaying)
    IN  IF new THEN [base EXCEPT !.look = 0, !.idle = 0] ELSE base

(* Mutant: the active Tool step of the Snapshot is not looked at.           *)
ResumeSkipping(say) ==
    /\ at \in {"down", "paused"} /\ snap # None
    /\ say = 1 => snap.active = None
    /\ Continues(say)
    /\ Begin(ResumeState(say), "top")

(* OrdivonAgentLoop.resume, of a paused Run or one whose process died; say
   is 1 if the caller supplies its messages after the pause.                *)
Resume(say) ==
    /\ at \in {"down", "paused"} /\ snap # None
    /\ say = 1 => snap.active = None
    /\ Continues(say)
    /\ Begin(ResumeState(say), IF snap.active # None THEN "recovering" ELSE "top")

ResumeRefused(say) ==
    /\ at \in {"down", "paused"} /\ snap # None /\ starts < MaxStarts
    /\ say = 1 => snap.active = None
    /\ ~Continues(say)
    /\ starts' = starts + 1
    /\ at' = "down" /\ code' = "REFUSED"
    /\ UNCHANGED <<mode, m, shut, cancel, late, prov, snap, steps>>

-----------------------------------------------------------------------------
(* The head of the main loop.                                               *)
LimitReached ==
    /\ at = "top"
    /\ ~Quiet \/ m.n >= MaxModelCalls
    /\ Stop(StoppedBy("CANCELLED", "BUDGET_EXHAUSTED"))
    /\ UNCHANGED <<m, prov, snap, steps>>

Turning == at = "top" /\ Quiet /\ m.n < MaxModelCalls

(* claim_provider_call, for a process that is alone.                        *)
Demand == Request(m, Gate)
Same == prov # None /\ prov.turn = m.n + 1 /\ prov.request = Demand
Following == prov # None => prov.status = "completed" /\ prov.turn = m.n

(* _require_working_view_request_against_state: once a Tool was observed,
   every call of the attempt must have its durable evidence.                *)
ViewProvable == mode.projected /\ m.observed => ~m.gap

ClaimCall ==
    /\ Turning /\ ViewProvable
    /\ Following \/ (Same /\ prov.status = "claimed")
    /\ shut' = Gate
    /\ prov' = Record(m, Demand)
    /\ Go("claimed")
    /\ UNCHANGED <<m, snap, steps>>

ReplayAnswer ==
    /\ Turning /\ ViewProvable
    /\ Same /\ prov.status = "completed"
    /\ shut' = Gate
    /\ Go("answered")
    /\ UNCHANGED <<m, prov, snap, steps>>

(* The call may be out, or its record is of another turn or request: the
   exception leaves run or resume, and nothing is recorded.                 *)
ClaimRefused ==
    /\ Turning
    /\ \/ ~ViewProvable
       \/ ~Following /\ ~(Same /\ prov.status \in {"claimed", "completed"})
    /\ Stop("REFUSED")
    /\ UNCHANGED <<m, prov, snap, steps>>

Admit ==
    /\ at = "claimed" /\ Quiet
    /\ prov' = [prov EXCEPT !.status = "out"]
    /\ Go("out")
    /\ UNCHANGED <<m, shut, snap, steps>>

AdmissionClosed ==
    /\ at = "claimed" /\ ~Quiet
    /\ Stop(StoppedBy("CANCELLED", "BUDGET_EXHAUSTED"))
    /\ UNCHANGED <<m, prov, snap, steps>>

Answered(a) ==
    /\ at = "out"
    /\ prov' = [prov EXCEPT !.status = "completed", !.answer = a]
    /\ Go("answered")
    /\ UNCHANGED <<m, shut, snap, steps>>

(* A failure before delivery is retried while a retry is left; the failed
   record and the claim of its retry are one step here.                     *)
RetryCall ==
    /\ at = "out" /\ Quiet /\ m.retry < MaxRetries
    /\ m' = [m EXCEPT !.retry = @ + 1]
    /\ prov' = [prov EXCEPT !.state = m', !.status = "claimed"]
    /\ Go("claimed")
    /\ UNCHANGED <<shut, snap, steps>>

CallFailed(c) ==
    /\ at = "out"
    /\ \/ c \in {"PROVIDER_FAILED", "PROVIDER_STATE_UNKNOWN", "INVALID_MODEL_OUTPUT"}
       \/ c = StoppedBy("CANCEL_UNKNOWN", "PROVIDER_STATE_UNKNOWN") /\ ~Quiet
    /\ Stop(c)
    /\ UNCHANGED <<m, prov, snap, steps>>

-----------------------------------------------------------------------------
(* The answer counts once, before it is looked into.                        *)
AnswerTooLate ==
    /\ at = "answered" /\ ~Quiet
    /\ Stop(StoppedBy("CANCELLED", "BUDGET_EXHAUSTED"))
    /\ UNCHANGED <<m, prov, snap, steps>>

Answer(is) == at = "answered" /\ Quiet /\ prov.answer.is = is
(* Mutant: the answer is not counted.                                       *)
Uncounted == m

Counted == [m EXCEPT !.n = @ + 1]
Offered == prov.request.tools

Refuse(c) == Stop(c) /\ m' = Counted /\ UNCHANGED <<prov, snap, steps>>
NextTurn(s, gate) ==
    /\ m' = s /\ shut' = gate
    /\ Go("top")
    /\ UNCHANGED <<prov, snap, steps>>

(* A conclusion the Adapter could not read, or that the caller's validator
   sends back, is paid for by a correction of its own.                      *)
Corrected ==
    IF m.con >= MaxConclusionCorrections
      THEN Refuse("INVALID_MODEL_OUTPUT")
      ELSE NextTurn([Counted EXCEPT !.con = @ + 1,
                                    !.gap = @ \/ prov.answer.is = "malformed"], shut)

MalformedConclusion == Answer("malformed") /\ Corrected

GateRefuses ==
    /\ Answer("tools") /\ shut /\ External(prov.answer.calls) # {}
    /\ Refuse("NO_PROGRESS")

(* Mutant: any new attempt opens the gate.                                  *)
TransitionReopens(is) ==
    /\ Answer(is) /\ mode.projected
    /\ prov' = None
    /\ m' = IF is = "select" THEN [Counted EXCEPT !.look = 0, !.idle = 0, !.gap = FALSE]
                             ELSE [Counted EXCEPT !.gap = FALSE]
    /\ shut' = FALSE
    /\ Go("top")
    /\ UNCHANGED <<snap, steps>>

(* apply_working_set_transition or apply_caller_ingress_promotion: the new
   attempt clears the record; other pins count as progress.                 *)
Transition(is) ==
    /\ Answer(is) /\ mode.projected
    /\ prov' = None
    /\ m' = IF is = "select" THEN [Counted EXCEPT !.look = 0, !.idle = 0, !.gap = FALSE]
                             ELSE [Counted EXCEPT !.gap = FALSE]
    /\ shut' = (shut /\ is # "select")
    /\ Go("top")
    /\ UNCHANGED <<snap, steps>>

SelectWorkingSet == Transition("select") \/ Transition("reselect")
NoWorkingSet ==
    /\ Answer("select") \/ Answer("reselect")
    /\ ~mode.projected
    /\ Refuse("INVALID_MODEL_OUTPUT")

StartBatch(a) ==
    /\ m' = [Counted EXCEPT !.batch = Batch(m.n + 1, a)]
    /\ Go("batch")
    /\ UNCHANGED <<shut, prov, snap, steps>>

ProgramRefused ==
    /\ Answer("program")
    /\ \/ ~Offered /\ Refuse("INVALID_MODEL_OUTPUT")
       \/ /\ Offered /\ m.t + Len(prov.answer.calls) > MaxToolCalls
          /\ Refuse("BUDGET_EXHAUSTED")

StartProgram ==
    /\ Answer("program") /\ Offered
    /\ m.t + Len(prov.answer.calls) <= MaxToolCalls
    /\ StartBatch(prov.answer)

(* A first conclusion of a deliberating loop is a note to itself.           *)
Deliberated ==
    /\ Answer("done") /\ mode.deliberate /\ prov.turn = 1
    /\ NextTurn(Counted, shut)

Concluding == (Answer("done") /\ ~(mode.deliberate /\ prov.turn = 1)) \/ Answer("ask")

ConclusionRejected ==
    /\ Concluding
    /\ Corrected \/ Refuse("INVALID_MODEL_OUTPUT")

Completed ==
    /\ Concluding /\ Answer("done")
    /\ Refuse("CANDIDATE_COMPLETED")

(* record_pause: a Snapshot that clears the record.                         *)
Paused ==
    /\ Answer("ask")
    /\ m' = Counted /\ snap' = [state |-> Counted, active |-> None]
    /\ prov' = None
    /\ at' = "paused" /\ code' = "NEEDS_INPUT"
    /\ UNCHANGED <<mode, shut, cancel, late, steps, starts>>

BatchTooLarge ==
    /\ Answer("tools") /\ ~(shut /\ External(prov.answer.calls) # {})
    /\ m.t + Cardinality(External(prov.answer.calls)) > MaxToolCalls
    /\ Refuse("BUDGET_EXHAUSTED")

StartTools ==
    /\ Answer("tools") /\ ~(shut /\ External(prov.answer.calls) # {})
    /\ m.t + Cardinality(External(prov.answer.calls)) <= MaxToolCalls
    /\ StartBatch(prov.answer)

-----------------------------------------------------------------------------
(* execute_tool_calls, one call at a time.                                  *)
B == m.batch
InProgram == B.program # None
BatchOver == Len(B.got) = Len(B.calls) \/ (InProgram /\ Broken(B.got))
NextIs(c) == at = "batch" /\ Quiet /\ ~BatchOver /\ B.calls[B.seen + 1] = c

InterruptedBatch ==
    /\ at = "batch" /\ ~Quiet
    /\ Stop(StoppedBy("CANCELLED", "BUDGET_EXHAUSTED"))
    /\ UNCHANGED <<m, prov, snap, steps>>

Observed(s, outcome) ==
    [s EXCEPT !.batch.got = Append(@, outcome), !.observed = TRUE]
Seen(s) == [s EXCEPT !.batch.seen = @ + 1]

(* inspect_working_set_history: answered by the Journal, alone in its batch. *)
Recall(c) ==
    /\ NextIs("recall")
    /\ IF mode.projected /\ Len(B.calls) = 1
         THEN /\ m' = Observed(Seen(m), c)
              /\ Go("batch")
              /\ UNCHANGED <<shut, prov, snap, steps>>
         ELSE /\ Stop("INVALID_MODEL_OUTPUT")
              /\ UNCHANGED <<m, prov, snap, steps>>

(* The bridge rejects the call before it prepares a step.  It counts as a
   Tool call, except for a Tool this turn does not offer.                   *)
RejectedHere(c) ==
    /\ NextIs(c)
    /\ IF m.fix >= MaxToolCorrections
         THEN Stop("INVALID_TOOL_CALL") /\ UNCHANGED <<m, prov, snap, steps>>
         ELSE /\ m' = Observed([Seen(m) EXCEPT !.fix = @ + 1,
                                               !.t = IF c = "gone" THEN @ ELSE @ + 1,
                                               !.gap = @ \/ c \in Tools], "rejected")
              /\ Go("batch")
              /\ UNCHANGED <<shut, prov, snap, steps>>

(* An argument of a program's step refers to what is not there.             *)
DataflowRejected ==
    /\ at = "batch" /\ Quiet /\ ~BatchOver /\ InProgram
    /\ ~Derivable(B.program, B.got)
    /\ Stop("INVALID_MODEL_OUTPUT")
    /\ UNCHANGED <<m, prov, snap, steps>>

CallNow == IF InProgram THEN InnerCall(B.program, B.got) ELSE None

(* prepare_tool_step: the Snapshot names the active step; the record of the
   Provider Call is cleared.                                                *)
PrepareStep(c) ==
    /\ NextIs(c)
    /\ InProgram => Derivable(B.program, B.got)
    /\ m' = Seen(m)
    /\ snap' = [state |-> m', active |-> [turn |-> B.turn, i |-> B.seen + 1]]
    /\ steps' = Append(steps, ToolIntent(B.turn, B.seen + 1, CallNow))
    /\ prov' = None
    /\ Go("prepared")
    /\ UNCHANGED shut

Last == Len(steps)

DispatchStep ==
    /\ at = "prepared" /\ Quiet
    /\ steps' = [steps EXCEPT ![Last].sent = TRUE]
    /\ Go("sent")
    /\ UNCHANGED <<m, shut, prov, snap>>

(* retain_tool_observation, of an answer or of a reconciliation.            *)
StopFor(s, outcome) ==
    CASE outcome = "rejected" /\ s.fix >= MaxToolCorrections -> "INVALID_TOOL_CALL"
      [] outcome = "unknown" -> "RUNTIME_UNKNOWN"
      [] outcome = "cancelled" -> "CANCELLED"
      [] OTHER -> None

Retained(s, outcome) ==
    Observed([s EXCEPT !.t = @ + 1,
                       !.fix = IF outcome = "rejected" THEN @ + 1 ELSE @], outcome)

Retain(outcome) ==
    IF StopFor(m, outcome) # None
      THEN Stop(StopFor(m, outcome)) /\ UNCHANGED <<m, prov, snap>>
      ELSE m' = Retained(m, outcome) /\ Go("batch") /\ UNCHANGED <<shut, prov, snap>>

(* The Runtime answers and the receipt is recorded.  The cancellation of a
   call that became a Job of the Runtime cannot be confirmed.               *)
StepAnswered(outcome, job) ==
    /\ at = "sent"
    /\ outcome = "rejected" => ~job
    /\ steps' = [steps EXCEPT ![Last].outcome = outcome]
    /\ IF cancel /\ job /\ outcome # "cancelled"
         THEN Stop("CANCEL_UNKNOWN") /\ UNCHANGED <<m, prov, snap>>
         ELSE Retain(outcome)

(* A stop between preparation and dispatch has the receipt of a rejection.  *)
DispatchStopped ==
    /\ at = "prepared" /\ ~Quiet
    /\ steps' = [steps EXCEPT ![Last].outcome = "rejected"]
    /\ Retain("rejected")

(* evaluate_turn_progress.                                                  *)
Contents(s) == {s.batch.got[i] : i \in DOMAIN s.batch.got} \intersect Content
ObservedNames == {B.calls[i] : i \in {j \in DOMAIN B.got : B.got[j] \in Content}}
OnlyLooked == ObservedNames # {} /\ ObservedNames \subseteq Looking \union {"recall"}
Acted == ~(ObservedNames \subseteq Looking \union {"recall"})

Evaluated ==
    [m EXCEPT !.look = IF OnlyLooked THEN @ + 1 ELSE 0,
              !.idle = IF Acted \/ ~(Contents(m) \subseteq m.ev) THEN 0 ELSE @ + 1,
              !.ev = @ \union Contents(m)]

EndTurn ==
    /\ at = "batch" /\ Quiet /\ BatchOver
    /\ m' = Evaluated
    /\ shut' = (shut \/ Soft(Evaluated))
    /\ Go("top")
    /\ UNCHANGED <<prov, snap, steps>>

-----------------------------------------------------------------------------
(* Resuming with an active Tool step: _recover_tool_batch finds its call as
   the next of exactly one retained batch, whose messages the state has.    *)
CursorFound ==
    /\ B.turn = snap.active.turn /\ ~InProgram
    /\ B.seen = snap.active.i /\ Len(B.got) = snap.active.i - 1

Pending == SubSeq(B.calls, snap.active.i + 1, Len(B.calls))

CursorLost ==
    /\ at = "recovering" /\ ~CursorFound
    /\ Stop("HARNESS_FAILED")
    /\ UNCHANGED <<m, prov, snap, steps>>

RecoveryStopped ==
    /\ at = "recovering" /\ CursorFound /\ ~Quiet
    /\ Stop(StoppedBy("CANCELLED", "BUDGET_EXHAUSTED"))
    /\ UNCHANGED <<m, prov, snap, steps>>

(* reconcile_current_tool_step: the recorded outcome, else what the Runtime
   finds under the request of a step that was sent, else unknown.           *)
Known(outcome) ==
    IF steps[Last].outcome # None
      THEN outcome = steps[Last].outcome
      ELSE outcome = "unknown" \/ (steps[Last].sent /\ outcome \in Content \union {"rejected"})

(* Mutant: a reconciled call is not counted again.                          *)
ReconcileUncounted(outcome) ==
    /\ at = "recovering" /\ CursorFound /\ Quiet
    /\ Known(outcome)
    /\ steps' = [steps EXCEPT ![Last].outcome = outcome]
    /\ IF StopFor(m, outcome) # None
         THEN Stop(StopFor(m, outcome)) /\ UNCHANGED <<m, prov, snap>>
         ELSE /\ m' = [Retained(m, outcome) EXCEPT !.t = m.t]
              /\ Go("batch") /\ UNCHANGED <<shut, prov, snap>>

Reconcile(outcome) ==
    /\ at = "recovering" /\ CursorFound /\ Quiet
    /\ Known(outcome)
    /\ steps' = [steps EXCEPT ![Last].outcome = outcome]
    /\ IF /\ StopFor(m, outcome) = None
          /\ Retained(m, outcome).t + Len(Pending) > MaxToolCalls
         THEN Stop("BUDGET_EXHAUSTED") /\ UNCHANGED <<m, prov, snap>>
         ELSE Retain(outcome)

-----------------------------------------------------------------------------
CallStep ==
    \/ LimitReached \/ ClaimCall \/ ReplayAnswer \/ ClaimRefused
    \/ Admit \/ AdmissionClosed
    \/ \E a \in Answers : Answered(a)
    \/ RetryCall
    \/ \E c \in {"PROVIDER_FAILED", "PROVIDER_STATE_UNKNOWN", "INVALID_MODEL_OUTPUT",
              "CANCEL_UNKNOWN"} : CallFailed(c)

AnswerStep ==
    \/ AnswerTooLate \/ MalformedConclusion \/ GateRefuses
    \/ SelectWorkingSet \/ NoWorkingSet
    \/ ProgramRefused \/ StartProgram
    \/ Deliberated \/ ConclusionRejected \/ Completed \/ Paused
    \/ BatchTooLarge \/ StartTools

ToolsStep ==
    \/ InterruptedBatch \/ EndTurn \/ DataflowRejected
    \/ \E c \in Content : Recall(c)
    \/ \E c \in Tools \union {"gone", "bad"} : RejectedHere(c)
    \/ \E c \in Tools : PrepareStep(c)
    \/ DispatchStep \/ DispatchStopped
    \/ \E outcome \in Outcomes, job \in BOOLEAN : StepAnswered(outcome, job)

RecoveryStep ==
    \/ CursorLost \/ RecoveryStopped
    \/ \E outcome \in Outcomes : Reconcile(outcome)

LoopStep == CallStep \/ AnswerStep \/ ToolsStep \/ RecoveryStep

Start == Run \/ \E say \in 0 .. 1 : Resume(say) \/ ResumeRefused(say)

LoopNext == LoopStep \/ Start \/ Cancel \/ Expire \/ Crash

LoopSpec == Init /\ [][LoopNext]_vars

(* A process that neither crashes nor hangs goes on.                        *)
FairLoopSpec == LoopSpec /\ WF_vars(LoopStep)

-----------------------------------------------------------------------------

(* "Reaching one closes new external observation capability": a Tool call is
   on its way to the Runtime only while the counters kept for the Run allow
   it, whatever process sends it and however the process came to them.      *)
NoEffectPastLimit ==
    at \in {"prepared", "sent"} => ~Soft(m) /\ m.t < MaxToolCalls

(* "Hard Tool-call budget remains global": all processes of the Run together
   never send the Runtime more calls than its budget has.                   *)
HardBudget == Cardinality({i \in DOMAIN steps : steps[i].sent}) <= MaxToolCalls

(* A Run that completes, or pauses to ask, has no Tool effect of which it
   does not know the outcome, whichever process sent it.                    *)
ConcludedRunsAreCertain ==
    code \in {"CANDIDATE_COMPLETED", "NEEDS_INPUT"} =>
        \A i \in DOMAIN steps : steps[i].sent => steps[i].outcome \notin {None, "unknown"}

(* What the Journal keeps of the program in hand, with the contents of its
   Observations or, where Privacy withheld them, without.                   *)
Mine == {i \in DOMAIN steps : steps[i].turn = B.turn}
Nth(S, k) == CHOOSE i \in S : Cardinality({j \in S : j < i}) = k - 1

Piece(step, kept) ==
    [call    |-> step.call,
     status  |-> IF step.outcome \in Content THEN "observed" ELSE step.outcome,
     content |-> IF kept THEN step.outcome ELSE None]

Pieces(kept) == [k \in 1 .. Cardinality(Mine) |-> Piece(steps[Nth(Mine, k)], kept)]

(* "Restart recovery derives from the immutable outer action and existing
   per-step durable evidence": what the Journal keeps of a program names the
   call the loop is about to make, never one that was prepared, and calls the
   program over only when it is; without contents it names nothing.         *)
ProgramCursorDurable ==
    InProgram /\ at \in {"batch", "prepared", "sent"} =>
        \A kept \in BOOLEAN :
            LET r == DurableRecovery(B.program, Pieces(kept)) IN
            /\ r.is = "next" => /\ at = "batch" /\ r.call.at = Len(Pieces(kept)) + 1
                                /\ kept \/ Pieces(kept) = <<>>
            /\ r.is = "terminal" => at = "batch" /\ BatchOver
            /\ kept /\ at = "batch" /\ ~BatchOver =>
                 r = IF Derivable(B.program, B.got) THEN NextCall(CallNow) ELSE Rejected

(* A process that is left alone leaves the loop.                            *)
LoopEnds == []<>(at \notin Running)

=============================================================================
