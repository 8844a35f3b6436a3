---------------------------- MODULE RepairBridge ----------------------------
(* The repository-repair bridge: one Run reads, patches, checks and diffs a   *)
(* Workspace through the Runtime, and may conclude once its observations say  *)
(* that it did.  An answer may be lost, the process may die, and what was     *)
(* asked for may still happen after either.  How several processes share a    *)
(* step is ToolStep, how the loop goes on is AgentLoop; here is one process   *)
(* at a time and what the bridge makes of the Runtime.                        *)
EXTENDS Naturals, FiniteSets, Sequences, SequencesExt

CONSTANTS
    Editions,                   \* "patch" (V1) | "edit" (V2)
    MaxSteps,                   \* bound on the Tool calls of a behaviour
    MaxVersion                  \* bound on the versions of a file

VARIABLES
    edition,
    files,                      \* version of each file; 0: absent
    pc, stopped,                \* the process; its control asks to stop
    call,                       \* the Tool call at hand
    step,                       \* the current Tool step, durable
    wire,                       \* what became of its request
    late,                       \* patches still with the Runtime when given up
    seen,                       \* observations bound in memory
    snapshot,                   \* observations retained with the last step
    taken,                      \* Tool calls prepared
    done                        \* history: what this Run did in fact

process == <<pc, stopped, call, step, seen, snapshot, taken>>
world   == <<files, wire, late, done>>
vars    == <<edition, process, world>>

Paths == {"allocation", "completion"}
Mutations == {"patch", "replace", "create"}

(* What a set of observations proves.                                         *)
Nothing == [reads |-> 0, patched |-> {}, passed |-> FALSE, diffed |-> FALSE]

Obs(name, paths, passed) == [name |-> name, paths |-> paths, passed |-> passed]
NoObs == Obs("none", {}, FALSE)

Add(t, o) ==
    [ reads   |-> IF o.name = "read" /\ "allocation" \in o.paths /\ t.reads < 2
                    THEN t.reads + 1 ELSE t.reads,
      patched |-> IF o.name \in Mutations THEN t.patched \cup o.paths ELSE t.patched,
      passed  |-> t.passed \/ (o.name = "check" /\ o.passed),
      diffed  |-> t.diffed \/ o.name = "diff" ]

AnyText == [p \in Paths |-> 0]
Call(name, paths, base) == [name |-> name, paths |-> paths, base |-> base]
NoCall == Call("none", <<>>, AnyText)
Step(c, status, why, obs) == [call |-> c, status |-> status, why |-> why, obs |-> obs]

Init ==
    /\ edition \in Editions
    /\ files = [p \in Paths |-> IF p = "allocation" THEN 1 ELSE 0]
    /\ pc = "loop" /\ stopped = FALSE
    /\ call = NoCall /\ step = Step(call, "none", "none", NoObs)
    /\ wire = "unsent" /\ late = {}
    /\ seen = Nothing /\ snapshot = Nothing /\ taken = 0 /\ done = Nothing

-----------------------------------------------------------------------------
(* The Agent names the digests it saw, current or stale.  A V1 patch lists    *)
(* files, an edit of V2 is of one; diff and check are of the whole Workspace. *)
Stale == [p \in Paths |-> IF files[p] > 1 THEN files[p] - 1 ELSE files[p]]

Calls ==
    {Call("read", <<p>>, AnyText) : p \in Paths}
    \cup {Call(n, <<>>, AnyText) : n \in {"diff", "check"}}
    \cup IF edition = "patch"
           THEN {Call("patch", q, b) : b \in {files, Stale},
                    q \in {<<"allocation">>, <<"completion", "allocation">>}}
           ELSE {Call("replace", <<"allocation">>, b) : b \in {files, Stale}}
                \cup {Call("create", <<"completion">>, [files EXCEPT !["completion"] = 0])}

(* _lower_tool: V2 locates a replacement in the text as it is now, which must *)
(* be the text the Agent names; what cannot be lowered is the Agent's to      *)
(* correct and leaves no step.                                                *)
Lowerable(c) == c.name = "replace" => c.base["allocation"] = files["allocation"]

Lower ==
    /\ pc = "loop" /\ ~stopped /\ taken < MaxSteps
    /\ call' \in {c \in Calls : Lowerable(c)}
    /\ pc' = "prepare"
    /\ UNCHANGED <<edition, world, stopped, step, seen, snapshot, taken>>

(* The step is durable before anything is asked for; the observations bound   *)
(* so far are retained with it.                                               *)
Prepare ==
    /\ pc = "prepare"
    /\ step' = Step(call, "prepared", "none", NoObs)
    /\ snapshot' = seen /\ taken' = taken + 1
    /\ late' = late \cup IF step.call.name \in Mutations /\ wire \in {"sent", "prepared"}
                          THEN {step.call} ELSE {}
    /\ wire' = "unsent"
    /\ pc' = "dispatch" /\ call' = NoCall
    /\ UNCHANGED <<edition, files, done, stopped, seen>>

(* _record_observation: a terminal receipt.                                   *)
Record(status, why, obs) ==
    /\ step' = Step(step.call, status, why, obs)
    /\ pc' = "settled"
    /\ UNCHANGED <<edition, world, stopped, call, seen, snapshot, taken>>

StoppedBeforeDispatch ==
    /\ pc = "dispatch" /\ stopped
    /\ Record("rejected", "stopped", NoObs)

Dispatch ==
    /\ pc = "dispatch" /\ ~stopped
    /\ wire' = "sent" /\ pc' = "wait"
    /\ UNCHANGED <<edition, files, late, done, stopped, call, step, seen, snapshot, taken>>

-----------------------------------------------------------------------------
(* The Runtime.  It persists a patch before it applies it, applies it only to *)
(* the versions it names, and may leave it half applied.                      *)
Matches(c) == \A p \in ToSet(c.paths) : files[p] = c.base[p]

Patched(c) ==
    /\ \A p \in ToSet(c.paths) : files[p] < MaxVersion
    /\ files' = [p \in Paths |-> IF p \in ToSet(c.paths) THEN files[p] + 1 ELSE files[p]]
    /\ done' = Add(done, Obs(c.name, ToSet(c.paths), FALSE))

Serve ==
    /\ wire = "sent" /\ step.call.name \in {"read", "diff"}
    /\ wire' = "served"
    /\ done' = Add(done, Obs(step.call.name, ToSet(step.call.paths), FALSE))
    /\ UNCHANGED <<edition, process, files, late>>

AcceptPatch ==
    /\ wire = "sent" /\ step.call.name \in Mutations
    /\ wire' = IF Matches(step.call) THEN "prepared" ELSE "refused"
    /\ UNCHANGED <<edition, process, files, late, done>>

ApplyPatch ==
    /\ wire = "prepared"
    /\ \/ Matches(step.call) /\ Patched(step.call) /\ wire' = "committed"
       \/ ~Matches(step.call) /\ wire' = "refused" /\ UNCHANGED <<files, done>>
       \/ wire' = "mixed" /\ UNCHANGED <<files, done>>
    /\ UNCHANGED <<edition, process, late>>

ApplyLate(c) ==
    /\ late' = late \ {c}
    /\ IF Matches(c) THEN Patched(c) ELSE UNCHANGED <<files, done>>
    /\ UNCHANGED <<edition, process, wire>>

RunCheck ==
    /\ step.call.name = "check"
    /\ \/ wire = "sent" /\ wire' = "running" /\ UNCHANGED done
       \/ wire = "running" /\ wire' = "failed" /\ UNCHANGED done
       \/ wire = "running" /\ wire' = "succeeded" /\ done' = Add(done, Obs("check", {}, TRUE))
    /\ UNCHANGED <<edition, process, files, late>>

Runtime == Serve \/ AcceptPatch \/ ApplyPatch \/ RunCheck \/ \E c \in late : ApplyLate(c)

-----------------------------------------------------------------------------
(* _observation_from_payload names one path: the first of the call.           *)
AsAnswered ==
    Obs(step.call.name, IF step.call.paths = <<>> THEN {} ELSE {Head(step.call.paths)},
        wire = "succeeded")

Answer ==
    /\ pc = "wait"
    /\ \/ /\ wire \in {"served", "committed", "succeeded", "failed"}
          /\ Record("observed", "none", AsAnswered)
       \/ wire = "refused" /\ Record("rejected", "refused", NoObs)

(* No answer, or one that leaves the commit open.                             *)
AnswerLost ==
    /\ pc = "wait" /\ pc' = "reconcile"
    /\ UNCHANGED <<edition, world, stopped, call, step, seen, snapshot, taken>>

(* Mutant: a patch that is not known is a patch that never will be.           *)
ReconciledPatchAbsent ==
    CASE wire = "committed" -> Step(step.call, "observed", "none", Obs(step.call.name, {}, FALSE))
      [] wire \in {"prepared", "refused"} -> Step(step.call, "rejected", wire, NoObs)
      [] wire \in {"unsent", "sent"} -> Step(step.call, "rejected", "absent", NoObs)
      [] OTHER -> Step(step.call, "unknown", "none", NoObs)

(* _reconcile_workspace_patch asks workspace.patch.get; its payload names no  *)
(* relativePath.                                                              *)
ReconciledPatch ==
    CASE wire = "committed" -> Step(step.call, "observed", "none", Obs(step.call.name, {}, FALSE))
      [] wire \in {"prepared", "refused"} -> Step(step.call, "rejected", wire, NoObs)
      [] OTHER -> Step(step.call, "unknown", "none", NoObs)

(* A Job is found by its request; a read or diff is not repeated.             *)
ReconciledCheck ==
    IF wire \in {"succeeded", "failed"}
      THEN Step(step.call, "observed", "none", Obs("check", {}, wire = "succeeded"))
      ELSE Step(step.call, "unknown", "none", NoObs)

Reconciled ==
    CASE step.call.name \in Mutations -> ReconciledPatch
      [] step.call.name = "check"     -> ReconciledCheck
      [] OTHER                        -> Step(step.call, "unknown", "none", NoObs)

(* The Runtime may not answer this either.  When the control stops, a patch   *)
(* is not asked for, and a recovery is left to the next process.              *)
Reconcile ==
    /\ pc = "reconcile" \/ (pc = "recover" /\ ~stopped)
    /\ \/ /\ ~(stopped /\ step.call.name \in Mutations)
          /\ Record(Reconciled.status, Reconciled.why, Reconciled.obs)
       \/ Record("unknown", "none", NoObs)

-----------------------------------------------------------------------------
(* The loop retains the observation and goes on, but never past an unknown.   *)
Onward ==
    /\ pc = "settled"
    /\ pc' = IF step.status = "unknown" THEN "ended" ELSE "loop"
    /\ seen' = IF step.status = "observed" THEN Add(seen, step.obs) ELSE seen
    /\ UNCHANGED <<edition, world, stopped, call, step, snapshot, taken>>

(* validate_conclusion.                                                       *)
Missing(artifact) ==
    { m \in {"reads", "patch", "creation", "check", "diff", "artifact"} :
        CASE m = "reads"    -> seen.reads < 2
          [] m = "patch"    -> "allocation" \notin seen.patched
          [] m = "creation" -> edition = "edit" /\ "completion" \notin seen.patched
          [] m = "check"    -> ~seen.passed
          [] m = "diff"     -> ~seen.diffed
          [] m = "artifact" -> ~artifact }

(* A conclusion that is refused is the Agent's to correct.                    *)
Conclude(artifact) ==
    /\ pc = "loop" /\ ~stopped /\ Missing(artifact) = {}
    /\ pc' = "completed"
    /\ UNCHANGED <<edition, world, stopped, call, step, seen, snapshot, taken>>

StopAsked ==
    /\ ~stopped /\ pc \notin {"ended", "completed"}
    /\ stopped' = TRUE
    /\ UNCHANGED <<edition, world, pc, call, step, seen, snapshot, taken>>

(* A stop ends the process between calls as a crash does anywhere.            *)
Down ==
    /\ pc \notin {"down", "ended", "completed"}
    /\ pc' = "down" /\ stopped' = FALSE
    /\ call' = NoCall /\ seen' = Nothing
    /\ UNCHANGED <<edition, world, step, snapshot, taken>>

(* Mutant: the last observation is restored, and then observed again.         *)
ResumeTwice ==
    /\ pc = "down"
    /\ seen' = Add(snapshot, step.obs)
    /\ pc' = CASE step.status = "none"     -> "loop"
               [] step.status = "prepared" -> "recover"
               [] OTHER                    -> "settled"
    /\ UNCHANGED <<edition, world, stopped, call, step, snapshot, taken>>

(* A step without a receipt is reconciled, whether or not it was dispatched;  *)
(* reconcile_current_tool_step returns the observation of one that has it.    *)
Resume ==
    /\ pc = "down"
    /\ seen' = snapshot
    /\ pc' = CASE step.status = "none"     -> "loop"
               [] step.status = "prepared" -> "recover"
               [] OTHER                    -> "settled"
    /\ UNCHANGED <<edition, world, stopped, call, step, snapshot, taken>>

Next ==
    \/ Lower \/ Prepare \/ StoppedBeforeDispatch \/ Dispatch
    \/ Answer \/ AnswerLost \/ Reconcile \/ Onward
    \/ \E artifact \in BOOLEAN : Conclude(artifact)
    \/ StopAsked \/ Down \/ Resume
    \/ Runtime

Spec == Init /\ [][Next]_vars

-----------------------------------------------------------------------------
(* A repair that completed happened: the Workspace was read twice, the file   *)
(* patched, the check run with success and the diff taken by this Run, though *)
(* answers were lost and processes died in between, and nothing is counted    *)
(* twice on a resume.  (In which order, the gate does not ask.)               *)
EvidenceIsReal ==
    pc = "completed" =>
        /\ done.reads >= 2 /\ done.passed /\ done.diffed
        /\ "allocation" \in done.patched
        /\ edition = "edit" => "completion" \in done.patched

(* A patch the Agent is told was rejected has not happened and will not - but *)
(* for one that patch.get found prepared: that is recorded as rejected, and   *)
(* the Runtime may be about to apply it.                                      *)
RejectionMeansOut ==
    step.status = "rejected" /\ step.call.name \in Mutations =>
        wire = "refused" \/ step.why = "prepared" \/ (step.why = "stopped" /\ wire = "unsent")

(* validate_conclusion says "allocation.py patch is not observed" of no Run   *)
(* whose last receipt observed a patch of that very file.                     *)
ObservedPatchCounts ==
    /\ pc = "loop" /\ step.status = "observed"
    /\ step.call.name \in Mutations /\ step.call.paths = <<"allocation">>
    => "patch" \notin Missing(TRUE)

=============================================================================
