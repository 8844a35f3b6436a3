-------------------------- MODULE RepairBridgeProofs --------------------------
(* Theorems about RepairBridge, for Runs of any number of Tool calls and      *)
(* files of any number of versions.                                           *)
EXTENDS RepairBridge, TLAPS

Evidence == [reads: Nat, patched: SUBSET Paths, passed: BOOLEAN, diffed: BOOLEAN]
Names == {"none", "read", "diff", "check", "patch", "replace", "create"}
Observation == [name: Names, paths: SUBSET Paths, passed: BOOLEAN]
ToolCall == [name: Names, paths: Seq(Paths), base: [Paths -> Nat]]
Statuses == {"none", "prepared", "observed", "rejected", "unknown"}
Whys == {"none", "stopped", "refused", "prepared"}
StepRow == [call: ToolCall, status: Statuses, why: Whys, obs: Observation]

TypeOK ==
    /\ edition \in Editions /\ files \in [Paths -> Nat]
    /\ pc \in {"loop", "prepare", "dispatch", "wait", "reconcile", "recover",
               "settled", "down", "ended", "completed"}
    /\ stopped \in BOOLEAN
    /\ call \in ToolCall /\ step \in StepRow /\ late \subseteq ToolCall
    /\ wire \in {"unsent", "sent", "served", "prepared", "committed", "refused",
                 "mixed", "running", "failed", "succeeded"}
    /\ seen \in Evidence /\ snapshot \in Evidence /\ done \in Evidence
    /\ taken \in Nat

(* One set of observations proves no more than another.                       *)
Within(t, u) ==
    /\ t.reads <= u.reads /\ t.patched \subseteq u.patched
    /\ t.passed => u.passed
    /\ t.diffed => u.diffed

(* What the receipts retain: the snapshot of the last step and, if it was     *)
(* observed, its observation.                                                 *)
Retained == IF step.status = "observed" THEN Add(snapshot, step.obs) ELSE snapshot

(* The observations in memory are the retained ones, short of the step at     *)
(* hand while it is open and none while the process is down.                  *)
MemoryIsRetained ==
    /\ pc \in {"loop", "prepare", "completed"} => seen = Retained
    /\ pc \in {"dispatch", "wait", "reconcile", "recover", "settled"} => seen = snapshot

(* The answer to the request of the current step is of its kind, and what it  *)
(* answers took place on top of all that was observed before.                 *)
Effect == Obs(step.call.name, ToSet(step.call.paths), wire = "succeeded")
WireIsOfStep ==
    /\ wire = "served" => step.call.name \in {"read", "diff"}
    /\ wire \in {"prepared", "committed", "refused", "mixed"} => step.call.name \in Mutations
    /\ wire \in {"running", "failed", "succeeded"} => step.call.name = "check"
    /\ wire \in {"served", "committed", "succeeded"} => Within(Add(snapshot, Effect), done)

(* What is retained was done, by this Run.                                    *)
Real == MemoryIsRetained /\ WireIsOfStep /\ Within(Retained, done)

(* A step is dispatched once, before anything is known of it.                 *)
DispatchIsFirst == pc = "dispatch" => wire = "unsent" /\ step.status = "prepared"

-----------------------------------------------------------------------------
(* Evidence only grows, and more evidence stays more when both are added to.  *)
LEMMA AddTyped ==
    ASSUME NEW t \in Evidence, NEW o \in Observation
    PROVE  Add(t, o) \in Evidence /\ Within(t, Add(t, o))
<1>1. (t.passed \/ (o.name = "check" /\ o.passed)) \in BOOLEAN /\ (t.diffed \/ o.name = "diff") \in BOOLEAN
  OBVIOUS
<1>2. (IF o.name \in Mutations THEN t.patched \cup o.paths ELSE t.patched) \in SUBSET Paths
  BY DEF Evidence, Observation
<1> QED BY <1>1, <1>2 DEF Add, Within, Evidence

LEMMA AddMonotone ==
    ASSUME NEW t \in Evidence, NEW u \in Evidence, NEW o, NEW p,
           Within(t, u), o.name = p.name, o.passed => p.passed,
           o.name \in Mutations \cup {"read"} => o.paths \subseteq p.paths
    PROVE  Within(Add(t, o), Add(u, p))
<1>1. Add(t, o).reads <= Add(u, p).reads
  BY DEF Add, Within, Evidence
<1>2. Add(t, o).patched \subseteq Add(u, p).patched
  BY DEF Add, Within
<1>3. /\ Add(t, o).passed = (t.passed \/ (o.name = "check" /\ o.passed))
      /\ Add(u, p).passed = (u.passed \/ (p.name = "check" /\ p.passed))
      /\ Add(t, o).diffed = (t.diffed \/ o.name = "diff")
      /\ Add(u, p).diffed = (u.diffed \/ p.name = "diff")
  BY DEF Add
<1>4. (Add(t, o).passed => Add(u, p).passed) /\ (Add(t, o).diffed => Add(u, p).diffed)
  BY <1>3, Zenon DEF Within
<1> QED BY <1>1, <1>2, <1>3, <1>4 DEF Within

LEMMA AddNothing ==
    ASSUME NEW t \in Evidence, NEW o \in Observation, o.name = "check", ~o.passed
    PROVE  Within(Add(t, o), t)
<1>1. (t.passed \/ (o.name = "check" /\ o.passed)) = t.passed
  BY DEF Evidence
<1>2. (t.diffed \/ o.name = "diff") = t.diffed
  BY DEF Evidence
<1>3. /\ Add(t, o).reads = t.reads /\ Add(t, o).patched = t.patched
      /\ Add(t, o).passed = t.passed /\ Add(t, o).diffed = t.diffed
  BY <1>1, <1>2 DEF Add, Mutations
<1> QED BY <1>3 DEF Within, Evidence

LEMMA WithinTransitive ==
    ASSUME NEW t \in Evidence, NEW u \in Evidence, NEW v \in Evidence, Within(t, u), Within(u, v)
    PROVE  Within(t, v)
<1>1. t.reads <= v.reads
  BY DEF Within, Evidence
<1>2. t.patched \subseteq v.patched
  BY DEF Within
<1>3. (t.passed => v.passed) /\ (t.diffed => v.diffed)
  BY Zenon DEF Within
<1> QED BY <1>1, <1>2, <1>3 DEF Within

(* Every call the Agent may make, and what is observed of it, is well formed. *)
LEMMA CallsTyped == ASSUME files \in [Paths -> Nat] PROVE Calls \subseteq ToolCall
<1>1. Stale \in [Paths -> Nat]
  BY DEF Stale
<1>2. AnyText \in [Paths -> Nat] /\ [files EXCEPT !["completion"] = 0] \in [Paths -> Nat]
  BY DEF AnyText
<1>3. /\ <<>> \in Seq(Paths) /\ \A p \in Paths : <<p>> \in Seq(Paths)
      /\ <<"allocation">> \in Seq(Paths) /\ <<"completion">> \in Seq(Paths)
      /\ <<"completion", "allocation">> \in Seq(Paths)
  BY DEF Paths
<1>4. \A n \in Names, q \in Seq(Paths), b \in [Paths -> Nat] : Call(n, q, b) \in ToolCall
  BY DEF Call, ToolCall
<1> HIDE DEF Call
<1>5. \A p \in Paths : Call("read", <<p>>, AnyText) \in ToolCall
  BY <1>2, <1>3, <1>4 DEF Names
<1>6. \A n \in {"diff", "check"} : Call(n, <<>>, AnyText) \in ToolCall
  BY <1>2, <1>3, <1>4 DEF Names
<1>7. \A b \in {files, Stale} :
         /\ \A q \in {<<"allocation">>, <<"completion", "allocation">>} : Call("patch", q, b) \in ToolCall
         /\ Call("replace", <<"allocation">>, b) \in ToolCall
  BY <1>1, <1>3, <1>4 DEF Names
<1>8. Call("create", <<"completion">>, [files EXCEPT !["completion"] = 0]) \in ToolCall
  BY <1>2, <1>3, <1>4 DEF Names
<1>9. {Call("read", <<p>>, AnyText) : p \in Paths} \subseteq ToolCall
  BY <1>5
<1>10. {Call(n, <<>>, AnyText) : n \in {"diff", "check"}} \subseteq ToolCall
  BY <1>6
<1>11. {Call("patch", q, b) : b \in {files, Stale},
                             q \in {<<"allocation">>, <<"completion", "allocation">>}} \subseteq ToolCall
  BY <1>7
<1>12. {Call("replace", <<"allocation">>, b) : b \in {files, Stale}} \subseteq ToolCall
  BY <1>7
<1> QED BY <1>8, <1>9, <1>10, <1>11, <1>12 DEF Calls

LEMMA EffectTyped ==
    ASSUME TypeOK
    PROVE  /\ Effect \in Observation /\ AsAnswered \in Observation
           /\ AsAnswered.paths \subseteq ToSet(step.call.paths)
           /\ AsAnswered.name = step.call.name /\ AsAnswered.passed = (wire = "succeeded")
<1>1. step.call \in ToolCall
  BY DEF TypeOK, StepRow
<1>2. step.call.paths \in Seq(Paths) /\ step.call.name \in Names
  BY <1>1 DEF ToolCall
<1>3. ToSet(step.call.paths) \subseteq Paths
  BY <1>2 DEF ToSet
<1>4. step.call.paths # <<>> => Head(step.call.paths) \in ToSet(step.call.paths)
  BY <1>2 DEF ToSet
<1>5. (wire = "succeeded") \in BOOLEAN
  OBVIOUS
<1> QED BY <1>2, <1>3, <1>4, <1>5 DEF Effect, AsAnswered, Obs, Observation

-----------------------------------------------------------------------------
LEMMA TypedInit == Init => TypeOK
<1> SUFFICES ASSUME Init PROVE TypeOK
  OBVIOUS
<1>1. NoCall \in ToolCall
  BY DEF NoCall, Call, AnyText, ToolCall, Names
<1>2. NoObs \in Observation /\ Nothing \in Evidence
  BY DEF NoObs, Obs, Observation, Names, Nothing, Evidence
<1>3. step \in StepRow
  BY <1>1, <1>2 DEF Init, Step, StepRow, Statuses, Whys
<1>4. files \in [Paths -> Nat]
  BY DEF Init
<1> QED BY <1>1, <1>2, <1>3, <1>4 DEF Init, TypeOK

LEMMA PatchedTyped ==
    ASSUME TypeOK, NEW c \in ToolCall, Patched(c)
    PROVE  /\ files' \in [Paths -> Nat] /\ done' \in Evidence /\ Within(done, done')
           /\ done' = Add(done, Obs(c.name, ToSet(c.paths), FALSE))
<1>1. Obs(c.name, ToSet(c.paths), FALSE) \in Observation
  BY DEF Obs, Observation, ToolCall, ToSet
<1>2. files' \in [Paths -> Nat]
  BY DEF Patched, TypeOK
<1>3. done' = Add(done, Obs(c.name, ToSet(c.paths), FALSE)) /\ done \in Evidence
  BY DEF Patched, TypeOK
<1> QED BY <1>1, <1>2, <1>3, AddTyped

(* The Runtime is asked by the current step only, and only adds to what was   *)
(* done; the rest is the process's own.                                       *)
LEMMA RuntimeTyped ==
    ASSUME TypeOK, Runtime
    PROVE  TypeOK' /\ Within(done, done') /\ UNCHANGED <<edition, process>>
<1>1. Within(done, done)
  BY DEF Within, TypeOK, Evidence
<1>2. /\ step.call \in ToolCall /\ step.call.name \in Names
      /\ Obs(step.call.name, ToSet(step.call.paths), FALSE) \in Observation
      /\ Obs("check", {}, TRUE) \in Observation
  BY DEF TypeOK, StepRow, ToolCall, Obs, Observation, ToSet, Names
<1>3. CASE Serve
  BY <1>2, <1>3, AddTyped DEF Serve, TypeOK, process
<1>4. CASE AcceptPatch
  BY <1>1, <1>4 DEF AcceptPatch, TypeOK, process
<1>5. CASE ApplyPatch
  <2>1. CASE Patched(step.call)
    BY <1>2, <1>5, <2>1, PatchedTyped DEF ApplyPatch, TypeOK, process
  <2>2. CASE ~Patched(step.call)
    BY <1>1, <1>5, <2>2 DEF ApplyPatch, TypeOK, process
  <2> QED BY <2>1, <2>2
<1>6. CASE RunCheck
  BY <1>1, <1>2, <1>6, AddTyped DEF RunCheck, TypeOK, process
<1>7. ASSUME NEW c \in late, ApplyLate(c)
      PROVE  TypeOK' /\ Within(done, done') /\ UNCHANGED <<edition, process>>
  <2>1. c \in ToolCall
    BY DEF TypeOK
  <2>2. CASE Matches(c)
    BY <1>7, <2>1, <2>2, PatchedTyped DEF ApplyLate, TypeOK, process
  <2>3. CASE ~Matches(c)
    BY <1>1, <1>7, <2>3 DEF ApplyLate, TypeOK, process
  <2> QED BY <2>2, <2>3
<1> QED BY <1>3, <1>4, <1>5, <1>6, <1>7 DEF Runtime

LEMMA ReconciledTyped ==
    ASSUME TypeOK
    PROVE  /\ Reconciled.obs \in Observation /\ Reconciled.status \in Statuses
           /\ Reconciled.why \in Whys
           /\ Reconciled.status = "observed" =>
                 /\ wire \in {"committed", "succeeded", "failed"}
                 /\ Reconciled.obs.name = step.call.name /\ Reconciled.obs.paths = {}
                 /\ Reconciled.obs.passed => wire = "succeeded"
           /\ Reconciled.status = "rejected" => wire = "refused" \/ Reconciled.why = "prepared"
<1>1. step.call.name \in Names
  BY DEF TypeOK, StepRow, ToolCall
<1>2. /\ \A b \in BOOLEAN : Obs(step.call.name, {}, b) \in Observation
      /\ Obs("check", {}, wire = "succeeded") \in Observation /\ NoObs \in Observation
  BY <1>1 DEF Obs, NoObs, Observation, Names
<1>3. CASE step.call.name \in Mutations
  <2>1. /\ wire = "committed" => Reconciled = Step(step.call, "observed", "none",
                                                 Obs(step.call.name, {}, FALSE))
        /\ wire \in {"prepared", "refused"} => Reconciled = Step(step.call, "rejected", wire, NoObs)
        /\ wire \notin {"committed", "prepared", "refused"} =>
              Reconciled = Step(step.call, "unknown", "none", NoObs)
    <3>1. Reconciled = ReconciledPatch
      BY <1>3 DEF Reconciled, Mutations
    <3> QED BY <3>1 DEF ReconciledPatch
  <2>2. CASE wire = "committed"
    <3>0. Reconciled = Step(step.call, "observed", "none", Obs(step.call.name, {}, FALSE))
      BY <2>1, <2>2, Zenon
    <3>1. Reconciled.obs = Obs(step.call.name, {}, FALSE) /\ Reconciled.status = "observed"
          /\ Reconciled.why = "none"
      BY <3>0 DEF Step, Obs
    <3>2. /\ Reconciled.obs.name = step.call.name /\ Reconciled.obs.paths = {}
          /\ ~Reconciled.obs.passed
      BY <3>1 DEF Obs
    <3> QED BY <1>2, <2>2, <3>1, <3>2 DEF Statuses, Whys
  <2>3. CASE wire \in {"prepared", "refused"}
    BY <1>2, <2>1, <2>3 DEF Step, Statuses, Whys
  <2>4. CASE wire \notin {"committed", "prepared", "refused"}
    BY <1>2, <2>1, <2>4 DEF Step, Statuses, Whys
  <2> QED BY <2>2, <2>3, <2>4
<1>4. CASE step.call.name = "check"
  <2>1. /\ wire \in {"succeeded", "failed"} =>
              Reconciled = Step(step.call, "observed", "none", Obs("check", {}, wire = "succeeded"))
        /\ wire \notin {"succeeded", "failed"} =>
              Reconciled = Step(step.call, "unknown", "none", NoObs)
    BY <1>4 DEF Reconciled, ReconciledCheck, Mutations
  <2>2. CASE wire \in {"succeeded", "failed"}
    <3>1. Reconciled.obs = Obs("check", {}, wire = "succeeded") /\ Reconciled.status = "observed"
          /\ Reconciled.why = "none"
      BY <2>1, <2>2 DEF Step
    <3>2. /\ Reconciled.obs.name = "check" /\ Reconciled.obs.paths = {}
          /\ Reconciled.obs.passed = (wire = "succeeded")
      BY <3>1 DEF Obs
    <3> QED BY <1>2, <1>4, <2>2, <3>1, <3>2 DEF Statuses, Whys
  <2>3. CASE wire \notin {"succeeded", "failed"}
    BY <1>2, <2>1, <2>3 DEF Step, Statuses, Whys
  <2> QED BY <2>2, <2>3
<1>5. CASE step.call.name \notin Mutations \cup {"check"}
  <2>1. Reconciled = Step(step.call, "unknown", "none", NoObs)
    BY <1>5 DEF Reconciled
  <2> QED BY <1>2, <2>1 DEF Step, Statuses, Whys
<1> QED BY <1>3, <1>4, <1>5

LEMMA TypedStep == TypeOK /\ [Next]_vars => TypeOK'
<1> SUFFICES ASSUME TypeOK, [Next]_vars PROVE TypeOK'
  OBVIOUS
<1>0. /\ NoCall \in ToolCall /\ NoObs \in Observation /\ Nothing \in Evidence
      /\ step.call \in ToolCall /\ step.obs \in Observation /\ call \in ToolCall
  BY DEF NoCall, Call, AnyText, ToolCall, Names, NoObs, Obs, Observation, Nothing, Evidence,
         TypeOK, StepRow
<1>1. CASE Lower
  <2>1. call' \in ToolCall
    BY <1>1, CallsTyped DEF Lower, TypeOK
  <2> QED BY <1>1, <2>1 DEF Lower, TypeOK, world
<1>2. CASE Prepare
  <2>1. step' \in StepRow
    BY <1>0, <1>2 DEF Prepare, Step, StepRow, Statuses, Whys
  <2> QED BY <1>0, <1>2, <2>1 DEF Prepare, TypeOK
<1>3. ASSUME NEW status \in Statuses, NEW why \in Whys, NEW obs \in Observation,
             Record(status, why, obs)
      PROVE  TypeOK'
  <2>1. step' \in StepRow
    BY <1>0, <1>3 DEF Record, Step, StepRow
  <2> QED BY <1>3, <2>1 DEF Record, TypeOK, world
<1>4. CASE StoppedBeforeDispatch \/ Answer \/ Reconcile
  <2>1. CASE StoppedBeforeDispatch
    BY <1>0, <1>3, <2>1 DEF StoppedBeforeDispatch, Statuses, Whys
  <2>2. CASE Answer
    BY <1>0, <1>3, <2>2, EffectTyped DEF Answer, Statuses, Whys
  <2>3. CASE Reconcile
    BY <1>0, <1>3, <2>3, ReconciledTyped DEF Reconcile, Statuses, Whys
  <2> QED BY <1>4, <2>1, <2>2, <2>3
<1>5. CASE Dispatch
  BY <1>5 DEF Dispatch, TypeOK
<1>6. CASE AnswerLost \/ StopAsked \/ \E artifact \in BOOLEAN : Conclude(artifact)
  BY <1>6 DEF AnswerLost, StopAsked, Conclude, TypeOK, world
<1>7. CASE Onward
  BY <1>0, <1>7, AddTyped DEF Onward, TypeOK, world
<1>8. CASE Down \/ Resume
  BY <1>0, <1>8 DEF Down, Resume, TypeOK, world
<1>9. CASE Runtime
  BY <1>9, RuntimeTyped
<1>10. CASE UNCHANGED vars
  BY <1>10 DEF vars, process, world, TypeOK
<1> QED BY <1>1, <1>2, <1>4, <1>5, <1>6, <1>7, <1>8, <1>9, <1>10 DEF Next

(* A step, its request and the evidence are always well formed.               *)
THEOREM Typing == Spec => []TypeOK
<1> QED BY TypedInit, TypedStep, PTL DEF Spec

-----------------------------------------------------------------------------
LEMMA RetainedTyped ==
    ASSUME TypeOK
    PROVE  Retained \in Evidence /\ Within(snapshot, Retained) /\ Within(snapshot, snapshot)
<1>1. snapshot \in Evidence /\ step.obs \in Observation
  BY DEF TypeOK, StepRow
<1>2. Within(snapshot, snapshot)
  BY <1>1 DEF Within, Evidence
<1> QED BY <1>1, <1>2, AddTyped DEF Retained

(* What the Runtime does for the step is done on top of what was observed.    *)
LEMMA RealRuntime ==
    ASSUME TypeOK, TypeOK', Real, Runtime
    PROVE  Real'
<1>1. Within(done, done') /\ UNCHANGED <<pc, step, seen, snapshot>>
  BY RuntimeTyped DEF process
<1>2. /\ snapshot \in Evidence /\ done \in Evidence /\ done' \in Evidence
      /\ Retained \in Evidence /\ Within(snapshot, Retained) /\ Within(Retained, done)
      /\ Effect \in Observation /\ step.call \in ToolCall
  BY RetainedTyped, EffectTyped DEF TypeOK, StepRow, Real
<1>3. Within(snapshot, done)
  BY <1>2, WithinTransitive
<1>4. MemoryIsRetained' /\ Retained' = Retained
  BY <1>1 DEF Real, MemoryIsRetained, Retained
<1>5. Within(Retained', done')
  BY <1>1, <1>2, <1>4, WithinTransitive
<1>6. ASSUME NEW o, done' = Add(done, o), o.name = step.call.name, wire' = "succeeded" => o.passed,
             step.call.name \in Mutations \cup {"read"} => o.paths = ToSet(step.call.paths)
      PROVE  Within(Add(snapshot, Effect'), done')
  <2>1. /\ Effect'.name = o.name /\ (Effect'.passed => o.passed)
        /\ o.name \in Mutations \cup {"read"} => Effect'.paths \subseteq o.paths
    BY <1>1, <1>6 DEF Effect, Obs
  <2> QED BY <1>2, <1>3, <1>6, <2>1, AddMonotone
<1>7. CASE Serve
  <2>1. wire' = "served" /\ step.call.name \in {"read", "diff"}
        /\ done' = Add(done, Obs(step.call.name, ToSet(step.call.paths), FALSE))
    BY <1>7 DEF Serve
  <2>2. Within(Add(snapshot, Effect'), done')
    BY <1>6, <2>1 DEF Obs
  <2>3. WireIsOfStep'
    BY <1>1, <2>1, <2>2 DEF WireIsOfStep
  <2> QED BY <1>4, <1>5, <2>3 DEF Real
<1>8. CASE AcceptPatch
  <2>1. WireIsOfStep'
    BY <1>1, <1>8 DEF AcceptPatch, WireIsOfStep
  <2> QED BY <1>4, <1>5, <2>1 DEF Real
<1>9. CASE ApplyPatch
  <2>1. CASE wire' = "committed"
    <3>1. done' = Add(done, Obs(step.call.name, ToSet(step.call.paths), FALSE))
      BY <1>9, <2>1 DEF ApplyPatch, Patched
    <3>2. Within(Add(snapshot, Effect'), done')
      BY <1>6, <2>1, <3>1 DEF Obs
    <3>3. WireIsOfStep'
      BY <1>1, <1>9, <2>1, <3>2 DEF ApplyPatch, WireIsOfStep, Real
    <3> QED BY <1>4, <1>5, <3>3 DEF Real
  <2>2. CASE wire' # "committed"
    <3>1. WireIsOfStep'
      BY <1>1, <1>9, <2>2 DEF ApplyPatch, WireIsOfStep, Real
    <3> QED BY <1>4, <1>5, <3>1 DEF Real
  <2> QED BY <2>1, <2>2
<1>10. CASE RunCheck
  <2>1. CASE wire' = "succeeded"
    <3>1. done' = Add(done, Obs("check", {}, TRUE)) /\ step.call.name = "check"
      BY <1>10, <2>1 DEF RunCheck
    <3>2. Within(Add(snapshot, Effect'), done')
      BY <1>6, <2>1, <3>1 DEF Obs, Mutations
    <3>3. WireIsOfStep'
      BY <1>1, <2>1, <3>1, <3>2 DEF WireIsOfStep
    <3> QED BY <1>4, <1>5, <3>3 DEF Real
  <2>2. CASE wire' # "succeeded"
    <3>1. WireIsOfStep'
      BY <1>1, <1>10, <2>2 DEF RunCheck, WireIsOfStep
    <3> QED BY <1>4, <1>5, <3>1 DEF Real
  <2> QED BY <2>1, <2>2
<1>11. CASE \E c \in late : ApplyLate(c)
  <2>1. wire' = wire /\ Effect' = Effect
    BY <1>1, <1>11 DEF ApplyLate, Effect
  <2>2. Add(snapshot, Effect) \in Evidence
    BY <1>2, AddTyped
  <2>3. Within(Add(snapshot, Effect), done) => Within(Add(snapshot', Effect'), done')
    BY <1>1, <1>2, <2>1, <2>2, WithinTransitive
  <2>4. WireIsOfStep'
    BY <1>1, <2>1, <2>3 DEF WireIsOfStep, Real
  <2> QED BY <1>4, <1>5, <2>4 DEF Real
<1> QED BY <1>7, <1>8, <1>9, <1>10, <1>11 DEF Runtime

(* A receipt retains no more than took place.                                 *)
LEMMA RealRecord ==
    ASSUME TypeOK, Real, pc \in {"dispatch", "wait", "reconcile", "recover"},
           NEW status \in Statuses, NEW why, NEW obs \in Observation, Record(status, why, obs),
           status = "observed" => Within(Add(snapshot, obs), done)
    PROVE  Real'
<1>1. /\ UNCHANGED <<wire, done, seen, snapshot>> /\ pc' = "settled"
      /\ step'.call = step.call /\ step'.status = status /\ step'.obs = obs
  BY DEF Record, Step, world
<1>2. MemoryIsRetained'
  BY <1>1 DEF Real, MemoryIsRetained
<1>3. Effect' = Effect
  BY <1>1 DEF Effect
<1>4. WireIsOfStep'
  BY <1>1, <1>3 DEF Real, WireIsOfStep
<1>5. Within(snapshot, done)
  BY RetainedTyped, WithinTransitive DEF Real, TypeOK
<1>6. Within(Retained', done')
  BY <1>1, <1>5 DEF Retained
<1> QED BY <1>2, <1>4, <1>6 DEF Real

LEMMA RealAnswer ==
    ASSUME TypeOK, Real, StoppedBeforeDispatch \/ Answer \/ Reconcile
    PROVE  Real'
<1>1. /\ snapshot \in Evidence /\ done \in Evidence /\ Within(snapshot, snapshot)
      /\ Within(snapshot, done) /\ Effect \in Observation /\ NoObs \in Observation
      /\ Add(snapshot, Effect) \in Evidence
      /\ Effect.name = step.call.name /\ Effect.passed = (wire = "succeeded")
      /\ Effect.paths = ToSet(step.call.paths)
  <2>1. Within(snapshot, done)
    BY RetainedTyped, WithinTransitive DEF Real, TypeOK
  <2> QED BY <2>1, EffectTyped, RetainedTyped, AddTyped DEF TypeOK, Effect, Obs, NoObs, Observation, Names
<1>2. ASSUME NEW o \in Observation, o.name = step.call.name, o.passed => wire = "succeeded",
             o.paths \subseteq ToSet(step.call.paths),
             wire \in {"served", "committed", "succeeded", "failed"}
      PROVE  Within(Add(snapshot, o), done)
  <2>1. Add(snapshot, o) \in Evidence
    BY <1>1, AddTyped
  <2>2. CASE wire = "failed"
    <3>1. o.name = "check" /\ ~o.passed
      BY <1>2, <2>2 DEF Real, WireIsOfStep
    <3> QED BY <1>1, <2>1, <3>1, AddNothing, WithinTransitive
  <2>3. CASE wire # "failed"
    <3>1. Within(Add(snapshot, Effect), done)
      BY <1>2, <2>3 DEF Real, WireIsOfStep
    <3>2. Within(Add(snapshot, o), Add(snapshot, Effect))
      BY <1>1, <1>2, AddMonotone
    <3> QED BY <1>1, <2>1, <3>1, <3>2, WithinTransitive
  <2> QED BY <2>2, <2>3
<1>3. CASE StoppedBeforeDispatch
  BY <1>1, <1>3, RealRecord DEF StoppedBeforeDispatch, Statuses
<1>4. CASE Answer
  <2>1. CASE wire \in {"served", "committed", "succeeded", "failed"} /\ Record("observed", "none", AsAnswered)
    <3>1. Within(Add(snapshot, AsAnswered), done)
      BY <1>2, <2>1, EffectTyped
    <3> QED BY <1>4, <2>1, <3>1, EffectTyped, RealRecord DEF Answer, Statuses
  <2>2. CASE Record("rejected", "refused", NoObs)
    BY <1>1, <1>4, <2>2, RealRecord DEF Answer, Statuses
  <2> QED BY <1>4, <2>1, <2>2 DEF Answer
<1>5. CASE Reconcile
  <2>1. CASE Record(Reconciled.status, Reconciled.why, Reconciled.obs)
    <3>1. Reconciled.status = "observed" => Within(Add(snapshot, Reconciled.obs), done)
      BY <1>2, ReconciledTyped
    <3> QED BY <1>5, <2>1, <3>1, ReconciledTyped, RealRecord DEF Reconcile
  <2>2. CASE Record("unknown", "none", NoObs)
    BY <1>1, <1>5, <2>2, RealRecord DEF Reconcile, Statuses
  <2> QED BY <1>5, <2>1, <2>2 DEF Reconcile
<1> QED BY <1>3, <1>4, <1>5

LEMMA RealInit == Init => Real
BY DEF Init, Real, MemoryIsRetained, WireIsOfStep, Retained, Within, Nothing, Step

LEMMA RealStep == TypeOK /\ TypeOK' /\ Real /\ [Next]_vars => Real'
<1> SUFFICES ASSUME TypeOK, TypeOK', Real, [Next]_vars PROVE Real'
  OBVIOUS
<1>1. ASSUME UNCHANGED <<wire, done, step, snapshot>>, MemoryIsRetained' PROVE Real'
  <2>1. Effect' = Effect /\ Retained' = Retained
    BY <1>1 DEF Effect, Retained
  <2> QED BY <1>1, <2>1 DEF Real, WireIsOfStep
<1>2. CASE Lower \/ AnswerLost \/ StopAsked \/ \E artifact \in BOOLEAN : Conclude(artifact)
  BY <1>1, <1>2 DEF Lower, AnswerLost, StopAsked, Conclude, world, Real, MemoryIsRetained, Retained
<1>3. CASE Onward
  BY <1>1, <1>3 DEF Onward, world, Real, MemoryIsRetained, Retained
<1>4. CASE Down \/ Resume
  BY <1>1, <1>4 DEF Down, Resume, world, Real, MemoryIsRetained, Retained
<1>5. CASE Prepare
  <2>1. /\ step'.status = "prepared" /\ snapshot' = Retained /\ seen' = snapshot'
        /\ wire' = "unsent" /\ pc' = "dispatch" /\ done' = done
    BY <1>5 DEF Prepare, Step, Real, MemoryIsRetained
  <2>2. Retained' = Retained
    BY <2>1 DEF Retained
  <2> QED BY <2>1, <2>2 DEF Real, MemoryIsRetained, WireIsOfStep
<1>6. CASE Dispatch
  <2>1. Retained' = Retained /\ done' = done
    BY <1>6 DEF Dispatch, Retained
  <2> QED BY <1>6, <2>1 DEF Dispatch, Real, MemoryIsRetained, WireIsOfStep
<1>7. CASE UNCHANGED vars
  BY <1>1, <1>7 DEF vars, process, world, Real, MemoryIsRetained, Retained
<1> QED BY <1>2, <1>3, <1>4, <1>5, <1>6, <1>7, RealRuntime, RealAnswer DEF Next

(* A Run that completed had what it misses, and its Agent goes no further.    *)
NothingMissing ==
    pc = "completed" =>
        /\ seen.reads >= 2 /\ seen.passed /\ seen.diffed
        /\ "allocation" \in seen.patched
        /\ edition = "edit" => "completion" \in seen.patched

LEMMA NothingMissingStep == TypeOK /\ NothingMissing /\ [Next]_vars => NothingMissing'
<1> SUFFICES ASSUME TypeOK, NothingMissing, [Next]_vars PROVE NothingMissing'
  OBVIOUS
<1>1. ASSUME NEW artifact \in BOOLEAN, Conclude(artifact) PROVE NothingMissing'
  <2>1. UNCHANGED <<edition, seen>> /\ Missing(artifact) = {} /\ seen.reads \in Nat
    BY <1>1 DEF Conclude, TypeOK, Evidence
  <2>2. ~(seen.reads < 2) /\ "allocation" \in seen.patched
        /\ ~(edition = "edit" /\ "completion" \notin seen.patched)
    BY <2>1 DEF Missing
  <2>3. seen.passed /\ seen.diffed
    BY <2>1 DEF Missing
  <2> QED BY <2>1, <2>2, <2>3 DEF NothingMissing
<1>2. CASE Runtime \/ StopAsked
  BY <1>2, RuntimeTyped DEF StopAsked, process, NothingMissing, world
<1>3. CASE \/ Lower \/ Prepare \/ StoppedBeforeDispatch \/ Dispatch \/ Answer \/ AnswerLost
           \/ Reconcile \/ Onward \/ Down \/ Resume
  BY <1>3 DEF Lower, Prepare, StoppedBeforeDispatch, Dispatch, Answer, AnswerLost, Reconcile,
              Record, Onward, Down, Resume, NothingMissing
<1>4. CASE UNCHANGED vars
  BY <1>4 DEF vars, process, NothingMissing
<1> QED BY <1>1, <1>2, <1>3, <1>4 DEF Next

(* A repair that completed happened, though answers were lost and processes
   died in between: the Workspace was read twice, the file patched, the check
   run with success and the diff taken, by this Run and not in a report only. *)
THEOREM CompletedMeansDone == Spec => []EvidenceIsReal
<1> DEFINE IInv == TypeOK /\ Real /\ NothingMissing
<1>1. Init => IInv
  BY TypedInit, RealInit DEF Init, NothingMissing
<1>2. IInv /\ [Next]_vars => IInv'
  BY TypedStep, RealStep, NothingMissingStep
<1>3. IInv => EvidenceIsReal
  <2> SUFFICES ASSUME IInv, pc = "completed" PROVE EvidenceIsReal
    BY DEF EvidenceIsReal
  <2>1. Within(seen, done) /\ seen \in Evidence /\ done \in Evidence
    BY DEF Real, MemoryIsRetained, TypeOK
  <2> QED BY <2>1 DEF NothingMissing, Within, Evidence, EvidenceIsReal
<1> QED BY <1>1, <1>2, <1>3, PTL DEF Spec

(* A patch whose step was recorded as rejected is out: no later step of the
   process or the Runtime makes it happen, but for one patch.get found
   prepared.                                                                  *)
LEMMA RejectionStep ==
    TypeOK /\ DispatchIsFirst /\ RejectionMeansOut /\ [Next]_vars
        => DispatchIsFirst' /\ RejectionMeansOut'
<1> SUFFICES ASSUME TypeOK, DispatchIsFirst, RejectionMeansOut, [Next]_vars
             PROVE  DispatchIsFirst' /\ RejectionMeansOut'
  OBVIOUS
<1>1. CASE Runtime
  <2>1. UNCHANGED <<pc, step>> /\ (wire' = wire \/ wire \in {"sent", "prepared", "running"})
    BY <1>1, RuntimeTyped DEF Runtime, process, Serve, AcceptPatch, ApplyPatch, RunCheck, ApplyLate
  <2> QED BY <2>1 DEF DispatchIsFirst, RejectionMeansOut
<1>2. ASSUME NEW status, NEW why, NEW obs, Record(status, why, obs),
             status = "rejected" /\ step.call.name \in Mutations =>
                wire = "refused" \/ why = "prepared" \/ (why = "stopped" /\ wire = "unsent")
      PROVE  DispatchIsFirst' /\ RejectionMeansOut'
  <2>1. /\ wire' = wire /\ pc' = "settled" /\ step'.call = step.call /\ step'.status = status
        /\ step'.why = why
    BY <1>2 DEF Record, Step, world
  <2> QED BY <1>2, <2>1 DEF DispatchIsFirst, RejectionMeansOut
<1>3. CASE StoppedBeforeDispatch
  BY <1>2, <1>3 DEF StoppedBeforeDispatch, DispatchIsFirst
<1>4. CASE Answer
  BY <1>2, <1>4 DEF Answer
<1>5. CASE Reconcile
  BY <1>2, <1>5, ReconciledTyped DEF Reconcile
<1>6. CASE Prepare \/ Dispatch
  BY <1>6 DEF Prepare, Dispatch, Step, DispatchIsFirst, RejectionMeansOut
<1>7. CASE \/ Lower \/ AnswerLost \/ Onward \/ StopAsked \/ Down \/ Resume
           \/ \E artifact \in BOOLEAN : Conclude(artifact)
  <2>1. UNCHANGED <<wire, step>> /\ (pc' = pc \/ pc' # "dispatch")
    BY <1>7 DEF Lower, AnswerLost, Onward, StopAsked, Down, Resume, Conclude, world
  <2> QED BY <2>1 DEF DispatchIsFirst, RejectionMeansOut
<1>8. CASE UNCHANGED vars
  BY <1>8 DEF vars, process, world, DispatchIsFirst, RejectionMeansOut
<1> QED BY <1>1, <1>3, <1>4, <1>5, <1>6, <1>7, <1>8 DEF Next

(* A patch the Agent is told was rejected has not happened and will not, but
   for one that patch.get found prepared.                                     *)
THEOREM RejectedStaysOut == Spec => []RejectionMeansOut
<1> DEFINE IInv == TypeOK /\ DispatchIsFirst /\ RejectionMeansOut
<1>1. Init => IInv
  BY TypedInit DEF Init, DispatchIsFirst, RejectionMeansOut, Step
<1>2. IInv /\ [Next]_vars => IInv'
  BY TypedStep, RejectionStep
<1>3. IInv => RejectionMeansOut
  OBVIOUS
<1> QED BY <1>1, <1>2, <1>3, PTL DEF Spec
=============================================================================
