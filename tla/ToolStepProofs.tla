--------------------------- MODULE ToolStepProofs ---------------------------
(***************************************************************************)
(* Theorems about ToolStep, for any number of workers, Tool calls and      *)
(* clock readings.                                                         *)
(***************************************************************************)
EXTENDS ToolStep, SequenceTheorems, FiniteSetTheorems, TLAPS

(* A worker that has a call in hand keeps its intent; one that is past its
   preparation, or recovers, has a current step.                           *)
Stepping == {"prepared", "fenced", "out", "lookup", "record", "recover"}
Holding == {"preparing", "prepared", "fenced", "out", "lookup", "record"}
Sound(m) ==
    /\ m.at \in Holding \union {"new", "ready", "recover"} => m.call \in Calls
    /\ m.at \in Holding => m.kept \in Intent /\ m.kept.call = m.call
    /\ m.at = "record" => m.status \in Statuses
HoldsIntent ==
    \A w \in Workers : Sound(me[w]) /\ (me[w].at \in Stepping => head # None)

(* The right to dispatch: prepared by this worker, not yet sent.           *)
MayDispatch(w) == me[w].at \in {"prepared", "fenced"}

(* A prepared step belongs to the worker that prepared it until it is sent. *)
RightsExclusive ==
    /\ \A i \in DOMAIN jobs : jobs[i].intent \in prepared
    /\ \A w \in Workers : MayDispatch(w) =>
          /\ me[w].kept \in prepared
          /\ \A i \in DOMAIN jobs : jobs[i].intent # me[w].kept
          /\ \A v \in Workers : MayDispatch(v) /\ me[v].kept = me[w].kept => v = w

(* The current step is prepared, and has its receipt exactly if one is
   recorded for its intent.                                                *)
HeadHasReceipt ==
    /\ \A r \in receipts : r.intent \in prepared
    /\ head # None =>
          /\ head.intent \in prepared
          /\ head.receipt = None => \A r \in receipts : r.intent # head.intent
          /\ head.receipt # None =>
                [intent |-> head.intent, status |-> head.receipt] \in receipts

(* The call before this one is known to have been observed or rejected.    *)
Due(call) == call > 1 =>
    \E r \in receipts : r.intent.call = call - 1 /\ r.status \in {"observed", "rejected"}

OrderKept ==
    /\ \A w \in Workers : Due(me[w].call)
    /\ \A p \in prepared : Due(p.call)

(* What a status says of the intent is true and stays true.                *)
Ran(call) == \E i \in DOMAIN jobs : jobs[i].intent.call = call /\ jobs[i].state = "landed"
NeverRuns(p) ==
    /\ p \in prepared
    /\ \A i \in DOMAIN jobs : jobs[i].intent = p => jobs[i].state = "refused"
    /\ \A w \in Workers : MayDispatch(w) => me[w].kept # p
Truth(p, status) ==
    /\ status = "observed" => Ran(p.call)
    /\ status = "rejected" /\ p.call \in Execs => NeverRuns(p)

(* A receipt says so, or a worker is about to.                             *)
Claimed(p, status) ==
    \/ \E w \in Workers : me[w].at = "record" /\ me[w].kept = p /\ me[w].status = status
    \/ [intent |-> p, status |-> status] \in receipts
StatusesTrue == \A p \in Intent, status \in Statuses : Claimed(p, status) => Truth(p, status)

Typed == TypeOK /\ HoldsIntent

-----------------------------------------------------------------------------
(* A loop that stopped is well-formed.                                     *)
LEMMA BlankTyped ==
    ASSUME NEW place \in {"new", "stop", "gone"}
    PROVE  Blank(place) \in Loop /\ Sound(Blank(place)) /\ Blank(place).at = place
BY BatchAssumption DEF Loop, Calls, Places, Blank, Sound, Holding, Stepping

(* So is one that goes on after an outcome.                                *)
LEMMA OnwardTyped ==
    ASSUME NEW m \in Loop, m.call \in Calls, NEW status \in Statuses
    PROVE  /\ Onward(m, status) \in Loop
           /\ Sound(Onward(m, status))
           /\ Onward(m, status).at \in {"ready", "gone", "stop"}
<1>1. CASE status \in {"observed", "rejected"}
  <2> USE BatchAssumption DEF Loop, Calls, Places
  <2>1. m.call + 1 \in 1 .. Size + 1 /\ (m.call # Size => m.call + 1 \in 1 .. Size)
    OBVIOUS
  <2>2. Onward(m, status) = [m EXCEPT !.status = status, !.call = @ + 1,
                     !.at = IF m.call = Size THEN "gone" ELSE "ready"]
    BY <1>1 DEF Onward
  <2> QED BY <2>1, <2>2 DEF Sound, Holding, Stepping
<1>2. CASE status \notin {"observed", "rejected"}
  BY <1>2, BlankTyped DEF Onward
<1> QED BY <1>1, <1>2

(* The Runtime's decision about one request.                               *)
LEMMA JobDecided ==
    ASSUME jobs \in Seq(Job), NEW i \in DOMAIN jobs, NEW s \in {"landed", "refused"},
           jobs' = [jobs EXCEPT ![i].state = s]
    PROVE  /\ jobs' \in Seq(Job) /\ DOMAIN jobs' = DOMAIN jobs
           /\ \A j \in DOMAIN jobs : jobs'[j].intent = jobs[j].intent
           /\ \A j \in DOMAIN jobs : jobs'[j].state = IF j = i THEN s ELSE jobs[j].state
<1>1. jobs[i] \in Job /\ [jobs[i] EXCEPT !.state = s] \in Job
  <2>1. i \in 1 .. Len(jobs)
    OBVIOUS
  <2>2. jobs[i] \in Job
    BY <2>1, ElementOfSeq
  <2> QED BY <2>2 DEF Job
<1>2. jobs' = [jobs EXCEPT ![i] = [jobs[i] EXCEPT !.state = s]]
  OBVIOUS
<1>3. jobs' \in Seq(Job) /\ DOMAIN jobs' = DOMAIN jobs
  BY <1>1, <1>2, ExceptSeq
<1> QED BY <1>1, <1>2, <1>3 DEF Job

(* A new request.                                                          *)
LEMMA JobSent ==
    ASSUME jobs \in Seq(Job), NEW job \in Job, jobs' = Append(jobs, job)
    PROVE  /\ jobs' \in Seq(Job) /\ DOMAIN jobs' = DOMAIN jobs \union {Len(jobs) + 1}
           /\ jobs'[Len(jobs) + 1] = job
           /\ \A j \in DOMAIN jobs : jobs'[j] = jobs[j] /\ j # Len(jobs) + 1
OBVIOUS

(* A step that changes the memory of one worker soundly.                   *)
LEMMA LoopStep ==
    ASSUME me \in [Workers -> Loop], \A v \in Workers : Sound(me[v]),
           NEW w \in Workers, NEW m \in Loop, Sound(m), me' = [me EXCEPT ![w] = m]
    PROVE  me' \in [Workers -> Loop] /\ \A v \in Workers : Sound(me'[v])
OBVIOUS

(* Every reachable state is type-correct, and a worker that has a call in
   hand keeps an intent of that call: the type invariant of the protocol.  *)
THEOREM Typing == Spec => [](TypeOK /\ HoldsIntent)
<1>1. Init => Typed
  <2> SUFFICES ASSUME Init PROVE Typed
    OBVIOUS
  <2>1. me \in [Workers -> Loop] /\ \A w \in Workers : Sound(me[w]) /\ me[w].at = "new"
    BY BlankTyped DEF Init
  <2>2. jobs \in Seq(Job)
    BY DEF Init
  <2> QED BY <2>1, <2>2 DEF Init, Typed, TypeOK, HoldsIntent, Stepping
<1>2. Typed /\ [Next]_vars => Typed'
  <2> SUFFICES ASSUME Typed, [Next]_vars PROVE Typed'
    OBVIOUS
  <2>0. /\ me \in [Workers -> Loop] /\ \A v \in Workers : Sound(me[v])
        /\ \A v \in Workers : me[v].at \in Stepping => head # None
    BY DEF Typed, TypeOK, HoldsIntent
  <2>1. ASSUME NEW w \in Workers, NEW m \in Loop, Sound(m),
               m.at \in Stepping => head' # None, head # None => head' # None,
               me' = [me EXCEPT ![w] = m],
               rev' \in Nat, prepared' \subseteq Intent, head' \in Step \union {None},
               receipts' \subseteq Receipt, ended' \in BOOLEAN, jobs' \in Seq(Job)
        PROVE  Typed'
    BY <2>0, <2>1, LoopStep DEF Typed, TypeOK, HoldsIntent
  <2>2. /\ rev \in Nat /\ prepared \subseteq Intent /\ head \in Step \union {None}
        /\ receipts \subseteq Receipt /\ ended \in BOOLEAN /\ jobs \in Seq(Job)
    BY DEF Typed, TypeOK
  <2>3. ASSUME NEW w \in Workers, Enter(w) PROVE Typed'
    <3> DEFINE m == [me[w] EXCEPT !.at = IF head = None THEN "ready" ELSE "recover",
                                   !.call = IF head = None THEN 1 ELSE head.intent.call]
    <3>a. head # None => head.intent \in Intent
      BY <2>2 DEF Step
    <3>1. m \in Loop /\ Sound(m) /\ (m.at \in Stepping => head' # None)
      <4>1. m.at \in {"ready", "recover"} /\ (m.at = "recover" => head # None)
        BY <2>0 DEF Loop
      <4>2. m.call \in Calls
        BY <2>0, <3>a, BatchAssumption DEF Loop, Calls, Intent
      <4>3. Calls \subseteq 1 .. Size + 1
        BY BatchAssumption DEF Calls
      <4>4. m \in Loop
        BY <2>0, <4>1, <4>2, <4>3 DEF Loop, Places
      <4>5. head' = head
        BY <2>3 DEF Enter
      <4> HIDE DEF m
      <4> QED BY <4>1, <4>2, <4>4, <4>5 DEF Sound, Holding, Stepping
    <3>2. me' = [me EXCEPT ![w] = m]
      BY <2>3, <2>0 DEF Enter, Step
    <3> HIDE DEF m
    <3> QED BY <2>3, <2>1, <2>2, <3>1, <3>2 DEF Enter, Step
  <2>4. ASSUME NEW w \in Workers, NEW t \in Times, Observe(w, t) PROVE Typed'
    <3> DEFINE m == [me[w] EXCEPT !.at = "preparing", !.seen = rev, !.status = None,
                                   !.kept = [call |-> me[w].call, at |-> t]]
    <3>1. m \in Loop /\ Sound(m) /\ (m.at \in Stepping => head' # None)
      <4>1. [call |-> me[w].call, at |-> t] \in Intent
        BY <2>4, <2>0 DEF Observe, Intent, Sound
      <4> QED BY <2>4, <2>0, <2>2, <4>1 DEF Observe, Loop, Sound, Holding, Stepping, Places
    <3>2. me' = [me EXCEPT ![w] = m]
      BY <2>4, <2>0 DEF Observe
    <3> HIDE DEF m
    <3> QED BY <2>4, <2>1, <2>2, <3>1, <3>2 DEF Observe
  <2>5. ASSUME NEW w \in Workers, Prepare(w) PROVE Typed'
    <3> DEFINE m == [me[w] EXCEPT !.at = "prepared", !.seen = 0]
    <3>3. me[w].kept \in Intent
      BY <2>5, <2>0 DEF Prepare, Sound, Holding, Stepping
    <3>4. head' \in Step /\ rev' \in Nat /\ prepared' \subseteq Intent
      BY <2>5, <2>2, <3>3 DEF Prepare, Step
    <3>5. head' # None
      BY <3>4, NullAssumption
    <3>1. m \in Loop /\ Sound(m)
      BY <2>5, <2>0 DEF Prepare, Loop, Sound, Holding, Places, Calls
    <3>2. me' = [me EXCEPT ![w] = m]
      BY <2>5, <2>0 DEF Prepare
    <3> HIDE DEF m
    <3> QED BY <2>5, <2>1, <2>2, <3>1, <3>2, <3>4, <3>5 DEF Prepare
  <2>6. ASSUME NEW w \in Workers, AssertFence(w) PROVE Typed'
    <3> DEFINE m == [me[w] EXCEPT !.at = "fenced"]
    <3>1. m \in Loop /\ Sound(m) /\ (m.at \in Stepping => head' # None)
      BY <2>6, <2>0 DEF AssertFence, Loop, Sound, Holding, Stepping, Places
    <3>2. me' = [me EXCEPT ![w] = m]
      BY <2>6, <2>0 DEF AssertFence, Go
    <3> HIDE DEF m
    <3> QED BY <2>6, <2>1, <2>2, <3>1, <3>2 DEF AssertFence, Go
  <2>7. ASSUME NEW w \in Workers, Decline(w) PROVE Typed'
    <3> DEFINE m == [me[w] EXCEPT !.at = "record", !.status = "rejected"]
    <3>1. m \in Loop /\ Sound(m) /\ (m.at \in Stepping => head' # None)
      BY <2>7, <2>0 DEF Decline, Loop, Sound, Holding, Stepping, Places, Statuses
    <3>2. me' = [me EXCEPT ![w] = m]
      BY <2>7, <2>0 DEF Decline, Answered
    <3> HIDE DEF m
    <3> QED BY <2>7, <2>1, <2>2, <3>1, <3>2 DEF Decline, Answered
  <2>8. ASSUME NEW w \in Workers, Dispatch(w) PROVE Typed'
    <3> DEFINE m == [me[w] EXCEPT !.at = "out"]
    <3>1. m \in Loop /\ Sound(m) /\ (m.at \in Stepping => head' # None)
      BY <2>8, <2>0 DEF Dispatch, Loop, Sound, Holding, Stepping, Places
    <3>2. me' = [me EXCEPT ![w] = m]
      BY <2>8, <2>0 DEF Dispatch, Go
    <3> HIDE DEF m
    <3>3. [intent |-> me[w].kept, by |-> w, state |-> "flying"] \in Job
      BY <2>8, <2>0 DEF Dispatch, Job, Sound, Holding, Stepping
    <3>4. jobs' \in Seq(Job)
      BY <2>8, <2>2, <3>3, JobSent DEF Dispatch
    <3> QED BY <2>8, <2>1, <2>2, <3>1, <3>2, <3>4 DEF Dispatch
  <2>9. ASSUME NEW w \in Workers, NEW status \in Statuses, Answer(w, status) PROVE Typed'
    <3> DEFINE m == [me[w] EXCEPT !.at = "record", !.status = status]
    <3>1. m \in Loop /\ Sound(m) /\ (m.at \in Stepping => head' # None)
      BY <2>9, <2>0 DEF Answer, Loop, Sound, Holding, Stepping, Places
    <3>2. me' = [me EXCEPT ![w] = m]
      BY <2>9, <2>0 DEF Answer, Answered
    <3> HIDE DEF m
    <3> QED BY <2>9, <2>1, <2>2, <3>1, <3>2 DEF Answer, Answered
  <2>10. ASSUME NEW w \in Workers, RejectUncommitted(w) PROVE Typed'
    <3> DEFINE m == [me[w] EXCEPT !.at = "record", !.status = "rejected"]
    <3>1. m \in Loop /\ Sound(m) /\ (m.at \in Stepping => head' # None)
      BY <2>10, <2>0 DEF RejectUncommitted, Loop, Sound, Holding, Stepping, Places, Statuses
    <3>2. me' = [me EXCEPT ![w] = m]
      BY <2>10, <2>0 DEF RejectUncommitted, Answered
    <3> HIDE DEF m
    <3>3. jobs' \in Seq(Job)
      BY <2>10, <2>2, JobDecided DEF RejectUncommitted
    <3> QED BY <2>10, <2>1, <2>2, <3>1, <3>2, <3>3 DEF RejectUncommitted
  <2>11. ASSUME NEW w \in Workers, LoseAnswer(w) PROVE Typed'
    <3> DEFINE m == Uncertain(me[w])
    <3>1. m \in Loop /\ Sound(m) /\ (m.at \in Stepping => head' # None)
      BY <2>11, <2>0
         DEF LoseAnswer, Uncertain, Loop, Sound, Holding, Stepping, Places, Statuses
    <3>2. me' = [me EXCEPT ![w] = m]
      BY <2>11, <2>0 DEF LoseAnswer, Uncertain
    <3> HIDE DEF m
    <3> QED BY <2>11, <2>1, <2>2, <3>1, <3>2 DEF LoseAnswer, Uncertain
  <2>12. ASSUME NEW w \in Workers, Recover(w) PROVE Typed'
    <3> DEFINE m == IF head.receipt # None THEN Onward([me[w] EXCEPT !.kept = head.intent], head.receipt)
                    ELSE Uncertain([me[w] EXCEPT !.kept = head.intent])
    <3> DEFINE k == [me[w] EXCEPT !.kept = head.intent]
    <3>a. head \in Step /\ head.intent \in Intent /\ head.receipt \in Statuses \union {None}
      BY <2>12, <2>0, <2>2 DEF Recover, Step, Stepping
    <3>b. k \in Loop /\ k.call \in Calls /\ k.kept = head.intent /\ k.kept.call = k.call
      BY <2>12, <2>0, <3>a DEF Recover, Loop, Sound, Holding, Stepping
    <3> HIDE DEF k
    <3>c. ASSUME head.receipt # None
          PROVE  m \in Loop /\ Sound(m) /\ (m.at \in Stepping => head' # None)
      <4>1. Onward(k, head.receipt) \in Loop /\ Sound(Onward(k, head.receipt))
            /\ Onward(k, head.receipt).at \notin Stepping
        BY <3>a, <3>b, <3>c, OnwardTyped DEF Stepping
      <4> QED BY <4>1, <3>c DEF k
    <3>d. ASSUME head.receipt = None
          PROVE  m \in Loop /\ Sound(m) /\ (m.at \in Stepping => head' # None)
      <4>1. Uncertain(k) \in Loop /\ Sound(Uncertain(k)) /\ head' # None
        BY <2>12, <2>0, <3>a, <3>b
           DEF Recover, Uncertain, Loop, Sound, Holding, Stepping,
              Places, Statuses
      <4> QED BY <4>1, <3>d DEF k
    <3>1. m \in Loop /\ Sound(m) /\ (m.at \in Stepping => head' # None)
      BY <3>c, <3>d
    <3>2. me' = [me EXCEPT ![w] = m]
      BY <2>12, <2>0 DEF Recover, Uncertain, Step
    <3> HIDE DEF m
    <3> QED BY <2>12, <2>1, <2>2, <3>1, <3>2 DEF Recover, Uncertain, Step
  <2>13. ASSUME NEW w \in Workers, NEW status \in Statuses, Lookup(w, status) PROVE Typed'
    <3> DEFINE m == [me[w] EXCEPT !.at = "record", !.status = status]
    <3>1. m \in Loop /\ Sound(m) /\ (m.at \in Stepping => head' # None)
      BY <2>13, <2>0 DEF Lookup, Loop, Sound, Holding, Stepping, Places
    <3>2. me' = [me EXCEPT ![w] = m]
      BY <2>13, <2>0 DEF Lookup, Answered
    <3> HIDE DEF m
    <3> QED BY <2>13, <2>1, <2>2, <3>1, <3>2 DEF Lookup, Answered
  <2>14. ASSUME NEW w \in Workers, Record(w) PROVE Typed'
    <3> DEFINE m == Onward(me[w], me[w].status)
    <3>1. m \in Loop /\ Sound(m) /\ (m.at \in Stepping => head' # None)
      BY <2>14, <2>0, <2>2, OnwardTyped DEF Record, Sound, Holding, Stepping
    <3>2. me' = [me EXCEPT ![w] = m]
      BY <2>14, <2>0 DEF Record
    <3> HIDE DEF m
    <3>3. me[w].kept \in Intent /\ me[w].status \in Statuses
      BY <2>14, <2>0 DEF Record, Sound, Holding, Stepping
    <3>4. head \in Step /\ head' \in Step
      <4>1. head # None
        BY <2>14, <2>0 DEF Record, Stepping
      <4>2. head \in Step /\ head' = [head EXCEPT !.receipt = me[w].status]
        BY <2>14, <2>2, <4>1 DEF Record
      <4> QED BY <3>3, <4>2 DEF Step
    <3>5. head' # None
      BY <3>4, NullAssumption
    <3>6. receipts' \subseteq Receipt /\ rev' \in Nat
      BY <2>14, <2>2, <3>3 DEF Record, Receipt
    <3> QED BY <2>14, <2>1, <2>2, <3>1, <3>2, <3>4, <3>5, <3>6 DEF Record
  <2>15. ASSUME NEW w \in Workers, Stop(w) PROVE Typed'
    <3> DEFINE m == Blank("gone")
    <3>1. m \in Loop /\ Sound(m) /\ (m.at \in Stepping => head' # None)
      BY <2>15, <2>0, <2>2, BlankTyped DEF Stop, Quit, Stepping
    <3>2. me' = [me EXCEPT ![w] = m]
      BY <2>15, <2>0 DEF Stop, Quit
    <3> HIDE DEF m
    <3>3. rev' \in Nat /\ ended' \in BOOLEAN
      BY <2>15, <2>2 DEF Stop
    <3> QED BY <2>15, <2>1, <2>2, <3>1, <3>2, <3>3 DEF Stop
  <2>16. ASSUME NEW w \in Workers, Refuse(w) PROVE Typed'
    <3> DEFINE m == Blank(IF me[w].at = "stop" THEN "gone" ELSE "stop")
    <3>1. m \in Loop /\ Sound(m) /\ (m.at \in Stepping => head' # None)
      BY <2>16, <2>0, <2>2, BlankTyped DEF Refuse, Quit, Stepping
    <3>2. me' = [me EXCEPT ![w] = m]
      BY <2>16, <2>0 DEF Refuse, Quit
    <3> HIDE DEF m
    <3> QED BY <2>16, <2>1, <2>2, <3>1, <3>2 DEF Refuse, Quit
  <2>17. ASSUME NEW i \in DOMAIN jobs, Land(i) PROVE Typed'
    BY <2>17, <2>0, <2>2, JobDecided DEF Land, Typed, TypeOK, HoldsIntent
  <2>18. CASE UNCHANGED vars
    BY <2>18 DEF vars, Typed, TypeOK, HoldsIntent
  <2> QED
    BY <2>3, <2>4, <2>5, <2>6, <2>7, <2>8, <2>9, <2>10, <2>11, <2>12, <2>13, <2>14, <2>15, <2>16, <2>17, <2>18
       DEF Next, WorkerStep
<1> QED
  BY <1>1, <1>2, PTL DEF Spec, Typed

-----------------------------------------------------------------------------
Rights == RightsExclusive /\ StepDispatchedOnce

NoNewRight == \A v \in Workers :
    MayDispatch(v)' => MayDispatch(v) /\ me'[v].kept = me[v].kept

(* When rights to dispatch are only kept or given up, they stay exclusive. *)
LEMMA RightsKept ==
    ASSUME Rights, NoNewRight, prepared \subseteq prepared', DOMAIN jobs' = DOMAIN jobs,
           \A i \in DOMAIN jobs : jobs'[i].intent = jobs[i].intent
    PROVE  Rights'
BY DEF Rights, RightsExclusive, StepDispatchedOnce, NoNewRight

(* Every step but a preparation and a dispatch leaves the intents of the
   requests and the rights as they are, or fewer of these.                 *)
LEMMA QuietSteps ==
    ASSUME Typed, [Next]_vars,
           \A w \in Workers : ~Prepare(w) /\ ~Dispatch(w)
    PROVE  /\ NoNewRight /\ prepared' = prepared
           /\ DOMAIN jobs' = DOMAIN jobs
           /\ \A i \in DOMAIN jobs : jobs'[i].intent = jobs[i].intent
<1>0. me \in [Workers -> Loop] /\ jobs \in Seq(Job)
  BY DEF Typed, TypeOK
<1> DEFINE Same == /\ prepared' = prepared /\ DOMAIN jobs' = DOMAIN jobs
                   /\ \A i \in DOMAIN jobs : jobs'[i].intent = jobs[i].intent
<1>1. ASSUME NEW w \in Workers, Enter(w) PROVE NoNewRight /\ Same
  BY <1>0, <1>1 DEF Enter, NoNewRight, MayDispatch, Loop
<1>2. ASSUME NEW w \in Workers, AssertFence(w) PROVE NoNewRight /\ Same
  BY <1>0, <1>2 DEF AssertFence, Go, NoNewRight, MayDispatch, Loop
<1>3. ASSUME NEW w \in Workers, Decline(w) PROVE NoNewRight /\ Same
  BY <1>0, <1>3 DEF Decline, Answered, NoNewRight, MayDispatch, Loop
<1>4. ASSUME NEW w \in Workers, LoseAnswer(w) PROVE NoNewRight /\ Same
  BY <1>0, <1>4 DEF LoseAnswer, Uncertain, NoNewRight, MayDispatch, Loop
<1>5. ASSUME NEW w \in Workers, Recover(w) PROVE NoNewRight /\ Same
  BY <1>0, <1>5 DEF Recover, Uncertain, Onward, Blank, NoNewRight, MayDispatch, Loop
<1>6. ASSUME NEW w \in Workers, Record(w) PROVE NoNewRight /\ Same
  BY <1>0, <1>6 DEF Record, Onward, Blank, NoNewRight, MayDispatch, Loop
<1>7. ASSUME NEW w \in Workers, Stop(w) PROVE NoNewRight /\ Same
  BY <1>0, <1>7 DEF Stop, Quit, Blank, NoNewRight, MayDispatch, Loop
<1>8. ASSUME NEW w \in Workers, Refuse(w) PROVE NoNewRight /\ Same
  BY <1>0, <1>8 DEF Refuse, Quit, Blank, NoNewRight, MayDispatch, Loop
<1>9. ASSUME NEW w \in Workers, NEW t \in Times, Observe(w, t) PROVE NoNewRight /\ Same
  BY <1>0, <1>9 DEF Observe, NoNewRight, MayDispatch, Loop
<1>10. ASSUME NEW w \in Workers, NEW status \in Statuses, Answer(w, status)
      PROVE  NoNewRight /\ Same
  BY <1>0, <1>10 DEF Answer, Answered, NoNewRight, MayDispatch, Loop
<1>11. ASSUME NEW w \in Workers, NEW status \in Statuses, Lookup(w, status)
      PROVE  NoNewRight /\ Same
  BY <1>0, <1>11 DEF Lookup, Answered, NoNewRight, MayDispatch, Loop
<1>12. ASSUME NEW w \in Workers, RejectUncommitted(w) PROVE NoNewRight /\ Same
  <2>1. Same
    BY <1>0, <1>12, JobDecided DEF RejectUncommitted
  <2>2. NoNewRight
    BY <1>0, <1>12 DEF RejectUncommitted, Answered, NoNewRight, MayDispatch, Loop
  <2> QED BY <2>1, <2>2
<1>13. ASSUME NEW i \in DOMAIN jobs, Land(i) PROVE NoNewRight /\ Same
  BY <1>0, <1>13, JobDecided DEF Land, NoNewRight, MayDispatch
<1>14. ASSUME UNCHANGED vars PROVE NoNewRight /\ Same
  BY <1>14 DEF vars, NoNewRight, MayDispatch
<1> HIDE DEF Same
<1> QED
  <2>1. ASSUME NEW w \in Workers, Enter(w) \/ WorkerStep(w) PROVE NoNewRight /\ Same
    BY <2>1, <1>1, <1>2, <1>3, <1>4, <1>5, <1>6, <1>7, <1>8, <1>9, <1>10, <1>11, <1>12
       DEF WorkerStep
  <2> QED BY <2>1, <1>13, <1>14 DEF Next, Same

(* Rights to dispatch are exclusive, and the requests sent are of different
   intents, in every reachable state.                                      *)
LEMMA RightsHold == Spec => []Rights
<1>1. Init => Rights
  BY BlankTyped DEF Init, Rights, RightsExclusive, StepDispatchedOnce, MayDispatch
<1>2. Typed /\ Rights /\ [Next]_vars => Rights'
  <2> SUFFICES ASSUME Typed, Rights, [Next]_vars PROVE Rights'
    OBVIOUS
  <2>0. me \in [Workers -> Loop] /\ jobs \in Seq(Job) /\ \A w \in Workers : Sound(me[w])
    BY DEF Typed, TypeOK, HoldsIntent
  <2>1. ASSUME NEW w \in Workers, Prepare(w) PROVE Rights'
    <3>1. me[w].kept \notin prepared /\ prepared' = prepared \union {me[w].kept}
      BY <2>1 DEF Prepare
    <3>2. me'[w].kept = me[w].kept /\ jobs' = jobs
      BY <2>0, <2>1 DEF Prepare, Loop
    <3>3. \A v \in Workers : v # w => me'[v] = me[v]
      BY <2>0, <2>1 DEF Prepare
    <3>4. \A v \in Workers : v # w /\ MayDispatch(v) => me[v].kept # me[w].kept
      BY <3>1 DEF Rights, RightsExclusive
    <3>5. \A i \in DOMAIN jobs : jobs[i].intent # me[w].kept
      BY <3>1 DEF Rights, RightsExclusive
    <3> QED
      BY <3>1, <3>2, <3>3, <3>4, <3>5
         DEF Rights, RightsExclusive, StepDispatchedOnce, MayDispatch
  <2>2. ASSUME NEW w \in Workers, Dispatch(w) PROVE Rights'
    <3> DEFINE job == [intent |-> me[w].kept, by |-> w, state |-> "flying"]
    <3>1. MayDispatch(w) /\ ~MayDispatch(w)' /\ prepared' = prepared
      BY <2>0, <2>2 DEF Dispatch, Go, MayDispatch, Loop
    <3>2. \A v \in Workers : v # w => me'[v] = me[v]
      BY <2>0, <2>2 DEF Dispatch, Go
    <3>3. job \in Job
      BY <2>0, <2>2 DEF Dispatch, Job, Sound, Holding
    <3>4. /\ DOMAIN jobs' = DOMAIN jobs \union {Len(jobs) + 1}
          /\ jobs'[Len(jobs) + 1].intent = me[w].kept
          /\ \A j \in DOMAIN jobs : jobs'[j] = jobs[j] /\ j # Len(jobs) + 1
      BY <2>0, <2>2, <3>3, JobSent DEF Dispatch
    <3>5. /\ me[w].kept \in prepared
          /\ \A i \in DOMAIN jobs : jobs[i].intent # me[w].kept
          /\ \A v \in Workers : v # w /\ MayDispatch(v) => me[v].kept # me[w].kept
      BY <3>1 DEF Rights, RightsExclusive
    <3> QED
      BY <3>1, <3>2, <3>4, <3>5
         DEF Rights, RightsExclusive, StepDispatchedOnce, MayDispatch
  <2>3. CASE \A w \in Workers : ~Prepare(w) /\ ~Dispatch(w)
    BY <2>3, QuietSteps, RightsKept
  <2> QED BY <2>1, <2>2, <2>3
<1> QED
  BY <1>1, <1>2, Typing, PTL DEF Spec, Typed

(* A prepared step is consumed by at most one physical request, with any
   number of workers, crashes, lost answers and reconciliations.           *)
THEOREM DispatchedOnce == Spec => []StepDispatchedOnce
BY RightsHold, PTL DEF Rights

-----------------------------------------------------------------------------
(* Only a preparation changes what is prepared, only a receipt what is
   recorded; the current step changes with either.                         *)
LEMMA HeadChanges ==
    ASSUME [Next]_vars, \A w \in Workers : ~Prepare(w) /\ ~Record(w)
    PROVE  prepared' = prepared /\ head' = head /\ receipts' = receipts
BY DEF Next, WorkerStep, Enter, Observe, AssertFence, Decline, Dispatch, Answer, Lookup,
       RejectUncommitted, LoseAnswer, Recover, Stop, Refuse, Land, vars

(* The current step shows the one receipt of its intent.                   *)
LEMMA ReceiptsHold == Spec => [](HeadHasReceipt /\ OneReceiptPerStep)
<1> DEFINE Inv == HeadHasReceipt /\ OneReceiptPerStep
<1>1. Init => Inv
  BY DEF Init, HeadHasReceipt, OneReceiptPerStep
<1>2. Typed /\ Inv /\ [Next]_vars => Inv'
  <2> SUFFICES ASSUME Typed, Inv, [Next]_vars PROVE Inv'
    OBVIOUS
  <2>0. me \in [Workers -> Loop] /\ \A w \in Workers : Sound(me[w])
    BY DEF Typed, TypeOK, HoldsIntent
  <2>1. ASSUME NEW w \in Workers, Prepare(w) PROVE Inv'
    BY <2>1 DEF Prepare, HeadHasReceipt, OneReceiptPerStep
  <2>2. ASSUME NEW w \in Workers, Record(w) PROVE Inv'
    <3> DEFINE new == [intent |-> me[w].kept, status |-> me[w].status]
    <3>1. head \in Step
      BY <2>2 DEF Record, Typed, TypeOK, HoldsIntent, Stepping
    <3>2. /\ head # None /\ head.intent = me[w].kept /\ head.receipt = None
          /\ receipts' = receipts \union {new} /\ prepared' = prepared
      BY <2>2, <3>1, NullAssumption DEF Record
    <3>3. head' = [head EXCEPT !.receipt = me[w].status]
      BY <2>2 DEF Record
    <3>4. head'.intent = head.intent /\ head'.receipt = me[w].status
      BY <3>1, <3>3 DEF Step
    <3>5. \A r \in receipts : r.intent # head.intent
      BY <3>2 DEF HeadHasReceipt
    <3>6. head.intent \in prepared /\ \A r \in receipts : r.intent \in prepared
      BY <3>2 DEF HeadHasReceipt
    <3>7. me[w].status # None
      BY <2>0, <2>2, NullAssumption DEF Record, Sound
    <3>8. new.intent = head.intent
      BY <3>2
    <3>9. OneReceiptPerStep'
      BY <3>2, <3>5, <3>8 DEF OneReceiptPerStep
    <3>10. HeadHasReceipt'
      BY <3>2, <3>4, <3>6, <3>7, <3>8 DEF HeadHasReceipt
    <3> QED BY <3>9, <3>10
  <2>3. CASE \A w \in Workers : ~Prepare(w) /\ ~Record(w)
    BY <2>3, HeadChanges DEF HeadHasReceipt, OneReceiptPerStep
  <2> QED BY <2>1, <2>2, <2>3
<1> QED
  BY <1>1, <1>2, Typing, PTL DEF Spec, Typed, Inv

(* A step never has two receipts, although every worker that finds it open
   may reconcile it and its own worker may answer late.                    *)
THEOREM OneReceipt == Spec => []OneReceiptPerStep
BY ReceiptsHold, PTL

-----------------------------------------------------------------------------
(* An outcome that lets the batch go on takes the loop to the next call.   *)
LEMMA OnwardCall ==
    ASSUME NEW m \in Loop, NEW status
    PROVE  LET n == Onward(m, status) IN
           \/ n.call = 1
           \/ /\ status \in {"observed", "rejected"}
              /\ n.call = m.call + 1 /\ n.kept = m.kept /\ n.status = status
BY DEF Onward, Blank, Loop

Advanced(w) ==
    \/ me'[w].call = me[w].call \/ me'[w].call = 1
    \/ /\ me'[w].call = me[w].call + 1 /\ me'[w].kept.call = me[w].call
       /\ me'[w].status \in {"observed", "rejected"}
       /\ [intent |-> me'[w].kept, status |-> me'[w].status] \in receipts'

(* A loop in a batch goes to another call only past one with a receipt, and
   with the status of that receipt; or it stopped and forgot the batch.    *)
LEMMA Advances ==
    ASSUME Typed, HeadHasReceipt, [Next]_vars, NEW v \in Workers
    PROVE  Advanced(v) \/ Enter(v)
<1>0. me \in [Workers -> Loop] /\ \A w \in Workers : Sound(me[w])
  BY DEF Typed, TypeOK, HoldsIntent
<1>1. ASSUME NEW w \in Workers, Record(w) PROVE Advanced(v)
  <2>1. me' = [me EXCEPT ![w] = Onward(me[w], me[w].status)]
    BY <1>0, <1>1 DEF Record
  <2>2. me[w].kept.call = me[w].call
        /\ [intent |-> me[w].kept, status |-> me[w].status] \in receipts'
    BY <1>0, <1>1 DEF Record, Sound, Holding
  <2>3. CASE v = w
    BY <1>0, <2>1, <2>2, <2>3, OnwardCall DEF Advanced
  <2>4. CASE v # w
    BY <1>0, <2>1, <2>4 DEF Advanced
  <2> QED BY <2>3, <2>4
<1>2. ASSUME NEW w \in Workers, Recover(w) PROVE Advanced(v)
  <2> DEFINE k == [me[w] EXCEPT !.kept = head.intent]
  <2>1. head \in Step /\ head # None
    BY <1>2 DEF Recover, Typed, TypeOK, HoldsIntent, Stepping
  <2>2. k \in Loop /\ k.kept = head.intent /\ k.call = me[w].call /\ head.intent.call = k.call
    BY <1>0, <1>2, <2>1 DEF Recover, Loop, Step
  <2>3. me' = [me EXCEPT ![w] = IF head.receipt # None THEN Onward(k, head.receipt)
                                                       ELSE Uncertain(k)]
    BY <1>0, <1>2 DEF Recover
  <2>4. head.receipt # None =>
           [intent |-> head.intent, status |-> head.receipt] \in receipts'
    BY <1>2, <2>1 DEF Recover, HeadHasReceipt
  <2> HIDE DEF k
  <2>5. Uncertain(k).call = k.call
    BY <2>2 DEF Uncertain, Loop
  <2>6. CASE v = w /\ head.receipt # None
    BY <1>0, <2>2, <2>3, <2>4, <2>6, OnwardCall DEF Advanced
  <2>7. CASE v = w /\ head.receipt = None
    BY <1>0, <2>2, <2>3, <2>5, <2>7 DEF Advanced
  <2>8. CASE v # w
    BY <1>0, <2>3, <2>8 DEF Advanced
  <2> QED BY <2>6, <2>7, <2>8
<1>3. ASSUME NEW w \in Workers, Prepare(w) PROVE Advanced(v)
  BY <1>0, <1>3 DEF Prepare, Advanced, Loop
<1>4. ASSUME NEW w \in Workers, AssertFence(w) PROVE Advanced(v)
  BY <1>0, <1>4 DEF AssertFence, Go, Advanced, Loop
<1>5. ASSUME NEW w \in Workers, Decline(w) PROVE Advanced(v)
  BY <1>0, <1>5 DEF Decline, Answered, Advanced, Loop
<1>6. ASSUME NEW w \in Workers, Dispatch(w) PROVE Advanced(v)
  BY <1>0, <1>6 DEF Dispatch, Go, Advanced, Loop
<1>7. ASSUME NEW w \in Workers, LoseAnswer(w) PROVE Advanced(v)
  BY <1>0, <1>7 DEF LoseAnswer, Uncertain, Advanced, Loop
<1>8. ASSUME NEW w \in Workers, RejectUncommitted(w) PROVE Advanced(v)
  BY <1>0, <1>8 DEF RejectUncommitted, Answered, Advanced, Loop
<1>9. ASSUME NEW w \in Workers, Stop(w) PROVE Advanced(v)
  BY <1>0, <1>9 DEF Stop, Quit, Blank, Advanced, Loop
<1>10. ASSUME NEW w \in Workers, Refuse(w) PROVE Advanced(v)
  BY <1>0, <1>10 DEF Refuse, Quit, Blank, Advanced, Loop
<1>11. ASSUME NEW w \in Workers, NEW t \in Times, Observe(w, t) PROVE Advanced(v)
  BY <1>0, <1>11 DEF Observe, Advanced, Loop
<1>12. ASSUME NEW w \in Workers, NEW status \in Statuses, Answer(w, status) PROVE Advanced(v)
  BY <1>0, <1>12 DEF Answer, Answered, Advanced, Loop
<1>13. ASSUME NEW w \in Workers, NEW status \in Statuses, Lookup(w, status) PROVE Advanced(v)
  BY <1>0, <1>13 DEF Lookup, Answered, Advanced, Loop
<1>14. ASSUME NEW w \in Workers, Enter(w) PROVE Advanced(v) \/ Enter(v)
  BY <1>0, <1>14 DEF Enter, Advanced
<1>15. ASSUME NEW i \in DOMAIN jobs, Land(i) PROVE Advanced(v)
  BY <1>15 DEF Land, Advanced
<1>16. ASSUME UNCHANGED vars PROVE Advanced(v)
  BY <1>16 DEF vars, Advanced
<1> QED
  <2>1. ASSUME NEW w \in Workers, Enter(w) \/ WorkerStep(w) PROVE Advanced(v) \/ Enter(v)
    BY <2>1, <1>1, <1>2, <1>3, <1>4, <1>5, <1>6, <1>7, <1>8, <1>9, <1>10, <1>11, <1>12, <1>13, <1>14
       DEF WorkerStep
  <2> QED BY <2>1, <1>15, <1>16 DEF Next

(* What is recorded stays recorded.                                        *)
LEMMA ReceiptsGrow ==
    ASSUME [Next]_vars PROVE receipts \subseteq receipts'
<1>1. ASSUME NEW w \in Workers, Prepare(w) \/ Record(w) PROVE receipts \subseteq receipts'
  BY <1>1 DEF Prepare, Record
<1> QED BY <1>1, HeadChanges

(* Whatever is prepared, or about to be, comes after a receipt of the call
   before it.                                                              *)
LEMMA OrderHolds == Spec => []OrderKept
<1>1. Init => OrderKept
  BY BlankTyped DEF Init, OrderKept, Due, Blank
<1>2. Typed /\ HeadHasReceipt /\ OrderKept /\ [Next]_vars => OrderKept'
  <2> SUFFICES ASSUME Typed, HeadHasReceipt, OrderKept, [Next]_vars PROVE OrderKept'
    OBVIOUS
  <2>0. me \in [Workers -> Loop] /\ \A w \in Workers : Sound(me[w])
    BY DEF Typed, TypeOK, HoldsIntent
  <2>1. ASSUME NEW call, Due(call) PROVE Due(call)'
    BY <2>1, ReceiptsGrow DEF Due
  <2>2. ASSUME NEW w \in Workers PROVE Due(me[w].call)'
    <3>1. CASE Enter(w)
      <4>1. me'[w].call = 1 \/ (me'[w].call = head.intent.call /\ head.intent \in prepared)
        BY <2>0, <3>1 DEF Enter, Loop, HeadHasReceipt
      <4>2. Due(1)'
        BY DEF Due
      <4> QED BY <4>1, <4>2, <2>1 DEF OrderKept
    <3>2. CASE Advanced(w)
      <4>1. CASE me'[w].call = me[w].call
        BY <4>1, <2>1 DEF OrderKept
      <4>2. CASE me'[w].call = 1
        BY <4>2 DEF Due
      <4>3. CASE me'[w].call # me[w].call /\ me'[w].call # 1
        <5>1. me[w].call \in Int
          BY <2>0 DEF Loop
        <5> QED BY <3>2, <4>3, <5>1 DEF Advanced, Due
      <4> QED BY <4>1, <4>2, <4>3
    <3> QED BY <3>1, <3>2, Advances
  <2>3. ASSUME NEW p \in prepared' PROVE Due(p.call)'
    <3>1. CASE p \in prepared
      BY <3>1, <2>1 DEF OrderKept
    <3>2. CASE p \notin prepared
      <4>1. PICK w \in Workers : Prepare(w) /\ p = me[w].kept
        BY <3>2, HeadChanges DEF Prepare, Record
      <4>2. p.call = me[w].call
        BY <2>0, <4>1 DEF Prepare, Sound, Holding
      <4> QED BY <4>2, <2>1 DEF OrderKept
    <3> QED BY <3>1, <3>2
  <2> QED BY <2>2, <2>3 DEF OrderKept
<1> QED
  BY <1>1, <1>2, Typing, ReceiptsHold, PTL DEF Spec, Typed

(* No Tool is dispatched past a call whose outcome is open or unknown.     *)
THEOREM InOrder == Spec => []BatchInOrder
<1>1. Typed /\ Rights /\ OrderKept => BatchInOrder
  BY DEF Typed, TypeOK, Rights, RightsExclusive, OrderKept, Due, BatchInOrder
<1> QED
  BY <1>1, Typing, RightsHold, OrderHolds, PTL DEF Typed

(* A worker goes on with the outcome the Journal has, or not at all.       *)
THEOREM ToldWhatIsRecorded == Spec => ToldAsRecorded
<1>1. Typed /\ HeadHasReceipt /\ [Next]_vars =>
        [\A w \in Workers :
           me[w].at # "new" /\ me'[w].call > me[w].call =>
             [intent |-> me'[w].kept, status |-> me'[w].status] \in receipts']_vars
  <2> SUFFICES ASSUME Typed, HeadHasReceipt, [Next]_vars, NEW w \in Workers,
                      me[w].at # "new", me'[w].call > me[w].call
               PROVE  [intent |-> me'[w].kept, status |-> me'[w].status] \in receipts'
    OBVIOUS
  <2>1. me[w].call \in Nat \ {0}
    BY BatchAssumption DEF Typed, TypeOK, Loop
  <2>2. Advanced(w)
    BY Advances DEF Enter
  <2> QED BY <2>1, <2>2 DEF Advanced
<1> QED
  BY <1>1, Typing, ReceiptsHold, PTL DEF Spec, Typed, ToldAsRecorded

-----------------------------------------------------------------------------
JobsGrown ==
    /\ \A i \in DOMAIN jobs :
          /\ i \in DOMAIN jobs' /\ jobs'[i].intent = jobs[i].intent
          /\ jobs[i].state # "flying" => jobs'[i].state = jobs[i].state
    /\ \A i \in DOMAIN jobs' : i \notin DOMAIN jobs =>
          \E w \in Workers : Dispatch(w) /\ jobs'[i].intent = me[w].kept

(* Requests are only added, by a dispatch, and decided ones stay so.       *)
LEMMA JobsGrow ==
    ASSUME Typed, [Next]_vars PROVE JobsGrown
<1>0. /\ me \in [Workers -> Loop] /\ jobs \in Seq(Job)
      /\ \A w \in Workers : Sound(me[w])
  BY DEF Typed, TypeOK, HoldsIntent
<1>1. ASSUME NEW w \in Workers, Dispatch(w) PROVE JobsGrown
  <2> DEFINE job == [intent |-> me[w].kept, by |-> w, state |-> "flying"]
  <2>1. job \in Job
    BY <1>0, <1>1 DEF Dispatch, Job, Sound, Holding
  <2>2. /\ DOMAIN jobs' = DOMAIN jobs \union {Len(jobs) + 1}
        /\ jobs'[Len(jobs) + 1].intent = me[w].kept
        /\ \A j \in DOMAIN jobs : jobs'[j] = jobs[j]
    BY <1>0, <1>1, <2>1, JobSent DEF Dispatch
  <2> QED BY <1>1, <2>2 DEF JobsGrown
<1>2. ASSUME NEW i \in DOMAIN jobs, NEW s \in {"landed", "refused"}, jobs[i].state = "flying",
             jobs' = [jobs EXCEPT ![i].state = s]
      PROVE  JobsGrown
  BY <1>0, <1>2, JobDecided DEF JobsGrown
<1>3. ASSUME NEW w \in Workers, RejectUncommitted(w) PROVE JobsGrown
  BY <1>2, <1>3 DEF RejectUncommitted
<1>4. ASSUME NEW i \in DOMAIN jobs, Land(i) PROVE JobsGrown
  BY <1>2, <1>4 DEF Land
<1>5. CASE jobs' = jobs
  BY <1>5 DEF JobsGrown
<1> QED
  <2>1. ASSUME NEW w \in Workers, Enter(w) \/ WorkerStep(w) PROVE JobsGrown
    BY <2>1, <1>1, <1>3, <1>5
       DEF WorkerStep, Enter, Observe, Prepare, AssertFence, Decline, Answer, Lookup,
           LoseAnswer, Recover, Record, Stop, Refuse
  <2> QED BY <2>1, <1>4, <1>5 DEF Next, vars

(* A right to dispatch is an old one, or of an intent not prepared before. *)
LEMMA RightsMove ==
    ASSUME Typed, [Next]_vars, NEW v \in Workers, MayDispatch(v)'
    PROVE  \/ MayDispatch(v) /\ me'[v].kept = me[v].kept
           \/ me'[v].kept \notin prepared
<1>0. me \in [Workers -> Loop]
  BY DEF Typed, TypeOK
<1>1. ASSUME NEW w \in Workers, Prepare(w)
      PROVE  \/ MayDispatch(v) /\ me'[v].kept = me[v].kept
             \/ me'[v].kept \notin prepared
  BY <1>0, <1>1 DEF Prepare, MayDispatch, Loop
<1>2. ASSUME NEW w \in Workers, Dispatch(w) PROVE MayDispatch(v) /\ me'[v].kept = me[v].kept
  BY <1>0, <1>2 DEF Dispatch, Go, MayDispatch, Loop
<1>3. CASE \A w \in Workers : ~Prepare(w) /\ ~Dispatch(w)
  BY <1>3, QuietSteps DEF NoNewRight
<1> QED BY <1>1, <1>2, <1>3

(* What is prepared stays prepared.                                        *)
LEMMA PreparedGrow ==
    ASSUME [Next]_vars PROVE prepared \subseteq prepared'
<1>1. ASSUME NEW w \in Workers, Prepare(w) \/ Record(w) PROVE prepared \subseteq prepared'
  BY <1>1 DEF Prepare, Record
<1> QED BY <1>1, HeadChanges

(* What was true of a step stays true, whoever does what.                  *)
LEMMA TruthStays ==
    ASSUME Typed, Rights, [Next]_vars, NEW p, NEW status, Truth(p, status)
    PROVE  Truth(p, status)'
<1>1. ASSUME Ran(p.call) PROVE Ran(p.call)'
  BY <1>1, JobsGrow DEF Ran, JobsGrown
<1>2. ASSUME NeverRuns(p) PROVE NeverRuns(p)'
  <2>1. p \in prepared'
    BY <1>2, PreparedGrow DEF NeverRuns
  <2>2. ASSUME NEW i \in DOMAIN jobs', jobs'[i].intent = p PROVE jobs'[i].state = "refused"
    <3>1. CASE i \in DOMAIN jobs
      BY <1>2, <2>2, <3>1, JobsGrow DEF NeverRuns, JobsGrown
    <3>2. CASE i \notin DOMAIN jobs
      <4>1. PICK w \in Workers : Dispatch(w) /\ jobs'[i].intent = me[w].kept
        BY <3>2, JobsGrow DEF JobsGrown
      <4>2. MayDispatch(w)
        BY <4>1 DEF Dispatch, MayDispatch
      <4> QED BY <1>2, <2>2, <4>1, <4>2 DEF NeverRuns
    <3> QED BY <3>1, <3>2
  <2>3. ASSUME NEW v \in Workers, MayDispatch(v)' PROVE me'[v].kept # p
    BY <1>2, <2>3, RightsMove DEF NeverRuns
  <2> QED BY <2>1, <2>2, <2>3 DEF NeverRuns
<1> QED BY <1>1, <1>2 DEF Truth

(* An outcome a worker has just learned is true.                           *)
LEMMA OutcomeTrue ==
    ASSUME Typed, Rights, [Next]_vars, NEW p, NEW s, NEW v \in Workers,
           me'[v].at = "record", me'[v].kept = p, me'[v].status = s
    PROVE  me'[v] = me[v] \/ Truth(p, s)'
<1> DEFINE Goal == me'[v] = me[v] \/ Truth(p, s)'
<1>0. /\ me \in [Workers -> Loop] /\ jobs \in Seq(Job)
      /\ \A w \in Workers : Sound(me[w])
  BY DEF Typed, TypeOK, HoldsIntent
<1>1. ASSUME NEW w \in Workers, Decline(w) PROVE Goal
  <2>1. CASE v = w
    <3>1. MayDispatch(w) /\ me'[w].kept = me[w].kept /\ me'[w].status = "rejected"
          /\ ~MayDispatch(w)' /\ prepared' = prepared /\ jobs' = jobs
      BY <1>0, <1>1 DEF Decline, Answered, MayDispatch, Loop
    <3>2. \A u \in Workers : u # w => me'[u] = me[u]
      BY <1>0, <1>1 DEF Decline, Answered
    <3>3. p = me[w].kept /\ s = "rejected"
      BY <2>1, <3>1
    <3>4. NeverRuns(p)'
      BY <3>1, <3>2, <3>3 DEF NeverRuns, Rights, RightsExclusive, MayDispatch
    <3> QED BY <3>3, <3>4 DEF Truth
  <2>2. CASE v # w
    BY <1>0, <1>1, <2>2 DEF Decline, Answered
  <2> QED BY <2>1, <2>2
<1>2. ASSUME NEW w \in Workers, RejectUncommitted(w) PROVE Goal
  <2>1. CASE v = w
    <3>1. me'[w].kept = me[w].kept /\ me'[w].status = "rejected"
          /\ ~MayDispatch(w)' /\ prepared' = prepared
      BY <1>0, <1>2 DEF RejectUncommitted, Answered, MayDispatch, Loop
    <3>2. \A u \in Workers : u # w => me'[u] = me[u]
      BY <1>0, <1>2 DEF RejectUncommitted, Answered
    <3>3. PICK i \in DOMAIN jobs : /\ jobs[i].intent = me[w].kept
                                  /\ jobs' = [jobs EXCEPT ![i].state = "refused"]
      BY <1>2 DEF RejectUncommitted, Mine
    <3>4. /\ DOMAIN jobs' = DOMAIN jobs /\ jobs'[i].state = "refused"
          /\ \A j \in DOMAIN jobs : jobs'[j].intent = jobs[j].intent
      BY <1>0, <3>3, JobDecided
    <3>5. \A j \in DOMAIN jobs : jobs[j].intent = me[w].kept => j = i
      BY <3>3 DEF Rights, StepDispatchedOnce
    <3>6. me[w].kept \in prepared /\ \A u \in Workers : MayDispatch(u) => me[u].kept # me[w].kept
      BY <3>3 DEF Rights, RightsExclusive
    <3>7. p = me[w].kept /\ s = "rejected"
      BY <2>1, <3>1
    <3>8. NeverRuns(p)'
      BY <3>1, <3>2, <3>4, <3>5, <3>6, <3>7 DEF NeverRuns, MayDispatch
    <3> QED BY <3>7, <3>8 DEF Truth
  <2>2. CASE v # w
    BY <1>0, <1>2, <2>2 DEF RejectUncommitted, Answered
  <2> QED BY <2>1, <2>2
<1>3. ASSUME NEW w \in Workers, NEW status \in Statuses, Answered(w, status), jobs' = jobs,
             Sound(me[w]), me[w].at \in Holding,
             status \in Readings(me[w].call) \/ status = "unknown",
             status = "observed" => Ran(me[w].call)
      PROVE  Goal
  <2>1. CASE v = w
    <3>1. me'[w].kept = me[w].kept /\ me'[w].status = status
      BY <1>0, <1>3 DEF Answered, Loop
    <3>2. me[w].kept.call = me[w].call
      BY <1>3 DEF Sound
    <3>3. status = "rejected" => me[w].call \notin Execs
      BY <1>3 DEF Readings
    <3>4. p = me[w].kept /\ s = status
      BY <2>1, <3>1
    <3>5. s = "observed" => Ran(p.call)'
      BY <1>3, <3>2, <3>4 DEF Ran
    <3> QED BY <3>2, <3>3, <3>4, <3>5 DEF Truth
  <2>2. CASE v # w
    BY <1>0, <1>3, <2>2 DEF Answered
  <2> QED BY <2>1, <2>2
<1>4. ASSUME NEW w \in Workers, NEW status \in Statuses, Answer(w, status) PROVE Goal
  <2>1. Ran(me[w].call)
    BY <1>0, <1>4 DEF Answer, Mine, Ran, Sound, Holding
  <2> QED BY <1>0, <1>3, <1>4, <2>1 DEF Answer, Holding
<1>5. ASSUME NEW w \in Workers, NEW status \in Statuses, Lookup(w, status) PROVE Goal
  <2>1. ASSUME Cardinality(Matches(w)) = 1 PROVE Ran(me[w].call)
    <3>1. Matches(w) # {}
      BY <2>1, FS_EmptySet
    <3> QED BY <3>1 DEF Matches, Ran
  <2> QED BY <1>0, <1>3, <1>5, <2>1 DEF Lookup, Holding
<1>6. ASSUME NEW w \in Workers, LoseAnswer(w) PROVE Goal
  <2>1. CASE v = w
    <3>1. me'[w] = Uncertain(me[w])
      BY <1>0, <1>6 DEF LoseAnswer
    <3>2. s = "unknown"
      BY <1>0, <2>1, <3>1 DEF Uncertain, Loop
    <3> QED BY <3>2 DEF Truth
  <2>2. CASE v # w
    BY <1>0, <1>6, <2>2 DEF LoseAnswer
  <2> QED BY <2>1, <2>2
<1>7. ASSUME NEW w \in Workers, Recover(w) PROVE Goal
  <2> DEFINE k == [me[w] EXCEPT !.kept = head.intent]
  <2>1. me' = [me EXCEPT ![w] = IF head.receipt # None THEN Onward(k, head.receipt)
                                                       ELSE Uncertain(k)]
    BY <1>0, <1>7 DEF Recover
  <2>2. Onward(k, head.receipt).at # "record"
    BY <1>0 DEF Onward, Blank, Loop
  <2>3. Uncertain(k).at = "record" => Uncertain(k).status = "unknown"
    BY <1>0, <1>7 DEF Uncertain, Recover, Loop
  <2> HIDE DEF k
  <2>4. CASE v = w
    <3>1. s = "unknown"
      BY <1>0, <2>1, <2>2, <2>3, <2>4
    <3> QED BY <3>1 DEF Truth
  <2>5. CASE v # w
    BY <1>0, <2>1, <2>5
  <2> QED BY <2>4, <2>5
<1>8. ASSUME NEW w \in Workers, Record(w) PROVE Goal
  BY <1>0, <1>8 DEF Record, Onward, Blank, Loop
<1>9. ASSUME NEW w \in Workers, Enter(w) PROVE Goal
  BY <1>0, <1>9 DEF Enter, Loop
<1>10. ASSUME NEW w \in Workers, Prepare(w) PROVE Goal
  BY <1>0, <1>10 DEF Prepare, Loop
<1>11. ASSUME NEW w \in Workers, AssertFence(w) PROVE Goal
  BY <1>0, <1>11 DEF AssertFence, Go, Loop
<1>12. ASSUME NEW w \in Workers, Dispatch(w) PROVE Goal
  BY <1>0, <1>12 DEF Dispatch, Go, Loop
<1>13. ASSUME NEW w \in Workers, Stop(w) PROVE Goal
  BY <1>0, <1>13 DEF Stop, Quit, Blank, Loop
<1>14. ASSUME NEW w \in Workers, Refuse(w) PROVE Goal
  BY <1>0, <1>14 DEF Refuse, Quit, Blank, Loop
<1>15. ASSUME NEW w \in Workers, NEW t \in Times, Observe(w, t) PROVE Goal
  BY <1>0, <1>15 DEF Observe, Loop
<1>16. CASE me' = me
  BY <1>16
<1> HIDE DEF Goal
<1> QED
  <2>1. ASSUME NEW w \in Workers, Enter(w) \/ WorkerStep(w) PROVE Goal
    BY <2>1, <1>1, <1>2, <1>4, <1>5, <1>6, <1>7, <1>8, <1>9, <1>10, <1>11, <1>12, <1>13, <1>14, <1>15
       DEF WorkerStep
  <2> QED BY <2>1, <1>16 DEF Next, Land, vars, Goal

(* What receipts say happened, happened; what they say did not, never will.  *)
THEOREM Truthful == Spec => []ReceiptsTruthful
<1>1. Init => StatusesTrue
  BY BlankTyped DEF Init, StatusesTrue, Claimed
<1>2. Typed /\ Rights /\ StatusesTrue /\ [Next]_vars => StatusesTrue'
  <2> SUFFICES ASSUME Typed, Rights, StatusesTrue, [Next]_vars,
                      NEW p \in Intent, NEW s \in Statuses, Claimed(p, s)'
               PROVE  Truth(p, s)'
    BY DEF StatusesTrue
  <2>1. Claimed(p, s) \/ Truth(p, s)'
    <3>1. CASE \E v \in Workers :
                  me'[v].at = "record" /\ me'[v].kept = p /\ me'[v].status = s
      BY <3>1, OutcomeTrue DEF Claimed
    <3>2. CASE [intent |-> p, status |-> s] \in receipts'
      <4>1. ASSUME NEW w \in Workers, Prepare(w) \/ Record(w) PROVE Claimed(p, s)
        BY <3>2, <4>1 DEF Prepare, Record, Claimed
      <4> QED BY <3>2, <4>1, HeadChanges DEF Claimed
    <3> QED BY <3>1, <3>2 DEF Claimed
  <2> QED BY <2>1, TruthStays DEF StatusesTrue
<1>3. Typed /\ StatusesTrue => ReceiptsTruthful
  <2> SUFFICES ASSUME Typed, StatusesTrue, NEW r \in receipts
               PROVE  /\ r.status = "observed" => Ran(r.intent.call)
                      /\ r.status = "rejected" /\ r.intent.call \in Execs => NeverRuns(r.intent)
    BY DEF ReceiptsTruthful, Ran, NeverRuns
  <2>1. /\ r.intent \in Intent /\ r.status \in Statuses
        /\ r = [intent |-> r.intent, status |-> r.status]
    BY DEF Typed, TypeOK, Receipt
  <2> QED BY <2>1 DEF StatusesTrue, Claimed, Truth
<1> QED
  BY <1>1, <1>2, <1>3, Typing, RightsHold, PTL DEF Spec, Typed
=============================================================================
