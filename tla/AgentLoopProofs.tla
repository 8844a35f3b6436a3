--------------------------- MODULE AgentLoopProofs ---------------------------
(* Theorems about AgentLoop, for any budgets, Tools, answers of the model and *)
(* number of processes.                                                       *)
EXTENDS AgentLoop, FiniteSetTheorems, TLAPS

Call == [at: Nat, args: UNION {[R -> Content] : R \in SUBSET (1 .. MaxSteps)}]
Step == [turn: Nat, i: Nat, call: Call \union {None}, sent: BOOLEAN,
         outcome: Outcomes \union {None}]
TypeOK ==
    /\ mode \in Mode
    /\ at \in Running \union {"down", "paused", "ended"}
    /\ code \in Codes \union {None}
    /\ m \in State
    /\ shut \in BOOLEAN /\ cancel \in BOOLEAN /\ late \in BOOLEAN
    /\ prov \in CallRecord \union {None}
    /\ snap \in Snapshot \union {None}
    /\ steps \in Seq(Step)
    /\ starts \in Nat

(* A process that runs has no code, one at an answer has the record of it,    *)
(* one with a Tool step in hand has its Snapshot.                             *)
PlaceHasRecords ==
    /\ at \in Running => code = None
    /\ at \in {"claimed", "out", "answered"} => prov # None
    /\ at = "answered" => prov.status = "completed"
    /\ prov # None => (prov.status = "completed" => prov.answer \in Answers)
    /\ at \in {"prepared", "sent", "recovering"} => snap # None /\ snap.active # None
    /\ at \in {"prepared", "sent"} => prov = None
    /\ snap = None => steps = <<>>
    /\ snap # None => (snap.active # None => steps # <<>>)
    /\ m.batch.seen <= Len(m.batch.calls)

(* The steps that were sent, and those of them before the last one, which is  *)
(* the only one whose fate may be open.                                       *)
Sent == {i \in DOMAIN steps : steps[i].sent}
Prior == {i \in 1 .. Last - 1 : steps[i].sent}
Certain(S) == \A i \in S : steps[i].outcome \notin {None, "unknown"}

(* The calls ahead of a batch that would spend the budget.                    *)
AheadOf(b) == {i \in b.seen + 1 .. Len(b.calls) : b.calls[i] \in Tools \union {"bad"}}

(* With a step in hand the state has not counted it, and the limits allow it  *)
(* and all that is ahead.  With none the state has counted what was sent.     *)
StepInHand(s) ==
    /\ Len(s.batch.got) = s.batch.seen - 1
    /\ ~Soft(s) /\ s.t + 1 + Cardinality(AheadOf(s.batch)) <= MaxToolCalls
    /\ Cardinality(Prior) <= s.t /\ Certain(Prior)
Counts(s) == Len(s.batch.got) = s.batch.seen /\ Cardinality(Sent) <= s.t

MemoryCounts ==
    /\ at \in {"top", "claimed", "out", "answered", "batch"} => Counts(m) /\ Certain(Sent)
    /\ at \in {"prepared", "sent"} => StepInHand(m)
    /\ at = "prepared" => ~steps[Last].sent
    /\ at = "recovering" => Len(m.batch.got) = m.batch.seen \/ StepInHand(m)

(* The same of the states that another process may resume from.               *)
RecordsCount ==
    /\ prov # None => Counts(prov.state)
    /\ snap # None => IF snap.active = None THEN Counts(snap.state) /\ Certain(Sent)
                                            ELSE StepInHand(snap.state)
    /\ prov # None => prov.state.batch.seen <= Len(prov.state.batch.calls)
    /\ snap # None => snap.state.batch.seen <= Len(snap.state.batch.calls)

(* The gate of a process is closed when a limit is reached, a request made    *)
(* behind it offers no Tools, and a batch was only begun before it.           *)
GateFollows ==
    /\ at \in {"top", "claimed", "out", "answered", "batch"} => (Soft(m) => shut)
    /\ at \in {"claimed", "out", "answered"} => (prov.request.tools => ~shut)
    /\ at = "batch" /\ AheadOf(B) # {} =>
          ~Soft(m) /\ m.t + Cardinality(AheadOf(B)) <= MaxToolCalls

(* Concluded with certainty.                                                  *)
EndsCertain == code \in {"CANDIDATE_COMPLETED", "NEEDS_INPUT"} => Certain(Sent)

IInv ==
    /\ TypeOK /\ PlaceHasRecords /\ MemoryCounts /\ RecordsCount /\ GateFollows
    /\ EndsCertain /\ HardBudget

-----------------------------------------------------------------------------
LEMMA OneMore ==
    ASSUME NEW S, NEW x, IsFiniteSet(S)
    PROVE  Cardinality(S) \in Nat /\ Cardinality(S \union {x}) <= Cardinality(S) + 1
<1>1. Cardinality(S) \in Nat
  BY FS_CardinalityType
<1>2. Cardinality(S \union {x}) = Cardinality(S) \/ Cardinality(S \union {x}) = Cardinality(S) + 1
  BY FS_AddElement
<1> QED BY <1>1, <1>2

LEMMA SentTyped ==
    ASSUME steps \in Seq(Step)
    PROVE  /\ IsFiniteSet(Sent) /\ Cardinality(Sent) \in Nat
           /\ IsFiniteSet(Prior) /\ Cardinality(Prior) \in Nat
           /\ steps = <<>> => Sent = {}
           /\ steps # <<>> => /\ Last \in Nat \ {0} /\ Prior \subseteq Sent
                              /\ Sent = IF steps[Last].sent THEN Prior \union {Last} ELSE Prior
                              /\ Cardinality(Sent) <= Cardinality(Prior) + 1
<1>1. IsFiniteSet(1 .. Last) /\ Last \in Nat /\ DOMAIN steps = 1 .. Last
  BY FS_Interval DEF Last
<1>2. Sent \subseteq 1 .. Last /\ Prior \subseteq 1 .. Last
  BY <1>1 DEF Sent, Prior
<1>3. /\ IsFiniteSet(Sent) /\ Cardinality(Sent) \in Nat
      /\ IsFiniteSet(Prior) /\ Cardinality(Prior) \in Nat
  BY <1>1, <1>2, FS_Subset, FS_CardinalityType
<1>4. ASSUME steps # <<>>
      PROVE  /\ Last \in Nat \ {0} /\ Prior \subseteq Sent
             /\ Sent = IF steps[Last].sent THEN Prior \union {Last} ELSE Prior
  BY <1>1, <1>4 DEF Last, Sent, Prior
<1>5. ASSUME steps # <<>> PROVE Cardinality(Sent) <= Cardinality(Prior) + 1
  <2>1. Sent = Prior \union {Last} \/ Sent = Prior
    BY <1>4, <1>5
  <2>2. Cardinality(Prior \union {Last}) <= Cardinality(Prior) + 1
    BY <1>3, OneMore
  <2>3. Cardinality(Prior) \in Nat
    BY <1>3
  <2>4. CASE Sent = Prior
    BY <2>3, <2>4
  <2>5. CASE Sent = Prior \union {Last}
    BY <2>2, <2>5
  <2> QED BY <2>1, <2>4, <2>5
<1> QED BY <1>3, <1>4, <1>5 DEF Sent

LEMMA AheadTyped ==
    ASSUME NEW b \in BatchInHand
    PROVE  IsFiniteSet(AheadOf(b)) /\ Cardinality(AheadOf(b)) \in Nat
<1>1. AheadOf(b) \subseteq b.seen + 1 .. Len(b.calls) /\ b.seen + 1 \in Int /\ Len(b.calls) \in Int
  BY DEF AheadOf, BatchInHand
<1>2. IsFiniteSet(b.seen + 1 .. Len(b.calls))
  BY <1>1, FS_Interval
<1> QED BY <1>1, <1>2, FS_Subset, FS_CardinalityType

(* A call that is taken in hand is no longer ahead.                           *)
LEMMA AheadDrops ==
    ASSUME NEW b \in BatchInHand, NEW c \in BatchInHand,
           c.calls = b.calls, c.seen = b.seen + 1, b.seen < Len(b.calls)
    PROVE  IF b.calls[b.seen + 1] \in Tools \union {"bad"}
             THEN AheadOf(b) # {} /\ Cardinality(AheadOf(b)) = Cardinality(AheadOf(c)) + 1
             ELSE AheadOf(b) = AheadOf(c)
<1>1. b.seen \in Nat /\ Len(b.calls) \in Nat
  BY DEF BatchInHand
<1>2. CASE b.calls[b.seen + 1] \in Tools \union {"bad"}
  <2>1. AheadOf(b) = AheadOf(c) \union {b.seen + 1} /\ b.seen + 1 \notin AheadOf(c)
    BY <1>1, <1>2 DEF AheadOf
  <2> QED BY <1>2, <2>1, AheadTyped, FS_AddElement
<1>3. CASE b.calls[b.seen + 1] \notin Tools \union {"bad"}
  BY <1>1, <1>3 DEF AheadOf
<1> QED BY <1>2, <1>3

(* A batch that begins has all of its external calls ahead.                   *)
LEMMA AheadAtFirst ==
    ASSUME NEW b \in BatchInHand, b.seen = 0
    PROVE  AheadOf(b) = External(b.calls) /\ Cardinality(AheadOf(b)) <= Len(b.calls)
<1>1. b.calls \in Seq(Tools \union Special) /\ Len(b.calls) \in Nat /\ DOMAIN b.calls = 1 .. Len(b.calls)
  BY DEF BatchInHand
<1>2. AheadOf(b) = External(b.calls) /\ AheadOf(b) \subseteq 1 .. Len(b.calls)
  BY <1>1 DEF AheadOf, External
<1>3. IsFiniteSet(1 .. Len(b.calls)) /\ Cardinality(1 .. Len(b.calls)) = Len(b.calls)
  BY <1>1, FS_Interval
<1> QED BY <1>2, <1>3, FS_Subset

(* Recording the outcome of the last step leaves what was sent as it is.      *)
LEMMA OutcomeRecorded ==
    ASSUME steps \in Seq(Step), steps # <<>>, NEW o \in Outcomes,
           steps' = [steps EXCEPT ![Last].outcome = o]
    PROVE  /\ steps' \in Seq(Step) /\ Sent' = Sent /\ Prior' = Prior /\ Last' = Last
           /\ Certain(Prior)' = Certain(Prior)
           /\ Certain(Prior) /\ (o # "unknown" \/ ~steps[Last].sent) => Certain(Sent)'
           /\ steps'[Last].sent = steps[Last].sent /\ steps' # <<>>
<1>1. Last \in 1 .. Len(steps) /\ steps[Last] \in Step
  BY DEF Last
<1>2. /\ DOMAIN steps' = DOMAIN steps /\ Len(steps') = Len(steps)
      /\ \A i \in DOMAIN steps : i # Last => steps'[i] = steps[i]
      /\ steps'[Last] = [steps[Last] EXCEPT !.outcome = o]
  BY <1>1
<1>3. steps'[Last] \in Step /\ steps'[Last].sent = steps[Last].sent /\ steps'[Last].outcome = o
  <2>1. ASSUME NEW s \in Step, NEW r, r = [s EXCEPT !.outcome = o]
        PROVE  r \in Step /\ r.sent = s.sent /\ r.outcome = o
    BY <2>1 DEF Step
  <2> QED BY <1>1, <1>2, <2>1
<1>4. steps' \in Seq(Step)
  BY <1>1, <1>2, <1>3
<1>5. Sent' = Sent /\ Prior' = Prior /\ Last' = Last
  BY <1>1, <1>2, <1>3 DEF Sent, Prior, Last
<1>6. Prior \subseteq 1 .. Last - 1 /\ Prior \subseteq DOMAIN steps
  BY <1>1 DEF Prior, Last
<1>7. \A i \in Prior : steps'[i] = steps[i]
  BY <1>1, <1>2, <1>6
<1>8. Certain(Prior)' = Certain(Prior)
  BY <1>5, <1>7 DEF Certain
<1>9. ASSUME Certain(Prior), o # "unknown" \/ ~steps[Last].sent PROVE Certain(Sent)'
  <2>1. \A i \in Sent : i \in Prior \/ (i = Last /\ steps[Last].sent)
    BY SentTyped
  <2>2. o # None
    BY EndingsAssumption DEF Outcomes, Endings
  <2> QED BY <1>3, <1>5, <1>7, <1>9, <2>1, <2>2 DEF Certain
<1>10. steps' # <<>>
  BY <1>2
<1> QED BY <1>3, <1>4, <1>5, <1>8, <1>9, <1>10

-----------------------------------------------------------------------------
(* Codes, and what a return leaves to whoever comes after.                    *)
LEMMA StopKeeps ==
    ASSUME IInv, NEW c \in Codes, Stop(c), UNCHANGED <<prov, snap, steps>>,
           m' \in State, m'.batch = m.batch,
           c \in {"CANDIDATE_COMPLETED", "NEEDS_INPUT"} => Certain(Sent)
    PROVE  IInv'
<1> USE DEF IInv
<1>1. at' \in {"down", "ended"} /\ code' = c
      /\ UNCHANGED <<mode, shut, cancel, late, starts>>
  BY DEF Stop
<1>2. TypeOK'
  BY <1>1 DEF TypeOK
<1>3. PlaceHasRecords' /\ MemoryCounts' /\ GateFollows'
  BY <1>1 DEF PlaceHasRecords, MemoryCounts, GateFollows, Running
<1>4. Sent' = Sent /\ Prior' = Prior /\ Certain(Sent)' = Certain(Sent) /\ Certain(Prior)' = Certain(Prior)
  BY DEF Sent, Prior, Certain, Last
<1>5. RecordsCount' /\ EndsCertain' /\ HardBudget'
  BY <1>1, <1>4 DEF RecordsCount, EndsCertain, HardBudget, Counts, StepInHand, Soft, Sent
<1> QED BY <1>2, <1>3, <1>5

LEMMA OutsideKeeps == ASSUME IInv, Cancel \/ Expire \/ UNCHANGED vars PROVE IInv'
<1> USE DEF IInv
<1>1. /\ UNCHANGED <<mode, at, code, m, shut, prov, snap, steps, starts>>
      /\ cancel' \in BOOLEAN /\ late' \in BOOLEAN
  BY DEF Cancel, Expire, vars, TypeOK
<1>2. TypeOK' /\ PlaceHasRecords' /\ EndsCertain' /\ HardBudget'
  BY <1>1 DEF TypeOK, PlaceHasRecords, EndsCertain, HardBudget, Certain, Sent
<1>3. MemoryCounts' /\ RecordsCount' /\ GateFollows'
  BY <1>1 DEF MemoryCounts, RecordsCount, GateFollows, Counts, StepInHand, Soft, Certain, Sent,
              Prior, Last, B
<1> QED BY <1>2, <1>3

-----------------------------------------------------------------------------
(* Between two Tool steps nothing is sent, and counters only grow.            *)
Calm == {"top", "claimed", "out", "answered", "batch"}

LEMMA CalmKeeps ==
    ASSUME IInv, at \in Calm, at' \in Calm,
           UNCHANGED <<mode, code, cancel, late, starts, snap, steps>>,
           shut' \in BOOLEAN, m' \in State, m'.t >= m.t,
           Len(m'.batch.got) = m'.batch.seen, m'.batch.seen <= Len(m'.batch.calls),
           prov' \in CallRecord \union {None},
           prov' # None => /\ Counts(prov'.state)
                           /\ prov'.state.batch.seen <= Len(prov'.state.batch.calls)
                           /\ prov'.status = "completed" => prov'.answer \in Answers,
           at' \in {"claimed", "out", "answered"} => prov' # None,
           at' = "answered" => prov'.status = "completed",
           GateFollows'
    PROVE  IInv'
<1> USE DEF IInv
<1>1. TypeOK'
  BY DEF TypeOK, Calm, Running
<1>2. PlaceHasRecords'
  BY DEF PlaceHasRecords, Calm, Running
<1>3. Sent' = Sent /\ Prior' = Prior /\ Certain(Sent)' = Certain(Sent) /\ Certain(Prior)' = Certain(Prior)
  BY DEF Sent, Prior, Certain, Last
<1>4. MemoryCounts'
  <2>1. Cardinality(Sent) <= m.t /\ Certain(Sent) /\ Cardinality(Sent) \in Nat
    BY SentTyped DEF MemoryCounts, Counts, Calm, TypeOK
  <2>2. Cardinality(Sent) <= m'.t
    BY <2>1 DEF TypeOK, State
  <2> QED BY <1>3, <2>1, <2>2 DEF MemoryCounts, Counts, Calm
<1>5. RecordsCount'
  BY <1>3 DEF RecordsCount, Counts, StepInHand, Soft
<1>6. EndsCertain' /\ HardBudget'
  BY <1>3 DEF EndsCertain, HardBudget, Sent
<1> QED BY <1>1, <1>2, <1>4, <1>5, <1>6

(* What the loop has in hand at a calm place.                                 *)
LEMMA CalmHas ==
    ASSUME IInv, at \in Calm
    PROVE  /\ m \in State /\ m.batch \in BatchInHand /\ m.t \in Nat /\ m.t >= m.t
           /\ Counts(m) /\ Len(m.batch.got) = m.batch.seen
           /\ m.batch.seen <= Len(m.batch.calls) /\ Certain(Sent) /\ (Soft(m) => shut)
           /\ prov \in CallRecord \union {None} /\ shut \in BOOLEAN
           /\ prov # None => /\ Counts(prov.state)
                             /\ prov.state.batch.seen <= Len(prov.state.batch.calls)
                             /\ prov.status = "completed" => prov.answer \in Answers
           /\ at \in {"claimed", "out", "answered"} => /\ prov # None /\ prov \in CallRecord
                                                       /\ prov.request.tools => ~shut
           /\ at = "answered" => prov.status = "completed" /\ prov.answer \in Answers
BY DEF IInv, TypeOK, PlaceHasRecords, MemoryCounts, RecordsCount, GateFollows, Calm, Counts, State

LEMMA RecordTyped ==
    ASSUME TypeOK, NEW g \in BOOLEAN
    PROVE  /\ Record(m, Request(m, g)) \in CallRecord
           /\ Record(m, Request(m, g)).state = m
           /\ Record(m, Request(m, g)).status = "claimed"
           /\ Request(m, g).tools => ~g
           /\ Record(m, Request(m, g)).request.tools => ~g
           /\ Record(m, Request(m, g)) # None
<1>1. [m EXCEPT !.retry = 0] \in State
  BY DEF TypeOK, State
<1>2. (IF mode.clocked THEN starts ELSE 0) \in Nat
  BY DEF TypeOK
<1>3. Request(m, g) \in [state: State, tools: BOOLEAN, clock: Nat] /\ (Request(m, g).tools => ~g)
  BY <1>1, <1>2 DEF Request
<1>4. m.n + 1 \in Nat /\ m \in State
  BY DEF TypeOK, State
<1>5. /\ Record(m, Request(m, g)) \in CallRecord
      /\ Record(m, Request(m, g)).state = m
      /\ Record(m, Request(m, g)).status = "claimed"
      /\ Record(m, Request(m, g)).request = Request(m, g)
  BY <1>3, <1>4 DEF Record, CallRecord
<1> QED BY <1>3, <1>5, NoneAssumption

LEMMA CallStepKeeps == ASSUME IInv, CallStep PROVE IInv'
<1> USE DEF Go
<1>1. Gate \in BOOLEAN
  BY DEF IInv, TypeOK, Gate
<1>2. ASSUME NEW c \in Codes \ {"CANDIDATE_COMPLETED", "NEEDS_INPUT"}, Stop(c),
             UNCHANGED <<m, prov, snap, steps>>
      PROVE  IInv'
  BY <1>2, StopKeeps DEF IInv, TypeOK
<1>3. \A a, b \in Codes : StoppedBy(a, b) \in {a, b}
  BY DEF StoppedBy
<1>4. CASE LimitReached \/ ClaimRefused \/ AdmissionClosed
  BY <1>2, <1>3, <1>4 DEF LimitReached, ClaimRefused, AdmissionClosed, Codes
<1>5. ASSUME NEW c \in {"PROVIDER_FAILED", "PROVIDER_STATE_UNKNOWN", "INVALID_MODEL_OUTPUT",
                        "CANCEL_UNKNOWN"}, CallFailed(c)
      PROVE  IInv'
  BY <1>2, <1>5 DEF CallFailed, Codes
<1>6. CASE ClaimCall
  <2>1. /\ at = "top" /\ at' = "claimed" /\ UNCHANGED <<m, snap, steps, mode, code, cancel, late, starts>>
        /\ shut' = Gate /\ prov' = Record(m, Request(m, Gate))
    BY <1>6 DEF ClaimCall, Turning, Demand
  <2>2. at \in Calm /\ at' \in Calm
    BY <2>1 DEF Calm
  <2>3. /\ prov' \in CallRecord /\ prov'.state = m /\ prov'.status = "claimed" /\ prov' # None
        /\ prov'.request.tools => ~shut'
    BY <1>1, <2>1, RecordTyped DEF IInv
  <2>4. Soft(m) => shut'
    BY <2>1, <2>2, CalmHas DEF Gate
  <2>5. GateFollows'
    BY <2>1, <2>3, <2>4 DEF GateFollows, Soft
  <2> QED BY <1>1, <2>1, <2>2, <2>3, <2>5, CalmHas, CalmKeeps
<1>7. CASE ReplayAnswer
  <2>1. /\ at = "top" /\ at' = "answered" /\ UNCHANGED <<m, prov, snap, steps, mode, code, cancel, late, starts>>
        /\ shut' = Gate /\ prov # None /\ prov.request = Request(m, Gate)
        /\ prov.status = "completed"
    BY <1>7 DEF ReplayAnswer, Turning, Same, Demand
  <2>2. at \in Calm /\ at' \in Calm
    BY <2>1 DEF Calm
  <2>3. prov'.request.tools => ~shut'
    <3>1. Request(m, Gate).tools => ~Gate
      BY <1>1, RecordTyped DEF IInv
    <3> QED BY <2>1, <3>1
  <2>4. Soft(m) => shut'
    BY <2>1, <2>2, CalmHas DEF Gate
  <2>5. GateFollows'
    BY <2>1, <2>3, <2>4 DEF GateFollows, Soft
  <2> QED BY <1>1, <2>1, <2>2, <2>5, CalmHas, CalmKeeps
<1>8. CASE Admit \/ \E a \in Answers : Answered(a)
  <2>1. PICK a \in Answers \union {None}, st \in {"out", "completed"} :
             /\ prov' = [prov EXCEPT !.status = st, !.answer = a]
             /\ st = "completed" => a \in Answers
             /\ at \in {"claimed", "out"}
             /\ at' = IF st = "out" THEN "out" ELSE "answered"
             /\ UNCHANGED <<m, shut, snap, steps, mode, code, cancel, late, starts>>
    <3>1. CASE Admit
      <4>1. prov \in CallRecord
        BY <3>1, CalmHas DEF Admit, Calm
      <4>2. prov' = [prov EXCEPT !.status = "out", !.answer = prov.answer] /\ prov.answer \in Answers \union {None}
        BY <3>1, <4>1 DEF Admit, CallRecord
      <4> QED BY <3>1, <4>2 DEF Admit
    <3>2. ASSUME NEW a \in Answers, Answered(a)
          PROVE  /\ prov' = [prov EXCEPT !.status = "completed", !.answer = a]
                 /\ at \in {"claimed", "out"} /\ at' = "answered"
                 /\ UNCHANGED <<m, shut, snap, steps, mode, code, cancel, late, starts>>
      BY <3>2 DEF Answered
    <3> QED BY <1>8, <3>1, <3>2
  <2>2. at \in Calm /\ at' \in Calm
    BY <2>1 DEF Calm
  <2>3. prov \in CallRecord
    BY <2>1, <2>2, CalmHas
  <2>4. /\ prov' \in CallRecord /\ prov'.state = prov.state /\ prov'.request = prov.request
        /\ prov'.status = st /\ prov'.answer = a
    BY <2>1, <2>3 DEF CallRecord
  <2>5. prov' # None
    BY <2>4, NoneAssumption
  <2>6. GateFollows'
    BY <2>1, <2>2, <2>4, CalmHas DEF GateFollows, Soft
  <2> QED BY <2>1, <2>2, <2>4, <2>5, <2>6, CalmHas, CalmKeeps
<1>9. CASE RetryCall
  <2>1. /\ at = "out" /\ at' = "claimed" /\ UNCHANGED <<shut, snap, steps, mode, code, cancel, late, starts>>
        /\ m' = [m EXCEPT !.retry = @ + 1]
        /\ prov' = [prov EXCEPT !.state = m', !.status = "claimed"]
    BY <1>9 DEF RetryCall
  <2>2. at \in Calm /\ at' \in Calm
    BY <2>1 DEF Calm
  <2>3. /\ m' \in State /\ m'.batch = m.batch /\ m'.t = m.t /\ m'.look = m.look /\ m'.idle = m.idle
    <3>1. m \in State /\ m.retry + 1 \in Nat
      BY <2>2, CalmHas DEF State
    <3>2. m' = [m EXCEPT !.retry = m.retry + 1]
      BY <2>1
    <3> QED BY <3>1, <3>2 DEF State
  <2>4. prov \in CallRecord
    BY <2>1, <2>2, CalmHas
  <2>5. /\ prov' \in CallRecord /\ prov'.state = m' /\ prov'.request = prov.request
        /\ prov'.status = "claimed"
    BY <2>1, <2>3, <2>4 DEF CallRecord
  <2>6. prov' # None
    BY <2>5, NoneAssumption
  <2>7. GateFollows'
    BY <2>1, <2>2, <2>3, <2>5, CalmHas DEF GateFollows, Soft
  <2>8. Counts(m')
    BY <2>2, <2>3, CalmHas DEF Counts
  <2> QED BY <2>1, <2>2, <2>3, <2>5, <2>6, <2>7, <2>8, CalmHas, CalmKeeps
<1> QED BY <1>4, <1>5, <1>6, <1>7, <1>8, <1>9 DEF CallStep

-----------------------------------------------------------------------------
(* An answer is counted; what else becomes of it leaves the batch alone, or   *)
(* begins a new one that fits.                                                *)
LEMMA CountedTyped ==
    ASSUME m \in State
    PROVE  /\ Counted \in State /\ Counted.batch = m.batch /\ Counted.t = m.t
           /\ Counted.look = m.look /\ Counted.idle = m.idle
<1>1. m.n + 1 \in Nat
  BY DEF State
<1>2. Counted = [m EXCEPT !.n = m.n + 1]
  BY DEF Counted
<1> QED BY <1>1, <1>2 DEF State

LEMMA RefuseKeeps ==
    ASSUME IInv, at = "answered", NEW c \in Codes \ {"NEEDS_INPUT"}, Refuse(c)
    PROVE  IInv'
<1>1. m \in State /\ Certain(Sent)
  BY CalmHas DEF Calm
<1> QED BY <1>1, CountedTyped, StopKeeps DEF Refuse

LEMMA NextTurnKeeps ==
    ASSUME IInv, at = "answered", NEW s \in State, NextTurn(s, shut),
           s.batch = m.batch, s.t = m.t, s.look = m.look, s.idle = m.idle
    PROVE  IInv'
<1>1. /\ m' = s /\ at' = "top" /\ UNCHANGED <<shut, prov, snap, steps, mode, code, cancel, late, starts>>
  BY DEF NextTurn, Go
<1>2. at \in Calm /\ at' \in Calm
  BY <1>1 DEF Calm
<1>3. GateFollows'
  BY <1>1, <1>2, CalmHas DEF GateFollows, Soft
<1> QED BY <1>1, <1>2, <1>3, CalmHas, CalmKeeps

LEMMA CorrectedKeeps == ASSUME IInv, at = "answered", Corrected PROVE IInv'
<1> DEFINE s == [Counted EXCEPT !.con = @ + 1, !.gap = @ \/ prov.answer.is = "malformed"]
<1>1. CASE Refuse("INVALID_MODEL_OUTPUT")
  BY <1>1, RefuseKeeps DEF Codes
<1>2. CASE NextTurn(s, shut)
  <2>1. m \in State
    BY CalmHas DEF Calm
  <2>2. ASSUME NEW c \in State, NEW r, NEW g, r = [c EXCEPT !.con = @ + 1, !.gap = @ \/ g = "malformed"]
        PROVE  /\ r \in State /\ r.batch = c.batch /\ r.t = c.t /\ r.look = c.look /\ r.idle = c.idle
    <3>1. c.con + 1 \in Nat /\ (c.gap \/ g = "malformed") \in BOOLEAN
      BY DEF State
    <3>2. r = [c EXCEPT !.con = c.con + 1, !.gap = (c.gap \/ g = "malformed")]
      BY <2>2
    <3> QED BY <3>1, <3>2 DEF State
  <2>3. /\ s \in State /\ s.batch = m.batch /\ s.t = m.t /\ s.look = m.look /\ s.idle = m.idle
    BY <2>1, <2>2, CountedTyped
  <2> HIDE DEF s
  <2> QED BY <1>2, <2>3, NextTurnKeeps
<1> QED BY <1>1, <1>2 DEF Corrected

LEMMA TransitionKeeps == ASSUME IInv, NEW is \in {"select", "reselect"}, Transition(is) PROVE IInv'
<1>1. /\ at = "answered" /\ at' = "top" /\ prov' = None
      /\ UNCHANGED <<snap, steps, mode, code, cancel, late, starts>>
      /\ shut' = (shut /\ is # "select")
      /\ m' = IF is = "select" THEN [Counted EXCEPT !.look = 0, !.idle = 0, !.gap = FALSE]
                               ELSE [Counted EXCEPT !.gap = FALSE]
  BY DEF Transition, Answer, Go
<1>2. at \in Calm /\ at' \in Calm
  BY <1>1 DEF Calm
<1>3. /\ Counted \in State /\ Counted.batch = m.batch /\ Counted.t = m.t
      /\ Counted.look = m.look /\ Counted.idle = m.idle
  BY <1>2, CalmHas, CountedTyped
<1>4. /\ m' \in State /\ m'.batch = m.batch /\ m'.t = m.t
      /\ IF is = "select" THEN m'.look = 0 /\ m'.idle = 0 ELSE m'.look = m.look /\ m'.idle = m.idle
  BY <1>1, <1>3 DEF State
<1>5. shut' \in BOOLEAN /\ (is = "reselect" => shut' = shut)
  BY <1>1, <1>2, CalmHas
<1>6. Soft(m)' => shut'
  BY <1>2, <1>4, <1>5, CalmHas, BudgetAssumption DEF Soft
<1>7. GateFollows'
  BY <1>1, <1>6 DEF GateFollows
<1> QED BY <1>1, <1>2, <1>4, <1>5, <1>7, CalmHas, CalmKeeps

LEMMA StartBatchKeeps ==
    ASSUME IInv, at = "answered", StartBatch(prov.answer),
           External(prov.answer.calls) # {} => ~shut,
           \/ m.t + Cardinality(External(prov.answer.calls)) <= MaxToolCalls
           \/ m.t + Len(prov.answer.calls) <= MaxToolCalls
    PROVE  IInv'
<1> DEFINE b == Batch(m.n + 1, prov.answer)
<1>1. /\ m' = [Counted EXCEPT !.batch = b] /\ at' = "batch"
      /\ UNCHANGED <<shut, prov, snap, steps, mode, code, cancel, late, starts>>
  BY DEF StartBatch, Go
<1>2. at \in Calm /\ at' \in Calm
  BY <1>1 DEF Calm
<1>3. m \in State /\ prov.answer \in Answers /\ m.n + 1 \in Nat
  BY <1>2, CalmHas DEF State
<1>4. /\ b \in BatchInHand /\ b.seen = 0 /\ Len(b.got) = 0 /\ b.calls = prov.answer.calls
      /\ Len(b.calls) \in Nat
  BY <1>3, AnswersAssumption DEF Batch, BatchInHand
<1> HIDE DEF b
<1>5. /\ m' \in State /\ m'.batch = b /\ m'.t = m.t /\ m'.look = m.look /\ m'.idle = m.idle
  BY <1>1, <1>3, <1>4, CountedTyped DEF State
<1>6. Soft(m') <=> Soft(m)
  BY <1>5 DEF Soft
<1>7. AheadOf(b) = External(prov.answer.calls) /\ Cardinality(AheadOf(b)) <= Len(b.calls)
      /\ Cardinality(AheadOf(b)) \in Nat
  BY <1>4, AheadAtFirst, AheadTyped
<1>8. m.t + Cardinality(AheadOf(b)) <= MaxToolCalls
  <2>1. m.t \in Nat /\ MaxToolCalls \in Nat
    BY <1>3, BudgetAssumption DEF State
  <2>2. CASE m.t + Cardinality(External(prov.answer.calls)) <= MaxToolCalls
    BY <1>7, <2>2
  <2>3. CASE m.t + Len(prov.answer.calls) <= MaxToolCalls
    BY <1>4, <1>7, <2>1, <2>3
  <2> QED BY <2>2, <2>3
<1>9. GateFollows'
  <2>1. (AheadOf(B) # {})' => ~Soft(m') /\ m'.t + Cardinality(AheadOf(b)) <= MaxToolCalls
    BY <1>2, <1>5, <1>6, <1>7, <1>8, CalmHas DEF B, AheadOf
  <2>2. (Cardinality(AheadOf(B)))' = Cardinality(AheadOf(b))
    BY <1>5 DEF B, AheadOf
  <2>3. Soft(m)' => shut'
    BY <1>1, <1>2, <1>5, CalmHas DEF Soft
  <2>4. Soft(m)' <=> Soft(m')
    BY DEF Soft
  <2> QED BY <1>1, <2>1, <2>2, <2>3, <2>4 DEF GateFollows
<1> QED BY <1>1, <1>2, <1>4, <1>5, <1>9, CalmHas, CalmKeeps

(* The Run pauses with a Snapshot of what it has counted.                     *)
LEMMA PausedKeeps == ASSUME IInv, Paused PROVE IInv'
<1>1. /\ at = "answered" /\ at' = "paused" /\ code' = "NEEDS_INPUT"
      /\ m' = Counted /\ snap' = [state |-> Counted, active |-> None] /\ prov' = None
      /\ UNCHANGED <<mode, shut, cancel, late, steps, starts>>
  BY DEF Paused, Answer
<1>2. /\ m \in State /\ Counted \in State /\ Counted.batch = m.batch /\ Counted.t = m.t
      /\ Certain(Sent) /\ Counts(m) /\ m.batch.seen <= Len(m.batch.calls)
  BY <1>1, CalmHas, CountedTyped DEF Calm
<1>3. /\ snap' \in Snapshot /\ snap' # None /\ snap'.active = None /\ snap'.state = Counted
  BY <1>1, <1>2, NoneAssumption DEF Snapshot
<1>4. Sent' = Sent /\ Certain(Sent)' = Certain(Sent)
  BY <1>1 DEF Sent, Certain
<1>5. TypeOK'
  BY <1>1, <1>2, <1>3 DEF IInv, TypeOK, Codes
<1>6. PlaceHasRecords'
  BY <1>1, <1>2, <1>3 DEF PlaceHasRecords, Running
<1>7. MemoryCounts' /\ GateFollows'
  BY <1>1 DEF MemoryCounts, GateFollows
<1>8. RecordsCount'
  BY <1>1, <1>2, <1>3, <1>4 DEF RecordsCount, Counts
<1>9. EndsCertain' /\ HardBudget'
  BY <1>1, <1>2, <1>4 DEF IInv, EndsCertain, HardBudget, Sent
<1> QED BY <1>5, <1>6, <1>7, <1>8, <1>9 DEF IInv

LEMMA AnswerStepKeeps == ASSUME IInv, AnswerStep PROVE IInv'
<1>1. at = "answered" /\ at \in Calm
  BY DEF AnswerStep, AnswerTooLate, MalformedConclusion, GateRefuses, SelectWorkingSet, Transition,
         NoWorkingSet, ProgramRefused, StartProgram, Deliberated, ConclusionRejected, Completed,
         Concluding, Paused, BatchTooLarge, StartTools, Answer, Calm
<1>2. CASE AnswerTooLate
  <2>1. StoppedBy("CANCELLED", "BUDGET_EXHAUSTED") \in Codes \ {"CANDIDATE_COMPLETED", "NEEDS_INPUT"}
    BY DEF StoppedBy, Codes
  <2> QED BY <1>1, <1>2, <2>1, CalmHas, StopKeeps DEF AnswerTooLate
<1>3. CASE MalformedConclusion \/ ConclusionRejected
  BY <1>1, <1>3, CorrectedKeeps, RefuseKeeps DEF MalformedConclusion, ConclusionRejected, Codes
<1>4. CASE GateRefuses \/ NoWorkingSet \/ ProgramRefused \/ Completed \/ BatchTooLarge
  BY <1>1, <1>4, RefuseKeeps
     DEF GateRefuses, NoWorkingSet, ProgramRefused, Completed, BatchTooLarge, Codes
<1>5. CASE SelectWorkingSet
  BY <1>5, TransitionKeeps DEF SelectWorkingSet
<1>6. CASE StartProgram
  <2>1. ~shut
    BY <1>1, <1>6, CalmHas DEF StartProgram, Offered
  <2> QED BY <1>1, <1>6, <2>1, StartBatchKeeps DEF StartProgram
<1>7. CASE Deliberated
  BY <1>1, <1>7, CalmHas, CountedTyped, NextTurnKeeps DEF Deliberated
<1>8. CASE Paused
  BY <1>8, PausedKeeps
<1>9. CASE StartTools
  BY <1>1, <1>9, StartBatchKeeps DEF StartTools
<1> QED BY <1>2, <1>3, <1>4, <1>5, <1>6, <1>7, <1>8, <1>9 DEF AnswerStep

-----------------------------------------------------------------------------
(* A call is taken in hand, and its outcome observed.                         *)
LEMMA SeenTyped ==
    ASSUME NEW s \in State
    PROVE  /\ Seen(s) \in State /\ Seen(s).batch \in BatchInHand
           /\ Seen(s).batch.calls = s.batch.calls /\ Seen(s).batch.got = s.batch.got
           /\ Seen(s).batch.seen = s.batch.seen + 1
           /\ Seen(s).t = s.t /\ Seen(s).fix = s.fix /\ Seen(s).gap = s.gap
           /\ Seen(s).look = s.look /\ Seen(s).idle = s.idle
<1>1. s.batch \in BatchInHand /\ s.batch.seen + 1 \in Nat
  BY DEF State, BatchInHand
<1>2. Seen(s) = [s EXCEPT !.batch = [s.batch EXCEPT !.seen = s.batch.seen + 1]]
  BY DEF Seen
<1>3. [s.batch EXCEPT !.seen = s.batch.seen + 1] \in BatchInHand
  BY <1>1 DEF BatchInHand
<1> QED BY <1>1, <1>2, <1>3 DEF State, BatchInHand

LEMMA ObservedTyped ==
    ASSUME NEW s \in State, NEW o \in Outcomes
    PROVE  /\ Observed(s, o) \in State /\ Observed(s, o).batch \in BatchInHand
           /\ Observed(s, o).batch.calls = s.batch.calls
           /\ Len(Observed(s, o).batch.got) = Len(s.batch.got) + 1
           /\ Observed(s, o).batch.seen = s.batch.seen
           /\ Observed(s, o).t = s.t
           /\ Observed(s, o).look = s.look /\ Observed(s, o).idle = s.idle
<1>1. s.batch \in BatchInHand /\ Append(s.batch.got, o) \in Seq(Outcomes)
      /\ Len(Append(s.batch.got, o)) = Len(s.batch.got) + 1
  BY DEF State, BatchInHand
<1>2. [s.batch EXCEPT !.got = Append(s.batch.got, o)] \in BatchInHand
  BY <1>1 DEF BatchInHand
<1>3. ASSUME NEW b \in BatchInHand, NEW r, r = [s EXCEPT !.batch = b, !.observed = TRUE]
      PROVE  r \in State /\ r.batch = b /\ r.t = s.t /\ r.look = s.look /\ r.idle = s.idle
  BY <1>3 DEF State
<1>4. Observed(s, o) = [s EXCEPT !.batch = [s.batch EXCEPT !.got = Append(s.batch.got, o)],
                                 !.observed = TRUE]
  BY DEF Observed
<1>5. /\ Observed(s, o) \in State
      /\ Observed(s, o).batch = [s.batch EXCEPT !.got = Append(s.batch.got, o)]
      /\ Observed(s, o).t = s.t /\ Observed(s, o).look = s.look /\ Observed(s, o).idle = s.idle
  BY <1>2, <1>3, <1>4
<1> QED BY <1>1, <1>2, <1>5 DEF BatchInHand

(* The next call of a batch that is not over, and the limits it meets.        *)
LEMMA NextCallHas ==
    ASSUME IInv, NEW c, NextIs(c)
    PROVE  /\ at = "batch" /\ at \in Calm /\ B \in BatchInHand /\ Len(B.got) = B.seen
           /\ B.seen < Len(B.calls) /\ B.calls[B.seen + 1] = c
           /\ AheadOf(B) # {} => ~Soft(m) /\ m.t + Cardinality(AheadOf(B)) <= MaxToolCalls
<1>1. at = "batch" /\ at \in Calm /\ ~BatchOver /\ B.calls[B.seen + 1] = c
  BY DEF NextIs, Calm
<1>2. /\ B \in BatchInHand /\ Len(B.got) = B.seen /\ B.seen <= Len(B.calls)
  BY <1>1, CalmHas DEF B
<1>3. B.seen < Len(B.calls)
  BY <1>1, <1>2 DEF BatchOver, BatchInHand
<1> QED BY <1>1, <1>2, <1>3 DEF IInv, GateFollows

(* A call that is answered without the Runtime.                               *)
LEMMA AnsweredHereKeeps ==
    ASSUME IInv, NEW c, NextIs(c), at' = "batch", m' \in State,
           UNCHANGED <<shut, prov, snap, steps, mode, code, cancel, late, starts>>,
           m'.batch.calls = B.calls, m'.batch.seen = B.seen + 1,
           Len(m'.batch.got) = B.seen + 1,
           m'.look = m.look, m'.idle = m.idle, m'.t \in {m.t, m.t + 1},
           c \notin Tools \union {"bad"} => m'.t = m.t \/ c = "gone",
           c = "gone" => m'.t = m.t
    PROVE  IInv'
<1>1. /\ at = "batch" /\ at \in Calm /\ at' \in Calm /\ B \in BatchInHand
      /\ B.seen < Len(B.calls) /\ B.calls[B.seen + 1] = c
      /\ AheadOf(B) # {} => ~Soft(m) /\ m.t + Cardinality(AheadOf(B)) <= MaxToolCalls
  BY NextCallHas DEF Calm
<1>2. m'.batch \in BatchInHand /\ m.t \in Nat /\ m'.t >= m.t /\ MaxToolCalls \in Nat
  <2>1. m'.batch \in BatchInHand /\ m.t \in Nat
    BY <1>1, CalmHas DEF State
  <2>2. m'.t >= m.t
    BY <2>1
  <2>3. MaxToolCalls \in Nat
    BY BudgetAssumption
  <2> QED BY <2>1, <2>2, <2>3
<1>3. Soft(m') <=> Soft(m)
  BY DEF Soft
<1>4. AheadOf(m'.batch) # {} => ~Soft(m') /\ m'.t + Cardinality(AheadOf(m'.batch)) <= MaxToolCalls
  <2>1. Cardinality(AheadOf(m'.batch)) \in Nat
    BY <1>2, AheadTyped
  <2>2. CASE c \in Tools \union {"bad"}
    <3>1. AheadOf(B) # {} /\ Cardinality(AheadOf(B)) = Cardinality(AheadOf(m'.batch)) + 1
      BY <1>1, <1>2, <2>2, AheadDrops
    <3> QED BY <1>1, <1>2, <1>3, <2>1, <3>1
  <2>3. CASE c \notin Tools \union {"bad"}
    <3>1. AheadOf(B) = AheadOf(m'.batch) /\ m'.t = m.t
      BY <1>1, <1>2, <2>3, AheadDrops
    <3> QED BY <1>1, <1>3, <3>1
  <2> QED BY <2>2, <2>3
<1>5. GateFollows'
  <2>1. (AheadOf(B))' = AheadOf(m'.batch) /\ (Soft(m)' <=> Soft(m'))
    BY DEF AheadOf, B, Soft
  <2> QED BY <1>1, <1>3, <1>4, <2>1, CalmHas DEF GateFollows
<1>6. Len(m'.batch.got) = m'.batch.seen /\ m'.batch.seen <= Len(m'.batch.calls)
  BY <1>1 DEF BatchInHand
<1> QED BY <1>1, <1>2, <1>5, <1>6, CalmHas, CalmKeeps

LEMMA RecallKeeps == ASSUME IInv, NEW c \in Content, Recall(c) PROVE IInv'
<1>1. NextIs("recall") /\ "recall" \notin Tools \union {"bad"} /\ "recall" # "gone"
  BY NamesAssumption DEF Recall, Special
<1>2. /\ at \in Calm /\ B = m.batch /\ B \in BatchInHand /\ Len(B.got) = B.seen /\ m \in State
  BY <1>1, NextCallHas, CalmHas DEF B
<1>3. CASE Stop("INVALID_MODEL_OUTPUT") /\ UNCHANGED <<m, prov, snap, steps>>
  BY <1>2, <1>3, StopKeeps DEF Codes
<1>4. CASE /\ m' = Observed(Seen(m), c) /\ Go("batch") /\ UNCHANGED <<shut, prov, snap, steps>>
  <2>1. c \in Outcomes /\ Seen(m) \in State
    BY <1>2, SeenTyped DEF Outcomes
  <2>2. /\ m' \in State /\ m'.batch.calls = B.calls /\ m'.batch.seen = B.seen + 1
        /\ Len(m'.batch.got) = B.seen + 1 /\ m'.t = m.t /\ m'.look = m.look /\ m'.idle = m.idle
    <3>1. /\ Observed(Seen(m), c) \in State
          /\ Observed(Seen(m), c).batch.calls = Seen(m).batch.calls
          /\ Len(Observed(Seen(m), c).batch.got) = Len(Seen(m).batch.got) + 1
          /\ Observed(Seen(m), c).batch.seen = Seen(m).batch.seen
          /\ Observed(Seen(m), c).t = Seen(m).t /\ Observed(Seen(m), c).look = Seen(m).look
          /\ Observed(Seen(m), c).idle = Seen(m).idle
      BY <2>1, ObservedTyped
    <3>2. /\ Seen(m).batch.calls = B.calls /\ Seen(m).batch.got = B.got
          /\ Seen(m).batch.seen = B.seen + 1
          /\ Seen(m).t = m.t /\ Seen(m).look = m.look /\ Seen(m).idle = m.idle
      BY <1>2, SeenTyped
    <3> QED BY <1>2, <1>4, <3>1, <3>2
  <2> QED BY <1>1, <1>4, <2>2, AnsweredHereKeeps DEF Go
<1> QED BY <1>3, <1>4 DEF Recall

LEMMA RejectedHereKeeps ==
    ASSUME IInv, NEW c \in Tools \union {"gone", "bad"}, RejectedHere(c)
    PROVE  IInv'
<1>1. NextIs(c) /\ "gone" \notin Tools
  BY NamesAssumption DEF RejectedHere, Special
<1>2. /\ at \in Calm /\ B = m.batch /\ B \in BatchInHand /\ Len(B.got) = B.seen /\ m \in State
  BY <1>1, NextCallHas, CalmHas DEF B
<1>3. CASE Stop("INVALID_TOOL_CALL") /\ UNCHANGED <<m, prov, snap, steps>>
  BY <1>2, <1>3, StopKeeps DEF Codes
<1> DEFINE s == [Seen(m) EXCEPT !.fix = @ + 1, !.t = IF c = "gone" THEN @ ELSE @ + 1,
                                !.gap = @ \/ c \in Tools]
<1>4. CASE m' = Observed(s, "rejected") /\ Go("batch") /\ UNCHANGED <<shut, prov, snap, steps>>
  <2> DEFINE u == Seen(m)
             f == u.fix + 1
             n == IF c = "gone" THEN u.t ELSE u.t + 1
             g == u.gap \/ c \in Tools
  <2>2. /\ u \in State /\ n \in Nat /\ f \in Nat /\ g \in BOOLEAN
        /\ n = IF c = "gone" THEN m.t ELSE m.t + 1
        /\ u.batch.calls = B.calls /\ u.batch.got = B.got /\ u.batch.seen = B.seen + 1
        /\ u.look = m.look /\ u.idle = m.idle
    BY <1>2, SeenTyped DEF State
  <2>3. s = [u EXCEPT !.fix = f, !.t = n, !.gap = g]
    OBVIOUS
  <2> HIDE DEF s, u, f, n, g
  <2>4. /\ s \in State /\ s.batch = u.batch /\ s.look = u.look /\ s.idle = u.idle
        /\ s.t = n
    BY <2>2, <2>3 DEF State
  <2>5. "rejected" \in Outcomes
    BY DEF Outcomes
  <2>6. /\ m' \in State /\ m'.batch.calls = B.calls /\ m'.batch.seen = B.seen + 1
        /\ Len(m'.batch.got) = B.seen + 1 /\ m'.look = m.look /\ m'.idle = m.idle
        /\ m'.t = s.t
    <3>1. /\ Observed(s, "rejected") \in State
          /\ Observed(s, "rejected").batch.calls = s.batch.calls
          /\ Len(Observed(s, "rejected").batch.got) = Len(s.batch.got) + 1
          /\ Observed(s, "rejected").batch.seen = s.batch.seen
          /\ Observed(s, "rejected").t = s.t /\ Observed(s, "rejected").look = s.look
          /\ Observed(s, "rejected").idle = s.idle
      BY <2>4, <2>5, ObservedTyped
    <3>2. m' = Observed(s, "rejected")
      BY <1>4
    <3> QED BY <1>2, <2>2, <2>4, <3>1, <3>2
  <2>7. m'.t = IF c = "gone" THEN m.t ELSE m.t + 1
    BY <2>2, <2>4, <2>6
  <2>8. at' = "batch" /\ UNCHANGED <<shut, prov, snap, steps, mode, code, cancel, late, starts>>
    BY <1>4 DEF Go
  <2> QED BY <1>1, <2>6, <2>7, <2>8, AnsweredHereKeeps
<1> QED BY <1>3, <1>4 DEF RejectedHere

-----------------------------------------------------------------------------
(* With a Tool step in hand its Snapshot is there, and the step.              *)
Hand == {"prepared", "sent", "recovering"}

LEMMA HandHas ==
    ASSUME IInv, at \in Hand
    PROVE  /\ steps \in Seq(Step) /\ steps # <<>> /\ m \in State
           /\ snap \in Snapshot /\ snap # None /\ snap.active \in ActiveStep /\ snap.active # None
           /\ StepInHand(snap.state) /\ (prov # None => Counts(prov.state))
           /\ m.batch.seen <= Len(m.batch.calls)
BY DEF IInv, TypeOK, PlaceHasRecords, RecordsCount, Hand, Snapshot

LEMMA StopRecordedKeeps ==
    ASSUME IInv, at \in Hand, NEW c \in Codes \ {"CANDIDATE_COMPLETED", "NEEDS_INPUT"}, Stop(c),
           NEW o \in Outcomes, steps' = [steps EXCEPT ![Last].outcome = o],
           UNCHANGED <<m, prov, snap>>
    PROVE  IInv'
<1>1. at' \in {"down", "ended"} /\ code' = c
      /\ UNCHANGED <<mode, shut, cancel, late, starts>>
  BY DEF Stop
<1>2. /\ steps' \in Seq(Step) /\ Sent' = Sent /\ Prior' = Prior
      /\ Certain(Prior)' = Certain(Prior) /\ steps # <<>> /\ steps' # <<>>
  <2>1. steps \in Seq(Step) /\ steps # <<>>
    BY HandHas
  <2> QED BY <2>1, OutcomeRecorded
<1>3. TypeOK'
  BY <1>1, <1>2 DEF IInv, TypeOK
<1>4. PlaceHasRecords' /\ MemoryCounts' /\ GateFollows'
  BY <1>1, <1>2, HandHas DEF IInv, PlaceHasRecords, MemoryCounts, GateFollows, Running
<1>5. RecordsCount'
  BY <1>2, HandHas DEF IInv, RecordsCount, Counts, StepInHand, Soft
<1>6. EndsCertain' /\ HardBudget'
  BY <1>1, <1>2 DEF IInv, EndsCertain, HardBudget, Sent
<1> QED BY <1>3, <1>4, <1>5, <1>6 DEF IInv

LEMMA RetainedTyped ==
    ASSUME NEW s \in State, NEW o \in Outcomes
    PROVE  /\ Retained(s, o) \in State
           /\ Retained(s, o).batch.calls = s.batch.calls
           /\ Len(Retained(s, o).batch.got) = Len(s.batch.got) + 1
           /\ Retained(s, o).batch.seen = s.batch.seen
           /\ Retained(s, o).t = s.t + 1
           /\ Retained(s, o).look = s.look /\ Retained(s, o).idle = s.idle
<1> DEFINE t == s.t + 1
           f == IF o = "rejected" THEN s.fix + 1 ELSE s.fix
           u == [s EXCEPT !.t = t, !.fix = f]
<1>1. t \in Nat /\ f \in Nat
  BY DEF State
<1>2. Retained(s, o) = Observed(u, o)
  BY DEF Retained
<1> HIDE DEF t, f
<1>3. /\ u \in State /\ u.batch = s.batch /\ u.t = t /\ u.look = s.look /\ u.idle = s.idle
  BY <1>1 DEF State
<1> HIDE DEF u
<1> QED BY <1>2, <1>3, ObservedTyped DEF t

LEMMA RetainKeeps ==
    ASSUME IInv, at \in Hand, StepInHand(m),
           NEW o \in Outcomes, steps' = [steps EXCEPT ![Last].outcome = o], Retain(o)
    PROVE  IInv'
<1>1. m \in State /\ MaxToolCalls \in Nat
  BY HandHas, BudgetAssumption
<1>2. CASE Stop(StopFor(m, o)) /\ UNCHANGED <<m, prov, snap>> /\ StopFor(m, o) # None
  <2>1. StopFor(m, o) \in Codes \ {"CANDIDATE_COMPLETED", "NEEDS_INPUT"}
    BY <1>2 DEF StopFor, Codes
  <2> QED BY <1>2, <2>1, StopRecordedKeeps
<1>3. CASE StopFor(m, o) = None /\ m' = Retained(m, o) /\ Go("batch") /\ UNCHANGED <<shut, prov, snap>>
  <2>1. /\ at' = "batch" /\ UNCHANGED <<shut, prov, snap, mode, code, cancel, late, starts>>
    BY <1>3 DEF Go
  <2>2. o # "unknown"
    BY <1>3, NoneAssumption DEF StopFor, Codes
  <2>3. /\ steps' \in Seq(Step) /\ Sent' = Sent /\ Prior' = Prior
        /\ Certain(Prior)' = Certain(Prior) /\ Certain(Sent)' /\ steps' # <<>>
    <3>1. steps \in Seq(Step) /\ steps # <<>> /\ Certain(Prior)
      BY HandHas DEF StepInHand
    <3> QED BY <2>2, <3>1, OutcomeRecorded
  <2>4. /\ m' \in State /\ m'.batch.calls = m.batch.calls
        /\ Len(m'.batch.got) = Len(m.batch.got) + 1 /\ m'.batch.seen = m.batch.seen
        /\ m'.t = m.t + 1 /\ m'.look = m.look /\ m'.idle = m.idle
    BY <1>1, <1>3, RetainedTyped
  <2>5. TypeOK'
    BY <2>1, <2>3, <2>4 DEF IInv, TypeOK, Running
  <2>6. PlaceHasRecords'
    BY <2>1, <2>3, <2>4, HandHas DEF IInv, PlaceHasRecords, Running, Hand
  <2>7. MemoryCounts'
    <3>1. Cardinality(Sent) <= m.t + 1
      <4>1. Cardinality(Sent) <= Cardinality(Prior) + 1 /\ Cardinality(Prior) \in Nat
            /\ Cardinality(Sent) \in Nat
        BY HandHas, SentTyped
      <4>2. Cardinality(Prior) <= m.t /\ m.t \in Nat
        BY <1>1 DEF StepInHand, State
      <4> QED BY <4>1, <4>2
    <3>2. Len(m'.batch.got) = m'.batch.seen
      <4>1. Len(m.batch.got) = m.batch.seen - 1 /\ m.batch.seen \in Nat
        BY <1>1 DEF StepInHand, State, BatchInHand
      <4> QED BY <2>4, <4>1
    <3> QED BY <2>1, <2>3, <2>4, <3>1, <3>2 DEF MemoryCounts, Counts
  <2>8. RecordsCount'
    BY <2>1, <2>3, HandHas DEF IInv, RecordsCount, Counts, StepInHand, Soft
  <2>9. GateFollows'
    <3>1. (AheadOf(B))' = AheadOf(m.batch) /\ ~Soft(m)'
      BY <2>4 DEF AheadOf, B, Soft, StepInHand
    <3>2. m'.t + Cardinality(AheadOf(m.batch)) <= MaxToolCalls
      BY <1>1, <2>4, AheadTyped DEF StepInHand, State
    <3> QED BY <2>1, <3>1, <3>2 DEF GateFollows
  <2>10. EndsCertain' /\ HardBudget'
    BY <2>1, <2>3 DEF IInv, EndsCertain, HardBudget, Sent
  <2> QED BY <2>5, <2>6, <2>7, <2>8, <2>9, <2>10 DEF IInv
<1> QED BY <1>2, <1>3 DEF Retain

-----------------------------------------------------------------------------
(* A Tool step is prepared, and sent.                                         *)
LEMMA CallNowTyped ==
    ASSUME B \in BatchInHand, InProgram => Derivable(B.program, B.got)
    PROVE  CallNow \in Call \union {None}
<1>1. CASE InProgram
  <2> DEFINE p == B.program  seen == B.got  i == Len(seen) + 1
  <2>1. p \in Program /\ seen \in Seq(Outcomes) /\ Len(seen) \in Nat
    BY <1>1 DEF InProgram, BatchInHand
  <2>2. i \in DOMAIN p.steps /\ i \in Nat /\ p.steps[i] \in ProgramStep
    BY <1>1, <2>1 DEF Derivable, Program
  <2>3. p.steps[i].refs \in SUBSET (1 .. MaxSteps)
    BY <2>2 DEF ProgramStep
  <2>4. \A r \in p.steps[i].refs : seen[r] \in Content
    BY <1>1 DEF Derivable, Resolvable
  <2>5. [r \in p.steps[i].refs |-> seen[r]] \in [p.steps[i].refs -> Content]
    BY <2>4
  <2>6. [r \in p.steps[i].refs |-> seen[r]] \in UNION {[R -> Content] : R \in SUBSET (1 .. MaxSteps)}
    BY <2>3, <2>5
  <2>7. InnerCall(p, seen) \in Call
    BY <2>2, <2>6 DEF InnerCall, Call
  <2> QED BY <1>1, <2>7 DEF CallNow
<1>2. CASE ~InProgram
  BY <1>2 DEF CallNow
<1> QED BY <1>1, <1>2

LEMMA StepPrepared ==
    ASSUME steps \in Seq(Step), NEW s \in Step, ~s.sent, steps' = Append(steps, s)
    PROVE  /\ steps' \in Seq(Step) /\ steps' # <<>> /\ Sent' = Sent /\ Prior' = Sent
           /\ Certain(Sent)' = Certain(Sent) /\ Certain(Prior)' = Certain(Sent)
           /\ ~steps'[Last'].sent
<1>1. /\ steps' \in Seq(Step) /\ Len(steps) \in Nat /\ Len(steps') = Len(steps) + 1
      /\ steps'[Len(steps) + 1] = s /\ DOMAIN steps = 1 .. Len(steps)
      /\ DOMAIN steps' = 1 .. Len(steps) + 1
      /\ \A i \in 1 .. Len(steps) : steps'[i] = steps[i]
  OBVIOUS
<1>2. Sent' = Sent
  BY <1>1 DEF Sent
<1>3. Prior' = Sent
  <2>1. Prior' = {i \in 1 .. Len(steps) : steps'[i].sent}
    BY <1>1 DEF Prior, Last
  <2> QED BY <1>1, <2>1 DEF Sent
<1>4. \A i \in Sent : steps'[i] = steps[i]
  BY <1>1 DEF Sent
<1>5. Certain(Sent)' = Certain(Sent) /\ Certain(Prior)' = Certain(Sent)
  BY <1>2, <1>3, <1>4 DEF Certain
<1>6. steps' # <<>> /\ ~steps'[Last'].sent
  BY <1>1 DEF Last
<1> QED BY <1>1, <1>2, <1>3, <1>5, <1>6

LEMMA PrepareKeeps == ASSUME IInv, NEW c \in Tools, PrepareStep(c) PROVE IInv'
<1>1. /\ NextIs(c) /\ at' = "prepared" /\ prov' = None /\ m' = Seen(m)
      /\ snap' = [state |-> m', active |-> [turn |-> B.turn, i |-> B.seen + 1]]
      /\ steps' = Append(steps, ToolIntent(B.turn, B.seen + 1, CallNow))
      /\ InProgram => Derivable(B.program, B.got)
      /\ UNCHANGED <<shut, mode, code, cancel, late, starts>>
  BY DEF PrepareStep, Go
<1>2. /\ at = "batch" /\ at \in Calm /\ B \in BatchInHand /\ B = m.batch /\ Len(B.got) = B.seen
      /\ B.seen < Len(B.calls) /\ B.calls[B.seen + 1] = c
      /\ AheadOf(B) # {} => ~Soft(m) /\ m.t + Cardinality(AheadOf(B)) <= MaxToolCalls
  BY <1>1, NextCallHas DEF B
<1>3. /\ m \in State /\ Counts(m) /\ Certain(Sent) /\ steps \in Seq(Step) /\ code = None
  BY <1>2, CalmHas DEF IInv, TypeOK, PlaceHasRecords, Running
<1>4. /\ m' \in State /\ m'.batch \in BatchInHand /\ m'.batch.calls = B.calls
      /\ m'.batch.got = B.got /\ m'.batch.seen = B.seen + 1
      /\ m'.t = m.t /\ m'.look = m.look /\ m'.idle = m.idle
  BY <1>1, <1>2, <1>3, SeenTyped
<1>5. /\ steps' \in Seq(Step) /\ steps' # <<>> /\ Sent' = Sent /\ Prior' = Sent
      /\ Certain(Sent)' = Certain(Sent) /\ Certain(Prior)' = Certain(Sent)
      /\ ~steps'[Last'].sent
  <2>1. CallNow \in Call \union {None} /\ B.turn \in Nat /\ B.seen + 1 \in Nat
    BY <1>1, <1>2, CallNowTyped DEF BatchInHand
  <2>2. /\ ToolIntent(B.turn, B.seen + 1, CallNow) \in Step
        /\ ~ToolIntent(B.turn, B.seen + 1, CallNow).sent
    BY <2>1 DEF ToolIntent, Step
  <2> QED BY <1>1, <1>3, <2>2, StepPrepared
<1>6. snap' \in Snapshot /\ snap' # None /\ snap'.state = m' /\ snap'.active # None
  <2>1. [turn |-> B.turn, i |-> B.seen + 1] \in ActiveStep
    BY <1>2 DEF ActiveStep, BatchInHand
  <2>2. snap' \in Snapshot
    BY <1>1, <1>4, <2>1 DEF Snapshot
  <2> QED BY <1>1, <2>1, <2>2, NoneAssumption
<1>7. /\ Len(m'.batch.got) = m'.batch.seen - 1 /\ m'.batch.seen <= Len(m'.batch.calls)
  <2>1. B.seen \in Nat /\ Len(B.calls) \in Nat
    BY <1>2 DEF BatchInHand
  <2> QED BY <1>2, <1>4, <2>1
<1>8. StepInHand(m)' /\ StepInHand(snap.state)'
  <2>1. c \in Tools \union {"bad"} /\ AheadOf(B) # {}
        /\ Cardinality(AheadOf(B)) = Cardinality(AheadOf(m'.batch)) + 1
    BY <1>2, <1>4, AheadDrops
  <2>2. Cardinality(AheadOf(m'.batch)) \in Nat /\ m.t \in Nat
    BY <1>3, <1>4, AheadTyped DEF State
  <2>3. ~Soft(m') /\ m'.t + 1 + Cardinality(AheadOf(m'.batch)) <= MaxToolCalls
    BY <1>2, <1>4, <2>1, <2>2 DEF Soft
  <2>4. Cardinality(Prior') <= m'.t /\ Certain(Prior)'
    BY <1>3, <1>4, <1>5 DEF Counts
  <2>5. (Soft(m)' <=> Soft(m')) /\ (AheadOf(m.batch))' = AheadOf(m'.batch)
    BY DEF Soft, AheadOf
  <2>6. StepInHand(m)'
    BY <1>7, <2>3, <2>4, <2>5 DEF StepInHand
  <2> QED BY <1>6, <2>6 DEF StepInHand, Soft, AheadOf
<1>9. TypeOK'
  BY <1>1, <1>4, <1>5, <1>6 DEF IInv, TypeOK, Running
<1>10. PlaceHasRecords'
  BY <1>1, <1>3, <1>5, <1>6, <1>7 DEF PlaceHasRecords
<1>11. MemoryCounts' /\ GateFollows'
  BY <1>1, <1>5, <1>8 DEF MemoryCounts, GateFollows
<1>12. RecordsCount'
  BY <1>1, <1>6, <1>7, <1>8 DEF RecordsCount
<1>13. EndsCertain' /\ HardBudget'
  BY <1>1, <1>5 DEF IInv, EndsCertain, HardBudget, Sent
<1> QED BY <1>9, <1>10, <1>11, <1>12, <1>13 DEF IInv

LEMMA StepSent ==
    ASSUME steps \in Seq(Step), steps # <<>>, steps' = [steps EXCEPT ![Last].sent = TRUE]
    PROVE  /\ steps' \in Seq(Step) /\ steps' # <<>>
           /\ Sent' = Prior \union {Last} /\ Prior' = Prior
           /\ Certain(Prior)' = Certain(Prior)
<1>1. Last \in 1 .. Len(steps) /\ steps[Last] \in Step /\ Len(steps) \in Nat
      /\ DOMAIN steps = 1 .. Len(steps)
  BY DEF Last
<1>2. /\ DOMAIN steps' = DOMAIN steps /\ Len(steps') = Len(steps) /\ steps' # <<>>
      /\ \A i \in DOMAIN steps : i # Last => steps'[i] = steps[i]
      /\ steps'[Last] = [steps[Last] EXCEPT !.sent = TRUE]
  BY <1>1
<1>3. steps'[Last] \in Step /\ steps'[Last].sent
  <2>1. ASSUME NEW s \in Step, NEW r, r = [s EXCEPT !.sent = TRUE]
        PROVE  r \in Step /\ r.sent
    BY <2>1 DEF Step
  <2> QED BY <1>1, <1>2, <2>1
<1>4. steps' \in Seq(Step)
  BY <1>1, <1>2, <1>3
<1>5. Last' = Last
  BY <1>2 DEF Last
<1>6. \A i \in 1 .. Last - 1 : steps'[i] = steps[i]
  BY <1>1, <1>2 DEF Last
<1>7. Prior' = Prior /\ \A i \in Prior : steps'[i] = steps[i]
  BY <1>5, <1>6 DEF Prior
<1>8. Sent' = Prior \union {Last}
  BY <1>1, <1>2, <1>3, <1>6 DEF Sent, Prior, Last
<1>9. Certain(Prior)' = Certain(Prior)
  BY <1>7 DEF Certain
<1> QED BY <1>2, <1>4, <1>7, <1>8, <1>9

LEMMA DispatchKeeps == ASSUME IInv, DispatchStep PROVE IInv'
<1>1. /\ at = "prepared" /\ at' = "sent" /\ steps' = [steps EXCEPT ![Last].sent = TRUE]
      /\ UNCHANGED <<m, shut, prov, snap, mode, code, cancel, late, starts>>
  BY DEF DispatchStep, Go
<1>2. /\ steps \in Seq(Step) /\ steps # <<>> /\ m \in State /\ StepInHand(m)
      /\ snap # None /\ snap.active # None /\ StepInHand(snap.state)
      /\ code = None /\ prov = None
  <2>1. steps \in Seq(Step) /\ steps # <<>> /\ m \in State /\ snap # None /\ snap.active # None
        /\ StepInHand(snap.state)
    BY <1>1, HandHas DEF Hand
  <2> QED BY <1>1, <2>1 DEF IInv, MemoryCounts, PlaceHasRecords, Running
<1>3. /\ steps' \in Seq(Step) /\ steps' # <<>> /\ Sent' = Prior \union {Last} /\ Prior' = Prior
      /\ Certain(Prior)' = Certain(Prior)
  BY <1>1, <1>2, StepSent
<1>4. HardBudget'
  <2>1. Cardinality(Sent') <= Cardinality(Prior) + 1 /\ Cardinality(Prior) \in Nat
    BY <1>2, <1>3, SentTyped, OneMore
  <2>2. Cardinality(Sent') \in Nat
    BY <1>2, <1>3, SentTyped, FS_AddElement, FS_CardinalityType
  <2>3. /\ Cardinality(Prior) <= m.t /\ m.t + 1 + Cardinality(AheadOf(m.batch)) <= MaxToolCalls
        /\ m.t \in Nat /\ MaxToolCalls \in Nat
    BY <1>2, BudgetAssumption DEF StepInHand, State
  <2>4. Cardinality(AheadOf(m.batch)) \in Nat
    BY <1>2, AheadTyped DEF State
  <2>5. Cardinality(Sent') <= MaxToolCalls
    BY <2>1, <2>2, <2>3, <2>4
  <2> QED BY <2>5 DEF HardBudget, Sent
<1>5. TypeOK'
  BY <1>1, <1>3 DEF IInv, TypeOK, Running
<1>6. PlaceHasRecords'
  BY <1>1, <1>2, <1>3 DEF IInv, PlaceHasRecords, Running
<1>7. StepInHand(m)' /\ StepInHand(snap.state)'
  BY <1>1, <1>2, <1>3 DEF StepInHand, Soft, AheadOf
<1>8. MemoryCounts' /\ GateFollows' /\ EndsCertain'
  BY <1>1, <1>2, <1>7, NoneAssumption DEF MemoryCounts, GateFollows, EndsCertain, Codes
<1>9. RecordsCount'
  BY <1>1, <1>2, <1>7 DEF IInv, RecordsCount
<1> QED BY <1>4, <1>5, <1>6, <1>8, <1>9 DEF IInv

LEMMA EvaluatedTyped ==
    ASSUME m \in State
    PROVE  Evaluated \in State /\ Evaluated.batch = m.batch /\ Evaluated.t = m.t
<1> DEFINE look == IF OnlyLooked THEN m.look + 1 ELSE 0
           idle == IF Acted \/ ~(Contents(m) \subseteq m.ev) THEN 0 ELSE m.idle + 1
           ev == m.ev \union Contents(m)
<1>1. look \in Nat /\ idle \in Nat /\ ev \in SUBSET Content
  BY DEF State, Contents
<1>2. Evaluated = [m EXCEPT !.look = look, !.idle = idle, !.ev = ev]
  BY DEF Evaluated
<1> HIDE DEF look, idle, ev
<1> QED BY <1>1, <1>2 DEF State

LEMMA EndTurnKeeps == ASSUME IInv, EndTurn PROVE IInv'
<1>1. /\ at = "batch" /\ at' = "top" /\ m' = Evaluated /\ shut' = (shut \/ Soft(Evaluated))
      /\ UNCHANGED <<prov, snap, steps, mode, code, cancel, late, starts>>
  BY DEF EndTurn, Go
<1>2. at \in Calm /\ at' \in Calm
  BY <1>1 DEF Calm
<1>3. Evaluated \in State /\ Evaluated.batch = m.batch /\ Evaluated.t = m.t
  BY <1>2, CalmHas, EvaluatedTyped
<1>4. shut' \in BOOLEAN
  BY <1>1, <1>2, CalmHas DEF Soft
<1>5. GateFollows'
  <2>1. Soft(m)' => Soft(Evaluated)
    BY <1>1 DEF Soft
  <2> QED BY <1>1, <2>1 DEF GateFollows
<1> QED BY <1>1, <1>2, <1>3, <1>4, <1>5, CalmHas, CalmKeeps

LEMMA ToolsStepKeeps == ASSUME IInv, ToolsStep PROVE IInv'
<1>1. m \in State
  BY DEF IInv, TypeOK
<1>2. StoppedBy("CANCELLED", "BUDGET_EXHAUSTED") \in Codes \ {"CANDIDATE_COMPLETED", "NEEDS_INPUT"}
  BY DEF StoppedBy, Codes
<1>3. CASE InterruptedBatch
  BY <1>1, <1>2, <1>3, StopKeeps DEF InterruptedBatch
<1>4. CASE DataflowRejected
  BY <1>1, <1>4, StopKeeps DEF DataflowRejected, Codes
<1>5. CASE EndTurn \/ DispatchStep
  BY <1>5, EndTurnKeeps, DispatchKeeps
<1>6. ASSUME NEW outcome \in Outcomes, NEW job \in BOOLEAN, StepAnswered(outcome, job)
      PROVE  IInv'
  <2>1. at \in Hand /\ StepInHand(m) /\ steps' = [steps EXCEPT ![Last].outcome = outcome]
    BY <1>6 DEF StepAnswered, Hand, IInv, MemoryCounts
  <2>2. CASE Stop("CANCEL_UNKNOWN") /\ UNCHANGED <<m, prov, snap>>
    BY <2>1, <2>2, StopRecordedKeeps DEF Codes
  <2>3. CASE Retain(outcome)
    BY <2>1, <2>3, RetainKeeps
  <2> QED BY <1>6, <2>2, <2>3 DEF StepAnswered
<1>7. CASE DispatchStopped
  <2>1. at \in Hand /\ StepInHand(m) /\ "rejected" \in Outcomes
    BY <1>7 DEF DispatchStopped, Hand, IInv, MemoryCounts, Outcomes
  <2> QED BY <1>7, <2>1, RetainKeeps DEF DispatchStopped
<1> QED BY <1>3, <1>4, <1>5, <1>6, <1>7, RecallKeeps, RejectedHereKeeps, PrepareKeeps DEF ToolsStep

-----------------------------------------------------------------------------
(* A process resumes, and finds the outcome of the step of another.           *)
LEMMA RecoveryStepKeeps == ASSUME IInv, RecoveryStep PROVE IInv'
<1>1. m \in State
  BY DEF IInv, TypeOK
<1>2. StoppedBy("CANCELLED", "BUDGET_EXHAUSTED") \in Codes \ {"CANDIDATE_COMPLETED", "NEEDS_INPUT"}
  BY DEF StoppedBy, Codes
<1>3. CASE CursorLost
  BY <1>1, <1>3, StopKeeps DEF CursorLost, Codes
<1>4. CASE RecoveryStopped
  BY <1>1, <1>2, <1>4, StopKeeps DEF RecoveryStopped
<1>5. ASSUME NEW outcome \in Outcomes, Reconcile(outcome)
      PROVE  IInv'
  <2>1. at = "recovering" /\ at \in Hand /\ CursorFound
        /\ steps' = [steps EXCEPT ![Last].outcome = outcome]
    BY <1>5 DEF Reconcile, Hand
  <2>2. StepInHand(m)
    <3>1. Len(m.batch.got) # m.batch.seen
      <4>1. snap.active \in ActiveStep
        BY <2>1, HandHas
      <4> QED BY <2>1, <4>1 DEF CursorFound, B, ActiveStep
    <3> QED BY <2>1, <3>1 DEF IInv, MemoryCounts
  <2>3. CASE Stop("BUDGET_EXHAUSTED") /\ UNCHANGED <<m, prov, snap>>
    BY <2>1, <2>3, StopRecordedKeeps DEF Codes
  <2>4. CASE Retain(outcome)
    BY <2>1, <2>2, <2>4, RetainKeeps
  <2> QED BY <1>5, <2>3, <2>4 DEF Reconcile
<1> QED BY <1>3, <1>4, <1>5 DEF RecoveryStep

(* What a process may begin from.                                             *)
LEMMA BeginKeeps ==
    ASSUME IInv, at \in {"down", "paused"}, NEW s \in State, NEW place \in {"top", "recovering"},
           Begin(s, place), s.batch.seen <= Len(s.batch.calls),
           place = "top" => Counts(s) /\ Certain(Sent),
           place = "recovering" => /\ snap # None /\ snap.active # None
                                   /\ Len(s.batch.got) = s.batch.seen \/ StepInHand(s)
    PROVE  IInv'
<1>1. /\ m' = s /\ shut' = Soft(s) /\ cancel' = FALSE /\ starts' = starts + 1
      /\ at' = IF late THEN "ended" ELSE place
      /\ code' = IF late THEN "BUDGET_EXHAUSTED" ELSE None
      /\ UNCHANGED <<mode, late, prov, snap, steps>>
  BY DEF Begin
<1>2. Sent' = Sent /\ Prior' = Prior /\ Certain(Sent)' = Certain(Sent) /\ Certain(Prior)' = Certain(Prior)
  BY <1>1 DEF Sent, Prior, Certain, Last
<1>3. TypeOK'
  <2>1. shut' \in BOOLEAN /\ cancel' \in BOOLEAN /\ m' \in State
    BY <1>1 DEF Soft
  <2>2. starts' \in Nat
    BY <1>1 DEF IInv, TypeOK
  <2>3. at' \in Running \union {"down", "paused", "ended"} /\ code' \in Codes \union {None}
    BY <1>1 DEF Running, Codes
  <2> QED BY <1>1, <2>1, <2>2, <2>3 DEF IInv, TypeOK
<1>4. PlaceHasRecords'
  BY <1>1 DEF IInv, PlaceHasRecords, Running
<1>5. MemoryCounts'
  BY <1>1, <1>2 DEF MemoryCounts, Counts, StepInHand, Soft, AheadOf
<1>6. RecordsCount'
  BY <1>1, <1>2 DEF IInv, RecordsCount, Counts, StepInHand, Soft, AheadOf
<1>7. GateFollows'
  BY <1>1 DEF GateFollows, Soft
<1>8. EndsCertain' /\ HardBudget'
  BY <1>1, <1>2, NoneAssumption DEF IInv, EndsCertain, HardBudget, Codes
<1> QED BY <1>3, <1>4, <1>5, <1>6, <1>7, <1>8 DEF IInv

LEMMA FreshTyped == Fresh \in State /\ Fresh.batch.seen = 0 /\ Fresh.batch.calls = <<>>
                    /\ Len(Fresh.batch.got) = 0 /\ Fresh.t = 0
BY DEF Fresh, NoBatch, State, BatchInHand

(* The caller's messages only reset counters of progress.                     *)
LEMMA ResumeTyped ==
    ASSUME TypeOK, snap # None, NEW say \in 0 .. 1
    PROVE  LET base == IF Replaying THEN prov.state ELSE snap.state
               s == ResumeState(say)
           IN  /\ s \in State /\ s.batch = base.batch /\ s.t = base.t
               /\ Soft(s) => Soft(base)
<1> DEFINE base == IF Replaying THEN prov.state ELSE snap.state
           told == IF Replaying THEN prov.state ELSE [snap.state EXCEPT !.told = @ + say]
           s == ResumeState(say)
<1>1. base \in State /\ (Replaying => prov.state \in State) /\ snap.state \in State
  BY DEF TypeOK, CallRecord, Snapshot, Replaying
<1>2. /\ told \in State /\ told.batch = base.batch /\ told.t = base.t
      /\ told.look = base.look /\ told.idle = base.idle
  <2>1. snap.state.told + say \in Nat
    BY <1>1 DEF State
  <2>2. [snap.state EXCEPT !.told = @ + say] = [snap.state EXCEPT !.told = snap.state.told + say]
    OBVIOUS
  <2> QED BY <1>1, <2>1, <2>2 DEF State
<1>3. s = [told EXCEPT !.look = 0, !.idle = 0] \/ s = told
  BY DEF ResumeState
<1> HIDE DEF base, told, s
<1>4. s \in State /\ s.batch = base.batch /\ s.t = base.t
      /\ \/ s.look = base.look /\ s.idle = base.idle
         \/ s.look = 0 /\ s.idle = 0
  <2>1. ASSUME NEW r \in State, NEW q, q = [r EXCEPT !.look = 0, !.idle = 0]
        PROVE  q \in State /\ q.batch = r.batch /\ q.t = r.t /\ q.look = 0 /\ q.idle = 0
    BY <2>1 DEF State
  <2>2. CASE s = told
    BY <1>2, <2>2
  <2>3. CASE s = [told EXCEPT !.look = 0, !.idle = 0]
    <3>1. s \in State /\ s.batch = told.batch /\ s.t = told.t /\ s.look = 0 /\ s.idle = 0
      BY <1>2, <2>1, <2>3
    <3>2. s.batch = base.batch /\ s.t = base.t
      BY <1>2, <3>1
    <3> QED BY <3>1, <3>2
  <2> QED BY <1>3, <2>2, <2>3
<1>5. Soft(s) => Soft(base)
  BY <1>4, BudgetAssumption DEF Soft
<1> QED BY <1>4, <1>5 DEF base, s

LEMMA ResumeKeeps == ASSUME IInv, NEW say \in 0 .. 1, Resume(say) PROVE IInv'
<1> DEFINE s == ResumeState(say)
           base == IF Replaying THEN prov.state ELSE snap.state
           place == IF snap.active # None THEN "recovering" ELSE "top"
<1>1. at \in {"down", "paused"} /\ snap # None /\ Begin(s, place) /\ place \in {"top", "recovering"}
  BY DEF Resume
<1>2. s \in State /\ s.batch = base.batch /\ s.t = base.t /\ (Soft(s) => Soft(base))
  BY <1>1, ResumeTyped DEF IInv
<1> HIDE DEF s
<1>3. base.batch.seen <= Len(base.batch.calls)
  BY <1>1 DEF IInv, RecordsCount, Replaying
<1>4. Counts(base) \/ StepInHand(base)
  BY <1>1 DEF IInv, RecordsCount, Replaying
<1>5. Counts(base) => Counts(s)
  BY <1>2 DEF Counts
<1>6. StepInHand(base) => StepInHand(s)
  BY <1>2 DEF StepInHand, AheadOf
<1>7. place = "top" => Counts(s) /\ Certain(Sent)
  BY <1>1, <1>5 DEF IInv, RecordsCount, Replaying
<1>8. place = "recovering" => /\ snap # None /\ snap.active # None
                              /\ Len(s.batch.got) = s.batch.seen \/ StepInHand(s)
  BY <1>1, <1>4, <1>5, <1>6 DEF Counts
<1> HIDE DEF place, base
<1> QED BY <1>1, <1>2, <1>3, <1>7, <1>8, BeginKeeps

LEMMA StartKeeps == ASSUME IInv, Start PROVE IInv'
<1>1. CASE Run
  <2>1. at \in {"down", "paused"} /\ Begin(Fresh, "top") /\ steps = <<>>
    BY <1>1 DEF Run, IInv, PlaceHasRecords
  <2>2. Sent = {} /\ Cardinality(Sent) = 0
    BY <2>1, FS_EmptySet DEF Sent
  <2>3. Counts(Fresh) /\ Certain(Sent)
    BY <2>2, FreshTyped DEF Counts, Certain
  <2>4. Fresh \in State /\ Fresh.batch.seen <= Len(Fresh.batch.calls)
    BY FreshTyped
  <2> QED BY <2>1, <2>3, <2>4, BeginKeeps
<1>2. ASSUME NEW say \in 0 .. 1, ResumeRefused(say) PROVE IInv'
  <2>1. /\ at' = "down" /\ code' = "REFUSED" /\ starts' = starts + 1
        /\ UNCHANGED <<mode, m, shut, cancel, late, prov, snap, steps>>
    BY <1>2 DEF ResumeRefused
  <2>2. TypeOK'
    BY <2>1 DEF IInv, TypeOK, Codes
  <2>3. PlaceHasRecords' /\ MemoryCounts' /\ GateFollows' /\ EndsCertain'
    BY <2>1 DEF IInv, PlaceHasRecords, MemoryCounts, GateFollows, EndsCertain, Running
  <2>4. RecordsCount' /\ HardBudget'
    BY <2>1 DEF IInv, RecordsCount, HardBudget, Counts, StepInHand, Soft, AheadOf, Sent, Prior,
                Certain, Last
  <2> QED BY <2>2, <2>3, <2>4 DEF IInv
<1> QED BY <1>1, <1>2, ResumeKeeps DEF Start

LEMMA CrashKeeps == ASSUME IInv, Crash PROVE IInv'
<1>1. /\ at' = "down" /\ code' = None /\ m' = Fresh /\ shut' = FALSE /\ cancel' = FALSE
      /\ UNCHANGED <<mode, late, prov, snap, steps, starts>>
  BY DEF Crash
<1>2. TypeOK'
  BY <1>1, FreshTyped DEF IInv, TypeOK
<1>3. PlaceHasRecords' /\ MemoryCounts' /\ GateFollows'
  BY <1>1, FreshTyped DEF IInv, PlaceHasRecords, MemoryCounts, GateFollows, Running
<1>4. RecordsCount' /\ HardBudget'
  BY <1>1 DEF IInv, RecordsCount, HardBudget, Counts, StepInHand, Soft, AheadOf, Sent, Prior,
              Certain, Last
<1>5. EndsCertain'
  BY <1>1, NoneAssumption DEF EndsCertain, Codes
<1> QED BY <1>2, <1>3, <1>4, <1>5 DEF IInv

-----------------------------------------------------------------------------
LEMMA InvInit == Init => IInv
<1> SUFFICES ASSUME Init PROVE IInv
  OBVIOUS
<1>1. Sent = {} /\ Cardinality(Sent) = 0 /\ 0 <= MaxToolCalls
  BY FS_EmptySet, BudgetAssumption DEF Init, Sent
<1>2. TypeOK
  <2>1. mode \in Mode /\ m \in State /\ steps \in Seq(Step)
    BY FreshTyped, ModesAssumption DEF Init
  <2>2. at \in Running \union {"down", "paused", "ended"}
    BY DEF Init
  <2> QED BY <2>1, <2>2 DEF Init, TypeOK
<1>3. PlaceHasRecords /\ MemoryCounts /\ RecordsCount /\ GateFollows
  BY FreshTyped DEF Init, PlaceHasRecords, MemoryCounts, RecordsCount, GateFollows, Running
<1>4. EndsCertain /\ HardBudget
  BY <1>1 DEF EndsCertain, HardBudget, Certain, Sent
<1> QED BY <1>2, <1>3, <1>4 DEF IInv

LEMMA InvStep == IInv /\ [LoopNext]_vars => IInv'
BY CallStepKeeps, AnswerStepKeeps, ToolsStepKeeps, RecoveryStepKeeps, StartKeeps, CrashKeeps,
   OutsideKeeps DEF LoopNext, LoopStep

LEMMA Inductive == LoopSpec => []IInv
BY InvInit, InvStep, PTL DEF LoopSpec

(* Every variable of the loop keeps its type, and every record that a process *)
(* may begin from.                                                            *)
THEOREM Typing == LoopSpec => []TypeOK
<1>1. IInv => TypeOK
  BY DEF IInv
<1> QED BY <1>1, Inductive, PTL

(* A Tool call is on its way to the Runtime only while the limits of the Run  *)
(* allow it: execute_tool_calls passes soft_observation_gate_reason and the   *)
(* budget, and a process that resumes has counted what the one before it did. *)
THEOREM GateHolds == LoopSpec => []NoEffectPastLimit
<1>1. IInv => NoEffectPastLimit
  <2> SUFFICES ASSUME IInv, at \in {"prepared", "sent"} PROVE ~Soft(m) /\ m.t < MaxToolCalls
    BY DEF NoEffectPastLimit
  <2>1. ~Soft(m) /\ m.t + 1 + Cardinality(AheadOf(m.batch)) <= MaxToolCalls /\ m \in State
    BY DEF IInv, MemoryCounts, StepInHand, TypeOK
  <2>2. Cardinality(AheadOf(m.batch)) \in Nat /\ m.t \in Nat /\ MaxToolCalls \in Nat
    BY <2>1, AheadTyped, BudgetAssumption DEF State
  <2> QED BY <2>1, <2>2
<1> QED BY <1>1, Inductive, PTL

(* All processes of a Run together send the Runtime at most the calls of its  *)
(* budget, however they crash between a preparation and its receipt.          *)
THEOREM BudgetIsHard == LoopSpec => []HardBudget
<1>1. IInv => HardBudget
  BY DEF IInv
<1> QED BY <1>1, Inductive, PTL

(* A Run that completes, or pauses to ask, knows the outcome of every Tool    *)
(* call that any of its processes sent.                                       *)
THEOREM ConcludedMeansCertain == LoopSpec => []ConcludedRunsAreCertain
<1>1. IInv => ConcludedRunsAreCertain
  BY DEF IInv, EndsCertain, Certain, Sent, ConcludedRunsAreCertain
<1> QED BY <1>1, Inductive, PTL

-----------------------------------------------------------------------------
(* The turns of the Tool steps and of the batch, which only go up: a batch    *)
(* that begins has no step yet, whatever was recovered before it.             *)
Covers(s) == s.batch.turn <= s.n /\ \A i \in DOMAIN steps : steps[i].turn <= s.n

TurnsFollow ==
    /\ at \in Running => Covers(m)
    /\ prov # None => Covers(prov.state)
    /\ snap # None => Covers(snap.state)

(* The outcomes of the first k calls of a program.                            *)
Hist(got, k) == [j \in 1 .. k |-> got[j]]

(* The steps after the first f are those of the turn: each is the call that   *)
(* the outcomes before it make, and has the outcome that the loop has.  Only  *)
(* a call that was rejected before its step was prepared has no step.         *)
KeptBy(f, ss, turn, p, got, place) ==
    /\ {i \in DOMAIN ss : ss[i].turn = turn} = f + 1 .. Len(ss)
    /\ \A k \in 1 .. Len(ss) - f :
          /\ Derivable(p, Hist(got, k - 1))
          /\ ss[f + k].call = InnerCall(p, Hist(got, k - 1))
          /\ k <= Len(got) => ss[f + k].outcome = got[k]
    /\ place = "batch" =>
          /\ \A j \in 1 .. Len(got) - 1 : got[j] \in Content
          /\ \/ Len(ss) - f = Len(got)
             \/ Len(ss) - f = Len(got) - 1 /\ got[Len(got)] = "rejected"
    /\ place # "batch" =>
          /\ \A j \in 1 .. Len(got) : got[j] \in Content
          /\ Len(ss) - f = Len(got) + 1 /\ ss[Len(ss)].outcome = None

InBatch == {"batch", "prepared", "sent"}
ProgramKept ==
    InProgram /\ at \in InBatch =>
        /\ B.calls = ProgramAction(B.program).calls
        /\ \E f \in 0 .. Len(steps) : KeptBy(f, steps, B.turn, B.program, B.got, at)

-----------------------------------------------------------------------------
(* What the loop's changes of its state leave of the batch.                   *)
Framed(r, s) ==
    /\ r.n = s.n /\ r.batch.turn = s.batch.turn
    /\ r.batch.program = s.batch.program /\ r.batch.calls = s.batch.calls

LEMMA SeenFrames ==
    ASSUME NEW s \in State
    PROVE  Framed(Seen(s), s) /\ Seen(s).batch.got = s.batch.got
<1>1. s.batch \in BatchInHand
  BY DEF State
<1>2. Seen(s) = [s EXCEPT !.batch = [s.batch EXCEPT !.seen = s.batch.seen + 1]]
  BY DEF Seen
<1> QED BY <1>1, <1>2 DEF Framed, State, BatchInHand

LEMMA ObservedFrames ==
    ASSUME NEW s \in State, NEW o
    PROVE  Framed(Observed(s, o), s) /\ Observed(s, o).batch.got = Append(s.batch.got, o)
<1>1. s.batch \in BatchInHand
  BY DEF State
<1>2. Observed(s, o) = [s EXCEPT !.batch = [s.batch EXCEPT !.got = Append(s.batch.got, o)],
                                 !.observed = TRUE]
  BY DEF Observed
<1>3. ASSUME NEW b, NEW r, r = [s EXCEPT !.batch = b, !.observed = TRUE]
      PROVE  r.batch = b /\ r.n = s.n
  BY <1>3 DEF State
<1>4. /\ Observed(s, o).batch = [s.batch EXCEPT !.got = Append(s.batch.got, o)]
      /\ Observed(s, o).n = s.n
  BY <1>2, <1>3
<1> QED BY <1>1, <1>4 DEF Framed, BatchInHand

LEMMA RetainedFrames ==
    ASSUME NEW s \in State, NEW o
    PROVE  Framed(Retained(s, o), s) /\ Retained(s, o).batch.got = Append(s.batch.got, o)
<1> DEFINE t == s.t + 1
           f == IF o = "rejected" THEN s.fix + 1 ELSE s.fix
           u == [s EXCEPT !.t = t, !.fix = f]
<1>1. t \in Nat /\ f \in Nat
  BY DEF State
<1>2. Retained(s, o) = Observed(u, o)
  BY DEF Retained
<1> HIDE DEF t, f
<1>3. u \in State /\ u.batch = s.batch /\ u.n = s.n
  BY <1>1 DEF State
<1> HIDE DEF u
<1> QED BY <1>2, <1>3, ObservedFrames DEF Framed

LEMMA EvaluatedFrames == ASSUME m \in State PROVE Framed(Evaluated, m)
<1> DEFINE look == IF OnlyLooked THEN m.look + 1 ELSE 0
           idle == IF Acted \/ ~(Contents(m) \subseteq m.ev) THEN 0 ELSE m.idle + 1
           ev == m.ev \union Contents(m)
<1>1. Evaluated = [m EXCEPT !.look = look, !.idle = idle, !.ev = ev]
  BY DEF Evaluated
<1> HIDE DEF look, idle, ev
<1> QED BY <1>1 DEF Framed, State

LEMMA CountedFrames ==
    ASSUME m \in State
    PROVE  Counted \in State /\ Counted.n = m.n + 1 /\ Counted.batch = m.batch
<1>1. Counted = [m EXCEPT !.n = m.n + 1]
  BY DEF Counted
<1> QED BY <1>1, CountedTyped DEF State

(* A process resumes with the turns of what it resumes from.                  *)
LEMMA ResumeFrames ==
    ASSUME TypeOK, snap # None, NEW say \in 0 .. 1
    PROVE  LET base == IF Replaying THEN prov.state ELSE snap.state
           IN  Framed(ResumeState(say), base)
<1> DEFINE base == IF Replaying THEN prov.state ELSE snap.state
           told == IF Replaying THEN prov.state ELSE [snap.state EXCEPT !.told = @ + say]
           s == ResumeState(say)
<1>1. base \in State /\ (Replaying => prov.state \in State) /\ snap.state \in State
  BY DEF TypeOK, CallRecord, Snapshot, Replaying
<1>2. told \in State /\ told.batch = base.batch /\ told.n = base.n
  <2>1. snap.state.told + say \in Nat
    BY <1>1 DEF State
  <2>2. [snap.state EXCEPT !.told = @ + say] = [snap.state EXCEPT !.told = snap.state.told + say]
    OBVIOUS
  <2> QED BY <1>1, <2>1, <2>2 DEF State
<1>3. s = [told EXCEPT !.look = 0, !.idle = 0] \/ s = told
  BY DEF ResumeState
<1> HIDE DEF base, told, s
<1>4. s.batch = base.batch /\ s.n = base.n
  <2>1. ASSUME NEW r \in State, NEW q, q = [r EXCEPT !.look = 0, !.idle = 0]
        PROVE  q.batch = r.batch /\ q.n = r.n
    BY <2>1 DEF State
  <2> QED BY <1>2, <1>3, <2>1
<1> QED BY <1>4 DEF base, s, Framed

-----------------------------------------------------------------------------
(* Turns: no step changes its turn, a state that is kept has counted as many  *)
(* turns as one that was.                                                     *)
SameTurns == DOMAIN steps' = DOMAIN steps /\ \A i \in DOMAIN steps : steps'[i].turn = steps[i].turn

LEMMA CoversMore ==
    ASSUME SameTurns, NEW r, NEW s, Covers(r), r.n \in Nat, s.n \in Nat, r.n <= s.n,
           s.batch.turn <= s.n, steps \in Seq(Step)
    PROVE  /\ s.batch.turn <= s.n /\ \A i \in DOMAIN steps' : steps'[i].turn <= s.n
<1>1. \A i \in DOMAIN steps : steps[i].turn \in Nat /\ steps[i].turn <= r.n
  <2>1. \A i \in DOMAIN steps : steps[i] \in Step
    OBVIOUS
  <2> QED BY <2>1 DEF Covers, Step
<1>2. ASSUME NEW i \in DOMAIN steps' PROVE steps'[i].turn <= s.n
  <2>1. i \in DOMAIN steps /\ steps'[i].turn = steps[i].turn
    BY DEF SameTurns
  <2> QED BY <1>1, <2>1
<1> QED BY <1>2

LEMMA TurnsKeep ==
    ASSUME IInv, IInv', TurnsFollow, SameTurns,
           at' \in Running => at \in Running /\ m'.n >= m.n /\ m'.batch.turn <= m'.n,
           prov' # None => \/ prov # None /\ prov'.state = prov.state
                           \/ at \in Running /\ prov'.state = m' /\ m'.n >= m.n /\ m'.batch.turn <= m'.n,
           snap' # None => \/ snap # None /\ snap'.state = snap.state
                           \/ at \in Running /\ snap'.state = m' /\ m'.n >= m.n /\ m'.batch.turn <= m'.n
    PROVE  TurnsFollow'
<1> DEFINE Fits(s) == s.batch.turn <= s.n /\ \A i \in DOMAIN steps' : steps'[i].turn <= s.n
<1>1. /\ steps \in Seq(Step) /\ m \in State /\ m' \in State
      /\ prov # None => prov.state \in State
      /\ snap # None => snap.state \in State
  BY DEF IInv, TypeOK, CallRecord, Snapshot
<1>2. \A s \in State : s.n \in Nat
  BY DEF State
<1>3. ASSUME at \in Running, m'.n >= m.n, m'.batch.turn <= m'.n PROVE Fits(m')
  <2>1. Covers(m) /\ m.n \in Nat /\ m'.n \in Nat /\ m.n <= m'.n
    BY <1>1, <1>2, <1>3 DEF TurnsFollow
  <2> HIDE DEF Fits
  <2>2. PICK r : r = m
    OBVIOUS
  <2>3. PICK s : s = m'
    OBVIOUS
  <2>4. Fits(s)
    <3>1. Covers(r) /\ r.n \in Nat /\ s.n \in Nat /\ r.n <= s.n /\ s.batch.turn <= s.n
      BY <1>3, <2>1, <2>2, <2>3
    <3> QED BY <1>1, <3>1, CoversMore DEF Fits
  <2> QED BY <2>3, <2>4
<1>4. ASSUME NEW s \in State, Covers(s) PROVE Fits(s)
  BY <1>1, <1>2, <1>4, CoversMore DEF Covers
<1>5. (at \in Running => Covers(m))'
  BY <1>3 DEF Covers
<1>6. (prov # None => Covers(prov.state))'
  <2>1. ASSUME prov' # None PROVE Fits(prov'.state)
    BY <1>1, <1>3, <1>4, <2>1 DEF TurnsFollow
  <2> QED BY <2>1 DEF Covers
<1>7. (snap # None => Covers(snap.state))'
  <2>1. ASSUME snap' # None PROVE Fits(snap'.state)
    BY <1>1, <1>3, <1>4, <2>1 DEF TurnsFollow
  <2> QED BY <2>1 DEF Covers
<1> QED BY <1>5, <1>6, <1>7 DEF TurnsFollow

LEMMA OutcomeTurns ==
    ASSUME steps \in Seq(Step), NEW o,
           \/ steps' = [steps EXCEPT ![Last].outcome = o]
           \/ steps' = [steps EXCEPT ![Last].sent = TRUE]
           \/ steps' = steps
    PROVE  SameTurns
<1>1. \A i \in DOMAIN steps : steps[i] \in Step
  OBVIOUS
<1>2. /\ DOMAIN steps' = DOMAIN steps
      /\ \A i \in DOMAIN steps : \/ steps'[i] = steps[i]
                                \/ steps'[i] = [steps[i] EXCEPT !.outcome = o]
                                \/ steps'[i] = [steps[i] EXCEPT !.sent = TRUE]
  OBVIOUS
<1>3. ASSUME NEW s \in Step
      PROVE  [s EXCEPT !.outcome = o].turn = s.turn /\ [s EXCEPT !.sent = TRUE].turn = s.turn
  BY DEF Step
<1> QED BY <1>1, <1>2, <1>3 DEF SameTurns

(* A process that leaves the loop, or was not in it.                          *)
LEMMA LeavesTurns ==
    ASSUME IInv, IInv', TurnsFollow, SameTurns, at' \notin Running, UNCHANGED <<prov, snap>>
    PROVE  TurnsFollow'
BY TurnsKeep

(* One that goes on, with the same batch.                                     *)
LEMMA GoesOnTurns ==
    ASSUME IInv, IInv', TurnsFollow, SameTurns, at \in Running, UNCHANGED snap,
           m'.n \in {m.n, m.n + 1}, m'.batch.turn = m.batch.turn,
           prov' # None => prov'.state = m' \/ (prov # None /\ prov'.state = prov.state)
    PROVE  TurnsFollow'
<1>1. m \in State /\ m.n \in Nat /\ m.batch.turn \in Nat /\ m.batch.turn <= m.n
  BY DEF TurnsFollow, Covers, IInv, TypeOK, State, BatchInHand
<1>2. m'.n >= m.n /\ m'.batch.turn <= m'.n
  BY <1>1
<1> QED BY <1>2, TurnsKeep

LEMMA CallStepTurns == ASSUME IInv, IInv', TurnsFollow, CallStep PROVE TurnsFollow'
<1>1. SameTurns /\ UNCHANGED snap
  BY DEF CallStep, LimitReached, ClaimCall, ReplayAnswer, ClaimRefused, Admit, AdmissionClosed,
         Answered, RetryCall, CallFailed, SameTurns
<1>2. at \in Running
  BY DEF CallStep, LimitReached, ClaimCall, ReplayAnswer, ClaimRefused, Admit, AdmissionClosed,
         Answered, RetryCall, CallFailed, Turning, Running
<1>3. CASE at' \notin Running
  BY <1>1, <1>3, LeavesTurns
     DEF CallStep, LimitReached, ClaimCall, ReplayAnswer, ClaimRefused, Admit, AdmissionClosed,
         Answered, RetryCall, CallFailed, Go, Running
<1>4. CASE LimitReached \/ ClaimRefused \/ AdmissionClosed \/ \E c \in Codes : CallFailed(c)
  <2>1. at' \notin Running
    BY <1>4 DEF LimitReached, ClaimRefused, AdmissionClosed, CallFailed, Stop, Running
  <2> QED BY <1>3, <2>1
<1>5. CASE ClaimCall
  <2>1. prov'.state = m' /\ m' = m
    BY <1>5 DEF ClaimCall, Record
  <2> QED BY <1>1, <1>2, <2>1, GoesOnTurns
<1>6. CASE ReplayAnswer
  BY <1>1, <1>2, <1>6, GoesOnTurns DEF ReplayAnswer
<1>7. CASE Admit \/ \E a \in Answers : Answered(a)
  <2>1. at \in Calm /\ at \in {"claimed", "out", "answered"} /\ m' = m
    BY <1>7 DEF Admit, Answered, Calm
  <2>2. prov \in CallRecord /\ prov # None
    BY <2>1, CalmHas
  <2>3. prov'.state = prov.state
    BY <1>7, <2>2 DEF Admit, Answered, CallRecord
  <2> QED BY <1>1, <1>2, <2>1, <2>2, <2>3, GoesOnTurns
<1>8. CASE RetryCall
  <2>1. at \in Calm /\ at \in {"claimed", "out", "answered"}
    BY <1>8 DEF RetryCall, Calm
  <2>2. prov \in CallRecord /\ m \in State
    BY <2>1, CalmHas
  <2>3. prov'.state = m' /\ m'.n = m.n /\ m'.batch = m.batch
    BY <1>8, <2>2 DEF RetryCall, CallRecord, State
  <2> QED BY <1>1, <1>2, <2>3, GoesOnTurns
<1> QED BY <1>4, <1>5, <1>6, <1>7, <1>8 DEF CallStep, Codes

LEMMA NextTurnTurns ==
    ASSUME IInv, IInv', TurnsFollow, at = "answered", UNCHANGED <<snap, steps>>,
           prov' = prov \/ prov' = None, m'.n = m.n + 1, m'.batch = m.batch
    PROVE  TurnsFollow'
<1>1. SameTurns /\ at \in Running
  BY DEF SameTurns, Running
<1> QED BY <1>1, GoesOnTurns

LEMMA AnswerStepTurns == ASSUME IInv, IInv', TurnsFollow, AnswerStep PROVE TurnsFollow'
<1>1. /\ at = "answered" /\ m \in State /\ m.n \in Nat /\ steps' = steps
      /\ Counted \in State /\ Counted.n = m.n + 1 /\ Counted.batch = m.batch
  <2>1. at = "answered" /\ steps' = steps
    BY DEF AnswerStep, AnswerTooLate, MalformedConclusion, Corrected, GateRefuses, SelectWorkingSet,
           Transition, NoWorkingSet, ProgramRefused, StartProgram, Deliberated, ConclusionRejected,
           Completed, Concluding, Paused, BatchTooLarge, StartTools, StartBatch, Refuse, NextTurn,
           Answer
  <2>2. m \in State /\ m.n \in Nat
    BY DEF IInv, TypeOK, State
  <2> QED BY <2>1, <2>2, CountedFrames
<1>2. SameTurns /\ at \in Running
  BY <1>1 DEF SameTurns, Running
<1>3. ASSUME NEW c, Refuse(c) PROVE TurnsFollow'
  <2>1. at' \notin Running /\ UNCHANGED <<prov, snap>>
    BY <1>3 DEF Refuse, Stop, Running
  <2> QED BY <1>2, <2>1, LeavesTurns
<1>4. CASE AnswerTooLate
  <2>1. at' \notin Running /\ UNCHANGED <<prov, snap>>
    BY <1>4 DEF AnswerTooLate, Stop, Running
  <2> QED BY <1>2, <2>1, LeavesTurns
<1>5. CASE Corrected
  <2>1. CASE NextTurn([Counted EXCEPT !.con = @ + 1, !.gap = @ \/ prov.answer.is = "malformed"], shut)
    <3>1. ASSUME NEW c \in State, NEW r, NEW g, r = [c EXCEPT !.con = @ + 1, !.gap = @ \/ g]
          PROVE  r.n = c.n /\ r.batch = c.batch
      BY <3>1 DEF State
    <3>2. m'.n = m.n + 1 /\ m'.batch = m.batch /\ UNCHANGED <<prov, snap, steps>>
      BY <1>1, <2>1, <3>1 DEF NextTurn
    <3> QED BY <1>1, <3>2, NextTurnTurns
  <2> QED BY <1>3, <1>5, <2>1 DEF Corrected
<1>6. CASE MalformedConclusion \/ ConclusionRejected
  BY <1>3, <1>5, <1>6 DEF MalformedConclusion, ConclusionRejected
<1>7. CASE GateRefuses \/ NoWorkingSet \/ ProgramRefused \/ Completed \/ BatchTooLarge
  BY <1>3, <1>7 DEF GateRefuses, NoWorkingSet, ProgramRefused, Completed, BatchTooLarge
<1>8. ASSUME NEW is, Transition(is) PROVE TurnsFollow'
  <2>1. m'.n = m.n + 1 /\ m'.batch = m.batch /\ prov' = None /\ UNCHANGED <<snap, steps>>
    BY <1>1, <1>8 DEF Transition, State
  <2> QED BY <1>1, <2>1, NextTurnTurns
<1>9. CASE Deliberated
  BY <1>1, <1>9, NextTurnTurns DEF Deliberated, NextTurn
<1>10. CASE StartProgram \/ StartTools
  <2>1. m' = [Counted EXCEPT !.batch = Batch(m.n + 1, prov.answer)] /\ UNCHANGED <<prov, snap>>
    BY <1>10 DEF StartProgram, StartTools, StartBatch
  <2>2. m'.n = m.n + 1 /\ m'.batch.turn = m.n + 1
    BY <1>1, <2>1 DEF State, Batch
  <2>3. m'.n >= m.n /\ m'.batch.turn <= m'.n
    BY <1>1, <2>2
  <2> QED BY <1>2, <2>1, <2>3, TurnsKeep
<1>11. CASE Paused
  <2>1. m' = Counted /\ snap'.state = m' /\ prov' = None /\ at' \notin Running
    BY <1>11 DEF Paused, Running
  <2>2. m.batch.turn \in Nat /\ m.batch.turn <= m.n
    BY <1>1, <1>2 DEF TurnsFollow, Covers, State, BatchInHand
  <2>3. m'.n >= m.n /\ m'.batch.turn <= m'.n
    BY <1>1, <2>1, <2>2
  <2> QED BY <1>2, <2>1, <2>3, TurnsKeep
<1> QED BY <1>4, <1>6, <1>7, <1>8, <1>9, <1>10, <1>11 DEF AnswerStep, SelectWorkingSet

LEMMA StopTurns ==
    ASSUME IInv, IInv', TurnsFollow, SameTurns, NEW c, Stop(c), UNCHANGED <<prov, snap>>
    PROVE  TurnsFollow'
BY LeavesTurns DEF Stop, Running

LEMMA FramedTurns ==
    ASSUME IInv, IInv', TurnsFollow, SameTurns, at \in Running, UNCHANGED <<prov, snap>>,
           m' = m \/ Framed(m', m)
    PROVE  TurnsFollow'
BY GoesOnTurns DEF Framed

(* The outcome of a call without a Tool step, or of the step in hand.         *)
LEMMA HereFrames ==
    ASSUME m \in State, NEW c, NEW o, m' = Observed(Seen(m), o)
    PROVE  Framed(m', m) /\ m'.batch.got = Append(m.batch.got, o)
<1>1. Seen(m) \in State /\ Framed(Seen(m), m) /\ Seen(m).batch.got = m.batch.got
  BY SeenTyped, SeenFrames
<1>2. PICK u : u = Seen(m)
  OBVIOUS
<1>3. Framed(Observed(u, o), u) /\ Observed(u, o).batch.got = Append(u.batch.got, o)
  BY <1>1, <1>2, ObservedFrames
<1> QED BY <1>1, <1>2, <1>3 DEF Framed

LEMMA RejectedFrames ==
    ASSUME m \in State, NEW c,
           m' = Observed([Seen(m) EXCEPT !.fix = @ + 1, !.t = IF c = "gone" THEN @ ELSE @ + 1,
                                         !.gap = @ \/ c \in Tools], "rejected")
    PROVE  Framed(m', m) /\ m'.batch.got = Append(m.batch.got, "rejected")
<1>1. Seen(m) \in State /\ Framed(Seen(m), m) /\ Seen(m).batch.got = m.batch.got
  BY SeenTyped, SeenFrames
<1>2. PICK u : u = Seen(m)
  OBVIOUS
<1>3. PICK s : s = [u EXCEPT !.fix = u.fix + 1, !.t = (IF c = "gone" THEN u.t ELSE u.t + 1),
                             !.gap = (u.gap \/ c \in Tools)]
  OBVIOUS
<1>4. s \in State /\ s.batch = u.batch /\ s.n = u.n
  <2>1. u \in State /\ u.fix + 1 \in Nat /\ (IF c = "gone" THEN u.t ELSE u.t + 1) \in Nat
        /\ (u.gap \/ c \in Tools) \in BOOLEAN
    BY <1>1, <1>2 DEF State
  <2> QED BY <1>3, <2>1 DEF State
<1>5. Framed(Observed(s, "rejected"), s)
      /\ Observed(s, "rejected").batch.got = Append(s.batch.got, "rejected")
  BY <1>4, ObservedFrames
<1>6. m' = Observed(s, "rejected")
  BY <1>2, <1>3
<1> QED BY <1>1, <1>2, <1>4, <1>5, <1>6 DEF Framed

LEMMA RetainFrames ==
    ASSUME m \in State, NEW o, Retain(o)
    PROVE  \/ \E c : Stop(c) /\ UNCHANGED <<m, prov, snap>>
           \/ /\ at' = "batch" /\ UNCHANGED <<prov, snap>> /\ StopFor(m, o) = None
              /\ Framed(m', m) /\ m'.batch.got = Append(m.batch.got, o)
BY RetainedFrames DEF Retain, Go

LEMMA PrepareTurns == ASSUME IInv, IInv', TurnsFollow, NEW c, PrepareStep(c) PROVE TurnsFollow'
<1>1. /\ at = "batch" /\ prov' = None /\ m' = Seen(m) /\ snap'.state = m'
      /\ steps' = Append(steps, ToolIntent(B.turn, B.seen + 1, CallNow))
      /\ m \in State /\ steps \in Seq(Step) /\ Covers(m)
  BY DEF PrepareStep, NextIs, TurnsFollow, Running, IInv, TypeOK
<1>2. m'.n = m.n /\ m'.batch.turn = m.batch.turn
  BY <1>1, SeenFrames DEF Framed
<1>3. \A i \in DOMAIN steps' : steps'[i].turn <= m.n
  <2>1. /\ DOMAIN steps' = 1 .. Len(steps) + 1 /\ DOMAIN steps = 1 .. Len(steps) /\ Len(steps) \in Nat
        /\ \A i \in 1 .. Len(steps) : steps'[i] = steps[i]
        /\ steps'[Len(steps) + 1] = ToolIntent(B.turn, B.seen + 1, CallNow)
    BY <1>1
  <2>2. steps'[Len(steps) + 1].turn <= m.n
    BY <1>1, <2>1 DEF ToolIntent, Covers, B
  <2> QED BY <1>1, <2>1, <2>2 DEF Covers
<1> QED BY <1>1, <1>2, <1>3 DEF TurnsFollow, Covers

LEMMA ToolsStepTurns == ASSUME IInv, IInv', TurnsFollow, ToolsStep PROVE TurnsFollow'
<1>1. m \in State /\ steps \in Seq(Step)
  BY DEF IInv, TypeOK
<1>2. ASSUME UNCHANGED steps PROVE SameTurns
  BY <1>2 DEF SameTurns
<1>3. ASSUME NEW c, Stop(c), UNCHANGED <<prov, snap, steps>> PROVE TurnsFollow'
  BY <1>2, <1>3, StopTurns
<1>4. CASE InterruptedBatch \/ DataflowRejected
  BY <1>3, <1>4 DEF InterruptedBatch, DataflowRejected
<1>5. CASE EndTurn
  BY <1>1, <1>2, <1>5, EvaluatedFrames, FramedTurns DEF EndTurn, Running
<1>6. ASSUME NEW c \in Content, Recall(c) PROVE TurnsFollow'
  <2>1. CASE m' = Observed(Seen(m), c) /\ UNCHANGED <<prov, snap, steps>>
    BY <1>1, <1>2, <1>6, <2>1, HereFrames, FramedTurns DEF Recall, NextIs, Running
  <2> QED BY <1>3, <1>6, <2>1 DEF Recall
<1>7. ASSUME NEW c \in Tools \union {"gone", "bad"}, RejectedHere(c) PROVE TurnsFollow'
  <2>1. CASE \/ Stop("INVALID_TOOL_CALL") /\ UNCHANGED <<m, prov, snap, steps>>
    BY <1>3, <2>1
  <2>2. CASE /\ m' = Observed([Seen(m) EXCEPT !.fix = @ + 1, !.t = IF c = "gone" THEN @ ELSE @ + 1,
                                              !.gap = @ \/ c \in Tools], "rejected")
             /\ UNCHANGED <<prov, snap, steps>>
    BY <1>1, <1>2, <1>7, <2>2, RejectedFrames, FramedTurns DEF RejectedHere, NextIs, Running
  <2> QED BY <1>7, <2>1, <2>2 DEF RejectedHere
<1>8. CASE DispatchStep
  BY <1>1, <1>8, OutcomeTurns, FramedTurns DEF DispatchStep, Running
<1>9. ASSUME NEW o, SameTurns, at \in Running, Retain(o) PROVE TurnsFollow'
  BY <1>1, <1>9, RetainFrames, StopTurns, FramedTurns
<1>10. ASSUME NEW o \in Outcomes, NEW job \in BOOLEAN, StepAnswered(o, job) PROVE TurnsFollow'
  <2>1. SameTurns /\ at \in Running
    BY <1>1, <1>10, OutcomeTurns DEF StepAnswered, Running
  <2>2. CASE Stop("CANCEL_UNKNOWN") /\ UNCHANGED <<m, prov, snap>>
    BY <2>1, <2>2, StopTurns
  <2>3. CASE Retain(o)
    BY <1>9, <2>1, <2>3
  <2> QED BY <1>10, <2>2, <2>3 DEF StepAnswered
<1>11. CASE DispatchStopped
  <2>1. SameTurns /\ at \in Running /\ Retain("rejected")
    BY <1>1, <1>11, OutcomeTurns DEF DispatchStopped, Running
  <2> QED BY <1>9, <2>1
<1> QED BY <1>4, <1>5, <1>6, <1>7, <1>8, <1>10, <1>11, PrepareTurns DEF ToolsStep

LEMMA RecoveryStepTurns == ASSUME IInv, IInv', TurnsFollow, RecoveryStep PROVE TurnsFollow'
<1>1. m \in State /\ steps \in Seq(Step)
  BY DEF IInv, TypeOK
<1>2. CASE CursorLost \/ RecoveryStopped
  <2>1. ASSUME NEW c, Stop(c), UNCHANGED <<prov, snap, steps>> PROVE TurnsFollow'
    BY <2>1, StopTurns DEF SameTurns
  <2> QED BY <1>2, <2>1 DEF CursorLost, RecoveryStopped
<1>3. ASSUME NEW o \in Outcomes, Reconcile(o) PROVE TurnsFollow'
  <2>1. SameTurns /\ at \in Running
    BY <1>1, <1>3, OutcomeTurns DEF Reconcile, Running
  <2>2. Retain(o) \/ (\E c : Stop(c) /\ UNCHANGED <<m, prov, snap>>)
    BY <1>3 DEF Reconcile
  <2> QED BY <1>1, <2>1, <2>2, RetainFrames, StopTurns, FramedTurns
<1> QED BY <1>2, <1>3 DEF RecoveryStep

LEMMA StartTurns == ASSUME IInv, IInv', TurnsFollow, Start PROVE TurnsFollow'
<1>1. CASE Run
  <2>1. m' = Fresh /\ UNCHANGED <<prov, snap, steps>> /\ steps = <<>>
    BY <1>1 DEF Run, Begin, IInv, PlaceHasRecords
  <2>2. m'.batch.turn <= m'.n /\ DOMAIN steps = {}
    BY <2>1 DEF Fresh, NoBatch
  <2> QED BY <2>1, <2>2 DEF TurnsFollow, Covers
<1>2. ASSUME NEW say \in 0 .. 1, Resume(say) PROVE TurnsFollow'
  <2>1. m' = ResumeState(say) /\ UNCHANGED <<prov, snap, steps>> /\ snap # None
    BY <1>2 DEF Resume, Begin
  <2>2. Framed(m', IF Replaying THEN prov.state ELSE snap.state)
    BY <2>1, ResumeFrames DEF IInv
  <2>3. Covers(IF Replaying THEN prov.state ELSE snap.state)
    BY <2>1 DEF TurnsFollow, Replaying
  <2>4. Covers(m)'
    BY <2>1, <2>2, <2>3 DEF Framed, Covers
  <2> QED BY <2>1, <2>4 DEF TurnsFollow, Covers
<1>3. ASSUME NEW say \in 0 .. 1, ResumeRefused(say) PROVE TurnsFollow'
  BY <1>3 DEF ResumeRefused, TurnsFollow, Covers, Running
<1> QED BY <1>1, <1>2, <1>3 DEF Start

LEMMA TurnsStep == ASSUME IInv, IInv', TurnsFollow, [LoopNext]_vars PROVE TurnsFollow'
<1>1. CASE Cancel \/ Expire \/ Crash \/ UNCHANGED vars
  BY <1>1 DEF Cancel, Expire, Crash, vars, TurnsFollow, Covers, Running
<1> QED BY <1>1, CallStepTurns, AnswerStepTurns, ToolsStepTurns, RecoveryStepTurns, StartTurns
        DEF LoopNext, LoopStep

-----------------------------------------------------------------------------
LEMMA Rejections == "rejected" \notin Content /\ None \notin Content /\ None # "observed"
                    /\ \A e \in Endings : e \notin Content /\ e # None
BY EndingsAssumption DEF Endings

LEMMA WholeHist ==
    ASSUME NEW got \in Seq(Outcomes)
    PROVE  Hist(got, Len(got)) = got /\ Hist(got, 0) = <<>>
BY DEF Hist

LEMMA LongerHist ==
    ASSUME NEW got \in Seq(Outcomes), NEW o, NEW k \in 0 .. Len(got)
    PROVE  Hist(Append(got, o), k) = Hist(got, k)
<1>1. \A j \in 1 .. k : Append(got, o)[j] = got[j]
  OBVIOUS
<1> QED BY <1>1 DEF Hist

LEMMA Longer ==
    ASSUME NEW got \in Seq(Outcomes), NEW o
    PROVE  Len(Append(got, o)) - 1 = Len(got)
OBVIOUS

(* Where the loop takes its next call every outcome is there, in its step.    *)
LEMMA KeptGoesOn ==
    ASSUME NEW ss \in Seq(Step), NEW f \in 0 .. Len(ss), NEW turn, NEW p, NEW got \in Seq(Outcomes),
           KeptBy(f, ss, turn, p, got, "batch"), ~Broken(got)
    PROVE  Len(ss) - f = Len(got) /\ \A j \in 1 .. Len(got) : got[j] \in Content
<1>1. CASE got = <<>>
  BY <1>1 DEF KeptBy
<1>2. CASE got # <<>>
  <2>1. got[Len(got)] \in Content /\ Len(got) \in Nat /\ Len(got) >= 1
    BY <1>2 DEF Broken
  <2>2. \A j \in 1 .. Len(got) - 1 : got[j] \in Content
    BY DEF KeptBy
  <2>3. \A j \in 1 .. Len(got) : j \in 1 .. Len(got) - 1 \/ j = Len(got)
    BY <2>1
  <2>4. Len(ss) - f = Len(got)
    BY <2>1, Rejections DEF KeptBy
  <2> QED BY <2>1, <2>2, <2>3, <2>4
<1> QED BY <1>1, <1>2

LEMMA KeptAtFirst ==
    ASSUME NEW ss \in Seq(Step), NEW n \in Nat, \A i \in DOMAIN ss : ss[i].turn <= n, NEW p
    PROVE  KeptBy(Len(ss), ss, n + 1, p, <<>>, "batch")
<1>1. \A i \in DOMAIN ss : ss[i].turn \in Nat
  <2>1. \A i \in DOMAIN ss : ss[i] \in Step
    OBVIOUS
  <2> QED BY <2>1 DEF Step
<1>2. {i \in DOMAIN ss : ss[i].turn = n + 1} = {}
  BY <1>1
<1>3. Len(ss) \in Nat /\ Len(ss) + 1 .. Len(ss) = {} /\ 1 .. Len(ss) - Len(ss) = {}
      /\ Len(<<>>) = 0 /\ 1 .. 0 - 1 = {}
  OBVIOUS
<1> QED BY <1>2, <1>3 DEF KeptBy

(* The next step is prepared.                                                 *)
LEMMA KeptPrepared ==
    ASSUME NEW ss \in Seq(Step), NEW f \in 0 .. Len(ss), NEW turn, NEW p, NEW got \in Seq(Outcomes),
           KeptBy(f, ss, turn, p, got, "batch"), ~Broken(got), Derivable(p, got),
           NEW s, s.turn = turn, s.call = InnerCall(p, got), s.outcome = None,
           NEW tt, tt = Append(ss, s)
    PROVE  KeptBy(f, tt, turn, p, got, "prepared")
<1>1. /\ Len(ss) \in Nat /\ Len(tt) = Len(ss) + 1 /\ DOMAIN tt = 1 .. Len(ss) + 1
      /\ DOMAIN ss = 1 .. Len(ss)
      /\ \A i \in 1 .. Len(ss) : tt[i] = ss[i]
      /\ tt[Len(ss) + 1] = s
  OBVIOUS
<1>2. Len(ss) - f = Len(got) /\ \A j \in 1 .. Len(got) : got[j] \in Content
  BY KeptGoesOn
<1>3. {i \in DOMAIN tt : tt[i].turn = turn} = f + 1 .. Len(tt)
  <2>1. {i \in DOMAIN ss : ss[i].turn = turn} = f + 1 .. Len(ss)
    BY DEF KeptBy
  <2>2. {i \in DOMAIN tt : tt[i].turn = turn} = {i \in DOMAIN ss : ss[i].turn = turn} \union {Len(ss) + 1}
    BY <1>1
  <2> QED BY <1>1, <2>1, <2>2
<1>4. ASSUME NEW k \in 1 .. Len(tt) - f
      PROVE  /\ Derivable(p, Hist(got, k - 1))
             /\ tt[f + k].call = InnerCall(p, Hist(got, k - 1))
             /\ k <= Len(got) => tt[f + k].outcome = got[k]
  <2>1. CASE k \in 1 .. Len(ss) - f
    <3>1. f + k \in 1 .. Len(ss)
      BY <1>1, <2>1
    <3> QED BY <1>1, <2>1, <3>1 DEF KeptBy
  <2>2. CASE k = Len(got) + 1
    <3>1. f + k = Len(ss) + 1 /\ k - 1 = Len(got) /\ ~(k <= Len(got))
      BY <1>1, <1>2, <2>2
    <3>2. Hist(got, k - 1) = got
      BY <3>1, WholeHist
    <3>3. tt[f + k] = s
      BY <1>1, <3>1
    <3> QED BY <3>1, <3>2, <3>3
  <2>3. k \in 1 .. Len(ss) - f \/ k = Len(got) + 1
    BY <1>1, <1>2
  <2> QED BY <2>1, <2>2, <2>3
<1>5. Len(tt) - f = Len(got) + 1 /\ tt[Len(tt)].outcome = None
  BY <1>1, <1>2
<1> QED BY <1>2, <1>3, <1>4, <1>5 DEF KeptBy

(* The step in hand is sent.                                                  *)
LEMMA KeptTouched ==
    ASSUME NEW ss \in Seq(Step), NEW f \in 0 .. Len(ss), NEW turn, NEW p, NEW got \in Seq(Outcomes),
           NEW place, place # "batch", KeptBy(f, ss, turn, p, got, place),
           NEW tt, DOMAIN tt = DOMAIN ss, Len(tt) = Len(ss),
           \A i \in DOMAIN ss : /\ tt[i].turn = ss[i].turn /\ tt[i].call = ss[i].call
                                /\ tt[i].outcome = ss[i].outcome,
           NEW after, after # "batch"
    PROVE  KeptBy(f, tt, turn, p, got, after)
<1>1. \A k \in 1 .. Len(ss) - f : f + k \in DOMAIN ss
  OBVIOUS
<1>2. Len(ss) \in DOMAIN ss
  BY DEF KeptBy
<1>3. {i \in DOMAIN tt : tt[i].turn = turn} = {i \in DOMAIN ss : ss[i].turn = turn}
  OBVIOUS
<1> QED BY <1>1, <1>2, <1>3 DEF KeptBy

(* Its outcome is recorded and observed.                                      *)
LEMMA KeptObserved ==
    ASSUME NEW ss \in Seq(Step), NEW f \in 0 .. Len(ss), NEW turn, NEW p, NEW got \in Seq(Outcomes),
           NEW place, place # "batch", KeptBy(f, ss, turn, p, got, place), NEW o,
           NEW tt, DOMAIN tt = DOMAIN ss, Len(tt) = Len(ss),
           \A i \in DOMAIN ss : /\ tt[i].turn = ss[i].turn /\ tt[i].call = ss[i].call
                                /\ i # Len(ss) => tt[i].outcome = ss[i].outcome,
           tt[Len(ss)].outcome = o
    PROVE  KeptBy(f, tt, turn, p, Append(got, o), "batch")
<1> DEFINE new == Append(got, o)
<1>1. /\ Len(ss) \in Nat /\ Len(got) \in Nat /\ Len(ss) - f = Len(got) + 1
      /\ \A j \in 1 .. Len(got) : got[j] \in Content
  BY DEF KeptBy
<1>2. /\ Len(new) = Len(got) + 1 /\ new[Len(got) + 1] = o
      /\ \A j \in 1 .. Len(got) : new[j] = got[j]
  OBVIOUS
<1>3. {i \in DOMAIN tt : tt[i].turn = turn} = f + 1 .. Len(tt)
  <2>1. {i \in DOMAIN tt : tt[i].turn = turn} = {i \in DOMAIN ss : ss[i].turn = turn}
    OBVIOUS
  <2> QED BY <2>1 DEF KeptBy
<1>4. ASSUME NEW k \in 1 .. Len(tt) - f
      PROVE  /\ Derivable(p, Hist(new, k - 1))
             /\ tt[f + k].call = InnerCall(p, Hist(new, k - 1))
             /\ k <= Len(new) => tt[f + k].outcome = new[k]
  <2>1. k \in 1 .. Len(ss) - f /\ f + k \in DOMAIN ss /\ k - 1 \in 0 .. Len(got)
    BY <1>1
  <2>2. Hist(new, k - 1) = Hist(got, k - 1)
    BY <2>1, LongerHist
  <2>3. Derivable(p, Hist(got, k - 1)) /\ ss[f + k].call = InnerCall(p, Hist(got, k - 1))
    BY <2>1 DEF KeptBy
  <2>4. tt[f + k].outcome = new[k]
    <3>1. CASE k = Len(got) + 1
      <4>1. f + k = Len(ss)
        BY <1>1, <3>1
      <4> QED BY <1>2, <3>1, <4>1
    <3>2. CASE k \in 1 .. Len(got)
      <4>1. f + k # Len(ss)
        BY <1>1, <3>2
      <4>2. tt[f + k].outcome = ss[f + k].outcome
        BY <2>1, <4>1
      <4>3. ss[f + k].outcome = got[k]
        BY <2>1, <3>2 DEF KeptBy
      <4> QED BY <1>2, <3>2, <4>2, <4>3
    <3> QED BY <1>1, <3>1, <3>2
  <2>5. tt[f + k].call = ss[f + k].call
    BY <2>1
  <2> QED BY <2>2, <2>3, <2>4, <2>5
<1> HIDE DEF new
<1>5. /\ \A j \in 1 .. Len(new) - 1 : new[j] \in Content
      /\ Len(tt) - f = Len(new)
  <2>1. Len(tt) - f = Len(new)
    BY <1>1, <1>2, Zenon
  <2>4. Len(new) - 1 = Len(got)
    BY Longer, Zenon DEF new
  <2> QED BY <1>1, <1>2, <2>1, <2>4, Zenon
<1> QED BY <1>3, <1>4, <1>5 DEF KeptBy, new

(* A call is rejected before it has a step.                                   *)
LEMMA KeptRejected ==
    ASSUME NEW ss \in Seq(Step), NEW f \in 0 .. Len(ss), NEW turn, NEW p, NEW got \in Seq(Outcomes),
           KeptBy(f, ss, turn, p, got, "batch"), ~Broken(got)
    PROVE  KeptBy(f, ss, turn, p, Append(got, "rejected"), "batch")
<1> DEFINE new == Append(got, "rejected")
<1>1. /\ Len(ss) \in Nat /\ Len(got) \in Nat /\ Len(ss) - f = Len(got)
      /\ \A j \in 1 .. Len(got) : got[j] \in Content
  BY KeptGoesOn
<1>2. /\ Len(new) = Len(got) + 1 /\ new[Len(got) + 1] = "rejected"
      /\ \A j \in 1 .. Len(got) : new[j] = got[j]
  OBVIOUS
<1>3. ASSUME NEW k \in 1 .. Len(ss) - f
      PROVE  /\ Derivable(p, Hist(new, k - 1))
             /\ ss[f + k].call = InnerCall(p, Hist(new, k - 1))
             /\ k <= Len(new) => ss[f + k].outcome = new[k]
  <2>1. k \in 1 .. Len(got) /\ k - 1 \in 0 .. Len(got)
    BY <1>1
  <2>2. Hist(new, k - 1) = Hist(got, k - 1)
    BY <2>1, LongerHist
  <2> QED BY <1>2, <2>1, <2>2 DEF KeptBy
<1>4. /\ \A j \in 1 .. Len(new) - 1 : new[j] \in Content
      /\ Len(ss) - f = Len(new) - 1 /\ new[Len(new)] = "rejected"
  BY <1>1, <1>2
<1>5. {i \in DOMAIN ss : ss[i].turn = turn} = f + 1 .. Len(ss)
  BY DEF KeptBy
<1> QED BY <1>3, <1>4, <1>5 DEF KeptBy

-----------------------------------------------------------------------------
(* A step of the batch of a program that leaves its turn and calls alone.     *)
LEMMA GoesOnKept ==
    ASSUME ProgramKept, at \in InBatch, m' = m \/ Framed(m', m),
           ASSUME InProgram,
                  NEW f \in 0 .. Len(steps), KeptBy(f, steps, B.turn, B.program, B.got, at)
           PROVE  /\ f \in 0 .. Len(steps')
                  /\ KeptBy(f, steps', B.turn, B.program, m'.batch.got, at')
    PROVE  ProgramKept'
<1> DEFINE p == B.program
<1>1. /\ m'.batch.turn = B.turn /\ m'.batch.program = p /\ m'.batch.calls = B.calls
  BY DEF Framed, B
<1>2. ASSUME InProgram
      PROVE  /\ B.calls = ProgramAction(p).calls
             /\ \E f \in 0 .. Len(steps') : KeptBy(f, steps', B.turn, p, m'.batch.got, at')
  BY <1>2 DEF ProgramKept
<1>3. InProgram' = (p # None)
  BY <1>1 DEF InProgram, B
<1> HIDE DEF p
<1>4. InProgram' => /\ B.calls' = ProgramAction(p).calls
                    /\ \E f \in 0 .. Len(steps') : KeptBy(f, steps', B.turn', p, B.got', at')
  BY <1>1, <1>2, <1>3 DEF B, InProgram, p
<1>5. B.program' = p
  BY <1>1 DEF B
<1> QED BY <1>4, <1>5 DEF ProgramKept

LEMMA OutOfBatchKept == ASSUME at' \notin InBatch PROVE ProgramKept'
BY DEF ProgramKept

LEMMA StopKept == ASSUME NEW c, Stop(c) PROVE ProgramKept'
BY OutOfBatchKept DEF Stop, InBatch

(* What the loop has before it makes its next call.                           *)
LEMMA NextCallKept ==
    ASSUME IInv, NEW c, NextIs(c)
    PROVE  /\ at = "batch" /\ m \in State /\ steps \in Seq(Step) /\ B.got \in Seq(Outcomes)
           /\ InProgram => ~Broken(B.got)
BY DEF NextIs, BatchOver, IInv, TypeOK, State, BatchInHand, B

LEMMA PrepareKept ==
    ASSUME IInv, ProgramKept, NEW c \in Tools, PrepareStep(c) PROVE ProgramKept'
<1> DEFINE s == ToolIntent(B.turn, B.seen + 1, CallNow)
<1>1. /\ at = "batch" /\ at' = "prepared" /\ m \in State /\ steps \in Seq(Step)
      /\ B.got \in Seq(Outcomes)
      /\ InProgram => ~Broken(B.got) /\ Derivable(B.program, B.got)
      /\ steps' = Append(steps, s) /\ m' = Seen(m)
  BY NextCallKept DEF PrepareStep, Go
<1>2. Framed(m', m) /\ m'.batch.got = B.got
  BY <1>1, SeenFrames DEF B
<1>3. s.turn = B.turn /\ s.outcome = None /\ (InProgram => s.call = InnerCall(B.program, B.got))
  BY DEF ToolIntent, CallNow
<1> HIDE DEF s
<1>4. ASSUME InProgram,
             NEW f \in 0 .. Len(steps), KeptBy(f, steps, B.turn, B.program, B.got, at)
      PROVE  /\ f \in 0 .. Len(steps')
             /\ KeptBy(f, steps', B.turn, B.program, m'.batch.got, at')
  <2>1. KeptBy(f, steps', B.turn, B.program, B.got, "prepared")
    BY <1>1, <1>3, <1>4, KeptPrepared
  <2>2. Len(steps) \in Nat /\ Len(steps') = Len(steps) + 1
    BY <1>1
  <2> QED BY <1>1, <1>2, <2>1, <2>2
<1> QED BY <1>1, <1>2, <1>4, GoesOnKept DEF InBatch

LEMMA RejectedHereKept ==
    ASSUME IInv, ProgramKept, NEW c \in Tools \union {"gone", "bad"}, RejectedHere(c)
    PROVE  ProgramKept'
<1>1. /\ at = "batch" /\ m \in State /\ steps \in Seq(Step)
      /\ B.got \in Seq(Outcomes)
      /\ InProgram => ~Broken(B.got)
  BY NextCallKept DEF RejectedHere
<1>2. CASE Stop("INVALID_TOOL_CALL")
  BY <1>2, StopKept
<1>3. CASE /\ m' = Observed([Seen(m) EXCEPT !.fix = @ + 1, !.t = IF c = "gone" THEN @ ELSE @ + 1,
                                            !.gap = @ \/ c \in Tools], "rejected")
           /\ at' = "batch" /\ UNCHANGED steps
  <2>1. Framed(m', m) /\ m'.batch.got = Append(B.got, "rejected")
    BY <1>1, <1>3, RejectedFrames DEF B
  <2>2. ASSUME InProgram,
               NEW f \in 0 .. Len(steps), KeptBy(f, steps, B.turn, B.program, B.got, at)
        PROVE  KeptBy(f, steps, B.turn, B.program, Append(B.got, "rejected"), "batch")
    BY <1>1, <2>2, KeptRejected
  <2> QED BY <1>1, <1>3, <2>1, <2>2, GoesOnKept DEF InBatch
<1> QED BY <1>2, <1>3 DEF RejectedHere, Go

(* A program has no call of the history control.                              *)
LEMMA RecallKept ==
    ASSUME IInv, ProgramKept, NEW c \in Content, Recall(c) PROVE ProgramKept'
<1>1. CASE InProgram
  <2>1. /\ at = "batch" /\ m \in State /\ B.calls = ProgramAction(B.program).calls
        /\ B.program \in Program
    BY <1>1 DEF Recall, NextIs, ProgramKept, InBatch, IInv, TypeOK, State, BatchInHand, B, InProgram
  <2>2. B.seen + 1 \in DOMAIN B.calls
    BY NextCallHas DEF Recall
  <2>3. B.calls[B.seen + 1] \in Tools
    <3>1. ASSUME NEW p \in Program, NEW i \in DOMAIN ProgramAction(p).calls
          PROVE  ProgramAction(p).calls[i] \in Tools
      <4>1. p.steps \in Seq(ProgramStep) /\ i \in DOMAIN p.steps
        BY <3>1 DEF ProgramAction, Program
      <4>2. p.steps[i] \in ProgramStep
        BY <4>1
      <4>3. ProgramAction(p).calls[i] = p.steps[i].tool
        BY <4>1 DEF ProgramAction
      <4> QED BY <4>2, <4>3 DEF ProgramStep
    <3> QED BY <2>1, <2>2, <3>1
  <2> QED BY <2>3, NamesAssumption DEF Recall, NextIs, Special
<1>2. CASE ~InProgram
  <2>1. m \in State
    BY DEF IInv, TypeOK
  <2>2. CASE m' = Observed(Seen(m), c)
    <3>1. Framed(m', m)
      BY <2>1, <2>2, HereFrames
    <3> QED BY <1>2, <3>1 DEF Framed, ProgramKept, InProgram, B
  <2> QED BY <2>2, StopKept DEF Recall
<1> QED BY <1>1, <1>2

LEMMA DispatchKept == ASSUME IInv, ProgramKept, DispatchStep PROVE ProgramKept'
<1>1. /\ at = "prepared" /\ at' = "sent" /\ m' = m /\ steps \in Seq(Step)
      /\ steps' = [steps EXCEPT ![Last].sent = TRUE] /\ B.got \in Seq(Outcomes)
  BY DEF DispatchStep, Go, IInv, TypeOK, State, BatchInHand, B
<1>2. /\ DOMAIN steps' = DOMAIN steps /\ Len(steps') = Len(steps)
      /\ \A i \in DOMAIN steps : /\ steps'[i].turn = steps[i].turn /\ steps'[i].call = steps[i].call
                                 /\ steps'[i].outcome = steps[i].outcome
  <2>1. \A i \in DOMAIN steps : steps[i] \in Step
    BY <1>1
  <2>2. /\ DOMAIN steps' = DOMAIN steps /\ Len(steps') = Len(steps)
        /\ \A i \in DOMAIN steps :
              /\ i # Last => steps'[i] = steps[i]
              /\ i = Last => steps'[i] = [steps[i] EXCEPT !.sent = TRUE]
    <3>1. DOMAIN steps' = DOMAIN steps /\ Len(steps') = Len(steps)
      BY <1>1 DEF Last
    <3>2. PICK r : r = [steps[Last] EXCEPT !.sent = TRUE]
      OBVIOUS
    <3>3. steps' = [steps EXCEPT ![Last] = r]
      BY <1>1, <3>2, Zenon
    <3>4. ASSUME NEW i \in DOMAIN steps
          PROVE  (i # Last => steps'[i] = steps[i]) /\ (i = Last => steps'[i] = r)
      BY <1>1, <3>3
    <3> QED BY <3>1, <3>2, <3>4, Zenon
  <2>3. ASSUME NEW s \in Step, NEW r, r = [s EXCEPT !.sent = TRUE]
        PROVE  r.turn = s.turn /\ r.call = s.call /\ r.outcome = s.outcome
    BY <2>3 DEF Step
  <2>4. ASSUME NEW i \in DOMAIN steps
        PROVE  /\ steps'[i].turn = steps[i].turn /\ steps'[i].call = steps[i].call
               /\ steps'[i].outcome = steps[i].outcome
    <3>1. CASE i # Last
      BY <2>2, <3>1
    <3>2. CASE i = Last
      <4>1. steps[i] \in Step /\ steps'[i] = [steps[i] EXCEPT !.sent = TRUE]
        BY <2>1, <2>2, <3>2
      <4> QED BY <2>3, <4>1
    <3> QED BY <3>1, <3>2
  <2> QED BY <2>2, <2>4
<1>3. ASSUME InProgram,
             NEW f \in 0 .. Len(steps), KeptBy(f, steps, B.turn, B.program, B.got, at)
      PROVE  /\ f \in 0 .. Len(steps')
             /\ KeptBy(f, steps', B.turn, B.program, m'.batch.got, at')
  <2>1. KeptBy(f, steps', B.turn, B.program, B.got, "sent")
    BY <1>1, <1>2, <1>3, KeptTouched
  <2> QED BY <1>1, <1>2, <2>1 DEF B
<1> QED BY <1>1, <1>3, GoesOnKept DEF InBatch

(* The outcome of the step in hand is recorded, and the loop goes on.         *)
LEMMA RetainKept ==
    ASSUME IInv, ProgramKept, at \in {"prepared", "sent"}, NEW o, Retain(o),
           steps' = [steps EXCEPT ![Last].outcome = o]
    PROVE  ProgramKept'
<1>1. m \in State /\ steps \in Seq(Step) /\ B.got \in Seq(Outcomes)
  BY DEF IInv, TypeOK, State, BatchInHand, B
<1>2. CASE \E c : Stop(c)
  BY <1>2, StopKept
<1>3. CASE at' = "batch" /\ Framed(m', m) /\ m'.batch.got = Append(B.got, o)
  <2>1. /\ DOMAIN steps' = DOMAIN steps /\ Len(steps') = Len(steps)
        /\ \A i \in DOMAIN steps : /\ steps'[i].turn = steps[i].turn /\ steps'[i].call = steps[i].call
                                   /\ i # Len(steps) => steps'[i].outcome = steps[i].outcome
        /\ steps # <<>> => steps'[Len(steps)].outcome = o
    <3>1. \A i \in DOMAIN steps : steps[i] \in Step
      BY <1>1
    <3>2. /\ DOMAIN steps' = DOMAIN steps /\ Len(steps') = Len(steps)
          /\ \A i \in DOMAIN steps : /\ i # Len(steps) => steps'[i] = steps[i]
                                     /\ i = Len(steps) => steps'[i] = [steps[i] EXCEPT !.outcome = o]
      BY <1>1 DEF Last
    <3>3. ASSUME NEW s \in Step, NEW r, r = [s EXCEPT !.outcome = o]
          PROVE  r.turn = s.turn /\ r.call = s.call /\ r.outcome = o
      BY <3>3 DEF Step
    <3>4. steps # <<>> => Len(steps) \in DOMAIN steps
      BY <1>1
    <3>5. ASSUME NEW i \in DOMAIN steps
          PROVE  /\ steps'[i].turn = steps[i].turn /\ steps'[i].call = steps[i].call
                 /\ i # Len(steps) => steps'[i].outcome = steps[i].outcome
                 /\ i = Len(steps) => steps'[i].outcome = o
      <4>1. CASE i # Len(steps)
        BY <3>2, <4>1
      <4>2. CASE i = Len(steps)
        <5>1. steps[i] \in Step /\ steps'[i] = [steps[i] EXCEPT !.outcome = o]
          BY <3>1, <3>2, <4>2
        <5> QED BY <3>3, <4>2, <5>1
      <4> QED BY <4>1, <4>2
    <3> QED BY <3>2, <3>4, <3>5
  <2>2. ASSUME InProgram,
               NEW f \in 0 .. Len(steps), KeptBy(f, steps, B.turn, B.program, B.got, at)
        PROVE  /\ f \in 0 .. Len(steps')
               /\ KeptBy(f, steps', B.turn, B.program, m'.batch.got, at')
    <3>1. steps # <<>>
      BY <2>2, <1>1 DEF KeptBy
    <3>2. KeptBy(f, steps', B.turn, B.program, Append(B.got, o), "batch")
      BY <1>1, <2>1, <2>2, <3>1, KeptObserved
    <3> QED BY <1>3, <2>1, <3>2
  <2> QED BY <1>3, <2>2, GoesOnKept DEF InBatch
<1> QED BY <1>1, <1>2, <1>3, RetainFrames DEF B

LEMMA ToolsStepKept == ASSUME IInv, ProgramKept, ToolsStep PROVE ProgramKept'
<1>1. CASE InterruptedBatch \/ DataflowRejected
  BY <1>1, StopKept DEF InterruptedBatch, DataflowRejected
<1>2. CASE EndTurn
  BY <1>2, OutOfBatchKept DEF EndTurn, Go, InBatch
<1>3. ASSUME NEW o \in Outcomes, NEW job \in BOOLEAN, StepAnswered(o, job) PROVE ProgramKept'
  BY <1>3, RetainKept, StopKept DEF StepAnswered
<1>4. CASE DispatchStopped
  BY <1>4, RetainKept DEF DispatchStopped
<1> QED BY <1>1, <1>2, <1>3, <1>4, RecallKept, RejectedHereKept, PrepareKept, DispatchKept
        DEF ToolsStep

(* A batch begins with a turn of its own.                                     *)
LEMMA StartBatchKept ==
    ASSUME IInv, TurnsFollow, StartProgram \/ StartTools PROVE ProgramKept'
<1>1. /\ at = "answered" /\ at' = "batch" /\ steps' = steps /\ prov.answer \in Answers
      /\ m' = [Counted EXCEPT !.batch = Batch(m.n + 1, prov.answer)]
      /\ m \in State /\ m.n \in Nat /\ steps \in Seq(Step) /\ Covers(m) /\ Counted \in State
  <2>1. at = "answered" /\ at' = "batch" /\ steps' = steps
        /\ m' = [Counted EXCEPT !.batch = Batch(m.n + 1, prov.answer)]
    BY DEF StartProgram, StartTools, StartBatch, Answer, Go
  <2>2. m \in State /\ m.n \in Nat /\ steps \in Seq(Step)
    BY DEF IInv, TypeOK, State
  <2>3. prov.answer \in Answers
    BY <2>1, CalmHas DEF Calm
  <2> QED BY <2>1, <2>2, <2>3, CountedFrames DEF TurnsFollow, Running
<1>2. m'.batch = Batch(m.n + 1, prov.answer)
  BY <1>1 DEF State
<1>3. /\ m'.batch.turn = m.n + 1 /\ m'.batch.got = <<>>
      /\ m'.batch.program = prov.answer.program /\ m'.batch.calls = prov.answer.calls
  BY <1>2 DEF Batch
<1>4. prov.answer.program # None =>
          prov.answer.calls = ProgramAction(prov.answer.program).calls
  BY <1>1, AnswersAssumption
<1>5. KeptBy(Len(steps), steps, m.n + 1, prov.answer.program, <<>>, "batch")
  BY <1>1, KeptAtFirst DEF Covers
<1>6. Len(steps) \in 0 .. Len(steps)
  BY <1>1
<1>7. PICK p : p = prov.answer.program
  OBVIOUS
<1>8. B.program' = p
  BY <1>3, <1>7 DEF B
<1>9. InProgram' => /\ B.calls' = ProgramAction(p).calls
                    /\ \E f \in 0 .. Len(steps') : KeptBy(f, steps', B.turn', p, B.got', at')
  BY <1>1, <1>3, <1>4, <1>5, <1>6, <1>7 DEF B, InProgram
<1> QED BY <1>8, <1>9 DEF ProgramKept

LEMMA RefuseKept == ASSUME NEW c, Refuse(c) PROVE ProgramKept'
BY StopKept DEF Refuse

LEMMA AnswerStepKept == ASSUME IInv, TurnsFollow, AnswerStep PROVE ProgramKept'
<1>1. CASE AnswerTooLate
  BY <1>1, StopKept DEF AnswerTooLate
<1>2. CASE Corrected
  BY <1>2, RefuseKept, OutOfBatchKept DEF Corrected, NextTurn, Go, InBatch
<1>3. CASE GateRefuses \/ NoWorkingSet \/ ProgramRefused \/ Completed \/ BatchTooLarge
  BY <1>3, RefuseKept DEF GateRefuses, NoWorkingSet, ProgramRefused, Completed, BatchTooLarge
<1>4. CASE SelectWorkingSet \/ Deliberated \/ Paused
  <2>1. at' \in {"top", "paused"}
    BY <1>4 DEF SelectWorkingSet, Transition, Deliberated, NextTurn, Paused, Go
  <2> QED BY <2>1, OutOfBatchKept DEF InBatch
<1> QED BY <1>1, <1>2, <1>3, <1>4, RefuseKept, StartBatchKept
        DEF AnswerStep, MalformedConclusion, ConclusionRejected

LEMMA CallStepKept == ASSUME CallStep PROVE ProgramKept'
<1>1. at' \notin InBatch
  BY DEF CallStep, LimitReached, ClaimCall, ReplayAnswer, ClaimRefused, Admit, AdmissionClosed,
         Answered, RetryCall, CallFailed, Go, Stop, InBatch
<1> QED BY <1>1, OutOfBatchKept

(* No active step of a program is found again.                                *)
LEMMA RecoveryStepKept == ASSUME IInv, RecoveryStep PROVE ProgramKept'
<1>1. CASE CursorLost \/ RecoveryStopped
  BY <1>1, StopKept DEF CursorLost, RecoveryStopped
<1>2. ASSUME NEW o \in Outcomes, Reconcile(o) PROVE ProgramKept'
  <2>1. ~InProgram /\ m \in State
    BY <1>2 DEF Reconcile, CursorFound, IInv, TypeOK
  <2>2. CASE Retain(o)
    <3>1. CASE \E c : Stop(c)
      BY <3>1, StopKept
    <3>2. CASE Framed(m', m)
      BY <2>1, <3>2 DEF Framed, ProgramKept, InProgram, B
    <3> QED BY <2>1, <2>2, <3>1, <3>2, RetainFrames
  <2> QED BY <1>2, <2>2, StopKept DEF Reconcile
<1> QED BY <1>1, <1>2 DEF RecoveryStep

LEMMA StartKept == ASSUME Start PROVE ProgramKept'
BY OutOfBatchKept DEF Start, Run, Resume, ResumeRefused, Begin, InBatch

LEMMA KeptStep ==
    ASSUME IInv, TurnsFollow, ProgramKept, [LoopNext]_vars PROVE ProgramKept'
<1>1. CASE Cancel \/ Expire \/ UNCHANGED vars
  <2>1. UNCHANGED <<at, m, steps>>
    BY <1>1 DEF Cancel, Expire, vars
  <2> QED BY <2>1 DEF ProgramKept, InProgram, B
<1>2. CASE Crash
  BY <1>2, OutOfBatchKept DEF Crash, InBatch
<1> QED BY <1>1, <1>2, CallStepKept, AnswerStepKept, ToolsStepKept, RecoveryStepKept, StartKept
        DEF LoopNext, LoopStep

-----------------------------------------------------------------------------
(* The steps of a turn, when they are the last of the Journal.                *)
LEMMA NthOfInterval ==
    ASSUME NEW l \in Nat, NEW f \in 0 .. l, NEW S, S = f + 1 .. l
    PROVE  /\ Cardinality(S) = l - f
           /\ \A k \in 1 .. l - f : Nth(S, k) = f + k
<1>0. f \in Int /\ l \in Int /\ f <= l
  OBVIOUS
<1>1. Cardinality(S) = l - f
  <2>1. Cardinality(f + 1 .. l) = IF f + 1 > l THEN 0 ELSE l - (f + 1) + 1
    <3>1. f + 1 \in Int
      BY <1>0
    <3> QED BY <1>0, <3>1, FS_Interval
  <2> QED BY <1>0, <2>1
<1>2. ASSUME NEW k \in 1 .. l - f PROVE Nth(S, k) = f + k
  <2>1. ASSUME NEW i \in S PROVE Cardinality({j \in S : j < i}) = i - 1 - f
    <3>1. {j \in S : j < i} = f + 1 .. i - 1
      OBVIOUS
    <3>2. i \in Int /\ f \in Int /\ f + 1 \in Int /\ i - 1 \in Int
      OBVIOUS
    <3>3. Cardinality(f + 1 .. i - 1) = IF f + 1 > i - 1 THEN 0 ELSE i - 1 - (f + 1) + 1
      BY <3>2, FS_Interval
    <3>4. i >= f + 1
      OBVIOUS
    <3>5. (IF f + 1 > i - 1 THEN 0 ELSE i - 1 - (f + 1) + 1) = i - 1 - f
      BY <3>2, <3>4
    <3> QED BY <3>1, <3>3, <3>5
  <2>2. f + k \in S /\ k \in Nat /\ f \in Nat
    OBVIOUS
  <2>3. Cardinality({j \in S : j < f + k}) = k - 1
    BY <2>1, <2>2
  <2>4. ASSUME NEW i \in S, Cardinality({j \in S : j < i}) = k - 1 PROVE i = f + k
    <3>1. i \in Nat /\ i - 1 - f = k - 1
      BY <2>1, <2>4
    <3> QED BY <2>2, <3>1
  <2> QED BY <2>2, <2>3, <2>4 DEF Nth
<1> QED BY <1>1, <1>2

LEMMA HistHas ==
    ASSUME NEW got, NEW k \in Nat
    PROVE  Len(Hist(got, k)) = k /\ DOMAIN Hist(got, k) = 1 .. k
           /\ \A j \in 1 .. k : Hist(got, k)[j] = got[j]
BY DEF Hist

LEMMA StepOutcomes ==
    ASSUME NEW s \in Step, NEW kept \in BOOLEAN
    PROVE  /\ Piece(s, kept).call = s.call
           /\ Piece(s, kept).content = IF kept THEN s.outcome ELSE None
           /\ (Piece(s, kept).status = None) = (s.outcome = None)
           /\ s.outcome \in Content => Piece(s, kept).status \notin Endings
           /\ Withheld(Piece(s, kept)) = (~kept /\ s.outcome # None)
<1>1. /\ Piece(s, kept).call = s.call
      /\ Piece(s, kept).content = IF kept THEN s.outcome ELSE None
      /\ Piece(s, kept).status = IF s.outcome \in Content THEN "observed" ELSE s.outcome
  BY DEF Piece
<1>2. (Piece(s, kept).status = None) = (s.outcome = None)
  BY <1>1, Rejections
<1>3. s.outcome \in Content => Piece(s, kept).status \notin Endings
  BY <1>1 DEF Endings
<1>4. Withheld(Piece(s, kept)) = (~kept /\ s.outcome # None)
  BY <1>1, <1>2 DEF Withheld
<1> QED BY <1>1, <1>2, <1>3, <1>4

(* The three ways in which evidence that fits its program is read.            *)
LEMMA ReadNonterminal ==
    ASSUME NEW p, NEW e, Recoverable(p, e), NEW k \in DOMAIN e, e[k].status = None
    PROVE  DurableRecovery(p, e) = Blocked("tool-step-nonterminal")
BY DEF DurableRecovery

LEMMA ReadWithheld ==
    ASSUME NEW p, NEW e, Recoverable(p, e), \A k \in DOMAIN e : e[k].status # None,
           NEW k \in DOMAIN e, Withheld(e[k])
    PROVE  DurableRecovery(p, e) = Blocked("tool-observation-content-unavailable")
BY DEF DurableRecovery

LEMMA ReadWhole ==
    ASSUME NEW p, NEW e, Recoverable(p, e), \A k \in DOMAIN e : e[k].status # None,
           \A k \in DOMAIN e : ~Withheld(e[k])
    PROVE  DurableRecovery(p, e) = Recover(p, [k \in DOMAIN e |-> e[k].content])
BY DEF DurableRecovery

(* What the Journal keeps of the turn's steps.                                *)
Gathered(ss, f, kept) == [k \in 1 .. Len(ss) - f |-> Piece(ss[f + k], kept)]

(* What recovery makes of them: with a step in hand it waits for its receipt; *)
(* otherwise it knows all outcomes, unless Privacy withheld one.              *)
Reads(p, got, place, kept, n, e) ==
    /\ n \in Nat /\ Len(e) = n /\ n <= Len(p.steps)
    /\ place # "batch" => DurableRecovery(p, e) = Blocked("tool-step-nonterminal")
    /\ place = "batch" =>
         \/ ~kept /\ DurableRecovery(p, e) = Blocked("tool-observation-content-unavailable")
         \/ (kept \/ n = 0) /\ DurableRecovery(p, e) = Recover(p, Hist(got, n))

(* Each piece of evidence is the call that the outcomes before it make, and *)
(* only the last one has an outcome that ends the program.                    *)
LEMMA EvidenceRecovers ==
    ASSUME NEW ss \in Seq(Step), NEW f \in 0 .. Len(ss), NEW turn, NEW p \in Program,
           NEW got \in Seq(Outcomes), NEW place, KeptBy(f, ss, turn, p, got, place),
           NEW kept \in BOOLEAN, NEW n, n = Len(ss) - f, NEW e, e = Gathered(ss, f, kept)
    PROVE  Reads(p, got, place, kept, n, e)
<1>1. /\ n \in Nat /\ n <= Len(got) + 1 /\ Len(got) \in Nat
      /\ place = "batch" => n <= Len(got)
  BY DEF KeptBy
<1>2. /\ Len(e) = n /\ DOMAIN e = 1 .. n
      /\ \A k \in 1 .. n : e[k] = Piece(ss[f + k], kept)
  BY <1>1 DEF Gathered
<1>3. \A k \in 1 .. n : ss[f + k] \in Step
  OBVIOUS
<1>4. \A k \in 1 .. n : /\ Derivable(p, Hist(got, k - 1))
                        /\ ss[f + k].call = InnerCall(p, Hist(got, k - 1))
                        /\ k <= Len(got) => ss[f + k].outcome = got[k]
  BY DEF KeptBy
<1>5. n <= Len(p.steps)
  <2>1. Len(p.steps) \in Nat
    BY DEF Program
  <2>2. CASE n \in 1 .. n
    <3>0. n - 1 \in Nat
      BY <1>1, <2>2
    <3>1. Derivable(p, Hist(got, n - 1)) /\ n - 1 \in Nat
      BY <1>4, <2>2, <3>0
    <3>2. Len(Hist(got, n - 1)) = n - 1
      BY <3>1, HistHas
    <3>3. n - 1 < Len(p.steps)
      BY <3>1, <3>2 DEF Derivable
    <3> QED BY <1>1, <2>1, <3>3
  <2> QED BY <1>1, <2>1, <2>2
<1>6. ASSUME NEW k \in 1 .. n PROVE e[k].call = InnerCall(p, Hist(got, k - 1)) /\ e[k].call.at = k
  <2>1. e[k].call = InnerCall(p, Hist(got, k - 1))
    <3>1. ss[f + k] \in Step /\ e[k] = Piece(ss[f + k], kept)
      BY <1>2, <1>3
    <3>2. Piece(ss[f + k], kept).call = ss[f + k].call
      BY <3>1, StepOutcomes
    <3>3. ss[f + k].call = InnerCall(p, Hist(got, k - 1))
      BY <1>4
    <3> QED BY <3>1, <3>2, <3>3
  <2>2. k - 1 \in Nat /\ k - 1 + 1 = k
    BY <1>1
  <2>3. Len(Hist(got, k - 1)) = k - 1
    BY <2>2, HistHas
  <2> QED BY <2>1, <2>2, <2>3 DEF InnerCall
<1>7. ASSUME NEW k \in 1 .. n, \A j \in 1 .. k - 1 : ~Withheld(e[j])
      PROVE  [j \in 1 .. k - 1 |-> e[j].content] = Hist(got, k - 1)
  <2>1. ASSUME NEW j \in 1 .. k - 1 PROVE e[j].content = got[j]
    <3>1. j \in 1 .. n /\ j \in 1 .. Len(got)
      BY <1>1
    <3>2. ss[f + j].outcome = got[j] /\ got[j] # None /\ ss[f + j] \in Step
      <4>1. got[j] \in Outcomes
        BY <3>1
      <4>2. got[j] # None
        BY <4>1, Rejections DEF Outcomes, Endings
      <4>3. ss[f + j].outcome = got[j]
        BY <1>4, <3>1
      <4>4. ss[f + j] \in Step
        BY <1>3, <3>1
      <4> QED BY <4>2, <4>3, <4>4
    <3>3. ~Withheld(Piece(ss[f + j], kept))
      BY <1>2, <1>7, <3>1
    <3>4. kept
      BY <3>2, <3>3, StepOutcomes
    <3> QED BY <1>2, <3>1, <3>2, <3>4, StepOutcomes
  <2> QED BY <2>1 DEF Hist
<1>8. ASSUME NEW k \in 1 .. n, e[k].status \in Endings PROVE k = Len(e)
  <2>1. ASSUME k < n PROVE FALSE
    <3>1. k \in 1 .. Len(got) /\ (place = "batch" => k \in 1 .. Len(got) - 1)
      BY <1>1, <2>1
    <3>2. got[k] \in Content
      BY <3>1 DEF KeptBy
    <3>3. ss[f + k].outcome = got[k] /\ ss[f + k] \in Step
      BY <1>3, <1>4, <3>1
    <3> QED BY <1>2, <1>8, <3>2, <3>3, StepOutcomes
  <2> QED BY <1>1, <1>2, <2>1
<1>9. ASSUME NEW k \in DOMAIN e
      PROVE  LET seen == [j \in 1 .. k - 1 |-> e[j].content] IN
             /\ e[k].call.at = k
             /\ (\A j \in 1 .. k - 1 : ~Withheld(e[j])) =>
                   Derivable(p, seen) /\ e[k].call = InnerCall(p, seen)
             /\ e[k].status \in Endings => k = Len(e)
  <2>1. k \in 1 .. n
    BY <1>2
  <2> QED BY <1>4, <1>6, <1>7, <1>8, <2>1
<1>10. Recoverable(p, e)
  BY <1>2, <1>5, <1>9 DEF Recoverable
<1>11. CASE place # "batch"
  <2>1. n = Len(got) + 1 /\ ss[Len(ss)].outcome = None
    BY <1>11 DEF KeptBy
  <2>2. n \in 1 .. n /\ f + n = Len(ss)
    BY <1>1, <2>1
  <2>3. e[n].status = None
    BY <1>2, <1>3, <2>1, <2>2, StepOutcomes
  <2> QED BY <1>1, <1>2, <1>5, <1>10, <1>11, <2>2, <2>3, ReadNonterminal DEF Reads
<1>12. CASE place = "batch"
  <2>1. ASSUME NEW k \in 1 .. n
        PROVE  /\ ss[f + k].outcome = got[k] /\ got[k] # None /\ ss[f + k] \in Step
               /\ e[k] = Piece(ss[f + k], kept)
    <3>1. k \in 1 .. Len(got)
      BY <1>1, <1>12
    <3>2. got[k] \in Outcomes
      BY <3>1
    <3>3. got[k] # None
      BY <3>2, Rejections DEF Outcomes, Endings
    <3>4. ss[f + k].outcome = got[k]
      BY <3>1 DEF KeptBy
    <3> QED BY <1>2, <1>3, <3>3, <3>4
  <2>2. ASSUME NEW k \in 1 .. n
        PROVE  /\ e[k].status # None /\ Withheld(e[k]) = ~kept
               /\ kept => e[k].content = got[k]
    BY <2>1, StepOutcomes
  <2>3. CASE kept \/ n = 0
    <3>1. [k \in 1 .. n |-> e[k].content] = Hist(got, n)
      <4>1. \A k \in 1 .. n : e[k].content = got[k]
        <5>1. CASE kept
          BY <2>2, <5>1
        <5>2. CASE n = 0
          BY <5>2
        <5> QED BY <2>3, <5>1, <5>2
      <4> QED BY <4>1 DEF Hist
    <3>2. /\ \A k \in DOMAIN e : e[k].status # None
          /\ \A k \in DOMAIN e : ~Withheld(e[k])
      <4>1. CASE kept
        BY <1>2, <2>2, <4>1
      <4>2. CASE n = 0
        BY <1>2, <4>2
      <4> QED BY <2>3, <4>1, <4>2
    <3>3. DurableRecovery(p, e) = Recover(p, [k \in DOMAIN e |-> e[k].content])
      BY <1>10, <3>2, ReadWhole
    <3>4. [k \in DOMAIN e |-> e[k].content] = Hist(got, n)
      BY <1>2, <3>1
    <3> QED BY <1>1, <1>2, <1>5, <1>12, <2>3, <3>3, <3>4 DEF Reads
  <2>4. CASE ~kept /\ n # 0
    <3>1. n \in 1 .. n
      BY <1>1, <2>4
    <3>2. /\ \A k \in DOMAIN e : e[k].status # None
          /\ n \in DOMAIN e /\ Withheld(e[n])
      BY <1>2, <2>2, <2>4, <3>1
    <3>3. DurableRecovery(p, e) = Blocked("tool-observation-content-unavailable")
      BY <1>10, <3>2, ReadWithheld
    <3> QED BY <1>1, <1>2, <1>5, <1>12, <2>4, <3>3 DEF Reads
  <2> QED BY <2>3, <2>4
<1> QED BY <1>1, <1>2, <1>5, <1>11, <1>12

(* What is read off outcomes: the call that follows them is the next one, and *)
(* they are over only if they are broken or as many as the steps.             *)
LEMMA RecoverNext ==
    ASSUME NEW p \in Program, NEW seen, Len(seen) \in Nat, Len(seen) <= Len(p.steps),
           Recover(p, seen).is = "next"
    PROVE  Recover(p, seen).call.at = Len(seen) + 1
<1>1. Len(p.steps) \in Nat
  BY DEF Program
<1>2. CASE Broken(seen)
  BY <1>2 DEF Recover, Terminal
<1>3. CASE ~Broken(seen) /\ Len(seen) = Len(p.steps)
  BY <1>3 DEF Recover, Terminal, Rejected
<1>4. CASE ~Broken(seen) /\ Len(seen) < Len(p.steps)
  <2>1. Recover(p, seen) = IF Derivable(p, seen) THEN NextCall(InnerCall(p, seen)) ELSE Rejected
    BY <1>1, <1>4 DEF Recover
  <2>2. Recover(p, seen) = NextCall(InnerCall(p, seen))
    BY <2>1 DEF Rejected
  <2> QED BY <2>2 DEF NextCall, InnerCall
<1> QED BY <1>1, <1>2, <1>3, <1>4

LEMMA RecoverGoesOn ==
    ASSUME NEW p \in Program, NEW seen, Len(seen) \in Nat, Len(seen) < Len(p.steps), ~Broken(seen)
    PROVE  /\ Recover(p, seen) =
                IF Derivable(p, seen) THEN NextCall(InnerCall(p, seen)) ELSE Rejected
           /\ Recover(p, seen).is # "terminal"
<1>1. Len(p.steps) \in Nat
  BY DEF Program
<1>2. Recover(p, seen) = IF Derivable(p, seen) THEN NextCall(InnerCall(p, seen)) ELSE Rejected
  BY <1>1 DEF Recover
<1> QED BY <1>2 DEF NextCall, Rejected

LEMMA CursorFollows == ASSUME IInv, ProgramKept PROVE ProgramCursorDurable
<1> SUFFICES ASSUME InProgram, at \in InBatch, NEW kept \in BOOLEAN
             PROVE  LET r == DurableRecovery(B.program, Pieces(kept)) IN
                    /\ r.is = "next" => /\ at = "batch" /\ r.call.at = Len(Pieces(kept)) + 1
                                        /\ kept \/ Pieces(kept) = <<>>
                    /\ r.is = "terminal" => at = "batch" /\ BatchOver
                    /\ kept /\ at = "batch" /\ ~BatchOver =>
                         r = IF Derivable(B.program, B.got) THEN NextCall(CallNow) ELSE Rejected
  BY DEF ProgramCursorDurable, InBatch
<1>1. /\ m \in State /\ steps \in Seq(Step) /\ B.got \in Seq(Outcomes) /\ B.program \in Program
      /\ B.calls = ProgramAction(B.program).calls
  BY DEF ProgramKept, IInv, TypeOK, State, BatchInHand, B, InProgram
<1>2. PICK f \in 0 .. Len(steps) : KeptBy(f, steps, B.turn, B.program, B.got, at)
  BY DEF ProgramKept
<1>3. PICK ss : ss = steps
  OBVIOUS
<1>4. PICK p : p = B.program
  OBVIOUS
<1>5. PICK got : got = B.got
  OBVIOUS
<1>6. PICK n : n = Len(ss) - f
  OBVIOUS
<1>7. PICK e : e = Gathered(ss, f, kept)
  OBVIOUS
<1>8. PICK turn : turn = B.turn
  OBVIOUS
<1>9. /\ ss \in Seq(Step) /\ f \in 0 .. Len(ss) /\ p \in Program /\ got \in Seq(Outcomes)
      /\ KeptBy(f, ss, turn, p, got, at) /\ Len(got) \in Nat /\ Len(ss) \in Nat
  BY <1>1, <1>2, <1>3, <1>4, <1>5, <1>8
<1>10. Pieces(kept) = e
  <2>1. Mine = f + 1 .. Len(ss)
    BY <1>3, <1>8, <1>9 DEF KeptBy, Mine
  <2>2. Cardinality(Mine) = n /\ \A k \in 1 .. n : Nth(Mine, k) = f + k
    BY <1>6, <1>9, <2>1, NthOfInterval
  <2>3. Pieces(kept) = [k \in 1 .. n |-> Piece(ss[f + k], kept)]
    BY <1>3, <2>2 DEF Pieces
  <2> QED BY <1>6, <1>7, <2>3 DEF Gathered
<1>11. Reads(p, got, at, kept, n, e)
  BY <1>6, <1>7, <1>9, EvidenceRecovers, Zenon
<1>12. PICK r : r = DurableRecovery(p, e)
  OBVIOUS
<1>13. CASE r = Blocked("tool-step-nonterminal") /\ at # "batch"
  BY <1>4, <1>10, <1>12, <1>13 DEF Blocked
<1>14. CASE r = Blocked("tool-observation-content-unavailable") /\ ~kept
  BY <1>4, <1>10, <1>12, <1>14 DEF Blocked
<1>15. CASE at = "batch" /\ (kept \/ n = 0) /\ r = Recover(p, Hist(got, n))
  <2>1. Len(Hist(got, n)) = n /\ n \in Nat /\ Len(e) = n /\ n <= Len(p.steps)
    BY <1>11, HistHas DEF Reads
  <2>2. r.is = "next" => r.call.at = n + 1
    BY <1>9, <1>15, <2>1, RecoverNext
  <2>3. n = 0 => e = <<>>
    BY <1>6, <1>7, <1>9 DEF Gathered
  <2>4. ASSUME ~BatchOver
        PROVE  /\ r.is # "terminal"
               /\ r = IF Derivable(p, got) THEN NextCall(InnerCall(p, got)) ELSE Rejected
    <3>1. ~Broken(got) /\ Len(got) # Len(B.calls)
      BY <1>5, <2>4 DEF BatchOver
    <3>2. Len(got) <= Len(B.calls)
      BY <1>5, <1>15, CalmHas DEF Calm, B
    <3>3. Len(B.calls) = Len(p.steps) /\ Len(p.steps) \in Nat
      BY <1>1, <1>4 DEF ProgramAction, Program
    <3>4. n = Len(got)
      BY <1>6, <1>9, <1>15, <3>1, KeptGoesOn
    <3>5. Hist(got, n) = got
      BY <1>9, <3>4, WholeHist
    <3> QED BY <1>9, <1>15, <3>1, <3>2, <3>3, <3>5, RecoverGoesOn
  <2>5. CallNow = InnerCall(p, got)
    BY <1>4, <1>5 DEF CallNow
  <2> QED BY <1>4, <1>5, <1>10, <1>12, <1>15, <2>1, <2>2, <2>3, <2>4, <2>5
<1> QED BY <1>11, <1>12, <1>13, <1>14, <1>15 DEF Reads

-----------------------------------------------------------------------------
LEMMA KeptInit == Init => TurnsFollow /\ ProgramKept
BY DEF Init, TurnsFollow, ProgramKept, Running, InBatch

LEMMA InductiveKept == LoopSpec => [](TurnsFollow /\ ProgramKept)
<1>1. TurnsFollow /\ ProgramKept /\ IInv /\ IInv' /\ [LoopNext]_vars => (TurnsFollow /\ ProgramKept)'
  BY TurnsStep, KeptStep
<1> QED BY KeptInit, <1>1, Inductive, PTL DEF LoopSpec

(* What the Journal keeps of a Tool program is enough to go on with it: it    *)
(* names the call that the loop makes next, it waits for the receipt of one   *)
(* that was prepared, and it calls the program over only when it is.  Without *)
(* the contents of the Observations it names no call but the first            *)
(* (recover_tool_program_from_durable_evidence).                              *)
THEOREM CursorIsDurable == LoopSpec => []ProgramCursorDurable
<1>1. IInv /\ TurnsFollow /\ ProgramKept => ProgramCursorDurable
  BY CursorFollows
<1> QED BY <1>1, Inductive, InductiveKept, PTL
=============================================================================
