-------------------------- MODULE WorkingSetProofs --------------------------
(***************************************************************************)
(* Theorems about ProviderCall, for any number of workers, turns and       *)
(* retries, however many Snapshots the Run takes; and about WorkingSet,    *)
(* which is its calls with a view each, for any revisions, documents and   *)
(* caller messages.                                                        *)
(***************************************************************************)
EXTENDS WorkingSet, SequenceTheorems, TLAPS

(* Where a worker's claim is its own, and where its call may be out.       *)
Out == {"admitted", "inside", "outcome"}
Claimant == {"claimed"} \union Out

CallRow == [source: Nat, turn: Turns, gen: Nat \ {0}, by: Workers,
            answer: Answers \union {None}]
Memory == [at: Places, source: Nat, turn: 1 .. MaxTurns + 1, left: 0 .. MaxRetries,
           kept: Record \union {None}, answer: Answers \union {None}]

(* What a worker knows of the claim it made or the failure it may retry.   *)
Remembers(m, w) ==
    /\ m.at \in Claimant \union {"retry"} =>
          m.kept \in Record /\ CallOf(m.kept) = <<m.source, m.turn>>
    /\ m.at \in Claimant =>
          /\ m.kept.holder = w /\ m.kept.outcome = None
          /\ m.kept.status = IF m.at = "claimed" THEN "claimed" ELSE "dispatching"
    /\ m.at = "outcome" => m.answer \in Answers
    /\ m.at = "retry" => m.left > 0
ClaimsRemembered == \A w \in Workers : Remembers(me[w], w)

Typed == TypeOK /\ ClaimsRemembered

(* The current record is of the current source, open exactly while it has
   no outcome, and gone once the Run ended; no worker is ahead of it.      *)
HeadIsCurrent ==
    /\ head # None =>
          /\ head.source = source /\ ~ended
          /\ head.status \in {"claimed", "dispatching"} <=> head.outcome = None
    /\ \A w \in Workers : me[w].source <= source

Known == HeadIsCurrent /\ JournalKnowsOpenCall

(* The earlier calls of a record that may be dispatched are known to be
   undelivered, and so are those of a call that is out, but for itself.    *)
Undelivered(c) == \A i \in DOMAIN calls : CallOf(calls[i]) = c => calls[i].answer = "safe"
CallsBehindHead ==
    \A i \in DOMAIN calls :
        /\ calls[i].source <= source
        /\ calls[i].source = source /\ ~ended => head # None /\ calls[i].turn <= head.turn
HeadMayBeTried ==
    head # None /\ (head.status = "claimed" \/ head.outcome = "safe") =>
        Undelivered(CallOf(head))
OneCallOut ==
    \A v, w \in Workers :
        me[v].at \in Out /\ me[w].at \in Out /\ CallOf(me[v].kept) = CallOf(me[w].kept) => v = w
OutIsUndelivered ==
    \A w \in Workers :
        /\ me[w].at = "admitted" => Undelivered(CallOf(me[w].kept))
        /\ me[w].at \in {"inside", "outcome"} =>
              \A i \in DOMAIN calls : CallOf(calls[i]) = CallOf(me[w].kept) =>
                  \/ calls[i].answer = "safe"
                  \/ me[w].at = "inside" /\ Open(w, i)
                  \/ me[w].at = "outcome" /\ calls[i].answer = me[w].answer
Exclusive == CallsBehindHead /\ HeadMayBeTried /\ OneCallOut /\ OutIsUndelivered

(* A generation is invoked by its claimant only, once it is admitted.      *)
OfClaim(i, h) == CallOf(calls[i]) = CallOf(h) /\ calls[i].gen = h.gen
Uninvoked(h) ==
    \A i \in DOMAIN calls : CallOf(calls[i]) = CallOf(h) => calls[i].gen < h.gen
GenerationsGrow ==
    head # None =>
        /\ head.status = "claimed" => Uninvoked(head)
        /\ \A i \in DOMAIN calls : CallOf(calls[i]) = CallOf(head) => calls[i].gen <= head.gen
OutcomesKept ==
    \A w \in Workers :
        /\ me[w].at = "admitted" => Uninvoked(me[w].kept)
        /\ me[w].at = "inside" =>
              \E i \in DOMAIN calls : OfClaim(i, me[w].kept) /\ Open(w, i)
        /\ me[w].at = "outcome" =>
              \E i \in DOMAIN calls : OfClaim(i, me[w].kept) /\ calls[i].answer = me[w].answer
Accounted == GenerationsGrow /\ OutcomesKept /\ RecordedOutcomeHappened

(* A turn is due once the answer before it asked for it.                   *)
Asked(j, s, t) ==
    /\ calls[j].turn = t - 1
    /\ IF calls[j].source = s THEN calls[j].answer = "more"
                              ELSE calls[j].source < s /\ calls[j].answer = "ask"
Due(s, t) == (t = 1 /\ s = 0) \/ \E j \in DOMAIN calls : Asked(j, s, t)
Turning == {"begin", "retry"} \union Claimant
TurnsDue ==
    /\ Due(source, saved.turn)
    /\ head # None => Due(head.source, head.turn)
    /\ \A w \in Workers :
          /\ me[w].at \in Turning => Due(me[w].source, me[w].turn)
          /\ me[w].at = "pause" =>
                \E j \in DOMAIN calls : /\ calls[j].turn = me[w].turn - 1
                                        /\ calls[j].source = me[w].source
                                        /\ calls[j].answer = "ask"

-----------------------------------------------------------------------------
(* A claim is a record, and so is what an answer makes of one.             *)
LEMMA ClaimTyped ==
    ASSUME NEW w \in Workers, me[w] \in Memory, me[w].turn <= MaxTurns,
           NEW gen \in Nat \ {0}, NEW left \in 0 .. MaxRetries
    PROVE  LET h == Claim(w, gen, left) IN
           /\ h \in Record /\ h # None
           /\ CallOf(h) = <<me[w].source, me[w].turn>> /\ h.source = me[w].source
           /\ h.turn = me[w].turn /\ h.gen = gen /\ h.left = left
           /\ h.holder = w /\ h.outcome = None /\ h.status = "claimed"
BY NoneAssumption, BudgetAssumption DEF Claim, CallOf, Memory, Record, Turns

LEMMA ClosedTyped ==
    ASSUME NEW h \in Record, NEW a \in Outcomes
    PROVE  /\ Closed(h, a) \in Record /\ Closed(h, a) # None /\ a # None
           /\ Closed(h, a).source = h.source /\ Closed(h, a).turn = h.turn
           /\ Closed(h, a).gen = h.gen /\ Closed(h, a).outcome = a
           /\ CallOf(Closed(h, a)) = CallOf(h)
           /\ Closed(h, a).status \in {"completed", "unknown", "failed"}
<1>1. StatusOf(a) \in {"completed", "unknown", "failed"}
  BY DEF StatusOf, Outcomes, Answers, Results, Failures
<1> QED BY <1>1, NoneAssumption DEF Closed, CallOf, Record

LEMMA AdmittedTyped ==
    ASSUME NEW h \in Record
    PROVE  LET a == [h EXCEPT !.status = "dispatching"] IN
           /\ a \in Record /\ a # None /\ CallOf(a) = CallOf(h)
           /\ a.source = h.source /\ a.turn = h.turn /\ a.gen = h.gen
           /\ a.holder = h.holder /\ a.outcome = h.outcome /\ a.status = "dispatching"
BY NoneAssumption DEF CallOf, Record

(* Where a worker goes from the outcome of its own turn.                   *)
LEMMA OnwardTyped ==
    ASSUME NEW w, NEW m \in Memory, m.turn <= MaxTurns,
           NEW h \in Record, CallOf(h) = <<m.source, m.turn>>
    PROVE  LET n == Onward(m, h) IN
           /\ n \in Memory /\ Remembers(n, w) /\ n.source = m.source
           /\ n.at \in {"begin", "pause", "retry", "stop"}
           /\ n.at = "begin" => h.outcome = "more" /\ n.turn = m.turn + 1
           /\ n.at = "pause" => h.outcome = "ask" /\ n.turn = m.turn + 1
           /\ n.at = "retry" => h.outcome = "safe" /\ n.turn = m.turn
<1> DEFINE place == CASE h.outcome = "more" -> "begin"
                      [] h.outcome = "ask" -> "pause"
                      [] h.outcome = "safe" /\ m.left > 0 -> "retry"
                      [] OTHER -> "stop"
           turn == IF h.outcome \in {"more", "ask"} THEN m.turn + 1 ELSE m.turn
<1>1. /\ place \in {"begin", "pause", "retry", "stop"} /\ place \in Places
      /\ place = "begin" => h.outcome = "more"
      /\ place = "pause" => h.outcome = "ask"
      /\ place = "retry" => h.outcome = "safe" /\ m.left > 0
  BY DEF Places
<1>2. turn \in 1 .. MaxTurns + 1
  BY BudgetAssumption DEF Memory
<1>3. Onward(m, h) = [m EXCEPT !.kept = h, !.turn = turn, !.at = place]
  BY DEF Onward
<1> HIDE DEF place
<1>4. Onward(m, h) \in Memory
  BY <1>1, <1>2, <1>3 DEF Memory
<1> QED BY <1>1, <1>2, <1>3, <1>4 DEF Remembers, Memory, CallOf, Claimant, Out

(* A step that changes the memory of one worker soundly.                   *)
LEMMA MemoryStep ==
    ASSUME me \in [Workers -> Memory], ClaimsRemembered,
           NEW w \in Workers, NEW m \in Memory, Remembers(m, w),
           me' = [me EXCEPT ![w] = m]
    PROVE  me' \in [Workers -> Memory] /\ ClaimsRemembered'
BY DEF ClaimsRemembered, Remembers

(* A new physical call, and its answer.                                    *)
LEMMA CallMade ==
    ASSUME calls \in Seq(CallRow), NEW c \in CallRow, calls' = Append(calls, c)
    PROVE  /\ calls' \in Seq(CallRow)
           /\ Len(calls) \in Nat /\ DOMAIN calls = 1 .. Len(calls)
           /\ DOMAIN calls' = DOMAIN calls \union {Len(calls) + 1}
           /\ calls'[Len(calls) + 1] = c
           /\ \A i \in DOMAIN calls : calls'[i] = calls[i] /\ i <= Len(calls)
OBVIOUS

LEMMA CallAnswered ==
    ASSUME calls \in Seq(CallRow), NEW w \in Workers, NEW a \in Answers,
           calls' = [i \in DOMAIN calls |->
                       IF Open(w, i) THEN [calls[i] EXCEPT !.answer = a] ELSE calls[i]]
    PROVE  /\ calls' \in Seq(CallRow)
           /\ DOMAIN calls' = DOMAIN calls
           /\ \A i \in DOMAIN calls :
                 /\ calls'[i].source = calls[i].source /\ calls'[i].turn = calls[i].turn
                 /\ calls'[i].gen = calls[i].gen /\ calls'[i].by = calls[i].by
                 /\ CallOf(calls'[i]) = CallOf(calls[i])
                 /\ calls'[i].answer = IF Open(w, i) THEN a ELSE calls[i].answer
<1>1. \A i \in DOMAIN calls : calls[i] \in CallRow
  BY ElementOfSeq
<1>2. \A i \in DOMAIN calls : calls'[i] \in CallRow
  BY <1>1 DEF CallRow
<1>3. DOMAIN calls' = 1 .. Len(calls) /\ Len(calls) \in Nat
  OBVIOUS
<1>4. calls' \in [1 .. Len(calls) -> CallRow]
  BY <1>2, <1>3
<1> QED BY <1>1, <1>3, <1>4, SeqDef DEF CallRow, CallOf

-----------------------------------------------------------------------------
LEMMA TypedInit == Init => Typed
<1> SUFFICES ASSUME Init PROVE Typed
  OBVIOUS
<1>1. me \in [Workers -> Memory]
  BY BudgetAssumption DEF Init, Memory, Places
<1>2. ClaimsRemembered
  BY DEF Init, ClaimsRemembered, Remembers, Claimant, Out
<1>3. calls \in Seq(CallRow)
  BY DEF Init
<1>4. saved \in [turn: 1 .. MaxTurns + 1, left: 0 .. MaxRetries]
  BY BudgetAssumption DEF Init
<1> QED BY <1>1, <1>2, <1>3, <1>4 DEF Init, Typed, TypeOK, Memory, CallRow

(* A step that only sends a worker somewhere.                              *)
LEMMA WentTo ==
    ASSUME Typed, NEW w \in Workers, NEW place \in Places \ (Claimant \union {"outcome", "retry"}),
           Go(w, place)
    PROVE  me' \in [Workers -> Memory] /\ ClaimsRemembered'
<1>1. me \in [Workers -> Memory] /\ ClaimsRemembered
  BY DEF Typed, TypeOK, Memory
<1> DEFINE m == [me[w] EXCEPT !.at = place]
<1>2. m \in Memory /\ Remembers(m, w) /\ me' = [me EXCEPT ![w] = m]
  BY <1>1 DEF Go, Memory, Remembers
<1> QED BY <1>1, <1>2, MemoryStep

LEMMA TypedStep == Typed /\ [Next]_vars => Typed'
<1> SUFFICES ASSUME Typed, [Next]_vars PROVE Typed'
  OBVIOUS
<1>0. /\ head \in Record \union {None} /\ source \in Nat /\ ended \in BOOLEAN
      /\ saved \in [turn: 1 .. MaxTurns + 1, left: 0 .. MaxRetries]
      /\ me \in [Workers -> Memory] /\ calls \in Seq(CallRow) /\ ClaimsRemembered
  BY DEF Typed, TypeOK, Memory, CallRow
<1>1. ASSUME NEW w \in Workers, Start(w) PROVE Typed'
  <2> DEFINE m == [me[w] EXCEPT !.at = "begin", !.source = source,
                                !.turn = Beginning.turn, !.left = Beginning.left]
  <2>1. Beginning.turn \in 1 .. MaxTurns + 1 /\ Beginning.left \in 0 .. MaxRetries
    BY <1>0, BudgetAssumption, NoneAssumption DEF Beginning, Record, Turns
  <2>2. m \in Memory /\ Remembers(m, w) /\ me' = [me EXCEPT ![w] = m]
    BY <1>0, <1>1, <2>1 DEF Start, Memory, Remembers, Places, Claimant, Out
  <2> QED BY <1>0, <1>1, <2>2, MemoryStep DEF Start, Typed, TypeOK, Memory, CallRow
<1> HIDE DEF Typed
<1>2. ASSUME NEW w \in Workers, GiveUp(w) \/ Stop(w) \/ Refuse(w) PROVE Typed'
  <2>1. \E place \in {"gone", "stop"} : Go(w, place)
    BY <1>2 DEF GiveUp, Stop, Refuse, AfterRefusal
  <2>2. me' \in [Workers -> Memory] /\ ClaimsRemembered'
    BY <2>1, WentTo DEF Places, Claimant, Out
  <2> QED BY <1>0, <1>2, <2>2 DEF GiveUp, Stop, Refuse, Typed, TypeOK, Memory, CallRow
<1>3. ASSUME NEW w \in Workers, ClaimFirst(w) \/ ClaimNext(w) \/ ClaimExpired(w) PROVE Typed'
  <2> DEFINE m == [me[w] EXCEPT !.at = "claimed", !.kept = head']
  <2>1. PICK gen \in Nat \ {0} : head' = Claim(w, gen, me[w].left)
    BY <1>0, <1>3 DEF ClaimFirst, ClaimNext, ClaimExpired, Mine, Record
  <2>2. me[w] \in Memory /\ me[w].turn <= MaxTurns /\ me[w].left \in 0 .. MaxRetries
    BY <1>0, <1>3 DEF ClaimFirst, ClaimNext, ClaimExpired, Claiming, Memory
  <2>3. /\ head' \in Record /\ CallOf(head') = <<me[w].source, me[w].turn>>
        /\ head'.holder = w /\ head'.outcome = None /\ head'.status = "claimed"
    BY <2>1, <2>2, ClaimTyped
  <2>4. m \in Memory /\ Remembers(m, w)
    BY <2>2, <2>3 DEF Memory, Remembers, Places, Claimant, Out
  <2>5. me' = [me EXCEPT ![w] = m] /\ UNCHANGED <<source, saved, ended, calls>>
    BY <1>0, <1>3 DEF ClaimFirst, ClaimNext, ClaimExpired, GoWith
  <2> QED BY <1>0, <2>3, <2>4, <2>5, MemoryStep DEF Typed, TypeOK, Memory, CallRow
<1>4. ASSUME NEW w \in Workers, ClaimReplay(w) PROVE Typed'
  <2>1. head \in Record /\ CallOf(head) = <<me[w].source, me[w].turn>> /\ me[w].turn <= MaxTurns
    BY <1>0, <1>4 DEF ClaimReplay, Mine, Claiming
  <2>2. Onward(me[w], head) \in Memory /\ Remembers(Onward(me[w], head), w)
    BY <1>0, <2>1, OnwardTyped
  <2> QED BY <1>0, <1>4, <2>2, MemoryStep DEF ClaimReplay, Typed, TypeOK, Memory, CallRow
<1>5. ASSUME NEW w \in Workers, Admit(w) PROVE Typed'
  <2> DEFINE m == [me[w] EXCEPT !.at = "admitted", !.kept = head']
  <2>1. head \in Record /\ Remembers(me[w], w) /\ head = me[w].kept /\ me[w].at = "claimed"
    BY <1>0, <1>5 DEF Admit, ClaimsRemembered
  <2>2. /\ head' \in Record /\ CallOf(head') = CallOf(head) /\ head'.holder = head.holder
        /\ head'.outcome = head.outcome /\ head'.status = "dispatching"
    BY <1>5, <2>1, AdmittedTyped DEF Admit
  <2>3. m \in Memory /\ Remembers(m, w)
    BY <1>0, <2>1, <2>2 DEF Memory, Remembers, Places, Claimant, Out
  <2>4. me' = [me EXCEPT ![w] = m] /\ UNCHANGED <<source, saved, ended, calls>>
    BY <1>0, <1>5 DEF Admit, GoWith
  <2> QED BY <1>0, <2>2, <2>3, <2>4, MemoryStep DEF Typed, TypeOK, Memory, CallRow
<1>6. ASSUME NEW w \in Workers, CloseUninvoked(w) PROVE Typed'
  <2> DEFINE m == [me[w] EXCEPT !.at = "stop", !.kept = head']
  <2>1. head' \in Record
    BY <1>0, <1>6, ClosedTyped DEF CloseUninvoked, Outcomes
  <2>2. m \in Memory /\ Remembers(m, w)
    BY <1>0, <2>1 DEF Memory, Remembers, Places, Claimant, Out
  <2>3. me' = [me EXCEPT ![w] = m] /\ UNCHANGED <<source, saved, ended, calls>>
    BY <1>0, <1>6 DEF CloseUninvoked, GoWith
  <2> QED BY <1>0, <2>1, <2>2, <2>3, MemoryStep DEF Typed, TypeOK, Memory, CallRow
<1>7. ASSUME NEW w \in Workers, Invoke(w) PROVE Typed'
  <2> DEFINE c == [source |-> me[w].source, turn |-> me[w].turn,
                   gen |-> me[w].kept.gen, by |-> w, answer |-> None]
             m == [me[w] EXCEPT !.at = "inside"]
  <2>1. /\ me[w] \in Memory /\ me[w].kept \in Record /\ me[w].at = "admitted"
        /\ Remembers(me[w], w)
    BY <1>0, <1>7 DEF Invoke, ClaimsRemembered, Remembers, Claimant, Out
  <2>2. c \in CallRow
    BY <2>1 DEF CallRow, Memory, Record, Remembers, CallOf, Claimant, Out
  <2>3. calls' \in Seq(CallRow)
    BY <1>0, <1>7, <2>2, CallMade DEF Invoke
  <2>4. m \in Memory /\ Remembers(m, w)
    BY <2>1 DEF Memory, Remembers, Places, Claimant, Out
  <2>5. me' = [me EXCEPT ![w] = m] /\ UNCHANGED <<head, source, saved, ended>>
    BY <1>0, <1>7 DEF Invoke, Go
  <2> QED BY <1>0, <2>3, <2>4, <2>5, MemoryStep DEF Typed, TypeOK, Memory, CallRow
<1>8. ASSUME NEW w \in Workers, NEW a \in Answers, Return(w, a) PROVE Typed'
  <2> DEFINE m == [me[w] EXCEPT !.at = "outcome", !.answer = a]
  <2>1. calls' \in Seq(CallRow)
    BY <1>0, <1>8, CallAnswered DEF Return
  <2>2. me[w] \in Memory /\ Remembers(me[w], w) /\ me[w].at = "inside"
    BY <1>0, <1>8 DEF Return, ClaimsRemembered
  <2>3. m \in Memory /\ Remembers(m, w)
    BY <2>2 DEF Memory, Remembers, Places, Claimant, Out
  <2>4. me' = [me EXCEPT ![w] = m] /\ UNCHANGED <<head, source, saved, ended>>
    BY <1>0, <1>8 DEF Return
  <2> QED BY <1>0, <2>1, <2>3, <2>4, MemoryStep DEF Typed, TypeOK, Memory, CallRow
<1>9. ASSUME NEW w \in Workers, Settle(w) PROVE Typed'
  <2>1. /\ head \in Record /\ me[w].answer \in Outcomes /\ me[w].turn <= MaxTurns
        /\ CallOf(head) = <<me[w].source, me[w].turn>>
    BY <1>0, <1>9 DEF Settle, ClaimsRemembered, Remembers, Claimant, Out, Outcomes, CallOf,
                      Record, Turns
  <2>2. head' \in Record /\ CallOf(head') = CallOf(head)
    BY <1>9, <2>1, ClosedTyped DEF Settle
  <2>3. Onward(me[w], head') \in Memory /\ Remembers(Onward(me[w], head'), w)
    BY <1>0, <2>1, <2>2, OnwardTyped
  <2>4. me' = [me EXCEPT ![w] = Onward(me[w], head')] /\ UNCHANGED <<source, saved, ended, calls>>
    BY <1>9 DEF Settle
  <2> QED BY <1>0, <2>2, <2>3, <2>4, MemoryStep DEF Typed, TypeOK, Memory, CallRow
<1>10. ASSUME NEW w \in Workers, Retry(w) PROVE Typed'
  <2> DEFINE m == [me[w] EXCEPT !.at = "claimed", !.left = @ - 1, !.kept = head']
  <2>1. /\ me[w] \in Memory /\ me[w].turn <= MaxTurns /\ me[w].left - 1 \in 0 .. MaxRetries
        /\ head.gen + 1 \in Nat \ {0}
    BY <1>0, <1>10 DEF Retry, ClaimsRemembered, Remembers, CallOf, Memory, Record, Turns
  <2>2. /\ head' \in Record /\ CallOf(head') = <<me[w].source, me[w].turn>>
        /\ head'.holder = w /\ head'.outcome = None /\ head'.status = "claimed"
    BY <1>10, <2>1, ClaimTyped DEF Retry
  <2>3. m \in Memory /\ Remembers(m, w)
    BY <2>1, <2>2 DEF Memory, Remembers, Places, Claimant, Out
  <2>4. me' = [me EXCEPT ![w] = m] /\ UNCHANGED <<source, saved, ended, calls>>
    BY <1>0, <1>10 DEF Retry
  <2> QED BY <1>0, <2>2, <2>3, <2>4, MemoryStep DEF Typed, TypeOK, Memory, CallRow
<1>11. ASSUME NEW w \in Workers, Pause(w) PROVE Typed'
  <2>1. me' \in [Workers -> Memory] /\ ClaimsRemembered'
    BY <1>11, WentTo DEF Pause, Places, Claimant, Out
  <2>2. saved' \in [turn: 1 .. MaxTurns + 1, left: 0 .. MaxRetries]
    BY <1>0, <1>11 DEF Pause, Memory
  <2> QED BY <1>0, <1>11, <2>1, <2>2 DEF Pause, Typed, TypeOK, Memory, CallRow
<1>12. CASE UNCHANGED vars
  BY <1>0, <1>12 DEF vars, ClaimsRemembered, Remembers, Typed, TypeOK, Memory, CallRow
<1> QED BY <1>1, <1>2, <1>3, <1>4, <1>5, <1>6, <1>7, <1>8, <1>9, <1>10, <1>11, <1>12
        DEF Next, Step

(* Every reachable state is type-correct, and a worker that has a claim, is
   out with it or may retry it remembers the record of that very turn.     *)
THEOREM Typing == Spec => [](TypeOK /\ ClaimsRemembered)
<1>1. Typed => TypeOK /\ ClaimsRemembered
  BY DEF Typed
<1> QED BY <1>1, TypedInit, TypedStep, PTL DEF Spec

-----------------------------------------------------------------------------
(* The record of a claim, whichever record it follows.                     *)
LEMMA ClaimMade ==
    ASSUME Typed, HeadIsCurrent, NEW w \in Workers,
           ClaimFirst(w) \/ ClaimNext(w) \/ ClaimExpired(w) \/ Retry(w)
    PROVE  /\ head' \in Record /\ head' # None /\ me[w].source = source
           /\ CallOf(head') = <<source, me[w].turn>> /\ me[w].turn \in Turns
           /\ head'.source = source /\ head'.turn = me[w].turn /\ head'.outcome = None
           /\ head'.status = "claimed" /\ head'.holder = w
           /\ head'.gen = IF ClaimFirst(w) \/ ClaimNext(w) THEN 1 ELSE head.gen + 1
           /\ UNCHANGED <<source, saved, ended, calls>> /\ ~ended
           /\ \A v \in Workers \ {w} : me'[v] = me[v]
           /\ me'[w].at = "claimed" /\ me'[w].kept = head'
           /\ me'[w].source = me[w].source /\ me'[w].turn = me[w].turn
           /\ ClaimExpired(w) \/ Retry(w) =>
                 head # None /\ head \in Record /\ CallOf(head) = CallOf(head')
<1>0. head \in Record \union {None} /\ me \in [Workers -> Memory] /\ ClaimsRemembered
  BY DEF Typed, TypeOK, Memory
<1>1. CASE ClaimFirst(w) \/ ClaimNext(w) \/ ClaimExpired(w)
  <2> DEFINE gen == IF ClaimFirst(w) \/ ClaimNext(w) THEN 1 ELSE head.gen + 1
  <2>1. gen \in Nat \ {0}
    BY <1>0, <1>1 DEF ClaimExpired, Mine, Record
  <2>2. head' = Claim(w, gen, me[w].left)
    BY <1>1 DEF ClaimFirst, ClaimNext, ClaimExpired, Mine
  <2>3. /\ me[w] \in Memory /\ me[w].turn <= MaxTurns /\ me[w].left \in 0 .. MaxRetries
        /\ me[w].source = source /\ me[w].turn \in Turns /\ ~ended
        /\ UNCHANGED <<source, saved, ended, calls>>
        /\ me' = [me EXCEPT ![w].at = "claimed", ![w].kept = head']
    BY <1>0, <1>1 DEF ClaimFirst, ClaimNext, ClaimExpired, Claiming, GoWith, Memory, Turns
  <2>4. ClaimExpired(w) => head # None /\ CallOf(head) = <<me[w].source, me[w].turn>>
    BY DEF ClaimExpired, Mine
  <2> HIDE DEF gen
  <2>5. /\ head' \in Record /\ head' # None
        /\ CallOf(head') = <<source, me[w].turn>>
        /\ head'.source = source /\ head'.turn = me[w].turn /\ head'.outcome = None
        /\ head'.status = "claimed" /\ head'.holder = w /\ head'.gen = gen
    BY <2>1, <2>2, <2>3, ClaimTyped
  <2>6. ~Retry(w)
    BY <1>1 DEF Retry, ClaimFirst, ClaimNext, ClaimExpired, Claiming
  <2> QED BY <1>0, <2>3, <2>4, <2>5, <2>6 DEF Memory, gen
<1>2. CASE Retry(w)
  <2>1. /\ head # None /\ head \in Record /\ head = me[w].kept /\ ~ended
        /\ CallOf(head) = <<me[w].source, me[w].turn>> /\ me[w] \in Memory
        /\ head.source = source
    BY <1>0, <1>2 DEF Retry, ClaimsRemembered, Remembers, HeadIsCurrent
  <2>2. /\ me[w].turn \in Turns /\ me[w].turn <= MaxTurns /\ me[w].source = source
        /\ me[w].left - 1 \in 0 .. MaxRetries /\ head.gen + 1 \in Nat \ {0}
    BY <1>0, <1>2, <2>1, BudgetAssumption DEF Retry, ClaimsRemembered, Remembers, CallOf,
                                              Memory, Record, Turns
  <2>3. /\ head' = Claim(w, head.gen + 1, me[w].left - 1)
        /\ UNCHANGED <<source, saved, ended, calls>>
        /\ me' = [me EXCEPT ![w].at = "claimed", ![w].left = @ - 1, ![w].kept = head']
        /\ ~ClaimFirst(w) /\ ~ClaimNext(w)
    BY <1>2 DEF Retry, ClaimFirst, ClaimNext, Claiming
  <2>4. /\ head' \in Record /\ head' # None
        /\ CallOf(head') = <<source, me[w].turn>>
        /\ head'.source = source /\ head'.turn = me[w].turn /\ head'.outcome = None
        /\ head'.status = "claimed" /\ head'.holder = w /\ head'.gen = head.gen + 1
    BY <2>2, <2>1, <2>3, ClaimTyped
  <2> QED BY <1>0, <2>1, <2>2, <2>3, <2>4 DEF Memory
<1> QED BY <1>1, <1>2

(* A step of a worker that leaves the dispatched record of another alone,
   or moves the Run on, keeps what the Journal knows of open calls.        *)
LEMMA KnownKept ==
    ASSUME Typed, Typed', Known, NEW w \in Workers,
           \A v \in Workers \ {w} : me'[v] = me[v],
           me'[w].source <= source', source <= source', ended => ended',
           \/ head' = head \/ ended' \/ source' > source
           \/ head = None \/ head.status # "dispatching" \/ head.holder = w,
           head' # None =>
              /\ head'.source = source' /\ ~ended'
              /\ head'.status \in {"claimed", "dispatching"} <=> head'.outcome = None,
           me'[w].at \in Out =>
              \/ head' # None /\ head' = me'[w].kept /\ head'.status = "dispatching"
              \/ source' > me'[w].source
              \/ ended'
    PROVE  Known'
<1>1. \A v \in Workers : me[v].source \in Nat /\ me'[v].source \in Nat
  BY DEF Typed, TypeOK
<1>2. source \in Nat /\ source' \in Nat
  BY DEF Typed, TypeOK
<1>3. \A v \in Workers : me'[v].source <= source'
  BY <1>1, <1>2 DEF Known, HeadIsCurrent
<1>4. HeadIsCurrent'
  BY <1>3 DEF HeadIsCurrent
<1>5. ASSUME NEW v \in Workers \ {w}, me'[v].at \in Out
      PROVE  \/ head' # None /\ head' = me'[v].kept /\ head'.status = "dispatching"
             \/ source' > me'[v].source
             \/ ended'
  <2>1. me'[v] = me[v] /\ me[v].at \in Out
    BY <1>5
  <2>2. CASE head # None /\ head = me[v].kept /\ head.status = "dispatching"
    <3>1. head.holder = v
      BY <2>1, <2>2 DEF Typed, ClaimsRemembered, Remembers, Claimant
    <3>2. head' = head \/ ended' \/ source' > source
      BY <2>2, <3>1
    <3>3. source' > source => source' > me'[v].source
      BY <1>1, <1>2, <2>1 DEF Known, HeadIsCurrent
    <3> QED BY <2>1, <2>2, <3>2, <3>3
  <2>3. CASE source > me[v].source \/ ended
    BY <1>1, <1>2, <2>1, <2>3
  <2> QED BY <2>1, <2>2, <2>3 DEF Known, JournalKnowsOpenCall, Out
<1>6. JournalKnowsOpenCall'
  BY <1>5 DEF JournalKnowsOpenCall, Out
<1> QED BY <1>4, <1>6 DEF Known

LEMMA KnownStep == Typed /\ Typed' /\ Known /\ [Next]_vars => Known'
<1> SUFFICES ASSUME Typed, Typed', Known, [Next]_vars PROVE Known'
  OBVIOUS
<1>0. /\ head \in Record \union {None} /\ source \in Nat /\ ended \in BOOLEAN
      /\ me \in [Workers -> Memory] /\ ClaimsRemembered
      /\ \A w \in Workers : me[w].source \in Nat /\ me[w].source <= source
      /\ head # None => head.source = source /\ ~ended
  BY DEF Typed, TypeOK, Memory, Known, HeadIsCurrent
<1>h. /\ head # None =>
           (head.status \in {"claimed", "dispatching"} <=> head.outcome = None)
      /\ \A w \in Workers : me[w].at \in Out =>
              \/ head # None /\ head = me[w].kept /\ head.status = "dispatching"
              \/ source > me[w].source
              \/ ended
  BY DEF Known, HeadIsCurrent, JournalKnowsOpenCall, Out
<1>1. ASSUME NEW w \in Workers, Start(w) \/ GiveUp(w) \/ Refuse(w) \/ ClaimReplay(w)
      PROVE  Known'
  <2>1. /\ UNCHANGED <<head, source, ended>>
        /\ \A v \in Workers \ {w} : me'[v] = me[v]
    BY <1>0, <1>1 DEF Start, GiveUp, Refuse, ClaimReplay, Go
  <2>2. me'[w].source <= source /\ me'[w].at \notin Out
    <3>1. CASE Start(w) \/ GiveUp(w) \/ Refuse(w)
      BY <1>0, <3>1 DEF Start, GiveUp, Refuse, Go, AfterRefusal, Out, Memory
    <3>2. CASE ClaimReplay(w)
      <4>1. head \in Record /\ CallOf(head) = <<me[w].source, me[w].turn>> /\ me[w].turn <= MaxTurns
        BY <1>0, <3>2 DEF ClaimReplay, Mine, Claiming
      <4>2. me'[w] = Onward(me[w], head)
        BY <1>0, <3>2 DEF ClaimReplay
      <4> QED BY <1>0, <4>1, <4>2, OnwardTyped DEF Out
    <3> QED BY <1>1, <3>1, <3>2
  <2> QED BY <1>0, <1>h, <2>1, <2>2, KnownKept
<1>2. ASSUME NEW w \in Workers, ClaimFirst(w) \/ ClaimNext(w) \/ ClaimExpired(w) \/ Retry(w)
      PROVE  Known'
  <2>1. /\ head'.source = source' /\ head'.status = "claimed" /\ head'.outcome = None
        /\ me'[w].source = me[w].source /\ me'[w].at = "claimed" /\ me[w].source = source
        /\ ~ended /\ UNCHANGED <<source, ended>> /\ \A v \in Workers \ {w} : me'[v] = me[v]
    BY <1>0, <1>2, ClaimMade DEF Known
  <2>4. head = None \/ head.status # "dispatching"
    BY <1>0, <1>h, <1>2, NoneAssumption DEF ClaimFirst, ClaimNext, ClaimExpired, Retry, Outcomes,
                              Answers, Failures
  <2> QED BY <1>0, <2>1, <2>4, KnownKept DEF Out
<1>3. ASSUME NEW w \in Workers, Admit(w) PROVE Known'
  <2>1. /\ head \in Record /\ head # None /\ head = me[w].kept
        /\ Remembers(me[w], w) /\ me[w].at = "claimed"
        /\ head' = [head EXCEPT !.status = "dispatching"] /\ UNCHANGED <<source, ended>>
    BY <1>0, <1>3 DEF Admit, ClaimsRemembered
  <2>2. /\ head' # None /\ head'.source = source /\ head'.status = "dispatching"
        /\ head'.outcome = None /\ head.status = "claimed"
    BY <1>0, <2>1, AdmittedTyped DEF Remembers, Claimant
  <2>3. /\ \A v \in Workers \ {w} : me'[v] = me[v]
        /\ me'[w].source = me[w].source /\ me'[w].kept = head'
    BY <1>0, <1>3 DEF Admit, GoWith, Memory
  <2> QED BY <1>0, <2>1, <2>2, <2>3, KnownKept
<1>4. ASSUME NEW w \in Workers, CloseUninvoked(w) \/ Settle(w) PROVE Known'
  <2>1. /\ head \in Record /\ head # None /\ head = me[w].kept
        /\ Remembers(me[w], w) /\ me[w].at \in Claimant
        /\ UNCHANGED <<source, ended>> /\ \A v \in Workers \ {w} : me'[v] = me[v]
    BY <1>0, <1>4 DEF CloseUninvoked, Settle, GoWith, ClaimsRemembered, Claimant, Out
  <2>2. PICK a \in Outcomes : head' = Closed(head, a)
    BY <1>4, <2>1 DEF CloseUninvoked, Settle, Remembers, Outcomes
  <2>3. head'.source = source /\ head'.outcome # None /\ head.holder = w
        /\ head'.status \notin {"claimed", "dispatching"}
    BY <1>0, <2>1, <2>2, ClosedTyped DEF Remembers
  <2>4. me'[w].source = me[w].source /\ me'[w].at \notin Out
    <3>1. CASE CloseUninvoked(w)
      BY <1>0, <3>1 DEF CloseUninvoked, GoWith, Out
    <3>2. CASE Settle(w)
      <4>1. head' \in Record /\ CallOf(head') = <<me[w].source, me[w].turn>> /\ me[w].turn <= MaxTurns
        BY <2>1, <2>2, ClosedTyped DEF Remembers, CallOf, Record, Turns
      <4>2. me'[w] = Onward(me[w], head')
        BY <1>0, <3>2 DEF Settle
      <4> QED BY <1>0, <4>1, <4>2, OnwardTyped DEF Out
    <3> QED BY <1>4, <3>1, <3>2
  <2> QED BY <1>0, <2>1, <2>3, <2>4, KnownKept
<1>5. ASSUME NEW w \in Workers, Invoke(w) \/ (\E a \in Answers : Return(w, a)) PROVE Known'
  <2>1. /\ UNCHANGED <<head, source, ended>> /\ me[w].at \in Out
        /\ \A v \in Workers \ {w} : me'[v] = me[v]
        /\ me'[w].source = me[w].source /\ me'[w].kept = me[w].kept
    BY <1>0, <1>5 DEF Invoke, Return, Go, Out, Memory
  <2> QED BY <1>0, <1>h, <2>1, KnownKept
<1>6. ASSUME NEW w \in Workers, Pause(w) \/ Stop(w) PROVE Known'
  <2>1. /\ head' = None /\ (source' > source \/ ended') /\ source <= source' /\ (ended => ended')
        /\ \A v \in Workers \ {w} : me'[v] = me[v]
        /\ me'[w].source = me[w].source /\ me'[w].at = "gone"
    BY <1>0, <1>6 DEF Pause, Stop, Go, Memory
  <2>2. me'[w].source <= source'
    BY <1>0, <2>1 DEF Typed, TypeOK
  <2> QED BY <1>0, <2>1, <2>2, KnownKept DEF Out
<1>7. CASE UNCHANGED vars
  BY <1>7 DEF vars, Known, HeadIsCurrent, JournalKnowsOpenCall
<1> QED BY <1>1, <1>2, <1>3, <1>4, <1>5, <1>6, <1>7 DEF Next, Step

LEMMA KnownInit == Init => Known
BY DEF Init, Known, HeadIsCurrent, JournalKnowsOpenCall

(* From its admission until its outcome is settled a call is the current
   record of the Run, as its caller knows it, unless the Run ended or moved
   to another Snapshot.                                                    *)
THEOREM OpenCallsKnown == Spec => []JournalKnowsOpenCall
<1>1. Init => Typed /\ Known
  BY TypedInit, KnownInit
<1>2. (Typed /\ Known) /\ [Next]_vars => (Typed /\ Known)'
  BY TypedStep, KnownStep
<1>3. Typed /\ Known => JournalKnowsOpenCall
  BY DEF Known
<1> QED BY <1>1, <1>2, <1>3, PTL DEF Spec

-----------------------------------------------------------------------------
(* A worker that leaves its call alone, or settles it, changes nothing for
   the calls that are still out.                                           *)
LEMMA ExclusiveKept ==
    ASSUME Exclusive, NEW w \in Workers, \A v \in Workers \ {w} : me'[v] = me[v],
           me'[w].at \notin Out, calls' = calls, CallsBehindHead', HeadMayBeTried'
    PROVE  Exclusive'
<1>1. OneCallOut'
  BY DEF Exclusive, OneCallOut
<1>2. OutIsUndelivered'
  BY DEF Exclusive, OutIsUndelivered, Out, Undelivered, Open
<1> QED BY <1>1, <1>2 DEF Exclusive

(* The calls of a claim: none yet, or those of the record it takes over.   *)
LEMMA ClaimExclusive ==
    ASSUME Typed, Known, Exclusive, NEW w \in Workers,
           ClaimFirst(w) \/ ClaimNext(w) \/ ClaimExpired(w) \/ Retry(w)
    PROVE  Exclusive'
<1>0. /\ head \in Record \union {None} /\ source \in Nat /\ me \in [Workers -> Memory]
      /\ \A i \in DOMAIN calls : calls[i] \in CallRow
  <2>1. calls \in Seq(CallRow)
    BY DEF Typed, TypeOK, CallRow
  <2> QED BY <2>1, ElementOfSeq DEF Typed, TypeOK, Memory
<1>1. HeadIsCurrent
  BY DEF Known
<1>2. /\ calls' = calls /\ source' = source /\ ended' = ended /\ ~ended
      /\ \A v \in Workers \ {w} : me'[v] = me[v]
      /\ me'[w].at = "claimed" /\ me[w].source = source
  BY <1>1, ClaimMade
<1>4. /\ head' # None /\ head'.turn = me[w].turn /\ head'.source = source
      /\ CallOf(head') = <<source, me[w].turn>>
      /\ ClaimExpired(w) \/ Retry(w) => head # None /\ CallOf(head) = CallOf(head')
  BY <1>1, ClaimMade
<1>5. CASE ClaimFirst(w)
  <2>1. \A i \in DOMAIN calls : calls[i].source # source
    BY <1>2, <1>5 DEF ClaimFirst, Exclusive, CallsBehindHead
  <2>2. CallsBehindHead' /\ HeadMayBeTried'
    BY <1>2, <1>4, <2>1 DEF Exclusive, CallsBehindHead, HeadMayBeTried, Undelivered, CallOf
  <2> QED BY <1>2, <2>2, ExclusiveKept DEF Out
<1>6. CASE ClaimNext(w)
  <2>1. me[w].turn = head.turn + 1 /\ head.turn \in Nat
    BY <1>0, <1>6 DEF ClaimNext, CallOf, Record, Turns, Memory
  <2>2. \A i \in DOMAIN calls : calls[i].source = source => calls[i].turn < me[w].turn
    BY <1>0, <1>2, <2>1 DEF Exclusive, CallsBehindHead, CallRow, Turns
  <2>3. CallsBehindHead' /\ HeadMayBeTried'
    BY <1>0, <1>2, <1>4, <2>1, <2>2 DEF Exclusive, CallsBehindHead, HeadMayBeTried, Undelivered,
                                        CallOf, CallRow, Turns
  <2> QED BY <1>2, <2>3, ExclusiveKept DEF Out
<1>7. CASE ClaimExpired(w) \/ Retry(w)
  <2>1. head # None /\ CallOf(head) = <<source, me[w].turn>>
    BY <1>4, <1>7
  <2>2. Undelivered(CallOf(head))
    BY <1>7, <2>1 DEF ClaimExpired, Retry, Exclusive, HeadMayBeTried
  <2>3. CallOf(head') = CallOf(head) /\ head'.turn = head.turn
    BY <1>4, <2>1 DEF CallOf
  <2>4. CallsBehindHead' /\ HeadMayBeTried'
    BY <1>2, <1>4, <2>1, <2>2, <2>3 DEF Exclusive, CallsBehindHead, HeadMayBeTried, Undelivered
  <2> QED BY <1>2, <2>4, ExclusiveKept DEF Out
<1> QED BY <1>5, <1>6, <1>7

(* An admission: nobody else is out with this call.                        *)
LEMMA AdmitExclusive ==
    ASSUME Typed, Known, Exclusive, NEW w \in Workers, Admit(w)
    PROVE  Exclusive'
<1>0. /\ head \in Record /\ head # None /\ head = me[w].kept /\ me[w].at = "claimed" /\ ~ended
      /\ head' = [head EXCEPT !.status = "dispatching"] /\ head.source = source
      /\ UNCHANGED <<source, ended, calls>>
      /\ me' = [me EXCEPT ![w].at = "admitted", ![w].kept = head']
      /\ me \in [Workers -> Memory]
  BY DEF Admit, GoWith, Typed, TypeOK, Memory, Known, HeadIsCurrent
<1>1. /\ head' # None /\ CallOf(head') = CallOf(head) /\ head'.turn = head.turn
      /\ head'.status = "dispatching" /\ head'.outcome = None /\ head.status = "claimed"
  BY <1>0, AdmittedTyped DEF Typed, ClaimsRemembered, Remembers, Claimant
<1>2. /\ \A v \in Workers \ {w} : me'[v] = me[v]
      /\ me'[w].at = "admitted" /\ me'[w].kept = head'
  BY <1>0 DEF Memory
<1>3. \A v \in Workers : me[v].at \in Out => CallOf(me[v].kept) # CallOf(head)
  <2> TAKE v \in Workers
  <2> SUFFICES ASSUME me[v].at \in Out, CallOf(me[v].kept) = CallOf(head) PROVE FALSE
    OBVIOUS
  <2>1. me[v].source = source
    BY <1>0 DEF Typed, ClaimsRemembered, Remembers, Claimant, CallOf
  <2>2. head = me[v].kept /\ head.status = "dispatching"
    BY <1>0, <2>1 DEF Known, JournalKnowsOpenCall, Out, Typed, TypeOK
  <2> QED BY <1>1, <2>2
<1>4. Undelivered(CallOf(head))
  BY <1>0, <1>1 DEF Exclusive, HeadMayBeTried
<1>5. CallsBehindHead' /\ HeadMayBeTried'
  BY <1>0, <1>1, NoneAssumption DEF Exclusive, CallsBehindHead, HeadMayBeTried, Outcomes, Answers,
                                    Failures
<1>6. OneCallOut'
  BY <1>1, <1>2, <1>3 DEF Exclusive, OneCallOut
<1>7. OutIsUndelivered'
  BY <1>0, <1>1, <1>2, <1>4 DEF Exclusive, OutIsUndelivered, Out, Undelivered, Open
<1> QED BY <1>5, <1>6, <1>7 DEF Exclusive

(* The outcome of a call is that of all of its generations so far.         *)
LEMMA CloseExclusive ==
    ASSUME Typed, Typed', Known, Exclusive, NEW w \in Workers, CloseUninvoked(w) \/ Settle(w)
    PROVE  Exclusive'
<1>0. /\ head \in Record /\ head # None /\ head = me[w].kept
      /\ UNCHANGED <<source, ended, calls>>
      /\ Remembers(me[w], w) /\ me[w].at \in Claimant /\ me[w] \in Memory
  BY DEF CloseUninvoked, Settle, Typed, TypeOK, Memory, ClaimsRemembered, Claimant, Out
<1>1. /\ \A v \in Workers \ {w} : me'[v] = me[v]
      /\ CloseUninvoked(w) => head' = Closed(head, "stopped")
      /\ Settle(w) => head' = Closed(head, me[w].answer) /\ me[w].at = "outcome"
  BY DEF CloseUninvoked, Settle, GoWith, Typed, TypeOK
<1>2. me[w].answer \in Outcomes \/ ~Settle(w)
  BY <1>0 DEF Settle, Remembers, Outcomes
<1>3. /\ head' # None /\ CallOf(head') = CallOf(head) /\ head'.turn = head.turn
      /\ head'.status # "claimed" /\ head' \in Record
      /\ head'.outcome = "safe" => Settle(w) /\ me[w].answer = "safe"
  BY <1>0, <1>1, <1>2, ClosedTyped DEF Outcomes
<1>4. me'[w].at \notin Out
  <2>1. CASE CloseUninvoked(w)
    BY <2>1 DEF CloseUninvoked, GoWith, Out, Typed, TypeOK
  <2>2. CASE Settle(w)
    <3>1. CallOf(head') = <<me[w].source, me[w].turn>> /\ me[w].turn <= MaxTurns
      BY <1>0, <1>3 DEF Remembers, CallOf, Record, Turns, Claimant
    <3>2. me'[w] = Onward(me[w], head')
      BY <2>2 DEF Settle, Typed, TypeOK
    <3> QED BY <1>0, <1>3, <3>1, <3>2, OnwardTyped DEF Out
  <2> QED BY <2>1, <2>2
<1>5. Settle(w) /\ me[w].answer = "safe" => Undelivered(CallOf(head))
  BY <1>0, <1>1 DEF Exclusive, OutIsUndelivered, Undelivered
<1>6. CallsBehindHead' /\ HeadMayBeTried'
  BY <1>0, <1>3, <1>5 DEF Exclusive, CallsBehindHead, HeadMayBeTried, Undelivered
<1> QED BY <1>0, <1>1, <1>4, <1>6, ExclusiveKept

(* An invocation is the first since the admission of its call.             *)
LEMMA InvokeExclusive ==
    ASSUME Typed, Known, Exclusive, NEW w \in Workers, Invoke(w)
    PROVE  /\ Exclusive'
           /\ \A i \in DOMAIN calls : CallOf(calls[i]) = CallOf(calls'[Len(calls) + 1])
                                         => calls[i].answer = "safe"
<1> DEFINE c == [source |-> me[w].source, turn |-> me[w].turn, gen |-> me[w].kept.gen,
                 by |-> w, answer |-> None]
           n == Len(calls) + 1
<1>0. /\ me[w] \in Memory /\ Remembers(me[w], w) /\ me[w].at = "admitted"
      /\ me[w].kept \in Record /\ CallOf(me[w].kept) = <<me[w].source, me[w].turn>>
      /\ UNCHANGED <<head, source, ended>> /\ calls' = Append(calls, c)
      /\ calls \in Seq(CallRow)
  BY DEF Invoke, Typed, TypeOK, Memory, ClaimsRemembered, Remembers, Claimant, Out, CallRow
<1>1. c \in CallRow
  BY <1>0 DEF CallRow, Memory, Record, CallOf, Turns
<1>2. /\ DOMAIN calls' = DOMAIN calls \union {n} /\ calls'[n] = c
      /\ \A i \in DOMAIN calls : calls'[i] = calls[i]
      /\ CallOf(c) = CallOf(me[w].kept)
  BY <1>0, <1>1, CallMade DEF CallOf
<1>3. /\ \A v \in Workers \ {w} : me'[v] = me[v]
      /\ me'[w].at = "inside" /\ me'[w].kept = me[w].kept
  BY <1>0 DEF Invoke, Go, Typed, TypeOK, Memory
<1>4. Undelivered(CallOf(me[w].kept))
  BY <1>0 DEF Exclusive, OutIsUndelivered
<1>5. \/ head = me[w].kept /\ head.status = "dispatching"
      \/ source > me[w].source
      \/ ended
  BY <1>0 DEF Known, JournalKnowsOpenCall
<1>6. c.source <= source /\ (c.source = source /\ ~ended => head # None /\ c.turn <= head.turn)
  BY <1>0, <1>5, NoneAssumption DEF Known, HeadIsCurrent, CallOf, Memory, Record, Turns, Typed, TypeOK
<1>7. CallsBehindHead'
  BY <1>0, <1>2, <1>6 DEF Exclusive, CallsBehindHead
<1>8. HeadMayBeTried'
  <2> SUFFICES ASSUME head # None, head.status = "claimed" \/ head.outcome = "safe",
                      CallOf(c) = CallOf(head)
               PROVE  FALSE
    BY <1>0, <1>2 DEF Exclusive, HeadMayBeTried, Undelivered
  <2>1. head.source = source /\ ~ended /\ me[w].source = source /\ source \in Nat
    BY <1>0, <1>2 DEF Known, HeadIsCurrent, CallOf, Typed, TypeOK
  <2>2. head = me[w].kept /\ head.status = "dispatching"
    BY <1>5, <2>1
  <2>3. head.outcome = None
    BY <1>0, <2>2 DEF Remembers, Claimant, Out
  <2> QED BY <2>2, <2>3, NoneAssumption DEF Outcomes, Answers, Failures
<1>9. OneCallOut'
  BY <1>0, <1>3 DEF Exclusive, OneCallOut, Out
<1>10. OutIsUndelivered'
  <2>1. \A v \in Workers \ {w} : me[v].at \in Out => CallOf(me[v].kept) # CallOf(c)
    BY <1>0, <1>2 DEF Exclusive, OneCallOut, Out
  <2>2. ASSUME NEW v \in Workers \ {w}
        PROVE  /\ me'[v].at = "admitted" => Undelivered(CallOf(me[v].kept))'
               /\ me'[v].at \in {"inside", "outcome"} =>
                    \A i \in DOMAIN calls' : CallOf(calls'[i]) = CallOf(me'[v].kept) =>
                       \/ calls'[i].answer = "safe"
                       \/ me'[v].at = "inside" /\ Open(v, i)'
                       \/ me'[v].at = "outcome" /\ calls'[i].answer = me'[v].answer
    BY <1>2, <1>3, <2>1, <2>2 DEF Exclusive, OutIsUndelivered, Undelivered, Open, Out
  <2>3. \A i \in DOMAIN calls' : CallOf(calls'[i]) = CallOf(me'[w].kept) =>
           calls'[i].answer = "safe" \/ Open(w, i)'
    BY <1>2, <1>3, <1>4 DEF Undelivered, Open
  <2> QED BY <1>3, <2>2, <2>3 DEF OutIsUndelivered
<1> QED BY <1>2, <1>4, <1>7, <1>8, <1>9, <1>10 DEF Exclusive, Undelivered

(* An answer is that of the caller's own invocation.                       *)
LEMMA ReturnExclusive ==
    ASSUME Typed, Exclusive, NEW w \in Workers, NEW a \in Answers, Return(w, a)
    PROVE  Exclusive'
<1>0. /\ UNCHANGED <<head, source, ended>> /\ me[w].at = "inside" /\ calls \in Seq(CallRow)
      /\ calls' = [i \in DOMAIN calls |->
                     IF Open(w, i) THEN [calls[i] EXCEPT !.answer = a] ELSE calls[i]]
  BY DEF Return, Typed, TypeOK, CallRow
<1>1. /\ DOMAIN calls' = DOMAIN calls
      /\ \A i \in DOMAIN calls :
            /\ calls'[i].source = calls[i].source /\ calls'[i].turn = calls[i].turn
            /\ calls'[i].by = calls[i].by /\ CallOf(calls'[i]) = CallOf(calls[i])
            /\ calls'[i].answer = IF Open(w, i) THEN a ELSE calls[i].answer
  BY <1>0, CallAnswered
<1>2. /\ \A v \in Workers \ {w} : me'[v] = me[v]
      /\ me'[w].at = "outcome" /\ me'[w].answer = a /\ me'[w].kept = me[w].kept
  BY DEF Return, Typed, TypeOK
<1>3. \A i \in DOMAIN calls : calls[i].answer = "safe" => calls'[i].answer = "safe"
  BY <1>1, NoneAssumption DEF Open, Outcomes, Answers, Failures
<1>4. CallsBehindHead' /\ HeadMayBeTried' /\ OneCallOut'
  BY <1>0, <1>1, <1>2, <1>3 DEF Exclusive, CallsBehindHead, HeadMayBeTried, OneCallOut, Undelivered,
                                Out
<1>5. ASSUME NEW v \in Workers
      PROVE  /\ me'[v].at = "admitted" => Undelivered(CallOf(me[v].kept))'
             /\ me'[v].at \in {"inside", "outcome"} =>
                  \A i \in DOMAIN calls' : CallOf(calls'[i]) = CallOf(me'[v].kept) =>
                     \/ calls'[i].answer = "safe"
                     \/ me'[v].at = "inside" /\ Open(v, i)'
                     \/ me'[v].at = "outcome" /\ calls'[i].answer = me'[v].answer
  <2>1. CASE v = w
    BY <1>0, <1>1, <1>2, <1>3, <2>1 DEF Exclusive, OutIsUndelivered
  <2>2. CASE v # w
    <3>1. /\ me'[v] = me[v]
          /\ \A i \in DOMAIN calls : calls[i].by = v => calls'[i].answer = calls[i].answer
      BY <1>1, <1>2, <2>2 DEF Open
    <3>2. me[v].at = "admitted" => Undelivered(CallOf(me[v].kept))'
      BY <1>1, <1>2, <1>3, <2>2, <3>1 DEF Exclusive, OutIsUndelivered, Undelivered
    <3>3. ASSUME NEW i \in DOMAIN calls, me[v].at \in {"inside", "outcome"},
                 CallOf(calls[i]) = CallOf(me[v].kept)
          PROVE  \/ calls'[i].answer = "safe"
                 \/ me[v].at = "inside" /\ Open(v, i)'
                 \/ me[v].at = "outcome" /\ calls'[i].answer = me[v].answer
      <4>1. \/ calls[i].answer = "safe"
            \/ me[v].at = "inside" /\ Open(v, i)
            \/ me[v].at = "outcome" /\ calls[i].answer = me[v].answer
        BY <3>3 DEF Exclusive, OutIsUndelivered
      <4>2. me[v].at = "outcome" => me[v].answer # None
        BY NoneAssumption DEF Typed, ClaimsRemembered, Remembers, Outcomes
      <4> QED BY <1>1, <1>3, <3>1, <4>1, <4>2 DEF Open
    <3> QED BY <1>1, <1>2, <3>1, <3>2, <3>3
  <2> QED BY <2>1, <2>2
<1>6. OutIsUndelivered'
  BY <1>2, <1>5 DEF OutIsUndelivered
<1> QED BY <1>4, <1>6 DEF Exclusive

LEMMA ExclusiveInit == Init => Exclusive
BY DEF Init, Exclusive, CallsBehindHead, HeadMayBeTried, OneCallOut, OutIsUndelivered, Out

LEMMA ExclusiveStep == Typed /\ Typed' /\ Known /\ Exclusive /\ [Next]_vars => Exclusive'
<1> SUFFICES ASSUME Typed, Typed', Known, Exclusive, [Next]_vars PROVE Exclusive'
  OBVIOUS
<1>0. me \in [Workers -> Memory] /\ source \in Nat /\ \A i \in DOMAIN calls : calls[i].source \in Nat
  <2>1. calls \in Seq(CallRow)
    BY DEF Typed, TypeOK, CallRow
  <2>2. \A i \in DOMAIN calls : calls[i] \in CallRow
    BY <2>1, ElementOfSeq
  <2>3. \A c \in CallRow : c.source \in Nat
    BY DEF CallRow
  <2> QED BY <2>2, <2>3 DEF Typed, TypeOK, Memory
<1>1. ASSUME NEW w \in Workers, Start(w) \/ GiveUp(w) \/ Refuse(w) \/ ClaimReplay(w)
      PROVE  Exclusive'
  <2>1. /\ UNCHANGED <<head, source, ended, calls>>
        /\ \A v \in Workers \ {w} : me'[v] = me[v]
    BY <1>0, <1>1 DEF Start, GiveUp, Refuse, ClaimReplay, Go
  <2>2. me'[w].at \notin Out
    <3>1. CASE Start(w) \/ GiveUp(w) \/ Refuse(w)
      BY <1>0, <3>1 DEF Start, GiveUp, Refuse, Go, AfterRefusal, Out, Memory
    <3>2. CASE ClaimReplay(w)
      <4>1. head \in Record /\ CallOf(head) = <<me[w].source, me[w].turn>> /\ me[w].turn <= MaxTurns
        BY <1>0, <3>2 DEF ClaimReplay, Mine, Claiming, Typed, TypeOK
      <4>2. me'[w] = Onward(me[w], head)
        BY <1>0, <3>2 DEF ClaimReplay
      <4> QED BY <1>0, <4>1, <4>2, OnwardTyped DEF Out
    <3> QED BY <1>1, <3>1, <3>2
  <2>3. CallsBehindHead' /\ HeadMayBeTried'
    BY <2>1 DEF Exclusive, CallsBehindHead, HeadMayBeTried, Undelivered
  <2> QED BY <2>1, <2>2, <2>3, ExclusiveKept
<1>2. ASSUME NEW w \in Workers, Pause(w) \/ Stop(w) PROVE Exclusive'
  <2>1. /\ head' = None /\ calls' = calls
        /\ (source' = source + 1 \/ (source' = source /\ ended'))
        /\ \A v \in Workers \ {w} : me'[v] = me[v]
        /\ me'[w].at = "gone"
    BY <1>0, <1>2 DEF Pause, Stop, Go, Memory
  <2>2. CallsBehindHead' /\ HeadMayBeTried'
    BY <1>0, <2>1 DEF Exclusive, CallsBehindHead, HeadMayBeTried
  <2> QED BY <2>1, <2>2, ExclusiveKept DEF Out
<1>3. CASE UNCHANGED vars
  BY <1>3 DEF vars, Exclusive, CallsBehindHead, HeadMayBeTried, OneCallOut, OutIsUndelivered,
              Undelivered, Open
<1> QED BY <1>1, <1>2, <1>3, ClaimExclusive, AdmitExclusive, CloseExclusive, InvokeExclusive,
           ReturnExclusive DEF Next, Step

(* What is known to be undelivered stays so, and only such a call is made
   again: no step breaks NoBlindRedispatch.                                *)
LEMMA RedispatchStep ==
    Typed /\ Known /\ Exclusive /\ NoBlindRedispatch /\ [Next]_vars => NoBlindRedispatch'
<1> SUFFICES ASSUME Typed, Known, Exclusive, NoBlindRedispatch, [Next]_vars
             PROVE  NoBlindRedispatch'
  OBVIOUS
<1>0. calls \in Seq(CallRow) /\ Len(calls) \in Nat /\ DOMAIN calls = 1 .. Len(calls)
  BY DEF Typed, TypeOK, CallRow
<1>1. ASSUME NEW w \in Workers, Invoke(w) PROVE NoBlindRedispatch'
  <2>1. PICK c \in CallRow : calls' = Append(calls, c)
    <3>1. me[w] \in Memory /\ me[w].kept \in Record /\ CallOf(me[w].kept) = <<me[w].source, me[w].turn>>
      BY <1>1 DEF Invoke, Typed, TypeOK, Memory, ClaimsRemembered, Remembers, Claimant, Out
    <3> QED BY <1>1, <3>1 DEF Invoke, CallRow, Memory, Record, CallOf, Turns
  <2>2. /\ DOMAIN calls' = DOMAIN calls \union {Len(calls) + 1}
        /\ \A i \in DOMAIN calls : calls'[i] = calls[i] /\ i <= Len(calls)
    BY <1>0, <2>1, CallMade
  <2>3. \A i \in DOMAIN calls : CallOf(calls[i]) = CallOf(calls'[Len(calls) + 1])
                                   => calls[i].answer = "safe"
    BY <1>1, InvokeExclusive
  <2> QED BY <1>0, <2>2, <2>3 DEF NoBlindRedispatch
<1>2. ASSUME NEW w \in Workers, NEW a \in Answers, Return(w, a) PROVE NoBlindRedispatch'
  <2>1. /\ DOMAIN calls' = DOMAIN calls
        /\ \A i \in DOMAIN calls :
              /\ CallOf(calls'[i]) = CallOf(calls[i])
              /\ calls'[i].answer = IF Open(w, i) THEN a ELSE calls[i].answer
    BY <1>0, <1>2, CallAnswered DEF Return
  <2> QED BY <2>1, NoneAssumption DEF NoBlindRedispatch, Open, Outcomes, Answers, Failures
<1>3. CASE UNCHANGED calls
  BY <1>3 DEF NoBlindRedispatch
<1> QED BY <1>1, <1>2, <1>3 DEF Next, Step, Start, GiveUp, ClaimFirst, ClaimNext, ClaimExpired,
           ClaimReplay, Admit, CloseUninvoked, Settle, Retry, Pause, Stop, Refuse, vars

(* A call is made physically again only after the one before was answered
   with a proof that it was never delivered, whoever made it and whoever
   crashed in between: no worker redispatches an uncertain effect.         *)
THEOREM NeverBlindlyRedispatched == Spec => []NoBlindRedispatch
<1> DEFINE IInv == Typed /\ Known /\ Exclusive /\ NoBlindRedispatch
<1>1. Init => IInv
  BY TypedInit, KnownInit, ExclusiveInit DEF Init, NoBlindRedispatch
<1>2. IInv /\ [Next]_vars => IInv'
  BY TypedStep, KnownStep, ExclusiveStep, RedispatchStep
<1>3. IInv => NoBlindRedispatch
  OBVIOUS
<1> QED BY <1>1, <1>2, <1>3, PTL DEF Spec

-----------------------------------------------------------------------------
(* Invocations and answers as the generations see them.                    *)
LEMMA InvokeAccounted ==
    ASSUME Typed, Known, Exclusive, Accounted, NEW w \in Workers, Invoke(w)
    PROVE  Accounted'
<1> DEFINE c == [source |-> me[w].source, turn |-> me[w].turn, gen |-> me[w].kept.gen,
                 by |-> w, answer |-> None]
           n == Len(calls) + 1
<1>0. /\ me[w] \in Memory /\ Remembers(me[w], w) /\ me[w].at = "admitted"
      /\ me[w].kept \in Record /\ CallOf(me[w].kept) = <<me[w].source, me[w].turn>>
      /\ UNCHANGED <<head, source, ended>> /\ calls' = Append(calls, c)
      /\ calls \in Seq(CallRow)
  BY DEF Invoke, Typed, TypeOK, Memory, ClaimsRemembered, Remembers, Claimant, Out, CallRow
<1>1. c \in CallRow
  BY <1>0 DEF CallRow, Memory, Record, CallOf, Turns
<1>2. /\ DOMAIN calls' = DOMAIN calls \union {n} /\ calls'[n] = c /\ n \notin DOMAIN calls
      /\ \A i \in DOMAIN calls : calls'[i] = calls[i]
      /\ CallOf(c) = CallOf(me[w].kept) /\ c.gen = me[w].kept.gen
      /\ c.by = w /\ c.answer = None
  BY <1>0, <1>1, CallMade DEF CallOf
<1>3. /\ \A v \in Workers \ {w} : me'[v] = me[v]
      /\ me'[w].at = "inside" /\ me'[w].kept = me[w].kept
  BY <1>0 DEF Invoke, Go, Typed, TypeOK, Memory
<1>4. head # None /\ CallOf(c) = CallOf(head) =>
         head = me[w].kept /\ head.status = "dispatching" /\ head.outcome = None
  <2>1. \/ head # None /\ head = me[w].kept /\ head.status = "dispatching"
        \/ source > me[w].source
        \/ ended
    BY <1>0 DEF Known, JournalKnowsOpenCall
  <2>2. head # None /\ CallOf(c) = CallOf(head) => ~ended /\ me[w].source = source
    BY <1>0, <1>2 DEF Known, HeadIsCurrent, CallOf
  <2> QED BY <1>0, <2>1, <2>2 DEF Typed, TypeOK, Remembers, Claimant, Out
<1>5. GenerationsGrow'
  BY <1>0, <1>2, <1>4 DEF Accounted, GenerationsGrow, Uninvoked, Record
<1>6. OutcomesKept'
  <2>1. \A v \in Workers \ {w} : me[v].at = "admitted" => CallOf(me[v].kept) # CallOf(c)
    BY <1>0, <1>2 DEF Exclusive, OneCallOut, Out
  <2>2. ASSUME NEW v \in Workers \ {w}
        PROVE  /\ me'[v].at = "admitted" => Uninvoked(me[v].kept)'
               /\ me'[v].at = "inside" =>
                     \E i \in DOMAIN calls' : OfClaim(i, me[v].kept)' /\ Open(v, i)'
               /\ me'[v].at = "outcome" =>
                     \E i \in DOMAIN calls' : OfClaim(i, me[v].kept)'
                                              /\ calls'[i].answer = me'[v].answer
    BY <1>2, <1>3, <2>1, <2>2 DEF Accounted, OutcomesKept, Uninvoked, OfClaim, Open
  <2>3. \E i \in DOMAIN calls' : OfClaim(i, me[w].kept)' /\ Open(w, i)'
    <3>1. /\ n \in DOMAIN calls' /\ calls'[n].by = w /\ calls'[n].answer = None
          /\ CallOf(calls'[n]) = CallOf(me'[w].kept) /\ calls'[n].gen = me'[w].kept.gen
      BY <1>2, <1>3
    <3> QED BY <3>1 DEF OfClaim, Open
  <2>4. /\ me'[w].at = "admitted" => Uninvoked(me[w].kept)'
        /\ me'[w].at = "inside" =>
              \E i \in DOMAIN calls' : OfClaim(i, me[w].kept)' /\ Open(w, i)'
        /\ me'[w].at = "outcome" =>
              \E i \in DOMAIN calls' : OfClaim(i, me[w].kept)'
                                       /\ calls'[i].answer = me'[w].answer
    BY <1>3, <2>3
  <2> QED BY <1>3, <2>2, <2>4 DEF OutcomesKept, Uninvoked, OfClaim, Open
<1>7. RecordedOutcomeHappened'
  <2>1. head # None /\ head.outcome # None => CallOf(c) # CallOf(head)
    BY <1>4
  <2>2. head # None /\ head.outcome # None =>
           {i \in DOMAIN calls' : CallOf(calls'[i]) = CallOf(head) /\ calls'[i].gen = head.gen}
           = {i \in DOMAIN calls : CallOf(calls[i]) = CallOf(head) /\ calls[i].gen = head.gen}
    BY <1>2, <2>1
  <2>3. \A i \in DOMAIN calls : calls'[i].answer = calls[i].answer
    BY <1>2
  <2> QED BY <1>0, <2>2, <2>3 DEF Accounted, RecordedOutcomeHappened
<1> QED BY <1>5, <1>6, <1>7 DEF Accounted

(* A worker that leaves its call, or is admitted to a generation that has no
   call yet, changes nothing for the others.                               *)
LEMMA AccountedKept ==
    ASSUME OutcomesKept, NEW w \in Workers, \A v \in Workers \ {w} : me'[v] = me[v],
           calls' = calls,
           me'[w].at \in Out => me'[w].at = "admitted" /\ Uninvoked(me'[w].kept)
    PROVE  OutcomesKept'
BY DEF OutcomesKept, Uninvoked, OfClaim, Open, Out

(* A claim is of a generation nobody invoked.                              *)
LEMMA ClaimAccounted ==
    ASSUME Typed, Known, Exclusive, Accounted, NEW w \in Workers,
           ClaimFirst(w) \/ ClaimNext(w) \/ ClaimExpired(w) \/ Retry(w)
    PROVE  Accounted'
<1>0. /\ head \in Record \union {None} /\ source \in Nat /\ me \in [Workers -> Memory]
      /\ \A i \in DOMAIN calls : calls[i] \in CallRow
  <2>1. calls \in Seq(CallRow)
    BY DEF Typed, TypeOK, CallRow
  <2> QED BY <2>1, ElementOfSeq DEF Typed, TypeOK, Memory
<1>1. /\ calls' = calls /\ source' = source /\ ended' = ended /\ ~ended
      /\ \A v \in Workers \ {w} : me'[v] = me[v]
      /\ me'[w].at = "claimed"
  BY ClaimMade DEF Known
<1>2. /\ head' \in Record /\ head'.outcome = None /\ CallOf(head') = <<source, me[w].turn>>
      /\ head'.gen = IF ClaimFirst(w) \/ ClaimNext(w) THEN 1 ELSE head.gen + 1
      /\ ClaimExpired(w) \/ Retry(w) =>
            head # None /\ head \in Record /\ CallOf(head) = CallOf(head')
  BY ClaimMade DEF Known
<1>3. \A i \in DOMAIN calls : CallOf(calls[i]) = CallOf(head') => calls[i].gen < head'.gen
  <2>1. CASE ClaimFirst(w)
    BY <1>1, <1>2, <2>1 DEF ClaimFirst, Exclusive, CallsBehindHead, CallOf
  <2>2. CASE ClaimNext(w)
    <3>1. head # None /\ me[w].turn = head.turn + 1 /\ head.turn \in Nat
      BY <1>0, <2>2 DEF ClaimNext, CallOf, Record, Turns, Memory
    <3>2. \A i \in DOMAIN calls : calls[i].source = source => calls[i].turn # me[w].turn
      BY <1>0, <1>1, <3>1 DEF Exclusive, CallsBehindHead, CallRow, Turns
    <3> QED BY <1>2, <3>2 DEF CallOf
  <2>3. CASE ~ClaimFirst(w) /\ ~ClaimNext(w)
    <3>1. /\ head # None /\ CallOf(head) = CallOf(head') /\ head'.gen = head.gen + 1
          /\ head.gen \in Nat
      BY <1>2, <2>3 DEF Record
    <3>2. \A i \in DOMAIN calls : calls[i].gen \in Nat
      BY <1>0 DEF CallRow
    <3> QED BY <3>1, <3>2 DEF Accounted, GenerationsGrow
  <2> QED BY <2>1, <2>2, <2>3
<1>4. \A i \in DOMAIN calls : calls[i].gen \in Nat
  BY <1>0 DEF CallRow
<1>5. GenerationsGrow'
  BY <1>1, <1>2, <1>3, <1>4 DEF GenerationsGrow, Uninvoked, Record
<1>6. OutcomesKept'
  BY <1>1, AccountedKept DEF Accounted, Out
<1>7. RecordedOutcomeHappened'
  BY <1>2 DEF RecordedOutcomeHappened
<1> QED BY <1>5, <1>6, <1>7 DEF Accounted

LEMMA AdmitAccounted ==
    ASSUME Typed, Known, Accounted, NEW w \in Workers, Admit(w)
    PROVE  Accounted'
<1>0. /\ head \in Record /\ head # None /\ head = me[w].kept /\ me[w].at = "claimed"
      /\ head' = [head EXCEPT !.status = "dispatching"] /\ calls' = calls
      /\ me' = [me EXCEPT ![w].at = "admitted", ![w].kept = head']
      /\ me \in [Workers -> Memory]
  BY DEF Admit, GoWith, Typed, TypeOK, Memory
<1>1. /\ head' # None /\ CallOf(head') = CallOf(head) /\ head'.gen = head.gen
      /\ head'.status = "dispatching" /\ head'.outcome = None /\ head.status = "claimed"
  BY <1>0, AdmittedTyped DEF Typed, ClaimsRemembered, Remembers, Claimant
<1>2. /\ \A v \in Workers \ {w} : me'[v] = me[v]
      /\ me'[w].at = "admitted" /\ me'[w].kept = head'
  BY <1>0 DEF Memory
<1>3. Uninvoked(head) /\ GenerationsGrow /\ OutcomesKept
  BY <1>0, <1>1 DEF Accounted, GenerationsGrow
<1>4. Uninvoked(head')
  BY <1>1, <1>3 DEF Uninvoked
<1>5. GenerationsGrow'
  BY <1>0, <1>1, <1>3 DEF GenerationsGrow
<1>6. OutcomesKept'
  BY <1>0, <1>2, <1>3, <1>4, AccountedKept
<1>7. RecordedOutcomeHappened'
  BY <1>1 DEF RecordedOutcomeHappened
<1> QED BY <1>5, <1>6, <1>7 DEF Accounted

(* The outcome recorded is that of the worker's own call, if it made one.  *)
LEMMA CloseAccounted ==
    ASSUME Typed, Typed', Known, Accounted, NEW w \in Workers, CloseUninvoked(w) \/ Settle(w)
    PROVE  Accounted'
<1>0. /\ head \in Record /\ head # None /\ head = me[w].kept /\ calls' = calls
      /\ Remembers(me[w], w) /\ me[w].at \in Claimant /\ me[w] \in Memory
  BY DEF CloseUninvoked, Settle, Typed, TypeOK, Memory, ClaimsRemembered, Claimant, Out
<1>1. /\ \A v \in Workers \ {w} : me'[v] = me[v]
      /\ CloseUninvoked(w) => head' = Closed(head, "stopped")
      /\ Settle(w) => head' = Closed(head, me[w].answer) /\ me[w].at = "outcome"
  BY DEF CloseUninvoked, Settle, GoWith, Typed, TypeOK
<1>2. Settle(w) => me[w].answer \in Answers /\ me[w].answer \in Outcomes
  BY <1>0 DEF Settle, Remembers, Outcomes
<1>3. /\ head' # None /\ CallOf(head') = CallOf(head) /\ head'.gen = head.gen
      /\ head'.status # "claimed" /\ head' \in Record
      /\ head'.outcome = IF Settle(w) THEN me[w].answer ELSE "stopped"
  BY <1>0, <1>1, <1>2, ClosedTyped DEF Outcomes
<1>4. me'[w].at \notin Out
  <2>1. CASE CloseUninvoked(w)
    BY <2>1 DEF CloseUninvoked, GoWith, Out, Typed, TypeOK
  <2>2. CASE Settle(w)
    <3>1. CallOf(head') = <<me[w].source, me[w].turn>> /\ me[w].turn <= MaxTurns
      BY <1>0, <1>3 DEF Remembers, CallOf, Record, Turns, Claimant
    <3>2. me'[w] = Onward(me[w], head')
      BY <2>2 DEF Settle, Typed, TypeOK
    <3> QED BY <1>0, <1>3, <3>1, <3>2, OnwardTyped DEF Out
  <2> QED BY <2>1, <2>2
<1>5. GenerationsGrow'
  BY <1>0, <1>3 DEF Accounted, GenerationsGrow
<1>6. OutcomesKept'
  BY <1>0, <1>1, <1>4, AccountedKept DEF Accounted
<1>7. RecordedOutcomeHappened'
  <2>1. CASE Settle(w)
    <3>1. me[w].answer # "stopped"
      BY <1>2, <2>1 DEF Answers, Results, Failures
    <3>2. PICK i \in DOMAIN calls : OfClaim(i, head) /\ calls[i].answer = me[w].answer
      BY <1>0, <1>1, <2>1 DEF Accounted, OutcomesKept
    <3> QED BY <1>0, <1>3, <2>1, <3>1, <3>2 DEF RecordedOutcomeHappened, OfClaim
  <2>2. CASE ~Settle(w)
    <3>1. me[w].at \in {"claimed", "admitted"}
      BY <2>2 DEF CloseUninvoked
    <3>2. \A i \in DOMAIN calls : CallOf(calls[i]) = CallOf(head) => calls[i].gen < head.gen
      BY <1>0, <3>1 DEF Accounted, GenerationsGrow, OutcomesKept, Uninvoked, Remembers, Claimant, Out
    <3>3. \A i \in DOMAIN calls : CallOf(calls[i]) = CallOf(head) => calls[i].gen # head.gen
      BY <1>0, <3>2 DEF Record
    <3> QED BY <1>0, <1>3, <2>2, <3>3 DEF RecordedOutcomeHappened
  <2> QED BY <2>1, <2>2
<1> QED BY <1>5, <1>6, <1>7 DEF Accounted

(* An answer is of the generation that was invoked, and closes no record.  *)
LEMMA ReturnAccounted ==
    ASSUME Typed, Known, Accounted, NEW w \in Workers, NEW a \in Answers, Return(w, a)
    PROVE  Accounted'
<1>0. /\ UNCHANGED <<head, source, ended>> /\ me[w].at = "inside" /\ calls \in Seq(CallRow)
      /\ calls' = [i \in DOMAIN calls |->
                     IF Open(w, i) THEN [calls[i] EXCEPT !.answer = a] ELSE calls[i]]
  BY DEF Return, Typed, TypeOK, CallRow
<1>1. /\ DOMAIN calls' = DOMAIN calls
      /\ \A i \in DOMAIN calls :
            /\ calls'[i].gen = calls[i].gen /\ calls'[i].by = calls[i].by
            /\ CallOf(calls'[i]) = CallOf(calls[i])
            /\ calls'[i].answer = IF Open(w, i) THEN a ELSE calls[i].answer
  BY <1>0, CallAnswered
<1>2. /\ \A v \in Workers \ {w} : me'[v] = me[v]
      /\ me'[w].at = "outcome" /\ me'[w].answer = a /\ me'[w].kept = me[w].kept
  BY DEF Return, Typed, TypeOK
<1>3. GenerationsGrow'
  BY <1>0, <1>1 DEF Accounted, GenerationsGrow, Uninvoked
<1>4. ASSUME NEW v \in Workers
      PROVE  /\ me'[v].at = "admitted" => Uninvoked(me[v].kept)'
             /\ me'[v].at = "inside" =>
                   \E i \in DOMAIN calls' : OfClaim(i, me[v].kept)' /\ Open(v, i)'
             /\ me'[v].at = "outcome" =>
                   \E i \in DOMAIN calls' : OfClaim(i, me[v].kept)'
                                            /\ calls'[i].answer = me'[v].answer
  <2>1. CASE v = w
    <3>1. PICK i \in DOMAIN calls : OfClaim(i, me[w].kept) /\ Open(w, i)
      BY <1>0 DEF Accounted, OutcomesKept
    <3>2. i \in DOMAIN calls' /\ OfClaim(i, me[w].kept)' /\ calls'[i].answer = a
      BY <1>1, <1>2, <3>1 DEF OfClaim
    <3> QED BY <1>2, <2>1, <3>2
  <2>2. CASE v # w
    <3>1. me'[v] = me[v]
      BY <1>2, <2>2
    <3>2. \A i \in DOMAIN calls : calls[i].by = v => calls'[i].answer = calls[i].answer
      BY <1>1, <2>2 DEF Open
    <3>3. me[v].at = "admitted" => Uninvoked(me[v].kept)'
      BY <1>1, <3>1 DEF Accounted, OutcomesKept, Uninvoked
    <3>4. me[v].at = "inside" =>
             \E i \in DOMAIN calls' : OfClaim(i, me[v].kept)' /\ Open(v, i)'
      BY <1>1, <3>1, <3>2 DEF Accounted, OutcomesKept, OfClaim, Open
    <3>5. me[v].at = "outcome" =>
             \E i \in DOMAIN calls' : OfClaim(i, me[v].kept)' /\ calls'[i].answer = me'[v].answer
      <4> SUFFICES ASSUME me[v].at = "outcome"
                   PROVE  \E i \in DOMAIN calls' : OfClaim(i, me[v].kept)'
                                                   /\ calls'[i].answer = me'[v].answer
        OBVIOUS
      <4>1. PICK i \in DOMAIN calls : OfClaim(i, me[v].kept) /\ calls[i].answer = me[v].answer
        BY DEF Accounted, OutcomesKept
      <4>2. ~Open(w, i)
        BY <4>1, NoneAssumption DEF Typed, ClaimsRemembered, Remembers, Open, Outcomes
      <4> QED BY <1>1, <3>1, <4>1, <4>2 DEF OfClaim
    <3> QED BY <3>1, <3>3, <3>4, <3>5
  <2> QED BY <2>1, <2>2
<1>5. OutcomesKept'
  BY <1>4 DEF OutcomesKept, Uninvoked, OfClaim, Open
<1>6. RecordedOutcomeHappened'
  <2> SUFFICES ASSUME head # None, head.outcome # None
               PROVE  RecordedOutcomeHappened'
    BY <1>0 DEF RecordedOutcomeHappened
  <2> DEFINE mine == {i \in DOMAIN calls : CallOf(calls[i]) = CallOf(head) /\ calls[i].gen = head.gen}
  <2>1. {i \in DOMAIN calls' : CallOf(calls'[i]) = CallOf(head) /\ calls'[i].gen = head.gen} = mine
    BY <1>1
  <2>2. \A i \in mine : calls[i].answer = head.outcome => calls'[i].answer = head.outcome
    BY <1>1 DEF Open
  <2>3. IF head.outcome = "stopped" THEN mine = {}
                                    ELSE \E i \in mine : calls[i].answer = head.outcome
    BY DEF Accounted, RecordedOutcomeHappened
  <2> HIDE DEF mine
  <2> QED BY <1>0, <2>1, <2>2, <2>3 DEF RecordedOutcomeHappened
<1> QED BY <1>3, <1>5, <1>6 DEF Accounted

LEMMA AccountedInit == Init => Accounted
BY DEF Init, Accounted, GenerationsGrow, OutcomesKept, RecordedOutcomeHappened

LEMMA AccountedStep ==
    Typed /\ Typed' /\ Known /\ Exclusive /\ Accounted /\ [Next]_vars => Accounted'
<1> SUFFICES ASSUME Typed, Typed', Known, Exclusive, Accounted, [Next]_vars PROVE Accounted'
  OBVIOUS
<1>0. me \in [Workers -> Memory]
  BY DEF Typed, TypeOK, Memory
<1>1. ASSUME NEW w \in Workers, Start(w) \/ GiveUp(w) \/ Refuse(w) \/ ClaimReplay(w)
                                \/ Pause(w) \/ Stop(w)
      PROVE  Accounted'
  <2>1. /\ calls' = calls /\ (head' = head \/ head' = None)
        /\ \A v \in Workers \ {w} : me'[v] = me[v]
    BY <1>0, <1>1 DEF Start, GiveUp, Refuse, ClaimReplay, Pause, Stop, Go
  <2>2. me'[w].at \notin Out
    <3>1. CASE ~ClaimReplay(w)
      BY <1>0, <1>1, <3>1 DEF Start, GiveUp, Refuse, Pause, Stop, Go, AfterRefusal, Out, Memory
    <3>2. CASE ClaimReplay(w)
      <4>1. head \in Record /\ CallOf(head) = <<me[w].source, me[w].turn>> /\ me[w].turn <= MaxTurns
        BY <1>0, <3>2 DEF ClaimReplay, Mine, Claiming, Typed, TypeOK
      <4>2. me'[w] = Onward(me[w], head)
        BY <1>0, <3>2 DEF ClaimReplay
      <4> QED BY <1>0, <4>1, <4>2, OnwardTyped DEF Out
    <3> QED BY <3>1, <3>2
  <2>3. GenerationsGrow' /\ RecordedOutcomeHappened'
    BY <2>1 DEF Accounted, GenerationsGrow, RecordedOutcomeHappened, Uninvoked
  <2>4. OutcomesKept'
    BY <2>1, <2>2, AccountedKept DEF Accounted
  <2> QED BY <2>3, <2>4 DEF Accounted
<1>2. CASE UNCHANGED vars
  BY <1>2 DEF vars, Accounted, GenerationsGrow, OutcomesKept, RecordedOutcomeHappened,
              Uninvoked, OfClaim, Open
<1> QED BY <1>1, <1>2, ClaimAccounted, AdmitAccounted, CloseAccounted, InvokeAccounted,
           ReturnAccounted DEF Next, Step

(* A closed record, which other workers replay instead of calling, tells
   what the physical call of its generation answered, or that none was made. *)
THEOREM RecordedOutcomesHappened == Spec => []RecordedOutcomeHappened
<1> DEFINE IInv == Typed /\ Known /\ Exclusive /\ Accounted
<1>1. Init => IInv
  BY TypedInit, KnownInit, ExclusiveInit, AccountedInit
<1>2. IInv /\ [Next]_vars => IInv'
  BY TypedStep, KnownStep, ExclusiveStep, AccountedStep
<1>3. IInv => RecordedOutcomeHappened
  BY DEF Accounted
<1> QED BY <1>1, <1>2, <1>3, PTL DEF Spec

-----------------------------------------------------------------------------
(* What made a turn due is never unsaid: calls are only added, and the
   answers that ask for a turn are final.                                  *)

LEMMA AnswersStay ==
    ASSUME Typed, [Next]_vars
    PROVE  /\ DOMAIN calls \subseteq DOMAIN calls'
           /\ \A i \in DOMAIN calls :
                 /\ calls'[i].source = calls[i].source /\ calls'[i].turn = calls[i].turn
                 /\ calls[i].answer # None => calls'[i].answer = calls[i].answer
<1>0. calls \in Seq(CallRow)
  BY DEF Typed, TypeOK, CallRow
<1>1. ASSUME NEW w \in Workers, Invoke(w)
      PROVE  DOMAIN calls \subseteq DOMAIN calls' /\ \A i \in DOMAIN calls : calls'[i] = calls[i]
  <2>1. me[w] \in Memory /\ me[w].kept \in Record /\ CallOf(me[w].kept) = <<me[w].source, me[w].turn>>
    BY <1>1 DEF Invoke, Typed, TypeOK, Memory, ClaimsRemembered, Remembers, Claimant, Out
  <2>2. PICK c \in CallRow : calls' = Append(calls, c)
    BY <1>1, <2>1 DEF Invoke, CallRow, Memory, Record, CallOf, Turns
  <2> QED BY <1>0, <2>2, CallMade
<1>2. ASSUME NEW w \in Workers, NEW a \in Answers, Return(w, a)
      PROVE  /\ DOMAIN calls' = DOMAIN calls
             /\ \A i \in DOMAIN calls :
                   /\ calls'[i].source = calls[i].source /\ calls'[i].turn = calls[i].turn
                   /\ calls[i].answer # None => calls'[i].answer = calls[i].answer
  BY <1>0, <1>2, CallAnswered DEF Return, Open
<1>3. CASE UNCHANGED calls
  BY <1>3
<1> QED BY <1>1, <1>2, <1>3 DEF Next, Step, Start, GiveUp, ClaimFirst, ClaimNext, ClaimExpired,
           ClaimReplay, Admit, CloseUninvoked, Settle, Retry, Pause, Stop, Refuse, vars

LEMMA DueStays ==
    ASSUME Typed, [Next]_vars, NEW s, NEW t, Due(s, t)
    PROVE  Due(s, t)'
<1>1. ASSUME NEW j \in DOMAIN calls, Asked(j, s, t) PROVE j \in DOMAIN calls' /\ Asked(j, s, t)'
  BY <1>1, AnswersStay, NoneAssumption DEF Asked, Outcomes, Answers, Results
<1> QED BY <1>1 DEF Due

(* Whatever a step does to the head and to one worker, it owes the rest no
   turn that was not due.                                                  *)
LEMMA TurnsDueKept ==
    ASSUME Typed, [Next]_vars, TurnsDue, NEW w \in Workers,
           \A v \in Workers \ {w} : me'[v] = me[v],
           Due(source, saved.turn)',
           (head # None => Due(head.source, head.turn))',
           (me[w].at \in Turning => Due(me[w].source, me[w].turn))',
           (me[w].at = "pause" =>
               \E j \in DOMAIN calls : /\ calls[j].turn = me[w].turn - 1
                                       /\ calls[j].source = me[w].source
                                       /\ calls[j].answer = "ask")'
    PROVE  TurnsDue'
<1>1. ASSUME NEW v \in Workers \ {w}, me'[v].at \in Turning
      PROVE  Due(me[v].source, me[v].turn)'
  <2>1. me'[v] = me[v] /\ Due(me[v].source, me[v].turn)
    BY <1>1 DEF TurnsDue
  <2> QED BY <2>1, DueStays DEF Due, Asked
<1>2. ASSUME NEW v \in Workers \ {w}, me'[v].at = "pause"
      PROVE  (\E j \in DOMAIN calls : /\ calls[j].turn = me[v].turn - 1
                                      /\ calls[j].source = me[v].source
                                      /\ calls[j].answer = "ask")'
  <2>1. me'[v] = me[v]
    OBVIOUS
  <2>2. PICK j \in DOMAIN calls : /\ calls[j].turn = me[v].turn - 1
                                  /\ calls[j].source = me[v].source
                                  /\ calls[j].answer = "ask"
    BY <1>2, <2>1 DEF TurnsDue
  <2> QED BY <2>1, <2>2, AnswersStay, NoneAssumption DEF Outcomes, Answers, Results
<1>3. \A v \in Workers :
         /\ (me[v].at \in Turning => Due(me[v].source, me[v].turn))'
         /\ (me[v].at = "pause" =>
               \E j \in DOMAIN calls : /\ calls[j].turn = me[v].turn - 1
                                       /\ calls[j].source = me[v].source
                                       /\ calls[j].answer = "ask")'
  BY <1>1, <1>2
<1> QED BY <1>3 DEF TurnsDue

(* Where the loop goes on from a closed record, its answer asked it to.    *)
LEMMA OnwardDue ==
    ASSUME NEW w \in Workers, me[w] \in Memory, me[w].turn <= MaxTurns, [Next]_vars,
           Typed, Due(me[w].source, me[w].turn), RecordedOutcomeHappened',
           calls' = calls, head' \in Record, head' # None,
           CallOf(head') = <<me[w].source, me[w].turn>>, me'[w] = Onward(me[w], head')
    PROVE  /\ (me[w].at \in Turning => Due(me[w].source, me[w].turn))'
           /\ (me[w].at = "pause" =>
                 \E j \in DOMAIN calls : /\ calls[j].turn = me[w].turn - 1
                                         /\ calls[j].source = me[w].source
                                         /\ calls[j].answer = "ask")'
<1>1. /\ me'[w].source = me[w].source /\ me'[w].at \in {"begin", "pause", "retry", "stop"}
      /\ me'[w].at = "begin" => head'.outcome = "more" /\ me'[w].turn = me[w].turn + 1
      /\ me'[w].at = "pause" => head'.outcome = "ask" /\ me'[w].turn = me[w].turn + 1
      /\ me'[w].at = "retry" => me'[w].turn = me[w].turn
  BY OnwardTyped
<1>2. head'.outcome \in {"more", "ask"} =>
         \E i \in DOMAIN calls : CallOf(calls[i]) = CallOf(head') /\ calls[i].answer = head'.outcome
  <2>1. \A a \in {"more", "ask"} : a # "stopped" /\ a # None
    BY NoneAssumption DEF Outcomes, Answers, Results
  <2> QED BY <2>1 DEF RecordedOutcomeHappened
<1>3. me[w].turn \in Int
  BY DEF Memory
<1>4. CASE me'[w].at \in {"begin", "pause"}
  <2>1. PICK i \in DOMAIN calls :
           calls[i].source = me[w].source /\ calls[i].turn = me[w].turn /\ calls[i].answer = head'.outcome
    BY <1>1, <1>2, <1>4 DEF CallOf
  <2>2. calls'[i].source = me'[w].source /\ calls'[i].turn = me'[w].turn - 1 /\ i \in DOMAIN calls'
    BY <1>1, <1>3, <1>4, <2>1
  <2>3. CASE me'[w].at = "begin"
    <3>1. calls'[i].answer = "more"
      BY <1>1, <2>1, <2>3
    <3> QED BY <2>2, <2>3, <3>1 DEF Due, Asked
  <2>4. CASE me'[w].at = "pause"
    <3>1. calls'[i].answer = "ask"
      BY <1>1, <2>1, <2>4
    <3> QED BY <2>2, <2>4, <3>1 DEF Turning, Claimant, Out
  <2> QED BY <1>4, <2>3, <2>4
<1>5. CASE me'[w].at = "retry"
  BY <1>1, <1>5 DEF Due, Asked
<1> QED BY <1>1, <1>4, <1>5 DEF Turning, Claimant, Out

LEMMA TurnsDueInit == Init => TurnsDue
BY DEF Init, TurnsDue, Due, Turning

LEMMA TurnsDueStep ==
    Typed /\ Known /\ Accounted /\ Accounted' /\ TurnsDue /\ [Next]_vars => TurnsDue'
<1> SUFFICES ASSUME Typed, Known, Accounted, Accounted', TurnsDue, [Next]_vars PROVE TurnsDue'
  OBVIOUS
<1>0. /\ me \in [Workers -> Memory] /\ head \in Record \union {None} /\ source \in Nat
      /\ HeadIsCurrent /\ RecordedOutcomeHappened'
  BY DEF Typed, TypeOK, Memory, Known, Accounted
<1>1. ASSUME UNCHANGED <<source, saved>> PROVE Due(source, saved.turn)'
  <2>1. Due(source, saved.turn)
    BY DEF TurnsDue
  <2> QED BY <1>1, <2>1, DueStays DEF Due, Asked
<1>2. ASSUME head' = head PROVE (head # None => Due(head.source, head.turn))'
  <2>1. head # None => Due(head.source, head.turn)
    BY DEF TurnsDue
  <2> QED BY <1>2, <2>1, DueStays DEF Due, Asked
<1>3. ASSUME NEW w \in Workers, Start(w) PROVE TurnsDue'
  <2>1. /\ UNCHANGED <<head, source, saved, calls>> /\ \A v \in Workers \ {w} : me'[v] = me[v]
        /\ me'[w].at = "begin" /\ me'[w].source = source /\ me'[w].turn = Beginning.turn
    BY <1>0, <1>3 DEF Start, Memory
  <2>2. Due(source, Beginning.turn)
    BY <1>0 DEF Beginning, TurnsDue, HeadIsCurrent
  <2>3. (me[w].at \in Turning => Due(me[w].source, me[w].turn))'
    BY <2>1, <2>2 DEF Due, Asked
  <2> QED BY <1>1, <1>2, <2>1, <2>3, TurnsDueKept
<1>4. ASSUME NEW w \in Workers, GiveUp(w) \/ Refuse(w) \/ Stop(w) PROVE TurnsDue'
  <2>1. /\ UNCHANGED <<source, saved, calls>> /\ (head' = head \/ head' = None)
        /\ \A v \in Workers \ {w} : me'[v] = me[v]
        /\ me'[w].at \in {"stop", "gone"}
    BY <1>0, <1>4 DEF GiveUp, Refuse, Stop, Go, AfterRefusal, Memory
  <2>2. me'[w].at \notin Turning /\ me'[w].at # "pause"
    BY <2>1 DEF Turning, Claimant, Out
  <2>3. (head # None => Due(head.source, head.turn))'
    BY <1>2, <2>1
  <2> QED BY <1>1, <2>1, <2>2, <2>3, TurnsDueKept
<1>5. ASSUME NEW w \in Workers, ClaimFirst(w) \/ ClaimNext(w) \/ ClaimExpired(w) \/ Retry(w)
      PROVE  TurnsDue'
  <2>1. /\ UNCHANGED <<source, saved, calls>> /\ \A v \in Workers \ {w} : me'[v] = me[v]
        /\ me'[w].at = "claimed" /\ me'[w].source = me[w].source /\ me'[w].turn = me[w].turn
        /\ head'.source = me[w].source /\ head'.turn = me[w].turn
    BY <1>0, <1>5, ClaimMade
  <2>2. Due(me[w].source, me[w].turn)
    BY <1>5 DEF ClaimFirst, ClaimNext, ClaimExpired, Retry, Claiming, TurnsDue, Turning
  <2>3. (head # None => Due(head.source, head.turn))'
    BY <2>1, <2>2 DEF Due, Asked
  <2>4. (me[w].at \in Turning => Due(me[w].source, me[w].turn))'
    BY <2>1, <2>2 DEF Due, Asked
  <2> QED BY <1>1, <2>1, <2>3, <2>4, TurnsDueKept
<1>6. ASSUME NEW w \in Workers, ClaimReplay(w) \/ Settle(w) PROVE TurnsDue'
  <2>1. /\ UNCHANGED <<source, saved, calls>> /\ \A v \in Workers \ {w} : me'[v] = me[v]
        /\ me'[w] = Onward(me[w], head') /\ me[w] \in Memory /\ head # None /\ head \in Record
        /\ CallOf(head) = <<me[w].source, me[w].turn>> /\ me[w].at \in Turning
    BY <1>0, <1>6 DEF ClaimReplay, Settle, Claiming, Mine, Turning, Claimant, Out, Typed,
                      ClaimsRemembered, Remembers
  <2>2. /\ me[w].turn <= MaxTurns /\ head.source = me[w].source /\ head.turn = me[w].turn
    BY <2>1 DEF CallOf, Record, Turns
  <2>3. /\ head' \in Record /\ head' # None /\ CallOf(head') = CallOf(head)
        /\ head'.source = head.source /\ head'.turn = head.turn
    <3>1. CASE ClaimReplay(w)
      BY <2>1, <3>1 DEF ClaimReplay
    <3>2. CASE Settle(w)
      <4>1. me[w].answer \in Outcomes /\ head' = Closed(head, me[w].answer)
        BY <3>2 DEF Settle, Typed, ClaimsRemembered, Remembers, Outcomes
      <4> QED BY <2>1, <4>1, ClosedTyped
    <3> QED BY <1>6, <3>1, <3>2
  <2>4. Due(me[w].source, me[w].turn)
    BY <2>1 DEF TurnsDue
  <2>5. (head # None => Due(head.source, head.turn))'
    BY <2>1, <2>2, <2>3, <2>4 DEF Due, Asked
  <2>6. /\ (me[w].at \in Turning => Due(me[w].source, me[w].turn))'
        /\ (me[w].at = "pause" =>
              \E j \in DOMAIN calls : /\ calls[j].turn = me[w].turn - 1
                                      /\ calls[j].source = me[w].source
                                      /\ calls[j].answer = "ask")'
    BY <1>0, <2>1, <2>2, <2>3, <2>4, OnwardDue
  <2> QED BY <1>1, <2>1, <2>5, <2>6, TurnsDueKept
<1>7. ASSUME NEW w \in Workers, Admit(w) \/ CloseUninvoked(w) PROVE TurnsDue'
  <2>1. /\ UNCHANGED <<source, saved, calls>> /\ \A v \in Workers \ {w} : me'[v] = me[v]
        /\ me'[w].at \in {"admitted", "stop"} /\ me[w].at \in Turning
        /\ me'[w].source = me[w].source /\ me'[w].turn = me[w].turn
        /\ head'.source = head.source /\ head'.turn = head.turn /\ head # None
    BY <1>0, <1>7 DEF Admit, CloseUninvoked, Closed, GoWith, Memory, Record, Turning, Claimant, Out
  <2>2. Due(me[w].source, me[w].turn) /\ Due(head.source, head.turn)
    BY <2>1 DEF TurnsDue
  <2>3. (head # None => Due(head.source, head.turn))'
    BY <2>1, <2>2 DEF Due, Asked
  <2>4. (me[w].at \in Turning => Due(me[w].source, me[w].turn))'
    BY <2>1, <2>2 DEF Due, Asked
  <2> QED BY <1>1, <2>1, <2>3, <2>4, TurnsDueKept
<1>8. ASSUME NEW w \in Workers, Invoke(w) \/ \E a \in Answers : Return(w, a) PROVE TurnsDue'
  <2>1. /\ UNCHANGED <<head, source, saved>> /\ \A v \in Workers \ {w} : me'[v] = me[v]
        /\ me'[w].at \in {"inside", "outcome"} /\ me[w].at \in Turning
        /\ me'[w].source = me[w].source /\ me'[w].turn = me[w].turn
    BY <1>0, <1>8 DEF Invoke, Return, Go, Memory, Turning, Claimant, Out
  <2>2. Due(me[w].source, me[w].turn)
    BY <2>1 DEF TurnsDue
  <2>3. (me[w].at \in Turning => Due(me[w].source, me[w].turn))'
    BY <2>1, <2>2, DueStays DEF Due, Asked
  <2> QED BY <1>1, <1>2, <2>1, <2>3, TurnsDueKept
<1>9. ASSUME NEW w \in Workers, Pause(w) PROVE TurnsDue'
  <2>1. /\ source' = source + 1 /\ saved'.turn = me[w].turn /\ head' = None /\ calls' = calls
        /\ \A v \in Workers \ {w} : me'[v] = me[v]
        /\ me'[w].at = "gone" /\ me[w].at = "pause" /\ me[w].source \in Nat /\ me[w].source <= source
    BY <1>0, <1>9 DEF Pause, Go, Memory, HeadIsCurrent
  <2>2. PICK j \in DOMAIN calls : /\ calls[j].turn = me[w].turn - 1
                                  /\ calls[j].source = me[w].source
                                  /\ calls[j].answer = "ask"
    BY <2>1 DEF TurnsDue
  <2>3. Due(source, saved.turn)'
    BY <1>0, <2>1, <2>2 DEF Due, Asked
  <2>4. me'[w].at \notin Turning /\ me'[w].at # "pause"
    BY <2>1 DEF Turning, Claimant, Out
  <2> QED BY <2>1, <2>3, <2>4, TurnsDueKept
<1>10. CASE UNCHANGED vars
  BY <1>10 DEF vars, TurnsDue, Due, Asked
<1> QED BY <1>3, <1>4, <1>5, <1>6, <1>7, <1>8, <1>9, <1>10 DEF Next, Step

(* A turn that is asked is due.                                            *)
LEMMA TurnsFollowStep ==
    Typed /\ TurnsDue /\ TurnsFollowAnswers /\ [Next]_vars => TurnsFollowAnswers'
<1> SUFFICES ASSUME Typed, TurnsDue, TurnsFollowAnswers, [Next]_vars
             PROVE  TurnsFollowAnswers'
  OBVIOUS
<1>0. calls \in Seq(CallRow) /\ Len(calls) \in Nat /\ DOMAIN calls = 1 .. Len(calls)
  BY DEF Typed, TypeOK, CallRow
<1>1. ASSUME NEW i \in DOMAIN calls
      PROVE  \/ calls'[i].turn = 1 /\ calls'[i].source = 0
             \/ \E j \in 1 .. i - 1 :
                   /\ calls'[j].turn = calls'[i].turn - 1
                   /\ IF calls'[j].source = calls'[i].source
                        THEN calls'[j].answer = "more"
                        ELSE calls'[j].source < calls'[i].source /\ calls'[j].answer = "ask"
  <2>1. CASE calls[i].turn = 1 /\ calls[i].source = 0
    BY <2>1, AnswersStay
  <2>2. CASE ~(calls[i].turn = 1 /\ calls[i].source = 0)
    <3>1. PICK j \in 1 .. i - 1 :
             /\ calls[j].turn = calls[i].turn - 1
             /\ IF calls[j].source = calls[i].source
                  THEN calls[j].answer = "more"
                  ELSE calls[j].source < calls[i].source /\ calls[j].answer = "ask"
      BY <2>2 DEF TurnsFollowAnswers
    <3>2. j \in DOMAIN calls /\ calls[j].answer # None
      BY <1>0, <3>1, NoneAssumption DEF Outcomes, Answers, Results
    <3> QED BY <3>1, <3>2, AnswersStay
  <2> QED BY <2>1, <2>2
<1>2. ASSUME NEW w \in Workers, Invoke(w) PROVE TurnsFollowAnswers'
  <2>1. /\ me[w] \in Memory /\ me[w].kept \in Record /\ Due(me[w].source, me[w].turn)
        /\ CallOf(me[w].kept) = <<me[w].source, me[w].turn>>
    BY <1>2 DEF Invoke, Typed, TypeOK, Memory, ClaimsRemembered, Remembers, Claimant, Out,
                TurnsDue, Turning
  <2>2. PICK c \in CallRow :
           calls' = Append(calls, c) /\ c.source = me[w].source /\ c.turn = me[w].turn
    BY <1>2, <2>1 DEF Invoke, CallRow, Memory, Record, CallOf, Turns
  <2>3. /\ DOMAIN calls' = DOMAIN calls \union {Len(calls) + 1} /\ calls'[Len(calls) + 1] = c
        /\ \A i \in DOMAIN calls : calls'[i] = calls[i]
    BY <1>0, <2>2, CallMade
  <2>4. \/ c.turn = 1 /\ c.source = 0
        \/ \E j \in 1 .. Len(calls) + 1 - 1 :
              /\ calls'[j].turn = c.turn - 1
              /\ IF calls'[j].source = c.source
                   THEN calls'[j].answer = "more"
                   ELSE calls'[j].source < c.source /\ calls'[j].answer = "ask"
    BY <1>0, <2>1, <2>2, <2>3 DEF Due, Asked
  <2> QED BY <1>1, <2>3, <2>4 DEF TurnsFollowAnswers
<1>3. ASSUME DOMAIN calls' = DOMAIN calls PROVE TurnsFollowAnswers'
  BY <1>1, <1>3 DEF TurnsFollowAnswers
<1>4. ASSUME NEW w \in Workers, NEW a \in Answers, Return(w, a) PROVE DOMAIN calls' = DOMAIN calls
  BY <1>4 DEF Return
<1> QED BY <1>2, <1>3, <1>4 DEF Next, Step, Start, GiveUp, ClaimFirst, ClaimNext, ClaimExpired,
           ClaimReplay, Admit, CloseUninvoked, Settle, Retry, Pause, Stop, Refuse, vars

(* A turn is asked only on the answers before it, even by workers that
   replay them or resume.                                                  *)
THEOREM TurnsFollow == Spec => []TurnsFollowAnswers
<1> DEFINE IInv == Typed /\ Known /\ Exclusive /\ Accounted /\ TurnsDue /\ TurnsFollowAnswers
<1>1. Init => IInv
  BY TypedInit, KnownInit, ExclusiveInit, AccountedInit, TurnsDueInit
     DEF Init, TurnsFollowAnswers
<1>2. IInv /\ [Next]_vars => IInv'
  BY TypedStep, KnownStep, ExclusiveStep, AccountedStep, TurnsDueStep, TurnsFollowStep
<1>3. IInv => TurnsFollowAnswers
  OBVIOUS
<1> QED BY <1>1, <1>2, <1>3, PTL DEF Spec
-----------------------------------------------------------------------------
(* The calls with the Working Set they are asked on.                        *)

SpecRecord == [attempt: Attempts, rev: Nat, prev: Nat, parent: Attempts \union {None},
               pins: Pins, committed: BOOLEAN, by: Evidence \union {None}]
Stages == {"new", "initial", "commit", "ready", "refused", "granted"}
AskedRow == [view: Nat, plan: Proposal \union {None}, filed: BOOLEAN]

Holding == Claimant \union {"retry"}

(* A worker has a view when it has a claim or a proposal.                   *)
SelectionOK ==
    /\ sets \in Seq(SpecRecord)
    /\ bound \in Nat
    /\ wish \in Proposal \union {None}
    /\ stage \in [Workers -> Stages]
    /\ view \in [Workers -> 0 .. Current]
    /\ plan \in [Workers -> Proposal \union {None}]
    /\ asked \in Seq(AskedRow) /\ Len(asked) = Len(calls)
    /\ \A w \in Workers :
          /\ me[w].at = "new" => plan[w] = None
          /\ me[w].at \in Holding => view[w] > 0
          /\ me[w].at = "begin" /\ plan[w] # None => view[w] > 0
          /\ stage[w] = "granted" => me[w].at = "begin" /\ plan[w] # None

(* A record is known by its holder, turn and generation: the holder has not
   gone back behind it.                                                    *)
Past(h) ==
    LET m == me[h.holder]
    IN  /\ m.at # "new" /\ h.source = m.source /\ h.turn <= m.turn
        /\ m.at = "begin" => h.turn < m.turn
        /\ m.at \in Holding /\ h.turn = m.turn => h.gen <= m.kept.gen
        /\ m.at \in Claimant /\ h.turn = m.turn /\ h.gen = m.kept.gen => h.outcome = None
Records ==
    /\ head # None => Past(head)
    /\ \A w \in Workers :
          /\ me[w].kept # None => Past(me[w].kept)
          /\ me[w].at = "retry" => me[w].kept.outcome = "safe"

(* The current record is of the current revision, and so is the view of
   whoever holds it.                                                       *)
ViewsCurrent ==
    /\ head # None => bound = Current /\ Current > 0
    /\ \A w \in Workers :
          me[w].at \in Holding /\ head # None /\ head = me[w].kept => view[w] = Current

(* As of ProviderCall, but of the calls on one view.                       *)
UndeliveredOn(c, v) ==
    \A i \in DOMAIN calls : CallOf(calls[i]) = c /\ asked[i].view = v => calls[i].answer = "safe"
CallsBehindView ==
    \A i \in DOMAIN calls :
        /\ asked[i].view <= Current
        /\ calls[i].source <= source
        /\ calls[i].source = source /\ asked[i].view = Current /\ ~ended =>
              head # None /\ calls[i].turn <= head.turn
HeadMayBeTriedOn ==
    head # None /\ (head.status = "claimed" \/ head.outcome = "safe") =>
        UndeliveredOn(CallOf(head), Current)
OutIsUndeliveredOn ==
    \A w \in Workers :
        /\ me[w].at = "admitted" => UndeliveredOn(CallOf(me[w].kept), view[w])
        /\ me[w].at \in {"inside", "outcome"} =>
              \A i \in DOMAIN calls :
                  CallOf(calls[i]) = CallOf(me[w].kept) /\ asked[i].view = view[w] =>
                      \/ calls[i].answer = "safe"
                      \/ me[w].at = "inside" /\ Open(w, i)
                      \/ me[w].at = "outcome" /\ calls[i].answer = me[w].answer
ExclusiveOn == CallsBehindView /\ HeadMayBeTriedOn /\ OneCallOut /\ OutIsUndeliveredOn

(* A proposal was answered by a call that is closed, on the view it is of.  *)
Vouched(p, v, s) ==
    \E j \in DOMAIN asked :
        /\ asked[j].filed /\ calls[j].answer = "more"
        /\ asked[j].plan = p /\ asked[j].view = v /\ calls[j].source = s
ProposalsVouched ==
    /\ head # None /\ head.outcome = "more" /\ wish # None => Vouched(wish, bound, head.source)
    /\ \A w \in Workers :
          /\ me[w].at = "begin" /\ plan[w] # None =>
                Vouched(plan[w], view[w], me[w].source)
          /\ me[w].at = "inside" =>
                \E j \in DOMAIN asked : Open(w, j) /\ CallOf(calls[j]) = CallOf(me[w].kept)
                                        /\ asked[j].view = view[w]
          /\ me[w].at = "outcome" =>
                \E j \in DOMAIN asked : /\ calls[j].by = w /\ CallOf(calls[j]) = CallOf(me[w].kept)
                                        /\ calls[j].answer = me[w].answer
                                        /\ asked[j].plan = plan[w] /\ asked[j].view = view[w]

(* Whatever is pinned the caller stored, or a committed promotion brought.  *)
Backed(x) == \E j \in DOMAIN sets : Promoted(j) /\ sets[j].committed /\ SourceOf(j) = x
PinsBacked(pins) == \A s \in Slots : pins[s] \in Documents \union {None} \/ Backed(pins[s])
SourcesBacked ==
    /\ \A i \in DOMAIN sets :
          /\ PinsBacked(sets[i].pins)
          /\ sets[i].by # None => sets[i].by.from \in 1 .. i - 1
    /\ wish # None /\ wish.kind = "select" => PinsBacked(wish.pins)
    /\ \A w \in Workers : plan[w] # None /\ plan[w].kind = "select" => PinsBacked(plan[w].pins)

-----------------------------------------------------------------------------
(* What a step leaves alone of the records and the calls.                   *)
Clear ==
    /\ ~ended /\ ~MayStillAct /\ head' = None
    /\ UNCHANGED <<source, saved, ended, me, calls>>

(* A step records revisions, or is one of a worker with a Provider Call, or
   only prepares the turn of a worker that has no claim.                    *)
Longer ==
    /\ sets' \in Seq(SpecRecord) /\ Current' > Current
    /\ \A i \in DOMAIN sets : i \in DOMAIN sets' /\ sets'[i] = sets[i]
Steady ==
    /\ \A v \in Workers : me'[v].at \in Holding => view'[v] = view[v]
    /\ Len(asked') >= Len(asked)
    /\ \A i \in DOMAIN asked : i \in DOMAIN asked' /\ asked'[i].view = asked[i].view
Revised == Clear /\ Longer /\ UNCHANGED <<bound, wish, asked>>
Prepared == UNCHANGED vars /\ UNCHANGED <<sets, bound, wish, asked>>
Worked(w) ==
    \/ /\ \/ Start(w) \/ GiveUp(w) \/ Admit(w) \/ CloseUninvoked(w)
          \/ Retry(w) \/ Pause(w) \/ Stop(w) \/ Refuse(w)
          \/ (\E a \in Answers : Return(w, a)) \/ Settle(w)
       /\ bound' = bound
    \/ (ClaimFirst(w) \/ ClaimNext(w)) /\ Bindable(w) /\ bound' = view[w]
    \/ (ClaimExpired(w) \/ ClaimReplay(w)) /\ Bindable(w) /\ bound' = bound /\ bound = view[w]
    \/ /\ Invoke(w)
       /\ asked' = Append(asked, [view |-> view[w], plan |-> None, filed |-> FALSE])
       /\ bound' = bound

LEMMA SelectionInit == InitSelection => SelectionOK
<1> SUFFICES ASSUME InitSelection PROVE SelectionOK
  OBVIOUS
<1>1. sets \in Seq(SpecRecord) /\ Current = 0 /\ asked \in Seq(AskedRow) /\ Len(asked) = Len(calls)
  BY DEF InitSelection, Init, Current
<1>2. /\ bound \in Nat /\ wish = None /\ plan \in [Workers -> Proposal \union {None}]
      /\ view \in [Workers -> 0 .. 0]
  BY DEF InitSelection
<1>3. stage \in [Workers -> Stages]
  BY DEF InitSelection, Stages
<1>4. \A w \in Workers : me[w].at = "new" /\ plan[w] = None /\ stage[w] # "granted"
  BY DEF InitSelection, Init
<1> QED BY <1>1, <1>2, <1>3, <1>4 DEF SelectionOK, Holding, Claimant, Out

(* The revisions a client or a worker may record are well formed.           *)
LEMMA RevisionTyped ==
    ASSUME NEW r \in SpecRecord, NEW i \in Nat, NEW pins \in Pins,
           NEW e \in Evidence \union {None}
    PROVE  /\ SelectPins(r, i, pins) \in SpecRecord /\ Commit(r, i) \in SpecRecord
           /\ [r EXCEPT !.by = e] \in SpecRecord
           /\ SelectPins(r, i, pins) = [attempt |-> r.attempt, rev |-> r.rev + 1, prev |-> i,
                 parent |-> r.parent, pins |-> pins, committed |-> r.committed, by |-> r.by]
           /\ Commit(r, i) = [attempt |-> r.attempt, rev |-> r.rev + 1, prev |-> i,
                 parent |-> r.parent, pins |-> r.pins, committed |-> TRUE, by |-> r.by]
           /\ [r EXCEPT !.by = e] = [attempt |-> r.attempt, rev |-> r.rev, prev |-> r.prev,
                 parent |-> r.parent, pins |-> r.pins, committed |-> r.committed, by |-> e]
<1> DEFINE n == r.rev + 1
<1>1. n \in Nat
  BY DEF SpecRecord
<1>s. SelectPins(r, i, pins) = [r EXCEPT !.rev = n, !.prev = i, !.pins = pins]
  BY DEF SelectPins
<1>c. Commit(r, i) = [r EXCEPT !.rev = n, !.prev = i, !.committed = TRUE]
  BY DEF Commit
<1>2. SelectPins(r, i, pins) = [attempt |-> r.attempt, rev |-> r.rev + 1, prev |-> i,
         parent |-> r.parent, pins |-> pins, committed |-> r.committed, by |-> r.by]
  <2> HIDE DEF n
  <2>1. SelectPins(r, i, pins) = [attempt |-> r.attempt, rev |-> n, prev |-> i,
           parent |-> r.parent, pins |-> pins, committed |-> r.committed, by |-> r.by]
    BY <1>s DEF SpecRecord
  <2> QED BY <2>1 DEF n
<1>3. Commit(r, i) = [attempt |-> r.attempt, rev |-> r.rev + 1, prev |-> i,
         parent |-> r.parent, pins |-> r.pins, committed |-> TRUE, by |-> r.by]
  <2> HIDE DEF n
  <2>1. Commit(r, i) = [attempt |-> r.attempt, rev |-> n, prev |-> i,
           parent |-> r.parent, pins |-> r.pins, committed |-> TRUE, by |-> r.by]
    BY <1>c DEF SpecRecord
  <2> QED BY <2>1 DEF n
<1>4. [r EXCEPT !.by = e] = [attempt |-> r.attempt, rev |-> r.rev, prev |-> r.prev,
         parent |-> r.parent, pins |-> r.pins, committed |-> r.committed, by |-> e]
  BY DEF SpecRecord
<1> QED BY <1>1, <1>2, <1>3, <1>4 DEF SpecRecord

LEMMA SeedTyped == Seed \in SpecRecord /\ SeedCommitted \in SpecRecord
<1>1. Seed \in SpecRecord
  BY SelectionAssumption DEF Seed, Revision, SpecRecord, Pins
<1>2. NoPins \in Pins
  BY DEF NoPins, Pins
<1> QED BY <1>1, <1>2, RevisionTyped DEF SeedCommitted

LEMMA ReplanTyped ==
    ASSUME sets \in Seq(SpecRecord), NEW i \in DOMAIN sets, NEW a \in Attempts
    PROVE  /\ Replan(i, a) \in SpecRecord /\ i \in Nat
           /\ Replan(i, a) = [attempt |-> a, rev |-> 1, prev |-> i, parent |-> sets[i].attempt,
                              pins |-> NoPins, committed |-> FALSE, by |-> None]
<1>1. sets[i] \in SpecRecord
  BY ElementOfSeq
<1> QED BY <1>1 DEF Replan, Revision, NoPins, SpecRecord, Pins

(* A proposal, its evidence and the pins it leads to are well formed.       *)
LEMMA EvidenceTyped ==
    ASSUME NEW p \in Proposal, NEW v \in Nat, NEW k \in Nat, NEW pins \in Pins, NEW c \in BOOLEAN
    PROVE  /\ [what |-> p, from |-> v, pause |-> k, called |-> c] \in Evidence
           /\ Successor(p, pins, k) \in Pins
<1>1. CASE p.kind = "select"
  BY <1>1 DEF Proposal, Evidence, Successor, Pins
<1>2. CASE p.kind # "select"
  <2>1. p \in [kind: {"promote"}, next: Attempts, slot: Slots, which: SUBSET (1 .. Said)]
    BY <1>2 DEF Proposal
  <2>2. CallerSource(k, p.which) \in CallerSources
    BY <2>1 DEF CallerSource, CallerSources
  <2> QED BY <1>2, <2>1, <2>2 DEF Evidence, Successor, Pins
<1> QED BY <1>1, <1>2

LEMMA Extended ==
    ASSUME sets \in Seq(SpecRecord), NEW r \in SpecRecord, sets' = Append(sets, r)
    PROVE  Longer /\ Current' = Current + 1 /\ sets'[Current + 1] = r
BY DEF Longer, Current

LEMMA RecordingRevises ==
    ASSUME SelectionOK, NEW r \in SpecRecord, Recording(r), me' = me
    PROVE  Revised /\ UNCHANGED <<view, plan>>
BY Extended DEF Recording, Revised, Clear, SelectionOK

(* Who may replan, select and commit, and what the three revisions are.     *)
LEMMA AdmissionRevises ==
    ASSUME SelectionOK, Typed, NEW w \in Workers, AdmitProposal(w)
    PROVE  LET p == plan[w]
               e == [what |-> p, from |-> Current, pause |-> me[w].source, called |-> head # None]
               n == Current
           IN  /\ Revised /\ Current > 0 /\ view[w] = Current /\ p \in Proposal /\ e \in Evidence
               /\ e # None /\ me[w].at = "begin" /\ stage[w] = "granted"
               /\ sets[n] \in SpecRecord /\ sets[n].committed
               /\ Current' = n + 3
               /\ sets'[n + 1] = [attempt |-> p.next, rev |-> 1, prev |-> n,
                                  parent |-> sets[n].attempt, pins |-> NoPins,
                                  committed |-> FALSE, by |-> e]
               /\ sets'[n + 2] = [attempt |-> p.next, rev |-> 2, prev |-> n + 1,
                                  parent |-> sets[n].attempt,
                                  pins |-> Successor(p, sets[n].pins, me[w].source),
                                  committed |-> FALSE, by |-> e]
               /\ sets'[n + 3] = [attempt |-> p.next, rev |-> 3, prev |-> n + 2,
                                  parent |-> sets[n].attempt,
                                  pins |-> Successor(p, sets[n].pins, me[w].source),
                                  committed |-> TRUE, by |-> e]
               /\ SelectionLegal(w, p, n) \/ PromotionLegal(w, p, n)
<1> DEFINE p == plan[w]
           e == [what |-> p, from |-> Current, pause |-> me[w].source, called |-> head # None]
           n == Current
           pins == Successor(p, sets[n].pins, me[w].source)
           r == [Replan(n, p.next) EXCEPT !.by = e]
           s == SelectPins(r, n + 1, pins)
           t == Commit(s, n + 2)
<1>1. /\ sets \in Seq(SpecRecord) /\ n \in Nat /\ view \in [Workers -> 0 .. n]
      /\ p \in Proposal \union {None} /\ me[w].source \in Nat
  BY DEF SelectionOK, Current, Typed, TypeOK
<1>2. /\ view[w] = n /\ ~ended /\ me[w].at = "begin" /\ stage[w] = "granted"
      /\ sets' = sets \o Chain(p, n, me[w].source) /\ head' = None
      /\ UNCHANGED <<source, saved, ended, me, calls, bound, wish, asked>>
  BY DEF AdmitProposal, Admissible
<1>3. /\ SelectionLegal(w, p, n) \/ PromotionLegal(w, p, n)
      /\ sets[n].committed
  BY <1>2 DEF AdmitProposal, Admissible
<1>4. /\ n > 0 /\ n \in DOMAIN sets /\ sets[n] \in SpecRecord
      /\ p \in Proposal /\ p.next \in Attempts
  <2>1. n > 0 /\ p # None
    BY <1>2 DEF SelectionOK
  <2>2. n \in DOMAIN sets
    BY <1>1, <2>1 DEF Current
  <2> QED BY <1>1, <2>1, <2>2, ElementOfSeq DEF Proposal
<1>5. e \in Evidence /\ e # None /\ sets[n].pins \in Pins /\ pins \in Pins
  <2>1. sets[n].pins \in Pins
    BY <1>4 DEF SpecRecord
  <2> DEFINE c == head # None
  <2>2. c \in BOOLEAN
    OBVIOUS
  <2> HIDE DEF c
  <2>3. [what |-> p, from |-> n, pause |-> me[w].source, called |-> c] \in Evidence
    BY <1>1, <1>4, <2>1, <2>2, EvidenceTyped
  <2>4. pins \in Pins
    BY <1>1, <1>4, <2>1, <2>2, EvidenceTyped
  <2> QED BY <2>1, <2>3, <2>4, DigestsAssumption DEF c
<1>6. r \in SpecRecord /\ r = [attempt |-> p.next, rev |-> 1, prev |-> n,
         parent |-> sets[n].attempt, pins |-> NoPins, committed |-> FALSE, by |-> e]
  <2> HIDE DEF e
  <2>1. /\ Replan(n, p.next) \in SpecRecord
        /\ Replan(n, p.next) = [attempt |-> p.next, rev |-> 1, prev |-> n,
              parent |-> sets[n].attempt, pins |-> NoPins, committed |-> FALSE, by |-> None]
    BY <1>1, <1>4, ReplanTyped
  <2>2. NoPins \in Pins
    BY DEF NoPins, Pins
  <2> DEFINE q == Replan(n, p.next)
  <2>3. r = [q EXCEPT !.by = e]
    OBVIOUS
  <2> HIDE DEF q, r
  <2>4. /\ [q EXCEPT !.by = e] \in SpecRecord
        /\ [q EXCEPT !.by = e] = [attempt |-> q.attempt, rev |-> q.rev, prev |-> q.prev,
                 parent |-> q.parent, pins |-> q.pins, committed |-> q.committed, by |-> e]
    <3>1. q \in SpecRecord
      BY <2>1 DEF q
    <3> QED BY <1>5, <2>2, <3>1, RevisionTyped
  <2> QED BY <2>1, <2>3, <2>4 DEF q
<1>7. s \in SpecRecord /\ s = [attempt |-> p.next, rev |-> 2, prev |-> n + 1,
         parent |-> sets[n].attempt, pins |-> pins, committed |-> FALSE, by |-> e]
  <2>1. n + 1 \in Nat
    BY <1>1
  <2> HIDE DEF r, e, n, pins
  <2>2. /\ SelectPins(r, n + 1, pins) \in SpecRecord
        /\ SelectPins(r, n + 1, pins) = [attempt |-> r.attempt, rev |-> r.rev + 1,
              prev |-> n + 1, parent |-> r.parent, pins |-> pins,
              committed |-> r.committed, by |-> r.by]
    <3>1. /\ r \in SpecRecord /\ n + 1 \in Nat /\ pins \in Pins /\ e \in Evidence \union {None}
      BY <1>5, <1>6, <2>1
    <3> QED BY <3>1, RevisionTyped
  <2> QED BY <1>6, <2>2
<1>8. t \in SpecRecord /\ t = [attempt |-> p.next, rev |-> 3, prev |-> n + 2,
         parent |-> sets[n].attempt, pins |-> pins, committed |-> TRUE, by |-> e]
  <2>1. n + 2 \in Nat /\ NoPins \in Pins
    BY <1>1 DEF NoPins, Pins
  <2> HIDE DEF s, e, n, pins
  <2>2. /\ Commit(s, n + 2) \in SpecRecord
        /\ Commit(s, n + 2) = [attempt |-> s.attempt, rev |-> s.rev + 1,
              prev |-> n + 2, parent |-> s.parent, pins |-> s.pins,
              committed |-> TRUE, by |-> s.by]
    BY <1>5, <1>7, <2>1, RevisionTyped
  <2> QED BY <1>7, <2>2
<1>9. Chain(p, n, me[w].source) = <<r, s, t>>
  BY DEF Chain
<1> HIDE DEF r, s, t
<1>10. /\ sets' \in Seq(SpecRecord) /\ Current' = n + 3
       /\ sets'[n + 1] = r /\ sets'[n + 2] = s /\ sets'[n + 3] = t
       /\ \A i \in DOMAIN sets : i \in DOMAIN sets' /\ sets'[i] = sets[i]
  <2> DEFINE c == <<r, s, t>>
  <2>1. c \in Seq(SpecRecord) /\ Len(c) = 3 /\ c[1] = r /\ c[2] = s /\ c[3] = t
    BY <1>6, <1>7, <1>8
  <2>2. sets' = sets \o c
    BY <1>2, <1>9
  <2> HIDE DEF c
  <2>3. /\ sets' \in Seq(SpecRecord) /\ Len(sets') = Len(sets) + 3 /\ Len(sets) \in Nat
        /\ \A i \in 1 .. Len(sets) + 3 :
              sets'[i] = IF i <= Len(sets) THEN sets[i] ELSE c[i - Len(sets)]
    <3>1. sets \in Seq(SpecRecord) /\ c \in Seq(SpecRecord) /\ Len(c) = 3
      BY <1>1, <2>1
    <3>2. /\ sets \o c \in Seq(SpecRecord) /\ Len(sets \o c) = Len(sets) + Len(c)
          /\ \A i \in 1 .. Len(sets) + Len(c) :
                (sets \o c)[i] = IF i <= Len(sets) THEN sets[i] ELSE c[i - Len(sets)]
      BY <3>1, ConcatProperties
    <3> QED BY <2>2, <3>1, <3>2
  <2>4. sets'[Len(sets) + 1] = r /\ sets'[Len(sets) + 2] = s /\ sets'[Len(sets) + 3] = t
    BY <2>1, <2>3
  <2>5. \A i \in DOMAIN sets : i \in DOMAIN sets' /\ sets'[i] = sets[i]
    BY <1>1, <2>3
  <2> QED BY <1>1, <2>3, <2>4, <2>5 DEF Current
<1>11. ~MayStillAct
  BY <1>3 DEF SelectionLegal, PromotionLegal, Proven, MayStillAct
<1>12. Revised
  BY <1>1, <1>2, <1>10, <1>11 DEF Revised, Clear, Longer
<1> QED BY <1>2, <1>3, <1>4, <1>5, <1>6, <1>7, <1>8, <1>10, <1>12

(* A client's revision of one it has read.                                  *)
LEMMA ReviseRevises ==
    ASSUME SelectionOK, Revise
    PROVE  /\ Revised /\ UNCHANGED <<stage, view, plan>>
           /\ \E r \in SpecRecord : /\ sets' = Append(sets, r) /\ r.by = None
                                    /\ PinsBacked(r.pins) \/ \E i \in DOMAIN sets : r.pins = sets[i].pins
<1>1. sets \in Seq(SpecRecord) /\ \A i \in DOMAIN sets : i \in Nat /\ sets[i] \in SpecRecord
  <2>1. sets \in Seq(SpecRecord)
    BY DEF SelectionOK
  <2> QED BY <2>1, ElementOfSeq
<1>2. PICK i \in DOMAIN sets :
         \E r \in ({Replan(i, a) : a \in Attempts}
                   \union {SelectPins(sets[i], i, pins) : pins \in [Slots -> Documents]}
                   \union {Commit(sets[i], i)}) : Recording([r EXCEPT !.by = None])
  BY DEF Revise
<1>3. PICK r \in ({Replan(i, a) : a \in Attempts}
                   \union {SelectPins(sets[i], i, pins) : pins \in [Slots -> Documents]}
                   \union {Commit(sets[i], i)}) : Recording([r EXCEPT !.by = None])
  BY <1>2
<1>4. NoPins \in Pins /\ [Slots -> Documents] \subseteq Pins /\ None \in Evidence \union {None}
  BY DEF NoPins, Pins
<1> DEFINE Fine == r \in SpecRecord /\ (PinsBacked(r.pins) \/ r.pins = sets[i].pins)
<1>5. Fine
  <2>1. ASSUME NEW a \in Attempts, r = Replan(i, a) PROVE Fine
    <3>1. r \in SpecRecord /\ r.pins = NoPins
      BY <1>1, <2>1, ReplanTyped
    <3> QED BY <3>1 DEF PinsBacked, NoPins
  <2>2. ASSUME NEW pins \in [Slots -> Documents], r = SelectPins(sets[i], i, pins) PROVE Fine
    <3>1. r \in SpecRecord /\ r.pins = pins
      <4>1. /\ SelectPins(sets[i], i, pins) \in SpecRecord
            /\ SelectPins(sets[i], i, pins) =
                 [attempt |-> sets[i].attempt, rev |-> sets[i].rev + 1, prev |-> i,
                  parent |-> sets[i].parent, pins |-> pins, committed |-> sets[i].committed,
                  by |-> sets[i].by]
        BY <1>1, <1>4, RevisionTyped
      <4> QED BY <2>2, <4>1
    <3> QED BY <3>1 DEF PinsBacked
  <2>3. ASSUME r = Commit(sets[i], i) PROVE Fine
    <3>1. /\ Commit(sets[i], i) \in SpecRecord
          /\ Commit(sets[i], i) =
               [attempt |-> sets[i].attempt, rev |-> sets[i].rev + 1, prev |-> i,
                parent |-> sets[i].parent, pins |-> sets[i].pins, committed |-> TRUE,
                by |-> sets[i].by]
      BY <1>1, <1>4, RevisionTyped
    <3> QED BY <2>3, <3>1
  <2> QED BY <2>1, <2>2, <2>3
<1> DEFINE q == [r EXCEPT !.by = None]
<1>6. q \in SpecRecord /\ q.by = None /\ q.pins = r.pins
  BY <1>4, <1>5, RevisionTyped DEF SpecRecord
<1>7. Recording(q) /\ UNCHANGED <<me, stage>>
  BY <1>3 DEF Revise
<1> HIDE DEF q
<1>8. Revised /\ UNCHANGED <<view, plan>> /\ sets' = Append(sets, q)
  BY <1>6, <1>7, RecordingRevises DEF Recording
<1> QED BY <1>5, <1>6, <1>7, <1>8

LEMMA SeedRevises ==
    ASSUME SelectionOK, NEW w \in Workers, RecordSeed(w)
    PROVE  /\ stage[w] \in {"initial", "commit"}
           /\ stage' = [stage EXCEPT ![w] = stage'[w]] /\ stage'[w] \in {"commit", "ready"}
           /\ UNCHANGED <<view, plan>>
           /\ Prepared \/ (Revised /\ \E r \in {Seed, SeedCommitted} : sets' = Append(sets, r))
<1>1. stage \in [Workers -> Stages]
  BY DEF SelectionOK
<1>2. ASSUME Recording(Seed) \/ Recording(SeedCommitted), UNCHANGED me
      PROVE  /\ Revised /\ UNCHANGED <<view, plan>>
             /\ \E r \in {Seed, SeedCommitted} : sets' = Append(sets, r)
  BY <1>2, SeedTyped, RecordingRevises DEF Recording
<1>3. CASE /\ stage[w] = "initial" /\ stage' = [stage EXCEPT ![w] = "commit"] /\ me' = me
           /\ \/ Recording(Seed)
              \/ UNCHANGED <<head, source, saved, ended, calls, sets, bound, wish, view, plan, asked>>
  <2>1. stage'[w] = "commit"
    BY <1>1, <1>3 DEF Stages
  <2>2. stage' = [stage EXCEPT ![w] = stage'[w]]
    BY <1>3, <2>1
  <2>3. Prepared \/ (Revised /\ \E r \in {Seed, SeedCommitted} : sets' = Append(sets, r))
    <3>1. CASE Recording(Seed)
      BY <1>2, <1>3, <3>1
    <3>2. CASE ~Recording(Seed)
      <4>1. UNCHANGED <<head, source, saved, ended, me, calls>> /\ UNCHANGED <<sets, bound, wish, asked>>
        BY <1>3, <3>2
      <4> QED BY <4>1 DEF Prepared, vars
    <3> QED BY <3>1, <3>2
  <2>4. UNCHANGED <<view, plan>>
    BY <1>2, <1>3
  <2> QED BY <1>3, <2>1, <2>2, <2>3, <2>4
<1>4. CASE /\ stage[w] = "commit" /\ stage' = [stage EXCEPT ![w] = "ready"] /\ me' = me
           /\ \/ Recording(SeedCommitted)
              \/ UNCHANGED <<head, source, saved, ended, calls, sets, bound, wish, view, plan, asked>>
  <2>1. stage'[w] = "ready"
    BY <1>1, <1>4 DEF Stages
  <2>2. stage' = [stage EXCEPT ![w] = stage'[w]]
    BY <1>4, <2>1
  <2>3. Prepared \/ (Revised /\ \E r \in {Seed, SeedCommitted} : sets' = Append(sets, r))
    <3>1. CASE Recording(SeedCommitted)
      BY <1>2, <1>4, <3>1
    <3>2. CASE ~Recording(SeedCommitted)
      <4>1. UNCHANGED <<head, source, saved, ended, me, calls>> /\ UNCHANGED <<sets, bound, wish, asked>>
        BY <1>4, <3>2
      <4> QED BY <4>1 DEF Prepared, vars
    <3> QED BY <3>1, <3>2
  <2>4. UNCHANGED <<view, plan>>
    BY <1>2, <1>4
  <2> QED BY <1>4, <2>1, <2>2, <2>3, <2>4
<1> QED BY <1>3, <1>4 DEF RecordSeed

(* Where a worker goes once its call is closed, live or replayed.           *)
LEMMA CallClosed ==
    ASSUME Typed, NEW w \in Workers, ClaimReplay(w) \/ Settle(w)
    PROVE  /\ head \in Record /\ head' \in Record /\ head' # None /\ head # None
           /\ head'.source = me[w].source /\ head'.turn = me[w].turn
           /\ head'.turn = head.turn /\ head'.gen = head.gen /\ head'.holder = head.holder
           /\ head'.source = head.source
           /\ \A v \in Workers \ {w} : me'[v] = me[v]
           /\ me'[w].source = me[w].source /\ me'[w].kept = head'
           /\ me'[w].at \in {"begin", "pause", "retry", "stop"}
           /\ me'[w].at = "begin" => head'.outcome = "more" /\ me'[w].turn = me[w].turn + 1
           /\ me'[w].at = "pause" => head'.outcome = "ask" /\ me'[w].turn = me[w].turn + 1
           /\ me'[w].at = "retry" => head'.outcome = "safe"
           /\ me'[w].turn \in {me[w].turn, me[w].turn + 1}
           /\ me'[w].at = "retry" => me'[w].turn = me[w].turn
           /\ UNCHANGED <<source, saved, ended, calls>>
<1>0. me \in [Workers -> Memory] /\ ClaimsRemembered /\ head \in Record \union {None}
  BY DEF Typed, TypeOK, Memory
<1>1. /\ head \in Record /\ head # None /\ CallOf(head) = <<me[w].source, me[w].turn>>
      /\ me[w].turn <= MaxTurns /\ head' \in Record /\ head' # None
      /\ CallOf(head') = CallOf(head) /\ head'.gen = head.gen /\ head'.holder = head.holder
      /\ me' = [me EXCEPT ![w] = Onward(me[w], head')]
      /\ UNCHANGED <<source, saved, ended, calls>>
  <2>1. CASE ClaimReplay(w)
    BY <1>0, <2>1 DEF ClaimReplay, Mine, Claiming
  <2>2. CASE Settle(w)
    <3>1. /\ head \in Record /\ head # None /\ me[w].answer \in Outcomes /\ me[w].turn <= MaxTurns
          /\ CallOf(head) = <<me[w].source, me[w].turn>>
      BY <1>0, <2>2 DEF Settle, ClaimsRemembered, Remembers, Claimant, Out, Outcomes, CallOf,
                        Record, Turns
    <3>2. head' = Closed(head, me[w].answer)
      BY <2>2 DEF Settle
    <3>3. /\ head' \in Record /\ head' # None /\ head'.gen = head.gen
          /\ CallOf(head') = CallOf(head)
      BY <3>1, <3>2, ClosedTyped
    <3>4. head'.holder = head.holder
      BY <3>1, <3>2 DEF Closed, Record
    <3> QED BY <2>2, <3>1, <3>3, <3>4 DEF Settle
  <2> QED BY <2>1, <2>2
<1> DEFINE n == Onward(me[w], head')
<1>2. n.kept = head' /\ n.turn \in {me[w].turn, me[w].turn + 1}
  <2> DEFINE place == CASE head'.outcome = "more" -> "begin"
                      [] head'.outcome = "ask" -> "pause"
                      [] head'.outcome = "safe" /\ me[w].left > 0 -> "retry"
                      [] OTHER -> "stop"
             turn == IF head'.outcome \in {"more", "ask"} THEN me[w].turn + 1 ELSE me[w].turn
  <2>1. n = [me[w] EXCEPT !.kept = head', !.turn = turn, !.at = place]
    BY DEF Onward
  <2> HIDE DEF place, n
  <2>2. turn \in {me[w].turn, me[w].turn + 1}
    OBVIOUS
  <2> HIDE DEF turn
  <2> QED BY <1>0, <2>1, <2>2 DEF Memory
<1>3. /\ n.source = me[w].source /\ n.at \in {"begin", "pause", "retry", "stop"}
      /\ n.at = "begin" => head'.outcome = "more" /\ n.turn = me[w].turn + 1
      /\ n.at = "pause" => head'.outcome = "ask" /\ n.turn = me[w].turn + 1
      /\ n.at = "retry" => head'.outcome = "safe" /\ n.turn = me[w].turn
  <2>1. me[w] \in Memory /\ CallOf(head') = <<me[w].source, me[w].turn>>
    BY <1>0, <1>1
  <2> HIDE DEF n
  <2> QED BY <1>1, <2>1, OnwardTyped DEF n
<1>4. me'[w] = n /\ \A v \in Workers \ {w} : me'[v] = me[v]
  BY <1>0, <1>1
<1> QED BY <1>1, <1>2, <1>3, <1>4 DEF CallOf

(* The other steps send a worker somewhere with what it remembers.          *)
LEMMA WorkerSteps ==
    ASSUME Typed, NEW w \in Workers
    PROVE  /\ GiveUp(w) \/ Pause(w) \/ Stop(w) \/ Refuse(w) =>
                 /\ me[w].at # "new" /\ me'[w].at \in {"stop", "gone"}
                 /\ me'[w].source = me[w].source /\ me'[w].turn = me[w].turn
                 /\ me'[w].kept = me[w].kept
                 /\ \A v \in Workers \ {w} : me'[v] = me[v]
                 /\ UNCHANGED calls /\ (head' = head \/ head' = None)
           /\ Invoke(w) \/ (\E a \in Answers : Return(w, a)) =>
                 /\ me[w].at \in Out /\ me'[w].at \in Out /\ me'[w].at # me[w].at
                 /\ me'[w].source = me[w].source /\ me'[w].turn = me[w].turn
                 /\ me'[w].kept = me[w].kept
                 /\ \A v \in Workers \ {w} : me'[v] = me[v]
                 /\ UNCHANGED <<head, source, saved, ended>>
           /\ Start(w) =>
                 /\ me[w].at = "new" /\ me'[w].at = "begin" /\ me'[w].kept = me[w].kept
                 /\ \A v \in Workers \ {w} : me'[v] = me[v]
                 /\ UNCHANGED <<head, source, saved, ended, calls>>
           /\ Admit(w) \/ CloseUninvoked(w) =>
                 /\ head \in Record /\ head' \in Record /\ head # None /\ head' # None
                 /\ head = me[w].kept
                 /\ head'.source = me[w].source /\ head'.turn = me[w].turn
                 /\ head'.gen = head.gen /\ head'.holder = w /\ head.holder = w
                 /\ head'.outcome \in {None, "stopped"}
                 /\ me[w].at \in {"claimed", "admitted"}
                 /\ me'[w].at \in {"admitted", "stop"} /\ me'[w].kept = head'
                 /\ me'[w].at = "admitted" => head'.outcome = None
                 /\ me'[w].source = me[w].source /\ me'[w].turn = me[w].turn
                 /\ \A v \in Workers \ {w} : me'[v] = me[v]
                 /\ UNCHANGED <<source, saved, ended, calls>>
<1>0. me \in [Workers -> Memory] /\ ClaimsRemembered /\ head \in Record \union {None}
  BY DEF Typed, TypeOK, Memory
<1>1. ASSUME NEW place, Go(w, place)
      PROVE  /\ me'[w].at = place /\ me'[w].kept = me[w].kept
             /\ me'[w].source = me[w].source /\ me'[w].turn = me[w].turn
             /\ \A v \in Workers \ {w} : me'[v] = me[v]
  BY <1>0, <1>1 DEF Go, Memory
<1>2. ASSUME GiveUp(w) \/ Pause(w) \/ Stop(w) \/ Refuse(w)
      PROVE  /\ me[w].at # "new" /\ me'[w].at \in {"stop", "gone"}
             /\ me'[w].source = me[w].source /\ me'[w].turn = me[w].turn
             /\ me'[w].kept = me[w].kept
             /\ \A v \in Workers \ {w} : me'[v] = me[v]
             /\ UNCHANGED calls /\ (head' = head \/ head' = None)
  <2>1. \E place \in {"gone", "stop"} : Go(w, place)
    BY <1>2 DEF GiveUp, Stop, Refuse, Pause, AfterRefusal
  <2>2. me[w].at # "new" /\ UNCHANGED calls /\ (head' = head \/ head' = None)
    BY <1>2 DEF GiveUp, Stop, Refuse, Pause
  <2> QED BY <1>1, <2>1, <2>2
<1>3. ASSUME Invoke(w) \/ (\E a \in Answers : Return(w, a))
      PROVE  /\ me[w].at \in Out /\ me'[w].at \in Out /\ me'[w].at # me[w].at
             /\ me'[w].source = me[w].source /\ me'[w].turn = me[w].turn
             /\ me'[w].kept = me[w].kept
             /\ \A v \in Workers \ {w} : me'[v] = me[v]
             /\ UNCHANGED <<head, source, saved, ended>>
  BY <1>0, <1>3 DEF Invoke, Return, Go, Out, Memory
<1>4. ASSUME Start(w)
      PROVE  /\ me[w].at = "new" /\ me'[w].at = "begin" /\ me'[w].kept = me[w].kept
             /\ \A v \in Workers \ {w} : me'[v] = me[v]
             /\ UNCHANGED <<head, source, saved, ended, calls>>
  <2>1. me' = [me EXCEPT ![w] = [me[w] EXCEPT !.at = "begin", !.source = source,
                                  !.turn = Beginning.turn, !.left = Beginning.left]]
    BY <1>0, <1>4 DEF Start, Memory
  <2> QED BY <1>0, <1>4, <2>1 DEF Start, Memory
<1>5. ASSUME Admit(w) \/ CloseUninvoked(w)
      PROVE  /\ head \in Record /\ head' \in Record /\ head # None /\ head' # None
             /\ head = me[w].kept
             /\ head'.source = me[w].source /\ head'.turn = me[w].turn
             /\ head'.gen = head.gen /\ head'.holder = w /\ head.holder = w
             /\ head'.outcome \in {None, "stopped"}
             /\ me[w].at \in {"claimed", "admitted"}
             /\ me'[w].at \in {"admitted", "stop"} /\ me'[w].kept = head'
             /\ me'[w].at = "admitted" => head'.outcome = None
             /\ me'[w].source = me[w].source /\ me'[w].turn = me[w].turn
             /\ \A v \in Workers \ {w} : me'[v] = me[v]
             /\ UNCHANGED <<source, saved, ended, calls>>
  <2>1. /\ head \in Record /\ head # None /\ head = me[w].kept /\ Remembers(me[w], w)
        /\ me[w].at \in {"claimed", "admitted"} /\ UNCHANGED <<source, saved, ended, calls>>
    BY <1>0, <1>5 DEF Admit, CloseUninvoked, ClaimsRemembered
  <2>2. /\ head.source = me[w].source /\ head.turn = me[w].turn /\ head.holder = w
        /\ head.outcome = None
    BY <2>1 DEF Remembers, Claimant, Out, CallOf
  <2>3. /\ head' \in Record /\ head' # None /\ head'.source = head.source
        /\ head'.turn = head.turn /\ head'.gen = head.gen /\ head'.outcome \in {None, "stopped"}
        /\ CloseUninvoked(w) \/ head'.outcome = None
        /\ head'.holder = head.holder
    <3>1. CASE Admit(w)
      BY <2>1, <2>2, <3>1, AdmittedTyped DEF Admit
    <3>2. CASE CloseUninvoked(w)
      <4>1. head' = Closed(head, "stopped")
        BY <3>2 DEF CloseUninvoked
      <4>2. head'.holder = head.holder
        BY <2>1, <4>1 DEF Closed, Record
      <4> QED BY <2>1, <3>2, <4>1, <4>2, ClosedTyped DEF Outcomes
    <3> QED BY <1>5, <3>1, <3>2
  <2>4. \E place \in {"admitted", "stop"} : /\ GoWith(w, place, head')
                                            /\ place = "admitted" => head'.outcome = None
    BY <1>5, <2>3 DEF Admit, CloseUninvoked
  <2>5. PICK place \in {"admitted", "stop"} : /\ GoWith(w, place, head')
                                              /\ place = "admitted" => head'.outcome = None
    BY <2>4
  <2>6. /\ me'[w].at = place /\ me'[w].kept = head'
        /\ me'[w].source = me[w].source /\ me'[w].turn = me[w].turn
        /\ \A v \in Workers \ {w} : me'[v] = me[v]
    BY <1>0, <2>5 DEF GoWith, Memory
  <2> QED BY <2>1, <2>2, <2>3, <2>5, <2>6
<1> QED BY <1>2, <1>3, <1>4, <1>5

-----------------------------------------------------------------------------
(* A worker goes forward, and what it knows of its records stays behind it. *)
LEMMA RecordsKept ==
    ASSUME Typed, Typed', Records, NEW w \in Workers,
           \A v \in Workers \ {w} : me'[v] = me[v],
           \A h \in Record : h.holder = w /\ Past(h) => Past(h)',
           head' # None => head' = head \/ Past(head)',
           me'[w].kept \in {me[w].kept, head'},
           me'[w].at = "retry" => me'[w].kept.outcome = "safe"
    PROVE  Records'
<1>0. /\ head \in Record \union {None} /\ head' \in Record \union {None}
      /\ \A v \in Workers : me[v].kept \in Record \union {None}
  BY DEF Typed, TypeOK
<1>1. \A h \in Record : Past(h) => Past(h)'
  <2> SUFFICES ASSUME NEW h \in Record, Past(h) PROVE Past(h)'
    OBVIOUS
  <2>1. CASE h.holder = w
    BY <2>1
  <2>2. CASE h.holder # w
    <3>1. h.holder \in Workers
      BY DEF Record
    <3> QED BY <2>2, <3>1 DEF Past
  <2> QED BY <2>1, <2>2
<1>2. head' # None => Past(head)'
  <2>1. ASSUME head' # None, head' = head PROVE Past(head)'
    <3>1. Past(head) /\ head \in Record
      BY <1>0, <2>1 DEF Records
    <3>2. \A h \in Record : h = head => Past(h)'
      BY <1>1, <3>1
    <3> QED BY <2>1, <3>1, <3>2 DEF Past
  <2> QED BY <2>1
<1>3. ASSUME NEW v \in Workers, me'[v].kept # None PROVE Past(me[v].kept)'
  <2>1. CASE me'[v].kept = me[v].kept
    <3>1. Past(me[v].kept) /\ me[v].kept \in Record
      BY <1>0, <1>3, <2>1 DEF Records
    <3>2. \A h \in Record : h = me[v].kept => Past(h)'
      BY <1>1, <3>1
    <3> QED BY <2>1, <3>1, <3>2 DEF Past
  <2>2. CASE me'[v].kept = head'
    BY <1>2, <1>3, <2>2 DEF Past
  <2> QED BY <2>1, <2>2
<1>4. \A v \in Workers : me'[v].at = "retry" => me'[v].kept.outcome = "safe"
  BY DEF Records
<1> QED BY <1>2, <1>3, <1>4 DEF Records

LEMMA RecordsStep ==
    ASSUME Typed, Typed', HeadIsCurrent, Records, [Next]_vars \/ Clear
    PROVE  Records'
<1>0. /\ head \in Record \union {None} /\ me \in [Workers -> Memory] /\ ClaimsRemembered
      /\ \A v \in Workers : /\ me[v].turn \in Nat /\ me[v].source \in Nat
                            /\ me[v].at \in Holding => me[v].kept \in Record
                            /\ me[v].at \in Holding => me[v].kept.gen \in Nat
                            /\ me[v].at \in Holding => me[v].kept.turn = me[v].turn
      /\ \A h \in Record : h.turn \in Nat /\ h.gen \in Nat /\ h.gen > 0
  <2>1. \A h \in Record : h.turn \in Nat /\ h.gen \in Nat /\ h.gen > 0
    BY DEF Record, Turns
  <2>2. /\ head \in Record \union {None} /\ me \in [Workers -> Memory] /\ ClaimsRemembered
    BY DEF Typed, TypeOK, Memory
  <2>3. \A v \in Workers : me[v].turn \in Nat /\ me[v].source \in Nat
    BY <2>2 DEF Memory
  <2>4. \A v \in Workers : me[v].at \in Holding =>
             me[v].kept \in Record /\ me[v].kept.turn = me[v].turn
    BY <2>2 DEF ClaimsRemembered, Remembers, Holding, CallOf
  <2> QED BY <2>1, <2>2, <2>3, <2>4
<1>1. ASSUME NEW w \in Workers, Start(w) PROVE Records'
  <2>1. \A h \in Record : h.holder = w => ~Past(h)
    BY <1>0, <1>1, WorkerSteps DEF Past
  <2> QED BY <1>0, <1>1, <2>1, WorkerSteps, RecordsKept
<1>2. ASSUME NEW w \in Workers, GiveUp(w) \/ Pause(w) \/ Stop(w) \/ Refuse(w) PROVE Records'
  <2>1. \A h \in Record : h.holder = w /\ Past(h) => Past(h)'
    BY <1>0, <1>2, WorkerSteps DEF Past, Holding, Claimant, Out
  <2> QED BY <1>0, <1>2, <2>1, WorkerSteps, RecordsKept
<1>3. ASSUME NEW w \in Workers, ClaimFirst(w) \/ ClaimNext(w) \/ ClaimExpired(w) PROVE Records'
  <2>1. /\ head' \in Record /\ head'.source = me[w].source /\ head'.turn = me[w].turn
        /\ head'.holder = w /\ head'.outcome = None
        /\ \A v \in Workers \ {w} : me'[v] = me[v]
        /\ me'[w].at = "claimed" /\ me'[w].kept = head'
        /\ me'[w].source = me[w].source /\ me'[w].turn = me[w].turn
    BY <1>3, ClaimMade
  <2>2. me[w].at = "begin"
    BY <1>3 DEF ClaimFirst, ClaimNext, ClaimExpired, Claiming
  <2>3. \A h \in Record : h.holder = w /\ Past(h) => Past(h)'
    BY <1>0, <2>1, <2>2 DEF Past
  <2>4. Past(head)'
    BY <1>0, <2>1 DEF Past
  <2> QED BY <2>1, <2>3, <2>4, RecordsKept
<1>4. ASSUME NEW w \in Workers, ClaimReplay(w) PROVE Records'
  <2>1. me[w].at = "begin" /\ head' = head
    BY <1>4 DEF ClaimReplay, Claiming
  <2>2. \A h \in Record : h.holder = w /\ Past(h) => Past(h)'
    BY <1>0, <1>4, <2>1, CallClosed DEF Past, Holding, Claimant, Out
  <2> QED BY <1>4, <2>1, <2>2, CallClosed, RecordsKept
<1>5. ASSUME NEW w \in Workers, Admit(w) \/ CloseUninvoked(w) PROVE Records'
  <2>0. /\ head' \in Record /\ head = me[w].kept
        /\ head'.source = me[w].source /\ head'.turn = me[w].turn
        /\ head'.gen = head.gen /\ head'.holder = w
        /\ me[w].at \in {"claimed", "admitted"}
        /\ me'[w].at \in {"admitted", "stop"} /\ me'[w].kept = head'
        /\ me'[w].at = "admitted" => head'.outcome = None
        /\ me'[w].source = me[w].source /\ me'[w].turn = me[w].turn
        /\ \A v \in Workers \ {w} : me'[v] = me[v]
    BY <1>5, WorkerSteps
  <2>1. \A h \in Record : h.holder = w /\ Past(h) => Past(h)'
    BY <1>0, <2>0 DEF Past, Holding, Claimant, Out
  <2>2. Past(head)'
    BY <1>0, <2>0 DEF Past, Holding, Claimant, Out
  <2> QED BY <2>0, <2>1, <2>2, RecordsKept
<1>6. ASSUME NEW w \in Workers, Invoke(w) \/ (\E a \in Answers : Return(w, a)) PROVE Records'
  <2>1. \A h \in Record : h.holder = w /\ Past(h) => Past(h)'
    BY <1>0, <1>6, WorkerSteps DEF Past, Holding, Claimant, Out
  <2> QED BY <1>6, <2>1, WorkerSteps, RecordsKept DEF Out
<1>7. ASSUME NEW w \in Workers, Settle(w) PROVE Records'
  <2>1. me[w].at = "outcome" /\ head = me[w].kept /\ me[w].at \in Claimant
    BY <1>7 DEF Settle, Claimant, Out
  <2>2. head.holder = w
    BY <1>0, <2>1 DEF ClaimsRemembered, Remembers
  <2>3. \A h \in Record : h.holder = w /\ Past(h) => Past(h)'
    BY <1>0, <1>7, <2>1, CallClosed DEF Past, Holding, Claimant, Out
  <2>4. Past(head)'
    BY <1>0, <1>7, <2>1, <2>2, CallClosed DEF Past, Holding, Claimant, Out
  <2> QED BY <1>7, <2>3, <2>4, CallClosed, RecordsKept
<1>8. ASSUME NEW w \in Workers, Retry(w) PROVE Records'
  <2>1. /\ head' \in Record /\ head'.source = me[w].source /\ head'.turn = me[w].turn
        /\ head'.holder = w /\ head'.outcome = None /\ head'.gen = head.gen + 1
        /\ \A v \in Workers \ {w} : me'[v] = me[v]
        /\ me'[w].at = "claimed" /\ me'[w].kept = head'
        /\ me'[w].source = me[w].source /\ me'[w].turn = me[w].turn
    BY <1>8, ClaimMade DEF Retry, ClaimFirst, ClaimNext, Claiming
  <2>2. me[w].at = "retry" /\ head = me[w].kept
    BY <1>8 DEF Retry
  <2>3. \A h \in Record : h.holder = w /\ Past(h) => Past(h)'
    BY <1>0, <2>1, <2>2 DEF Past, Holding
  <2>4. Past(head)'
    BY <1>0, <2>1 DEF Past
  <2> QED BY <2>1, <2>3, <2>4, RecordsKept
<1>9. CASE UNCHANGED vars
  BY <1>9 DEF vars, Records, Past
<1>10. CASE Clear
  BY <1>10 DEF Clear, Records, Past
<1> QED BY <1>1, <1>2, <1>3, <1>4, <1>5, <1>6, <1>7, <1>8, <1>9, <1>10 DEF Next, Step

-----------------------------------------------------------------------------
(* A step changes what one worker is preparing.                             *)
OthersPlan(w) ==
    \A v \in Workers \ {w} : /\ me'[v] = me[v] /\ stage'[v] = stage[v]
                             /\ view'[v] = view[v] /\ plan'[v] = plan[v]

LEMMA SelectionKept ==
    ASSUME SelectionOK, NEW w \in Workers, OthersPlan(w),
           sets' = sets \/ Longer,
           bound' \in Nat, wish' \in Proposal \union {None},
           stage' \in [Workers -> Stages], view' \in [Workers -> Nat], view'[w] <= Current',
           plan' \in [Workers -> Proposal \union {None}],
           asked' \in Seq(AskedRow), Len(asked') = Len(calls'),
           me'[w].at = "new" => plan'[w] = None,
           me'[w].at \in Holding => view'[w] > 0,
           me'[w].at = "begin" /\ plan'[w] # None => view'[w] > 0,
           stage'[w] = "granted" => me'[w].at = "begin" /\ plan'[w] # None
    PROVE  SelectionOK'
<1>1. Current \in Nat /\ Current' \in Nat /\ Current' >= Current /\ sets' \in Seq(SpecRecord)
  BY DEF SelectionOK, Current, Longer
<1>2. view' \in [Workers -> 0 .. Current']
  BY <1>1 DEF OthersPlan, SelectionOK
<1>3. \A v \in Workers :
          /\ me'[v].at = "new" => plan'[v] = None
          /\ me'[v].at \in Holding => view'[v] > 0
          /\ me'[v].at = "begin" /\ plan'[v] # None => view'[v] > 0
          /\ stage'[v] = "granted" => me'[v].at = "begin" /\ plan'[v] # None
  BY DEF OthersPlan, SelectionOK
<1> QED BY <1>1, <1>2, <1>3 DEF SelectionOK, Holding, Claimant, Out

(* The answer and the filing of a call leave its view as it was.            *)
LEMMA AskedTyped ==
    ASSUME asked \in Seq(AskedRow), asked' = [i \in DOMAIN asked |-> asked'[i]],
           \A i \in DOMAIN asked : asked'[i] \in AskedRow
    PROVE  /\ asked' \in Seq(AskedRow) /\ Len(asked') = Len(asked)
           /\ DOMAIN asked' = DOMAIN asked
<1>1. DOMAIN asked = 1 .. Len(asked) /\ Len(asked) \in Nat
  OBVIOUS
<1>2. asked' \in [1 .. Len(asked) -> AskedRow]
  BY <1>1
<1>3. asked' \in Seq(AskedRow)
  BY <1>1, <1>2, SeqDef
<1> QED BY <1>1, <1>2, <1>3, LenProperties

(* What an answer may propose: sources that are stored or were pinned.      *)
LEMMA WishesTyped ==
    ASSUME SelectionOK, NEW w \in Workers, view[w] > 0, NEW a, NEW p \in Wishes(w, a)
    PROVE  /\ p \in Proposal \union {None}
           /\ p # None => a = "more"
           /\ p # None /\ p.kind = "select" =>
                 \A s \in Slots : \/ p.pins[s] \in Documents \union {None}
                                  \/ \E j \in DOMAIN sets, t \in Slots : p.pins[s] = sets[j].pins[t]
<1>0. /\ sets \in Seq(SpecRecord) /\ DOMAIN sets = 1 .. Current /\ view[w] \in DOMAIN sets
      /\ \A j \in DOMAIN sets : sets[j] \in SpecRecord /\ sets[j].pins \in Pins
  <2>1. /\ sets \in Seq(SpecRecord) /\ DOMAIN sets = 1 .. Current /\ view[w] \in 1 .. Current
    BY DEF SelectionOK, Current
  <2>2. \A j \in DOMAIN sets : sets[j] \in SpecRecord
    BY <2>1, ElementOfSeq DEF Current
  <2> QED BY <2>1, <2>2 DEF SpecRecord
<1>1. \A x \in Selectable(view[w]) :
         x \in Documents \/ \E j \in DOMAIN sets, t \in Slots : x = sets[j].pins[t]
  <2>1. HistoryOf(view[w]) \subseteq DOMAIN sets
    BY <1>0 DEF HistoryOf, SelectionOK, Current
  <2> QED BY <1>0, <2>1 DEF Selectable, Pinned, Recallable
<1>2. CASE p = None
  BY <1>2, DigestsAssumption
<1>3. CASE p \in Promotions
  <2>1. PICK b \in Attempts, s \in Slots, I \in SUBSET (1 .. Said) : p = Promotion(b, s, I)
    BY <1>3 DEF Promotions
  <2> QED BY <2>1, <1>3, DigestsAssumption DEF Promotion, Proposal, Wishes
<1>4. CASE p \in Selections(Selectable(view[w]))
  <2>1. PICK b \in Attempts, pins \in [Slots -> Selectable(view[w]) \union {None}] :
           p = Transition(b, pins)
    BY <1>4 DEF Selections
  <2>2. pins \in Pins
    <3>1. \A s \in Slots : pins[s] \in Documents \union CallerSources \union {None}
      BY <1>0, <1>1 DEF Pins
    <3> QED BY <3>1 DEF Pins
  <2>3. p \in Proposal /\ p.kind = "select" /\ p.pins = pins
    BY <2>1, <2>2 DEF Transition, Proposal
  <2> QED BY <1>1, <1>4, <2>3, DigestsAssumption DEF Wishes
<1> QED BY <1>2, <1>3, <1>4 DEF Wishes

-----------------------------------------------------------------------------
(* How a step changes the records, the revisions and what the workers ask.  *)
Form == Steady /\ (Revised \/ Prepared \/ \E w \in Workers : Worked(w) /\ UNCHANGED sets)

LEMMA PreparedForm ==
    ASSUME SelectionOK, Typed, NEW w \in Workers,
           \/ Arrive(w) \/ RefuseSeed(w) \/ RecordSeed(w) \/ Project(w)
           \/ Grant(w) \/ ReplayProposal(w) \/ AdmitProposal(w)
    PROVE  Form /\ SelectionOK'
<1>0. /\ sets \in Seq(SpecRecord) /\ bound \in Nat /\ wish \in Proposal \union {None}
      /\ stage \in [Workers -> Stages] /\ view \in [Workers -> 0 .. Current] /\ Current \in Nat
      /\ plan \in [Workers -> Proposal \union {None}]
      /\ asked \in Seq(AskedRow) /\ Len(asked) = Len(calls)
      /\ view \in [Workers -> Nat] /\ view[w] <= Current
  BY DEF SelectionOK, Current
<1>1. ASSUME Prepared \/ Revised, NEW s \in Stages, s # "granted",
             stage' = [stage EXCEPT ![w] = s], UNCHANGED <<view, plan>>
      PROVE  Form /\ SelectionOK'
  <2>1. /\ me' = me /\ calls' = calls /\ (sets' = sets \/ Longer)
        /\ UNCHANGED <<bound, wish, asked>> /\ Current' >= Current /\ Current' \in Nat
    BY <1>0, <1>1 DEF Prepared, Revised, Clear, vars, Longer, Current
  <2>2. Steady /\ OthersPlan(w)
    BY <1>0, <1>1, <2>1 DEF Steady, OthersPlan
  <2>3. stage' \in [Workers -> Stages] /\ stage'[w] # "granted"
    BY <1>0, <1>1
  <2>4. view' \in [Workers -> Nat] /\ view'[w] <= Current'
    BY <1>0, <1>1, <2>1
  <2>5. /\ me'[w].at = "new" => plan'[w] = None
        /\ me'[w].at \in Holding => view'[w] > 0
        /\ me'[w].at = "begin" /\ plan'[w] # None => view'[w] > 0
    BY <1>1, <2>1 DEF SelectionOK
  <2>6. SelectionOK'
    BY <1>0, <1>1, <2>1, <2>2, <2>3, <2>4, <2>5, SelectionKept
  <2> QED BY <1>1, <2>2, <2>6 DEF Form
<1>2. CASE Arrive(w) \/ RefuseSeed(w)
  <2>1. PICK s \in {"initial", "commit", "ready", "refused"} : stage' = [stage EXCEPT ![w] = s]
    BY <1>2 DEF Arrive, RefuseSeed
  <2>2. Prepared /\ UNCHANGED <<view, plan>>
    BY <1>2 DEF Arrive, RefuseSeed, Prepared
  <2> QED BY <1>1, <2>1, <2>2 DEF Stages
<1>3. CASE RecordSeed(w)
  <2>1. /\ stage' = [stage EXCEPT ![w] = stage'[w]] /\ stage'[w] \in {"commit", "ready"}
        /\ UNCHANGED <<view, plan>> /\ (Prepared \/ Revised)
    BY <1>3, SeedRevises
  <2> QED BY <1>1, <2>1 DEF Stages
<1>4. CASE Project(w)
  <2>1. /\ me[w].at = "begin" /\ view' = [view EXCEPT ![w] = Current]
        /\ Prepared /\ UNCHANGED <<stage, plan>> /\ me' = me /\ calls' = calls
        /\ plan[w] = None /\ stage[w] = "ready"
    BY <1>4 DEF Project, Projecting, Prepared, vars
  <2>2. OthersPlan(w) /\ Steady
    BY <1>0, <2>1 DEF Steady, OthersPlan, Prepared, Holding, Claimant, Out
  <2>3. view' \in [Workers -> Nat] /\ view'[w] <= Current' /\ sets' = sets
    BY <1>0, <2>1 DEF Prepared, Current
  <2>4. SelectionOK'
    BY <1>0, <2>1, <2>2, <2>3, SelectionKept DEF Prepared, Holding, Claimant, Out
  <2> QED BY <2>1, <2>2, <2>4 DEF Form
<1>5. CASE Grant(w)
  <2>1. /\ me[w].at = "begin" /\ stage' = [stage EXCEPT ![w] = "granted"]
        /\ Prepared /\ UNCHANGED <<view, plan>> /\ me' = me /\ calls' = calls /\ sets' = sets
        /\ UNCHANGED <<bound, wish, asked>>
        /\ plan[w] # None
    BY <1>5 DEF Grant, Prepared, vars
  <2>2. OthersPlan(w) /\ Steady
    BY <1>0, <2>1 DEF Steady, OthersPlan
  <2>3. stage' \in [Workers -> Stages] /\ view' \in [Workers -> Nat] /\ view'[w] <= Current'
    BY <1>0, <2>1 DEF Current, Stages
  <2>4. view[w] > 0
    BY <2>1 DEF SelectionOK
  <2>5. SelectionOK'
    BY <1>0, <2>1, <2>2, <2>3, <2>4, SelectionKept DEF Holding, Claimant, Out
  <2> QED BY <2>1, <2>2, <2>5 DEF Form
<1>6. CASE ReplayProposal(w) \/ AdmitProposal(w)
  <2>1. (Prepared \/ Revised) /\ me[w].at = "begin" /\ Resumed(w)
    BY <1>6, AdmissionRevises DEF ReplayProposal, AdmitProposal, Prepared
  <2>2. /\ me' = me /\ calls' = calls /\ (sets' = sets \/ Longer)
        /\ UNCHANGED <<bound, wish, asked>> /\ Current' \in Nat
    BY <1>0, <2>1 DEF Prepared, Revised, Clear, vars, Longer, Current
  <2>3. /\ stage' = [stage EXCEPT ![w] = "ready"] /\ view' = [view EXCEPT ![w] = 0]
        /\ plan' = [plan EXCEPT ![w] = None]
    BY <2>1 DEF Resumed
  <2>4. /\ stage' \in [Workers -> Stages] /\ view' \in [Workers -> Nat] /\ view'[w] = 0
        /\ plan' \in [Workers -> Proposal \union {None}] /\ plan'[w] = None
        /\ stage'[w] = "ready"
    BY <1>0, <2>3 DEF Stages
  <2>5. OthersPlan(w) /\ Steady
    BY <1>0, <2>1, <2>2, <2>3 DEF Steady, OthersPlan, Holding, Claimant, Out
  <2>6. /\ bound' \in Nat /\ wish' \in Proposal \union {None} /\ view'[w] <= Current'
        /\ asked' \in Seq(AskedRow) /\ Len(asked') = Len(calls')
        /\ me'[w].at = "begin" /\ "begin" \notin Holding
    BY <1>0, <2>1, <2>2, <2>4 DEF Holding, Claimant, Out
  <2>7. SelectionOK'
    BY <2>2, <2>4, <2>5, <2>6, SelectionKept
  <2> QED BY <2>1, <2>5, <2>7 DEF Form
<1> QED BY <1>2, <1>3, <1>4, <1>5, <1>6

LEMMA WorkedForm ==
    ASSUME SelectionOK, Typed, NEW w \in Workers,
           \/ StartReady(w) \/ ProjectFails(w) \/ ClaimOnView(w) \/ InvokeOnView(w)
           \/ (\E a \in Answers : ReturnWish(w, a)) \/ SettleWish(w)
           \/ RejectProposal(w) \/ Undisturbed(w)
    PROVE  Form /\ SelectionOK'
<1>0. /\ sets \in Seq(SpecRecord) /\ bound \in Nat /\ wish \in Proposal \union {None}
      /\ stage \in [Workers -> Stages] /\ view \in [Workers -> 0 .. Current] /\ Current \in Nat
      /\ plan \in [Workers -> Proposal \union {None}]
      /\ asked \in Seq(AskedRow) /\ Len(asked) = Len(calls)
      /\ view \in [Workers -> Nat] /\ view[w] <= Current /\ view[w] \in Nat
      /\ stage[w] = "granted" => me[w].at = "begin" /\ plan[w] # None
      /\ calls \in Seq(CallRow)
  BY DEF SelectionOK, Current, Typed, TypeOK, CallRow
(* Steps with the selection as it was.                                      *)
<1>1. ASSUME Worked(w), UNCHANGED <<sets, bound, wish, view, asked>>, calls' = calls,
             \A v \in Workers \ {w} : me'[v] = me[v],
             \A v \in Workers \ {w} : stage'[v] = stage[v] /\ plan'[v] = plan[v],
             stage' \in [Workers -> Stages], plan' \in [Workers -> Proposal \union {None}],
             me'[w].at # "new", me'[w].at \in Holding => me[w].at \in Holding,
             me'[w].at # "begin" \/ plan'[w] = None, stage'[w] # "granted"
      PROVE  Form /\ SelectionOK'
  <2>1. Steady /\ OthersPlan(w)
    BY <1>1 DEF Steady, OthersPlan
  <2>2. view'[w] <= Current' /\ (me'[w].at \in Holding => view'[w] > 0)
    BY <1>0, <1>1 DEF Current, SelectionOK
  <2>3. SelectionOK'
    BY <1>0, <1>1, <2>1, <2>2, SelectionKept
  <2> QED BY <1>1, <2>1, <2>3 DEF Form
<1>2. CASE StartReady(w)
  <2>1. /\ Start(w) /\ UNCHANGED <<sets, bound, wish, view, asked, plan, stage>> /\ stage[w] = "ready"
    BY <1>2 DEF StartReady, selection
  <2>2. /\ me[w].at = "new" /\ me'[w].at = "begin" /\ calls' = calls
        /\ \A v \in Workers \ {w} : me'[v] = me[v]
    BY <2>1, WorkerSteps
  <2>3. plan[w] = None
    BY <2>2 DEF SelectionOK
  <2> QED BY <1>0, <1>1, <2>1, <2>2, <2>3 DEF Worked, Holding, Claimant, Out
<1>3. CASE ProjectFails(w) \/ RejectProposal(w)
  <2>1. /\ GiveUp(w) /\ me'[w].at = "stop"
        /\ UNCHANGED <<sets, bound, wish, view, asked>> /\ me[w].at = "begin"
    BY <1>3 DEF ProjectFails, RejectProposal, Projecting, GiveUp, Go, selection, Typed, TypeOK
  <2>2. /\ \A v \in Workers \ {w} : stage'[v] = stage[v] /\ plan'[v] = plan[v]
        /\ stage' \in [Workers -> Stages] /\ plan' \in [Workers -> Proposal \union {None}]
        /\ stage'[w] # "granted"
    <3>1. CASE ProjectFails(w)
      BY <1>0, <3>1 DEF ProjectFails, Projecting, selection
    <3>2. CASE RejectProposal(w)
      BY <1>0, <3>2 DEF RejectProposal, Stages
    <3> QED BY <1>3, <3>1, <3>2
  <2>3. calls' = calls /\ \A v \in Workers \ {w} : me'[v] = me[v]
    BY <2>1, WorkerSteps
  <2> QED BY <1>1, <2>1, <2>2, <2>3 DEF Worked, Holding, Claimant, Out
<1>4. CASE Undisturbed(w)
  <2>1. /\ UNCHANGED <<sets, bound, wish, view, asked, stage, plan>>
        /\ \/ GiveUp(w) /\ plan[w] = None
           \/ Admit(w) \/ CloseUninvoked(w) \/ Retry(w) \/ Pause(w) \/ Stop(w)
           \/ Refuse(w) /\ ~(me[w].at = "begin" /\ plan[w] # None)
    BY <1>4 DEF Undisturbed, selection
  <2>2. stage[w] # "granted"
    BY <1>0, <2>1 DEF Admit, CloseUninvoked, Retry, Pause, Stop
  <2>3. CASE GiveUp(w) \/ Pause(w) \/ Stop(w) \/ Refuse(w)
    BY <1>0, <1>1, <2>1, <2>2, <2>3, WorkerSteps DEF Worked, Holding, Claimant, Out
  <2>4. CASE Admit(w) \/ CloseUninvoked(w)
    BY <1>0, <1>1, <2>1, <2>2, <2>4, WorkerSteps DEF Worked, Holding, Claimant, Out
  <2>5. CASE Retry(w)
    <3> DEFINE l == me[w].left - 1
               m == [me[w] EXCEPT !.at = "claimed", !.left = l, !.kept = head']
    <3>1. me' = [me EXCEPT ![w] = m] /\ calls' = calls /\ me[w].at = "retry"
      BY <2>5 DEF Retry
    <3>2. me \in [Workers -> Memory]
      BY DEF Typed, TypeOK, Memory
    <3> HIDE DEF l
    <3>3. m.at = "claimed"
      BY <3>2 DEF Memory
    <3> HIDE DEF m
    <3>4. me'[w].at = "claimed" /\ \A v \in Workers \ {w} : me'[v] = me[v]
      BY <3>1, <3>2, <3>3
    <3> QED BY <1>0, <1>1, <2>1, <2>2, <2>5, <3>1, <3>4 DEF Worked, Holding, Claimant, Out
  <2> QED BY <2>1, <2>3, <2>4, <2>5
<1>5. CASE InvokeOnView(w)
  <2>1. /\ Invoke(w) /\ UNCHANGED <<sets, bound, wish, stage, view, plan>>
        /\ asked' = Append(asked, [view |-> view[w], plan |-> None, filed |-> FALSE])
        /\ me[w].at = "admitted"
    BY <1>5 DEF InvokeOnView, Invoke
  <2>2. /\ me'[w].at \in Out /\ \A v \in Workers \ {w} : me'[v] = me[v]
    BY <2>1, WorkerSteps
  <2> DEFINE row == [view |-> view[w], plan |-> None, filed |-> FALSE]
  <2>3. row \in AskedRow
    BY <1>0 DEF AskedRow
  <2>4. Len(calls') = Len(calls) + 1
    BY <1>0, <2>1 DEF Invoke
  <2> HIDE DEF row
  <2>5. /\ asked' \in Seq(AskedRow) /\ Len(asked') = Len(calls')
        /\ Len(asked') >= Len(asked)
        /\ \A i \in DOMAIN asked : i \in DOMAIN asked' /\ asked'[i] = asked[i]
    <3>1. asked' = Append(asked, row)
      BY <2>1 DEF row
    <3> QED BY <1>0, <2>3, <2>4, <3>1
  <2>6. Steady /\ OthersPlan(w)
    BY <2>1, <2>2, <2>5 DEF Steady, OthersPlan
  <2>7. view[w] > 0 /\ stage[w] # "granted"
    BY <1>0, <2>1 DEF SelectionOK, Holding, Claimant, Out
  <2>8. /\ me'[w].at # "new" /\ me'[w].at # "begin" /\ view'[w] <= Current'
    BY <1>0, <2>1, <2>2 DEF Out, Current
  <2>9. SelectionOK'
    BY <1>0, <2>1, <2>5, <2>6, <2>7, <2>8, SelectionKept
  <2> QED BY <2>1, <2>6, <2>9 DEF Form, Worked
(* Answers and settlements rewrite what was asked.                          *)
<1>6. ASSUME Worked(w), UNCHANGED <<sets, bound, stage>>, Len(calls') = Len(calls),
             \A v \in Workers \ {w} : me'[v] = me[v],
             \A v \in Workers \ {w} : view'[v] = view[v] /\ plan'[v] = plan[v],
             view' \in [Workers -> Nat], plan' \in [Workers -> Proposal \union {None}],
             wish' \in Proposal \union {None},
             asked' \in Seq(AskedRow), Len(asked') = Len(asked), DOMAIN asked' = DOMAIN asked,
             \A i \in DOMAIN asked : asked'[i].view = asked[i].view,
             stage[w] # "granted",
             \/ view'[w] = view[w]
             \/ me'[w].at \notin Holding /\ view'[w] = 0 /\ plan'[w] = None,
             me'[w].at # "new", view[w] > 0
      PROVE  Form /\ SelectionOK'
  <2>1. OthersPlan(w) /\ Steady
    <3>1. Len(asked') >= Len(asked)
      BY <1>0, <1>6
    <3> QED BY <1>6, <3>1 DEF OthersPlan, Steady
  <2>2. view'[w] <= Current'
    BY <1>0, <1>6 DEF Current
  <2>3. SelectionOK'
    BY <1>0, <1>6, <2>1, <2>2, SelectionKept
  <2> QED BY <1>6, <2>1, <2>3 DEF Form
<1>7. CASE \E a \in Answers : ReturnWish(w, a)
  <2>1. PICK a \in Answers : ReturnWish(w, a)
    BY <1>7
  <2>2. PICK p \in Wishes(w, a) :
          /\ plan' = [plan EXCEPT ![w] = p]
          /\ asked' = [i \in DOMAIN asked |->
                         IF Open(w, i) THEN [asked[i] EXCEPT !.plan = p] ELSE asked[i]]
    BY <2>1 DEF ReturnWish
  <2>3. /\ Return(w, a) /\ UNCHANGED <<sets, bound, wish, stage, view>> /\ me[w].at = "inside"
    BY <2>1 DEF ReturnWish, Return
  <2>4. /\ me'[w].at \in Out /\ \A v \in Workers \ {w} : me'[v] = me[v]
    BY <2>3, WorkerSteps
  <2>5. view[w] > 0 /\ stage[w] # "granted"
    BY <1>0, <2>3 DEF SelectionOK, Holding, Claimant, Out
  <2>6. p \in Proposal \union {None}
    BY <2>5, WishesTyped
  <2>7. Len(calls') = Len(calls)
    BY <1>0, <2>1, <2>3, CallAnswered DEF Return
  <2>8. \A i \in DOMAIN asked : asked[i] \in AskedRow
    BY <1>0, ElementOfSeq
  <2>9. \A i \in DOMAIN asked : asked'[i] \in AskedRow /\ asked'[i].view = asked[i].view
    BY <2>2, <2>6, <2>8 DEF AskedRow
  <2>10. asked' \in Seq(AskedRow) /\ Len(asked') = Len(asked) /\ DOMAIN asked' = DOMAIN asked
    BY <1>0, <2>2, <2>9, AskedTyped
  <2>11. /\ plan' \in [Workers -> Proposal \union {None}]
         /\ \A v \in Workers \ {w} : view'[v] = view[v] /\ plan'[v] = plan[v]
    BY <1>0, <2>2, <2>3, <2>6
  <2>12. Worked(w)
    BY <2>3 DEF Worked
  <2>13. me'[w].at # "new" /\ view' \in [Workers -> Nat]
    BY <1>0, <2>3, <2>4 DEF Out
  <2> QED BY <1>0, <1>6, <2>3, <2>4, <2>5, <2>7, <2>9, <2>10, <2>11, <2>12, <2>13
<1>8. CASE SettleWish(w)
  <2>1. /\ Settle(w) /\ wish' = plan[w] /\ UNCHANGED <<sets, bound, stage>>
        /\ me[w].at = "outcome"
    BY <1>8 DEF SettleWish, Settle
  <2>2. IF head'.outcome = "more" THEN NextTurn(w, plan[w]) ELSE UNCHANGED <<view, plan>>
    BY <1>8 DEF SettleWish
  <2>3. asked' = [i \in DOMAIN asked |->
                   IF calls[i].by = w /\ CallOf(calls[i]) = CallOf(head)
                     THEN [asked[i] EXCEPT !.filed = TRUE] ELSE asked[i]]
    BY <1>8 DEF SettleWish
  <2>4. /\ \A v \in Workers \ {w} : me'[v] = me[v]
        /\ me'[w].at \in {"begin", "pause", "retry", "stop"}
        /\ me'[w].at = "retry" => head'.outcome = "safe"
        /\ calls' = calls
    BY <2>1, CallClosed
  <2>5. view[w] > 0 /\ stage[w] # "granted"
    BY <1>0, <2>1 DEF SelectionOK, Holding, Claimant, Out
  <2>6. /\ view' \in [Workers -> Nat] /\ plan' = plan
        /\ \A v \in Workers \ {w} : view'[v] = view[v]
        /\ \/ view'[w] = view[w]
           \/ me'[w].at \notin Holding /\ view'[w] = 0 /\ plan'[w] = None
    BY <1>0, <2>2, <2>4 DEF NextTurn, Holding, Claimant, Out
  <2>7. \A i \in DOMAIN asked : asked[i] \in AskedRow
    BY <1>0, ElementOfSeq
  <2>8. \A i \in DOMAIN asked : asked'[i] \in AskedRow /\ asked'[i].view = asked[i].view
    BY <2>3, <2>7 DEF AskedRow
  <2>9. asked' \in Seq(AskedRow) /\ Len(asked') = Len(asked) /\ DOMAIN asked' = DOMAIN asked
    BY <1>0, <2>3, <2>8, AskedTyped
  <2>10. Worked(w) /\ plan' \in [Workers -> Proposal \union {None}]
         /\ wish' \in Proposal \union {None} /\ me'[w].at # "new"
    BY <1>0, <2>1, <2>4, <2>6 DEF Worked
  <2> QED BY <1>0, <1>6, <2>1, <2>4, <2>5, <2>6, <2>8, <2>9, <2>10
<1>9. CASE ClaimOnView(w)
  <2>1. /\ Bindable(w) /\ plan[w] = None /\ UNCHANGED <<sets, stage, asked>>
        /\ me[w].at = "begin"
    BY <1>9 DEF ClaimOnView, ClaimFirst, ClaimNext, ClaimExpired, ClaimReplay, Claiming
  <2>2. view[w] > 0 /\ view[w] = Current /\ stage[w] # "granted"
    BY <1>0, <2>1 DEF Bindable
  <2>3. CASE /\ \/ (ClaimFirst(w) \/ ClaimNext(w)) /\ bound' = view[w] /\ wish' = None
                \/ ClaimExpired(w) /\ bound = view[w] /\ UNCHANGED <<bound, wish>>
             /\ UNCHANGED <<view, plan>>
    <3>1. me' = [me EXCEPT ![w].at = "claimed", ![w].kept = head'] /\ calls' = calls
      BY <2>3 DEF ClaimFirst, ClaimNext, ClaimExpired, GoWith
    <3>2. me'[w].at = "claimed" /\ \A v \in Workers \ {w} : me'[v] = me[v]
      BY <3>1 DEF Typed, TypeOK
    <3>3. Worked(w) /\ bound' \in Nat /\ wish' \in Proposal \union {None}
      BY <1>0, <2>1, <2>3 DEF Worked
    <3>4. OthersPlan(w) /\ Steady
      BY <2>1, <2>3, <3>2 DEF OthersPlan, Steady
    <3>5. view'[w] <= Current' /\ view'[w] > 0 /\ view' \in [Workers -> Nat]
      BY <1>0, <2>1, <2>2, <2>3 DEF Current
    <3>6. SelectionOK'
      BY <1>0, <2>1, <2>2, <2>3, <3>1, <3>2, <3>3, <3>4, <3>5, SelectionKept
    <3> QED BY <2>1, <3>3, <3>4, <3>6 DEF Form
  <2>4. CASE /\ ClaimReplay(w) /\ bound = view[w] /\ UNCHANGED <<bound, wish>>
             /\ IF head.outcome = "more" THEN NextTurn(w, wish) ELSE UNCHANGED <<view, plan>>
    <3>1. /\ \A v \in Workers \ {w} : me'[v] = me[v]
          /\ me'[w].at \in {"begin", "pause", "retry", "stop"}
          /\ me'[w].at = "retry" => head'.outcome = "safe"
          /\ calls' = calls /\ head' = head
      BY <2>4, CallClosed DEF ClaimReplay
    <3>2. /\ view' \in [Workers -> Nat] /\ plan' \in [Workers -> Proposal \union {None}]
          /\ \A v \in Workers \ {w} : view'[v] = view[v] /\ plan'[v] = plan[v]
          /\ \/ view'[w] = view[w]
             \/ me'[w].at \notin Holding /\ view'[w] = 0 /\ plan'[w] = None
      <4>1. CASE head.outcome = "more"
        <5>1. /\ plan' = [plan EXCEPT ![w] = wish]
              /\ view' = IF wish = None THEN [view EXCEPT ![w] = 0] ELSE view
          BY <2>4, <4>1 DEF NextTurn
        <5>2. me'[w].at \notin Holding
          BY <3>1, <4>1 DEF Holding, Claimant, Out
        <5> QED BY <1>0, <5>1, <5>2
      <4>2. CASE head.outcome # "more"
        BY <1>0, <2>4, <4>2
      <4> QED BY <4>1, <4>2
    <3>3. OthersPlan(w) /\ Steady
      BY <2>1, <3>1, <3>2 DEF OthersPlan, Steady
    <3>4. Worked(w) /\ view'[w] <= Current'
      BY <1>0, <2>1, <2>2, <2>4, <3>2 DEF Worked, Current
    <3>5. SelectionOK'
      BY <1>0, <2>1, <2>2, <2>4, <3>1, <3>2, <3>3, <3>4, SelectionKept
    <3> QED BY <2>1, <3>3, <3>4, <3>5 DEF Form
  <2> QED BY <1>9, <2>1, <2>3, <2>4 DEF ClaimOnView
<1> QED BY <1>2, <1>3, <1>4, <1>5, <1>7, <1>8, <1>9

LEMMA FormStep ==
    ASSUME SelectionOK, Typed, [SelectingNext]_allVars
    PROVE  Form /\ SelectionOK'
<1>1. CASE Revise
  <2>1. Revised /\ UNCHANGED <<stage, view, plan>>
    BY <1>1, ReviseRevises
  <2>2. /\ me' = me /\ calls' = calls /\ UNCHANGED <<bound, wish, asked>> /\ Longer
        /\ sets' \in Seq(SpecRecord)
    BY <2>1 DEF Revised, Clear, Longer
  <2>3. view' \in [Workers -> 0 .. Current']
    BY <2>1, <2>2 DEF SelectionOK, Longer, Current
  <2> QED BY <2>1, <2>2, <2>3 DEF Form, Steady, SelectionOK, Holding, Claimant, Out
<1>2. CASE UNCHANGED allVars
  <2>1. UNCHANGED vars /\ UNCHANGED <<sets, bound, wish, stage, view, plan, asked>>
    BY <1>2 DEF allVars, selection
  <2>2. me' = me /\ calls' = calls
    BY <2>1 DEF vars
  <2> QED BY <2>1, <2>2 DEF Form, Steady, Prepared, SelectionOK, Holding, Claimant, Out, Current
<1>3. ASSUME NEW w \in Workers, Arrive(w) \/ StartReady(w) \/ SelectingStep(w)
      PROVE  Form /\ SelectionOK'
  BY <1>3, PreparedForm, WorkedForm DEF SelectingStep
<1> QED BY <1>1, <1>2, <1>3 DEF SelectingNext

(* The part of ProviderCall is that of its own, but that a revision of the
   selection clears the head record.                                        *)
LEMMA CallsStep ==
    ASSUME Form
    PROVE  [Next]_vars \/ Clear
BY DEF Form, Revised, Prepared, Worked, Next, Step

LEMMA CallsKept ==
    ASSUME Typed, Known, [Next]_vars \/ Clear
    PROVE  Typed' /\ Known'
<1>1. CASE [Next]_vars
  BY <1>1, TypedStep, KnownStep
<1>2. CASE Clear
  <2>1. Typed'
    BY <1>2, NoneAssumption DEF Clear, Typed, TypeOK, ClaimsRemembered, Remembers
  <2>2. Known'
    BY <1>2, <2>1 DEF Clear, MayStillAct, Known, HeadIsCurrent, JournalKnowsOpenCall
  <2> QED BY <2>1, <2>2
<1> QED BY <1>1, <1>2

-----------------------------------------------------------------------------
LEMMA ViewsKept ==
    ASSUME SelectionOK, ViewsCurrent, Steady, UNCHANGED sets, NEW w \in Workers,
           \A v \in Workers \ {w} : me'[v] = me[v],
           \/ bound' = bound /\ (head' # None => head # None)
           \/ bound' = Current /\ Current > 0,
           head' # None => head' = head
                           \/ \A v \in Workers \ {w} : me[v].at \in Holding => me[v].kept # head',
           me'[w].at \in Holding /\ head' # None /\ head' = me'[w].kept => view[w] = Current
    PROVE  ViewsCurrent'
<1>1. Current' = Current
  BY DEF Current
<1>2. head' # None => bound' = Current' /\ Current' > 0
  BY <1>1 DEF ViewsCurrent
<1>3. \A v \in Workers : me'[v].at \in Holding => view'[v] = view[v]
  BY DEF Steady
<1>4. ASSUME NEW v \in Workers, me'[v].at \in Holding, head' # None, head' = me'[v].kept
      PROVE  view'[v] = Current'
  BY <1>1, <1>3, <1>4 DEF ViewsCurrent
<1> QED BY <1>2, <1>4 DEF ViewsCurrent, Holding, Claimant, Out

LEMMA ViewsStep ==
    ASSUME Typed, Typed', Known, SelectionOK, Records, ViewsCurrent, Form
    PROVE  ViewsCurrent'
<1>0. /\ head \in Record \union {None} /\ me \in [Workers -> Memory] /\ ClaimsRemembered
      /\ Steady /\ HeadIsCurrent
      /\ \A v \in Workers : me[v].at \in Claimant => me[v].kept.holder = v
      /\ \A v \in Workers : /\ me[v].at \in Holding => me[v].kept \in Record /\ me[v].kept # None
                            /\ me[v].at \in Holding => Past(me[v].kept)
                            /\ me[v].at = "retry" => me[v].kept.outcome = "safe"
      /\ \A h \in Record : h.turn \in Nat /\ h.gen \in Nat
  <2>1. \A h \in Record : h.turn \in Nat /\ h.gen \in Nat
    BY DEF Record, Turns
  <2>2. head \in Record \union {None} /\ me \in [Workers -> Memory] /\ ClaimsRemembered
    BY DEF Typed, TypeOK, Memory
  <2>3. \A v \in Workers : /\ me[v].at \in Claimant => me[v].kept.holder = v
                           /\ me[v].at \in Holding => me[v].kept \in Record /\ me[v].kept # None
    BY <2>2, NoneAssumption DEF ClaimsRemembered, Remembers, Holding
  <2> QED BY <2>1, <2>2, <2>3 DEF Known, Records, Form
<1>1. ASSUME NEW w \in Workers, ClaimFirst(w) \/ ClaimNext(w) \/ ClaimExpired(w) \/ Retry(w)
      PROVE  \A v \in Workers \ {w} : me[v].at \in Holding => me[v].kept # head'
  <2>1. /\ head'.source = me[w].source /\ head'.turn = me[w].turn
        /\ head'.holder = w /\ head'.outcome = None
        /\ Retry(w) => head'.gen = head.gen + 1
    BY <1>0, <1>1, ClaimMade DEF Retry, ClaimFirst, ClaimNext, Claiming
  <2> SUFFICES ASSUME NEW v \in Workers \ {w}, me[v].at \in Holding, me[v].kept = head' PROVE FALSE
    OBVIOUS
  <2>2. me[v].at = "retry"
    BY <1>0, <2>1 DEF Holding
  <2> QED BY <1>0, <2>1, <2>2, NoneAssumption DEF Outcomes, Answers, Failures
<1>2. ASSUME NEW w \in Workers, Admit(w) \/ CloseUninvoked(w) \/ Settle(w)
      PROVE  \A v \in Workers \ {w} : me[v].at \in Holding => me[v].kept # head'
  <2>1. /\ head'.holder = w /\ head'.turn = me[w].turn /\ head'.gen = me[w].kept.gen
        /\ me[w].at \in Claimant
        /\ Settle(w) \/ head'.outcome \in {None, "stopped"}
    <3>1. CASE Settle(w)
      BY <1>0, <3>1, CallClosed DEF Settle, Claimant, Out
    <3>2. CASE Admit(w) \/ CloseUninvoked(w)
      BY <3>2, WorkerSteps DEF Claimant, Out
    <3> QED BY <1>2, <3>1, <3>2
  <2> SUFFICES ASSUME NEW v \in Workers \ {w}, me[v].at \in Holding, me[v].kept = head' PROVE FALSE
    OBVIOUS
  <2>2. me[v].at = "retry" /\ head'.outcome = "safe" /\ Past(head')
    BY <1>0, <2>1 DEF Holding
  <2> QED BY <1>0, <2>1, <2>2, NoneAssumption DEF Outcomes, Answers, Failures, Past
<1>3. ASSUME NEW w \in Workers, Worked(w), UNCHANGED sets PROVE ViewsCurrent'
  <2>1. CASE /\ Start(w) \/ GiveUp(w) \/ Pause(w) \/ Stop(w) \/ Refuse(w)
             /\ bound' = bound
    <3>1. /\ \A v \in Workers \ {w} : me'[v] = me[v]
          /\ me'[w].at \in {"begin", "stop", "gone"} /\ (head' = head \/ head' = None)
      BY <2>1, WorkerSteps
    <3>2. me'[w].at \notin Holding /\ (head' # None => head # None /\ head' = head)
      BY <3>1 DEF Holding, Claimant, Out
    <3> QED BY <1>0, <1>3, <2>1, <3>1, <3>2, ViewsKept
  <2>2. CASE /\ Invoke(w) \/ (\E a \in Answers : Return(w, a))
             /\ bound' = bound
    BY <1>0, <1>3, <2>2, WorkerSteps, ViewsKept DEF Holding, Claimant, Out, ViewsCurrent
  <2>3. CASE (Admit(w) \/ CloseUninvoked(w)) /\ bound' = bound
    BY <1>0, <1>2, <1>3, <2>3, WorkerSteps, ViewsKept DEF Holding, Claimant, Out, ViewsCurrent
  <2>4. CASE Settle(w) /\ bound' = bound
    <3>1. me[w].at \in Holding /\ head = me[w].kept
      BY <2>4 DEF Settle, Holding, Claimant, Out
    <3> QED BY <1>0, <1>2, <1>3, <2>4, <3>1, CallClosed, ViewsKept DEF ViewsCurrent
  <2>5. CASE Retry(w) /\ bound' = bound
    <3>1. me[w].at \in Holding /\ head = me[w].kept /\ head # None
      BY <2>5 DEF Retry, Holding
    <3>2. \A v \in Workers \ {w} : me'[v] = me[v]
      BY <1>0, <2>5, ClaimMade
    <3> QED BY <1>0, <1>1, <1>3, <2>5, <3>1, <3>2, ViewsKept DEF ViewsCurrent
  <2>6. CASE (ClaimFirst(w) \/ ClaimNext(w)) /\ Bindable(w) /\ bound' = view[w]
    <3>1. /\ view[w] = Current /\ Current > 0 /\ bound' = Current
      BY <2>6 DEF Bindable, SelectionOK, Current
    <3>2. \A v \in Workers \ {w} : me'[v] = me[v]
      BY <1>0, <2>6, ClaimMade
    <3> QED BY <1>0, <1>1, <1>3, <2>6, <3>1, <3>2, ViewsKept
  <2>7. CASE ClaimExpired(w) /\ Bindable(w) /\ bound' = bound /\ bound = view[w]
    <3>1. view[w] = Current /\ Current > 0 /\ bound' = Current
      BY <2>7 DEF Bindable, SelectionOK, Current
    <3>2. \A v \in Workers \ {w} : me'[v] = me[v]
      BY <1>0, <2>7, ClaimMade
    <3> QED BY <1>0, <1>1, <1>3, <2>7, <3>1, <3>2, ViewsKept
  <2>8. CASE ClaimReplay(w) /\ Bindable(w) /\ bound' = bound /\ bound = view[w]
    <3>1. view[w] = Current /\ Current > 0 /\ bound' = Current /\ head' = head
      BY <2>8 DEF Bindable, SelectionOK, Current, ClaimReplay
    <3> QED BY <1>0, <1>3, <2>8, <3>1, CallClosed, ViewsKept
  <2> QED BY <1>3, <2>1, <2>2, <2>3, <2>4, <2>5, <2>6, <2>7, <2>8 DEF Worked
<1>4. CASE Revised
  BY <1>4 DEF Revised, Clear, ViewsCurrent
<1>5. CASE Prepared
  BY <1>0, <1>5 DEF Prepared, vars, Steady, ViewsCurrent, Current
<1> QED BY <1>3, <1>4, <1>5 DEF Form

(* What holds of the workers and the selection, whoever takes a step.       *)
Sound == Typed /\ Known /\ SelectionOK /\ Records /\ ViewsCurrent

LEMMA SoundInit == InitSelection => Sound
<1> SUFFICES ASSUME InitSelection PROVE Sound
  OBVIOUS
<1>1. Init /\ Typed /\ Known /\ SelectionOK
  BY TypedInit, KnownInit, SelectionInit DEF InitSelection
<1>2. Records /\ ViewsCurrent
  BY <1>1 DEF Init, Records, ViewsCurrent, Holding, Claimant, Out
<1> QED BY <1>1, <1>2 DEF Sound

LEMMA SoundStep ==
    ASSUME Sound, [SelectingNext]_allVars
    PROVE  Sound' /\ Form
<1>1. Form /\ SelectionOK'
  BY FormStep DEF Sound
<1>2. [Next]_vars \/ Clear
  BY <1>1, CallsStep
<1>3. Typed' /\ Known'
  BY <1>2, CallsKept DEF Sound
<1>4. Records'
  BY <1>2, <1>3, RecordsStep DEF Sound, Known
<1>5. ViewsCurrent'
  BY <1>1, <1>3, ViewsStep DEF Sound
<1> QED BY <1>1, <1>3, <1>4, <1>5 DEF Sound

(* Working Set cannot change while a Provider Call may still act on the
   view it was given, whoever seeds, revises or has a proposal admitted.    *)
THEOREM ViewsHeld == SelectionSpec => []ViewHeldWhileCallOut
<1>1. Sound /\ [SelectingNext]_allVars => Sound'
  BY SoundStep
<1>2. Sound => ViewHeldWhileCallOut
  <2> SUFFICES ASSUME Sound, NEW w \in Workers,
                      me[w].at \in {"admitted", "inside", "outcome"}, ~ended, source = me[w].source
               PROVE  head = me[w].kept /\ bound = Current /\ view[w] = Current
    BY DEF ViewHeldWhileCallOut
  <2>1. head # None /\ head = me[w].kept
    BY DEF Sound, Known, JournalKnowsOpenCall, Typed, TypeOK
  <2> QED BY <2>1 DEF Sound, ViewsCurrent, Holding, Claimant, Out
<1> QED BY <1>1, <1>2, SoundInit, PTL DEF SelectionSpec

-----------------------------------------------------------------------------
(* A worker that leaves its call alone, or settles it, changes nothing for
   the calls that are still out.                                            *)
LEMMA ExclusiveOnKept ==
    ASSUME Typed, ExclusiveOn, SelectionOK, Steady, NEW w \in Workers,
           \A v \in Workers \ {w} : me'[v] = me[v],
           me'[w].at \notin Out, calls' = calls, CallsBehindView', HeadMayBeTriedOn'
    PROVE  ExclusiveOn'
<1>1. OneCallOut'
  BY DEF ExclusiveOn, OneCallOut
<1>2. \A v \in Workers : me'[v].at \in Out => view'[v] = view[v] /\ me'[v] = me[v]
  BY DEF Steady, Holding, Claimant, Out
<1>3. \A i \in DOMAIN calls : i \in DOMAIN asked /\ asked'[i].view = asked[i].view
  <2>1. calls \in Seq(CallRow)
    BY DEF Typed, TypeOK, CallRow
  <2> QED BY <2>1 DEF Steady, SelectionOK
<1>4. OutIsUndeliveredOn'
  BY <1>2, <1>3 DEF ExclusiveOn, OutIsUndeliveredOn, Out, UndeliveredOn, Open
<1> QED BY <1>1, <1>4 DEF ExclusiveOn

LEMMA ClaimExclusiveOn ==
    ASSUME Sound, Steady, ExclusiveOn, NEW w \in Workers, UNCHANGED sets,
           \/ (ClaimFirst(w) \/ ClaimNext(w)) /\ Bindable(w) /\ bound' = view[w]
           \/ ClaimExpired(w) /\ Bindable(w) /\ bound' = bound /\ bound = view[w]
           \/ Retry(w) /\ bound' = bound
    PROVE  ExclusiveOn'
<1>0. /\ head \in Record \union {None} /\ source \in Nat /\ me \in [Workers -> Memory]
      /\ \A i \in DOMAIN calls : calls[i] \in CallRow /\ i \in DOMAIN asked /\ asked'[i].view = asked[i].view
      /\ Current' = Current /\ Typed /\ SelectionOK
  <2>1. calls \in Seq(CallRow)
    BY DEF Sound, Typed, TypeOK, CallRow
  <2>2. \A i \in DOMAIN calls : calls[i] \in CallRow
    BY <2>1, ElementOfSeq
  <2>3. \A i \in DOMAIN calls : i \in DOMAIN asked /\ asked'[i].view = asked[i].view
    BY <2>1 DEF Sound, SelectionOK, Steady
  <2> QED BY <2>2, <2>3 DEF Sound, Typed, TypeOK, Memory, Current
<1>1. HeadIsCurrent
  BY DEF Sound, Known
<1>2. /\ calls' = calls /\ source' = source /\ ended' = ended /\ ~ended
      /\ \A v \in Workers \ {w} : me'[v] = me[v]
      /\ me'[w].at = "claimed" /\ me[w].source = source
  BY <1>0, <1>1, ClaimMade
<1>4. /\ head' # None /\ head'.turn = me[w].turn /\ head'.source = source
      /\ CallOf(head') = <<source, me[w].turn>>
      /\ ClaimExpired(w) \/ Retry(w) => head # None /\ CallOf(head) = CallOf(head')
  BY <1>0, <1>1, ClaimMade
<1>5. CASE ClaimFirst(w)
  <2>1. \A i \in DOMAIN calls : ~(calls[i].source = source /\ asked[i].view = Current)
    BY <1>2, <1>5 DEF ClaimFirst, ExclusiveOn, CallsBehindView
  <2>2. CallsBehindView' /\ HeadMayBeTriedOn'
    BY <1>0, <1>2, <1>4, <2>1 DEF ExclusiveOn, CallsBehindView, HeadMayBeTriedOn, UndeliveredOn, CallOf
  <2> QED BY <1>0, <1>2, <2>2, ExclusiveOnKept DEF Out
<1>6. CASE ClaimNext(w)
  <2>1. me[w].turn = head.turn + 1 /\ head.turn \in Nat
    BY <1>0, <1>6 DEF ClaimNext, CallOf, Record, Turns, Memory
  <2>2. \A i \in DOMAIN calls :
           calls[i].source = source /\ asked[i].view = Current => calls[i].turn < me[w].turn
    BY <1>0, <1>2, <2>1 DEF ExclusiveOn, CallsBehindView, CallRow, Turns
  <2>3. CallsBehindView' /\ HeadMayBeTriedOn'
    BY <1>0, <1>2, <1>4, <2>1, <2>2 DEF ExclusiveOn, CallsBehindView, HeadMayBeTriedOn,
                                        UndeliveredOn, CallOf, CallRow, Turns
  <2> QED BY <1>0, <1>2, <2>3, ExclusiveOnKept DEF Out
<1>7. CASE ClaimExpired(w) \/ Retry(w)
  <2>1. head # None /\ CallOf(head) = <<source, me[w].turn>>
    BY <1>4, <1>7
  <2>2. UndeliveredOn(CallOf(head), Current)
    BY <1>7, <2>1 DEF ClaimExpired, Retry, ExclusiveOn, HeadMayBeTriedOn
  <2>3. CallOf(head') = CallOf(head) /\ head'.turn = head.turn
    BY <1>4, <2>1 DEF CallOf
  <2>4. CallsBehindView' /\ HeadMayBeTriedOn'
    BY <1>0, <1>2, <1>4, <2>1, <2>2, <2>3 DEF ExclusiveOn, CallsBehindView, HeadMayBeTriedOn,
                                              UndeliveredOn
  <2> QED BY <1>0, <1>2, <2>4, ExclusiveOnKept DEF Out
<1> QED BY <1>5, <1>6, <1>7

(* An admission: nobody else is out with this call.                         *)
LEMMA AdmitExclusiveOn ==
    ASSUME Sound, Steady, ExclusiveOn, NEW w \in Workers, Admit(w), UNCHANGED sets
    PROVE  ExclusiveOn'
<1>0. /\ head \in Record /\ head # None /\ head = me[w].kept /\ me[w].at = "claimed" /\ ~ended
      /\ head' = [head EXCEPT !.status = "dispatching"] /\ head.source = source
      /\ UNCHANGED <<source, ended, calls>>
      /\ me' = [me EXCEPT ![w].at = "admitted", ![w].kept = head']
      /\ me \in [Workers -> Memory] /\ Current' = Current
      /\ calls \in Seq(CallRow) /\ Typed /\ SelectionOK
  BY DEF Admit, GoWith, Sound, Typed, TypeOK, Memory, Known, HeadIsCurrent, Current, CallRow
<1>1. /\ head' # None /\ CallOf(head') = CallOf(head) /\ head'.turn = head.turn
      /\ head'.status = "dispatching" /\ head'.outcome = None /\ head.status = "claimed"
  BY <1>0, AdmittedTyped DEF Typed, ClaimsRemembered, Remembers, Claimant
<1>2. /\ \A v \in Workers \ {w} : me'[v] = me[v]
      /\ me'[w].at = "admitted" /\ me'[w].kept = head'
  BY <1>0 DEF Memory
<1>v. /\ \A i \in DOMAIN calls : i \in DOMAIN asked /\ asked'[i].view = asked[i].view
      /\ view[w] = Current /\ view'[w] = Current
  <2>1. \A i \in DOMAIN calls : i \in DOMAIN asked /\ asked'[i].view = asked[i].view
    BY <1>0 DEF SelectionOK, Steady
  <2> QED BY <1>0, <1>2, <2>1 DEF Sound, ViewsCurrent, Steady, Holding, Claimant, Out
<1>3. \A v \in Workers : me[v].at \in Out => CallOf(me[v].kept) # CallOf(head)
  <2> TAKE v \in Workers
  <2> SUFFICES ASSUME me[v].at \in Out, CallOf(me[v].kept) = CallOf(head) PROVE FALSE
    OBVIOUS
  <2>1. me[v].source = source
    BY <1>0 DEF Typed, ClaimsRemembered, Remembers, Claimant, CallOf
  <2>2. head = me[v].kept /\ head.status = "dispatching"
    BY <1>0, <2>1 DEF Sound, Known, JournalKnowsOpenCall, Out, Typed, TypeOK
  <2> QED BY <1>1, <2>2
<1>4. UndeliveredOn(CallOf(head), Current)
  BY <1>0, <1>1 DEF ExclusiveOn, HeadMayBeTriedOn
<1>5. CallsBehindView' /\ HeadMayBeTriedOn'
  BY <1>0, <1>1, <1>v, NoneAssumption DEF ExclusiveOn, CallsBehindView, HeadMayBeTriedOn, Outcomes,
                                          Answers, Failures
<1>6. OneCallOut'
  BY <1>1, <1>2, <1>3 DEF ExclusiveOn, OneCallOut
<1>7. OutIsUndeliveredOn'
  <2>1. \A i \in DOMAIN calls' :
           CallOf(calls'[i]) = CallOf(me'[w].kept) /\ asked'[i].view = view'[w] => calls'[i].answer = "safe"
    BY <1>0, <1>1, <1>2, <1>v, <1>4 DEF UndeliveredOn
  <2>2. \A v \in Workers \ {w} : me'[v].at \in Out => me'[v] = me[v] /\ view'[v] = view[v]
    BY <1>2 DEF Steady, Holding, Claimant
  <2>3. ASSUME NEW v \in Workers \ {w}
        PROVE  /\ me'[v].at = "admitted" =>
                    \A i \in DOMAIN calls' : CallOf(calls'[i]) = CallOf(me'[v].kept) /\ asked'[i].view = view'[v]
                                              => calls'[i].answer = "safe"
               /\ me'[v].at \in {"inside", "outcome"} =>
                    \A i \in DOMAIN calls' :
                       CallOf(calls'[i]) = CallOf(me'[v].kept) /\ asked'[i].view = view'[v] =>
                          \/ calls'[i].answer = "safe"
                          \/ me'[v].at = "inside" /\ Open(v, i)'
                          \/ me'[v].at = "outcome" /\ calls'[i].answer = me'[v].answer
    BY <1>0, <1>v, <2>2 DEF ExclusiveOn, OutIsUndeliveredOn, Out, UndeliveredOn, Open
  <2> QED BY <1>2, <2>1, <2>3 DEF OutIsUndeliveredOn, UndeliveredOn
<1> QED BY <1>5, <1>6, <1>7 DEF ExclusiveOn

(* The outcome of a call is that of all of its generations on the view.     *)
LEMMA CloseExclusiveOn ==
    ASSUME Sound, Steady, ExclusiveOn, NEW w \in Workers, CloseUninvoked(w) \/ Settle(w),
           UNCHANGED sets
    PROVE  ExclusiveOn'
<1>0. /\ head \in Record /\ head # None /\ head = me[w].kept
      /\ UNCHANGED <<source, ended, calls>>
      /\ Remembers(me[w], w) /\ me[w].at \in Claimant /\ me[w] \in Memory
      /\ Current' = Current /\ calls \in Seq(CallRow) /\ Typed /\ SelectionOK
  BY DEF CloseUninvoked, Settle, Sound, Typed, TypeOK, Memory, ClaimsRemembered, Claimant, Out,
         Current, CallRow
<1>1. /\ \A v \in Workers \ {w} : me'[v] = me[v]
      /\ head' # None /\ CallOf(head') = CallOf(head) /\ head'.turn = head.turn
      /\ me'[w].at \notin Out
  <2>1. CASE Settle(w)
    BY <1>0, <2>1, CallClosed DEF CallOf, Out
  <2>2. CASE CloseUninvoked(w)
    <3>1. \A v \in Workers \ {w} : me'[v] = me[v]
      BY <1>0, <2>2, WorkerSteps
    <3>2. head' = Closed(head, "stopped") /\ me'[w].at = "stop"
      BY <1>0, <2>2 DEF CloseUninvoked, GoWith, Typed, TypeOK
    <3> QED BY <1>0, <3>1, <3>2, ClosedTyped DEF Outcomes, Out
  <2> QED BY <2>1, <2>2
<1>2. head'.status # "claimed" /\ (head'.outcome = "safe" => Settle(w) /\ me[w].answer = "safe")
  <2>1. PICK a \in Outcomes : head' = Closed(head, a) /\ (a = "stopped" \/ (Settle(w) /\ a = me[w].answer))
    BY <1>0 DEF CloseUninvoked, Settle, Remembers, Outcomes
  <2> QED BY <1>0, <2>1, ClosedTyped
<1>v. /\ \A i \in DOMAIN calls : i \in DOMAIN asked /\ asked'[i].view = asked[i].view
      /\ view[w] = Current
  <2>1. \A i \in DOMAIN calls : i \in DOMAIN asked /\ asked'[i].view = asked[i].view
    BY <1>0 DEF SelectionOK, Steady
  <2> QED BY <1>0, <2>1 DEF Sound, ViewsCurrent, Holding
<1>5. Settle(w) /\ me[w].answer = "safe" => UndeliveredOn(CallOf(head), Current)
  BY <1>0, <1>v DEF ExclusiveOn, OutIsUndeliveredOn, UndeliveredOn, Settle
<1>6. CallsBehindView' /\ HeadMayBeTriedOn'
  BY <1>0, <1>1, <1>2, <1>5, <1>v DEF ExclusiveOn, CallsBehindView, HeadMayBeTriedOn, UndeliveredOn
<1> QED BY <1>0, <1>1, <1>6, ExclusiveOnKept

(* An invocation is the first on its view since the admission of its call.  *)
LEMMA InvokeExclusiveOn ==
    ASSUME Sound, SelectionOK', Steady, ExclusiveOn, NEW w \in Workers, Invoke(w), UNCHANGED sets,
           asked' = Append(asked, [view |-> view[w], plan |-> None, filed |-> FALSE])
    PROVE  /\ ExclusiveOn'
           /\ \A i \in DOMAIN calls :
                 /\ calls'[i] = calls[i] /\ asked'[i] = asked[i]
                 /\ CallOf(calls[i]) = CallOf(calls'[Len(calls) + 1])
                    /\ asked[i].view = asked'[Len(calls) + 1].view => calls[i].answer = "safe"
           /\ DOMAIN calls' = DOMAIN calls \union {Len(calls) + 1}
<1> DEFINE c == [source |-> me[w].source, turn |-> me[w].turn, gen |-> me[w].kept.gen,
                 by |-> w, answer |-> None]
           n == Len(calls) + 1
<1>0. /\ me[w] \in Memory /\ Remembers(me[w], w) /\ me[w].at = "admitted"
      /\ me[w].kept \in Record /\ CallOf(me[w].kept) = <<me[w].source, me[w].turn>>
      /\ UNCHANGED <<head, source, ended>> /\ calls' = Append(calls, c)
      /\ calls \in Seq(CallRow) /\ Current' = Current
  BY DEF Invoke, Sound, Typed, TypeOK, Memory, ClaimsRemembered, Remembers, Claimant, Out, CallRow,
         Current
<1>1. c \in CallRow
  BY <1>0 DEF CallRow, Memory, Record, CallOf, Turns
<1>2. /\ DOMAIN calls' = DOMAIN calls \union {n} /\ calls'[n] = c
      /\ \A i \in DOMAIN calls : calls'[i] = calls[i]
      /\ CallOf(c) = CallOf(me[w].kept)
  BY <1>0, <1>1, CallMade DEF CallOf
<1>3. /\ \A v \in Workers \ {w} : me'[v] = me[v]
      /\ me'[w].at = "inside" /\ me'[w].kept = me[w].kept
  BY <1>0 DEF Invoke, Go, Sound, Typed, TypeOK, Memory
<1>v. /\ \A i \in DOMAIN calls : i \in DOMAIN asked /\ asked'[i] = asked[i]
      /\ asked'[n].view = view[w]
      /\ \A v \in Workers : me'[v].at \in Out => view'[v] = view[v]
      /\ view[w] <= Current
  <2>1. asked \in Seq(AskedRow) /\ Len(asked) = Len(calls) /\ view[w] <= Current
    BY DEF Sound, SelectionOK
  <2>2. [view |-> view[w], plan |-> None, filed |-> FALSE] \in AskedRow
    BY DEF Sound, SelectionOK, AskedRow, Current
  <2>3. \A v \in Workers : me'[v].at \in Out => view'[v] = view[v]
    BY DEF Steady, Holding, Claimant
  <2> QED BY <1>0, <2>1, <2>2, <2>3
<1>4. UndeliveredOn(CallOf(me[w].kept), view[w])
  BY <1>0 DEF ExclusiveOn, OutIsUndeliveredOn
<1>5. \/ head = me[w].kept /\ head.status = "dispatching"
      \/ source > me[w].source
      \/ ended
  BY <1>0 DEF Sound, Known, JournalKnowsOpenCall
<1>6. c.source <= source /\ (c.source = source /\ ~ended => head # None /\ c.turn <= head.turn)
  BY <1>0, <1>5, NoneAssumption DEF Sound, Known, HeadIsCurrent, CallOf, Memory, Record, Turns,
                                    Typed, TypeOK
<1> HIDE DEF c
<1>7. CallsBehindView'
  BY <1>0, <1>2, <1>6, <1>v DEF ExclusiveOn, CallsBehindView
<1>8. HeadMayBeTriedOn'
  <2> SUFFICES ASSUME head # None, head.status = "claimed" \/ head.outcome = "safe",
                      CallOf(c) = CallOf(head)
               PROVE  FALSE
    BY <1>0, <1>2, <1>v DEF ExclusiveOn, HeadMayBeTriedOn, UndeliveredOn
  <2>1. head.source = source /\ ~ended /\ me[w].source = source /\ source \in Nat
    BY <1>0, <1>2 DEF Sound, Known, HeadIsCurrent, CallOf, Typed, TypeOK
  <2>2. head = me[w].kept /\ head.status = "dispatching"
    BY <1>5, <2>1
  <2>3. head.outcome = None
    BY <1>0, <2>2 DEF Remembers, Claimant, Out
  <2> QED BY <2>2, <2>3, NoneAssumption DEF Outcomes, Answers, Failures
<1>9. OneCallOut'
  <2>1. ASSUME NEW v \in Workers, me'[v].at \in Out
        PROVE  me[v].at \in Out /\ me'[v].kept = me[v].kept
    BY <1>0, <1>3, <2>1 DEF Out
  <2>2. OneCallOut
    BY DEF ExclusiveOn
  <2> QED BY <2>1, <2>2 DEF OneCallOut
<1>10. OutIsUndeliveredOn'
  <2>1. \A v \in Workers \ {w} : me[v].at \in Out => CallOf(me[v].kept) # CallOf(c)
    BY <1>0, <1>2 DEF ExclusiveOn, OneCallOut, Out
  <2>2. ASSUME NEW v \in Workers \ {w}
        PROVE  /\ me'[v].at = "admitted" =>
                    \A i \in DOMAIN calls' : CallOf(calls'[i]) = CallOf(me'[v].kept) /\ asked'[i].view = view'[v]
                                              => calls'[i].answer = "safe"
               /\ me'[v].at \in {"inside", "outcome"} =>
                    \A i \in DOMAIN calls' :
                       CallOf(calls'[i]) = CallOf(me'[v].kept) /\ asked'[i].view = view'[v] =>
                          \/ calls'[i].answer = "safe"
                          \/ me'[v].at = "inside" /\ Open(v, i)'
                          \/ me'[v].at = "outcome" /\ calls'[i].answer = me'[v].answer
    BY <1>2, <1>3, <1>v, <2>1, <2>2 DEF ExclusiveOn, OutIsUndeliveredOn, UndeliveredOn, Open, Out
  <2>3. \A i \in DOMAIN calls' : CallOf(calls'[i]) = CallOf(me'[w].kept) /\ asked'[i].view = view'[w] =>
           calls'[i].answer = "safe" \/ Open(w, i)'
    BY <1>2, <1>3, <1>4, <1>v DEF UndeliveredOn, Open, Out, c
  <2> QED BY <1>3, <2>2, <2>3 DEF OutIsUndeliveredOn, UndeliveredOn
<1> QED BY <1>2, <1>4, <1>7, <1>8, <1>9, <1>10, <1>v DEF ExclusiveOn, UndeliveredOn

(* An answer is that of the caller's own invocation.                        *)
LEMMA ReturnExclusiveOn ==
    ASSUME Sound, Steady, ExclusiveOn, NEW w \in Workers, NEW a \in Answers, Return(w, a),
           UNCHANGED sets
    PROVE  /\ ExclusiveOn'
           /\ DOMAIN calls' = DOMAIN calls
           /\ \A i \in DOMAIN calls : CallOf(calls'[i]) = CallOf(calls[i])
                                      /\ (calls[i].answer = "safe" => calls'[i].answer = "safe")
<1>0. /\ UNCHANGED <<head, source, ended>> /\ me[w].at = "inside" /\ calls \in Seq(CallRow)
      /\ calls' = [i \in DOMAIN calls |->
                     IF Open(w, i) THEN [calls[i] EXCEPT !.answer = a] ELSE calls[i]]
      /\ Current' = Current
  BY DEF Return, Sound, Typed, TypeOK, CallRow, Current
<1>1. /\ DOMAIN calls' = DOMAIN calls
      /\ \A i \in DOMAIN calls :
            /\ calls'[i].source = calls[i].source /\ calls'[i].turn = calls[i].turn
            /\ calls'[i].by = calls[i].by /\ CallOf(calls'[i]) = CallOf(calls[i])
            /\ calls'[i].answer = IF Open(w, i) THEN a ELSE calls[i].answer
  BY <1>0, CallAnswered
<1>2. /\ \A v \in Workers \ {w} : me'[v] = me[v]
      /\ me'[w].at = "outcome" /\ me'[w].answer = a /\ me'[w].kept = me[w].kept
  BY DEF Return, Sound, Typed, TypeOK
<1>v. /\ \A i \in DOMAIN calls : i \in DOMAIN asked /\ asked'[i].view = asked[i].view
      /\ \A v \in Workers : me'[v].at \in Out => view'[v] = view[v]
  BY <1>0 DEF Sound, SelectionOK, Steady, Holding, Claimant
<1>3. \A i \in DOMAIN calls : calls[i].answer = "safe" => calls'[i].answer = "safe"
  BY <1>1, NoneAssumption DEF Open, Outcomes, Answers, Failures
<1>4. CallsBehindView' /\ HeadMayBeTriedOn' /\ OneCallOut'
  BY <1>0, <1>1, <1>2, <1>3, <1>v DEF ExclusiveOn, CallsBehindView, HeadMayBeTriedOn, OneCallOut,
                                      UndeliveredOn, Out
<1>5. ASSUME NEW v \in Workers, NEW i \in DOMAIN calls, me'[v].at \in Out,
             CallOf(calls[i]) = CallOf(me'[v].kept), asked[i].view = view[v]
      PROVE  \/ calls'[i].answer = "safe"
             \/ me'[v].at = "inside" /\ Open(v, i)'
             \/ me'[v].at = "outcome" /\ calls'[i].answer = me'[v].answer
  <2>1. CASE v = w
    BY <1>0, <1>1, <1>2, <1>3, <1>5, <2>1 DEF ExclusiveOn, OutIsUndeliveredOn
  <2>2. CASE v # w
    <3>1. /\ me'[v] = me[v]
          /\ calls[i].by = v => calls'[i].answer = calls[i].answer
      BY <1>1, <1>2, <2>2 DEF Open
    <3>2. \/ calls[i].answer = "safe"
          \/ me[v].at = "inside" /\ Open(v, i)
          \/ me[v].at = "outcome" /\ calls[i].answer = me[v].answer
      BY <1>5, <3>1 DEF ExclusiveOn, OutIsUndeliveredOn, UndeliveredOn, Out
    <3>3. me[v].at = "outcome" => me[v].answer # None
      BY NoneAssumption DEF Sound, Typed, ClaimsRemembered, Remembers, Outcomes
    <3> QED BY <1>1, <1>3, <3>1, <3>2, <3>3 DEF Open
  <2> QED BY <2>1, <2>2
<1>6. OutIsUndeliveredOn'
  BY <1>1, <1>5, <1>v DEF OutIsUndeliveredOn, UndeliveredOn, Out
<1> QED BY <1>1, <1>3, <1>4, <1>6 DEF ExclusiveOn

LEMMA ExclusiveOnStep ==
    ASSUME Sound, Sound', Form, ExclusiveOn
    PROVE  ExclusiveOn'
<1>0. /\ me \in [Workers -> Memory] /\ source \in Nat /\ calls \in Seq(CallRow)
      /\ Steady /\ Typed /\ SelectionOK /\ SelectionOK'
      /\ \A i \in DOMAIN calls : /\ calls[i].source \in Nat /\ i \in DOMAIN asked
                                 /\ asked'[i].view = asked[i].view
  <2>1. calls \in Seq(CallRow)
    BY DEF Sound, Typed, TypeOK, CallRow
  <2>2. \A i \in DOMAIN calls : calls[i].source \in Nat
    <3>1. \A i \in DOMAIN calls : calls[i] \in CallRow
      BY <2>1, ElementOfSeq
    <3> QED BY <3>1 DEF CallRow
  <2>3. \A i \in DOMAIN calls : i \in DOMAIN asked /\ asked'[i].view = asked[i].view
    BY <2>1 DEF Sound, SelectionOK, Form, Steady
  <2> QED BY <2>1, <2>2, <2>3 DEF Sound, Typed, TypeOK, Memory, Form
<1>1. ASSUME NEW w \in Workers, UNCHANGED sets, Start(w) \/ GiveUp(w) \/ Refuse(w) \/ ClaimReplay(w)
      PROVE  ExclusiveOn'
  <2>1. /\ UNCHANGED <<head, source, ended, calls>> /\ Current' = Current
        /\ \A v \in Workers \ {w} : me'[v] = me[v]
    BY <1>0, <1>1 DEF Start, GiveUp, Refuse, ClaimReplay, Go, Current
  <2>2. me'[w].at \notin Out
    <3>1. CASE Start(w) \/ GiveUp(w) \/ Refuse(w)
      BY <1>0, <3>1 DEF Start, GiveUp, Refuse, Go, AfterRefusal, Out, Memory
    <3>2. CASE ClaimReplay(w)
      BY <1>0, <3>2, CallClosed DEF Out
    <3> QED BY <1>1, <3>1, <3>2
  <2>3. CallsBehindView' /\ HeadMayBeTriedOn'
    BY <1>0, <2>1 DEF ExclusiveOn, CallsBehindView, HeadMayBeTriedOn, UndeliveredOn
  <2> QED BY <1>0, <2>1, <2>2, <2>3, ExclusiveOnKept
<1>2. ASSUME NEW w \in Workers, UNCHANGED sets, Pause(w) \/ Stop(w) PROVE ExclusiveOn'
  <2>1. /\ head' = None /\ calls' = calls /\ Current' = Current
        /\ (source' = source + 1 \/ (source' = source /\ ended'))
        /\ \A v \in Workers \ {w} : me'[v] = me[v]
        /\ me'[w].at = "gone"
    BY <1>0, <1>2 DEF Pause, Stop, Go, Memory, Current
  <2>2. CallsBehindView' /\ HeadMayBeTriedOn'
    BY <1>0, <2>1 DEF ExclusiveOn, CallsBehindView, HeadMayBeTriedOn
  <2> QED BY <1>0, <2>1, <2>2, ExclusiveOnKept DEF Out
<1>3. ASSUME Revised \/ Prepared PROVE ExclusiveOn'
  <2>1. /\ me' = me /\ UNCHANGED <<source, ended, calls>>
        /\ \/ head' = None /\ Current' > Current
           \/ head' = head /\ Current' = Current
    BY <1>3 DEF Revised, Clear, Longer, Prepared, vars, Current
  <2>2. Current \in Nat /\ Current' \in Nat /\ \A i \in DOMAIN calls : asked[i].view \in Nat
    <3>1. \A i \in DOMAIN asked : asked[i] \in AskedRow
      BY <1>0, ElementOfSeq DEF SelectionOK
    <3> QED BY <1>0, <3>1 DEF SelectionOK, Current, AskedRow
  <2>3. CallsBehindView' /\ HeadMayBeTriedOn'
    BY <1>0, <2>1, <2>2 DEF ExclusiveOn, CallsBehindView, HeadMayBeTriedOn, UndeliveredOn
  <2>4. OneCallOut'
    BY <2>1 DEF ExclusiveOn, OneCallOut
  <2>5. \A v \in Workers : me'[v].at \in Out => view'[v] = view[v]
    BY <1>0 DEF Steady, Holding, Claimant
  <2>6. OutIsUndeliveredOn'
    BY <1>0, <2>1, <2>5 DEF ExclusiveOn, OutIsUndeliveredOn, Out, UndeliveredOn, Open
  <2> QED BY <2>3, <2>4, <2>6 DEF ExclusiveOn
<1>4. ASSUME NEW w \in Workers, Worked(w), UNCHANGED sets PROVE ExclusiveOn'
  BY <1>0, <1>1, <1>2, <1>4, ClaimExclusiveOn, AdmitExclusiveOn, CloseExclusiveOn,
     InvokeExclusiveOn, ReturnExclusiveOn DEF Worked
<1> QED BY <1>3, <1>4 DEF Form

(* A step that makes no call and answers none keeps what was made.          *)
LEMMA RequestsStep ==
    ASSUME Sound, Sound', Form, ExclusiveOn, RequestMadeOnce
    PROVE  RequestMadeOnce'
<1>0. /\ calls \in Seq(CallRow) /\ Len(calls) \in Nat /\ DOMAIN calls = 1 .. Len(calls)
      /\ Steady /\ SelectionOK'
      /\ \A i \in DOMAIN calls : i \in DOMAIN asked /\ asked'[i].view = asked[i].view
  <2>1. calls \in Seq(CallRow)
    BY DEF Sound, Typed, TypeOK, CallRow
  <2> QED BY <2>1 DEF Sound, SelectionOK, Form, Steady
<1>1. ASSUME NEW w \in Workers, Invoke(w), UNCHANGED sets,
             asked' = Append(asked, [view |-> view[w], plan |-> None, filed |-> FALSE])
      PROVE  RequestMadeOnce'
  <2>1. /\ \A i \in DOMAIN calls :
              /\ calls'[i] = calls[i] /\ asked'[i] = asked[i]
              /\ CallOf(calls[i]) = CallOf(calls'[Len(calls) + 1])
                 /\ asked[i].view = asked'[Len(calls) + 1].view => calls[i].answer = "safe"
        /\ DOMAIN calls' = DOMAIN calls \union {Len(calls) + 1}
    BY <1>0, <1>1, InvokeExclusiveOn
  <2> QED BY <1>0, <2>1 DEF RequestMadeOnce
<1>2. ASSUME NEW w \in Workers, NEW a \in Answers, Return(w, a), UNCHANGED sets PROVE RequestMadeOnce'
  <2>1. /\ DOMAIN calls' = DOMAIN calls
        /\ \A i \in DOMAIN calls : CallOf(calls'[i]) = CallOf(calls[i])
                                   /\ (calls[i].answer = "safe" => calls'[i].answer = "safe")
    BY <1>0, <1>2, ReturnExclusiveOn
  <2> QED BY <1>0, <2>1 DEF RequestMadeOnce
<1>3. ASSUME UNCHANGED calls PROVE RequestMadeOnce'
  BY <1>0, <1>3 DEF RequestMadeOnce
<1>4. ASSUME NEW w \in Workers, Worked(w), UNCHANGED sets PROVE RequestMadeOnce'
  <2>1. \/ Invoke(w) /\ asked' = Append(asked, [view |-> view[w], plan |-> None, filed |-> FALSE])
        \/ \E a \in Answers : Return(w, a)
        \/ UNCHANGED calls
    BY <1>4 DEF Worked, Start, GiveUp, ClaimFirst, ClaimNext, ClaimExpired,
                ClaimReplay, Admit, CloseUninvoked, Settle, Retry, Pause, Stop, Refuse
  <2> QED BY <1>1, <1>2, <1>3, <1>4, <2>1
<1>5. ASSUME Revised \/ Prepared PROVE RequestMadeOnce'
  BY <1>3, <1>5 DEF Revised, Clear, Prepared, vars
<1> QED BY <1>4, <1>5 DEF Form

(* No crash, retry or competing worker makes the same request twice: a turn
   is asked again on the same view only after its call was answered with a
   proof that it was never delivered.                                       *)
THEOREM RequestsMadeOnce == SelectionSpec => []RequestMadeOnce
<1> DEFINE IInv == Sound /\ ExclusiveOn /\ RequestMadeOnce
<1>1. InitSelection => IInv
  <2> SUFFICES ASSUME InitSelection PROVE ExclusiveOn /\ RequestMadeOnce
    BY SoundInit
  <2> QED BY DEF InitSelection, Init, ExclusiveOn, CallsBehindView, HeadMayBeTriedOn, OneCallOut,
                 OutIsUndeliveredOn, Out, RequestMadeOnce
<1>2. IInv /\ [SelectingNext]_allVars => IInv'
  BY SoundStep, ExclusiveOnStep, RequestsStep
<1>3. IInv => RequestMadeOnce
  OBVIOUS
<1> QED BY <1>1, <1>2, <1>3, PTL DEF SelectionSpec

-----------------------------------------------------------------------------
(* What an answered call proposed is not changed, and a step of worker w
   answers or files only its own calls.                                     *)
AnswersRemain ==
    \A j \in DOMAIN asked :
        /\ j \in DOMAIN asked' /\ calls'[j].source = calls[j].source
        /\ asked'[j].view = asked[j].view /\ (asked[j].filed => asked'[j].filed)
        /\ calls[j].answer # None =>
              calls'[j].answer = calls[j].answer /\ asked'[j].plan = asked[j].plan
Rows(w) ==
    /\ AnswersRemain
    /\ \A j \in DOMAIN asked :
          /\ CallOf(calls'[j]) = CallOf(calls[j]) /\ calls'[j].by = calls[j].by
          /\ calls[j].by # w => calls'[j].answer = calls[j].answer /\ asked'[j].plan = asked[j].plan

LEMMA VouchedKept ==
    ASSUME AnswersRemain, NEW p, NEW v, NEW s, Vouched(p, v, s)
    PROVE  \E j \in DOMAIN asked' :
              /\ asked'[j].filed /\ calls'[j].answer = "more"
              /\ asked'[j].plan = p /\ asked'[j].view = v /\ calls'[j].source = s
BY NoneAssumption DEF Vouched, AnswersRemain, Outcomes, Answers, Results

(* The proposals of the others stay vouched for.                            *)
LEMMA ProposalsKept ==
    ASSUME Sound, ProposalsVouched, NEW w \in Workers, Rows(w), OthersPlan(w),
           head' # None /\ head'.outcome = "more" /\ wish' # None =>
              \/ head' = head /\ wish' = wish /\ bound' = bound
              \/ \E j \in DOMAIN asked' :
                    /\ asked'[j].filed /\ calls'[j].answer = "more"
                    /\ asked'[j].plan = wish' /\ asked'[j].view = bound'
                    /\ calls'[j].source = head'.source,
           me'[w].at = "begin" /\ plan'[w] # None =>
              \E j \in DOMAIN asked' :
                    /\ asked'[j].filed /\ calls'[j].answer = "more"
                    /\ asked'[j].plan = plan'[w] /\ asked'[j].view = view'[w]
                    /\ calls'[j].source = me'[w].source,
           me'[w].at = "inside" =>
              \E j \in DOMAIN asked' :
                    /\ calls'[j].by = w /\ calls'[j].answer = None
                    /\ CallOf(calls'[j]) = CallOf(me'[w].kept) /\ asked'[j].view = view'[w],
           me'[w].at = "outcome" =>
              \E j \in DOMAIN asked' :
                    /\ calls'[j].by = w /\ CallOf(calls'[j]) = CallOf(me'[w].kept)
                    /\ calls'[j].answer = me'[w].answer
                    /\ asked'[j].plan = plan'[w] /\ asked'[j].view = view'[w]
    PROVE  ProposalsVouched'
<1>1. head' # None /\ head'.outcome = "more" /\ wish' # None =>
              \E j \in DOMAIN asked' :
                    /\ asked'[j].filed /\ calls'[j].answer = "more"
                    /\ asked'[j].plan = wish' /\ asked'[j].view = bound'
                    /\ calls'[j].source = head'.source
  <2>1. SUFFICES ASSUME head' # None, head'.outcome = "more", wish' # None,
                        head' = head, wish' = wish, bound' = bound
                 PROVE  \E j \in DOMAIN asked' :
                           /\ asked'[j].filed /\ calls'[j].answer = "more"
                           /\ asked'[j].plan = wish /\ asked'[j].view = bound
                           /\ calls'[j].source = head.source
    OBVIOUS
  <2>2. Vouched(wish, bound, head.source)
    BY <2>1 DEF ProposalsVouched
  <2>3. AnswersRemain
    BY DEF Rows
  <2> QED BY <2>2, <2>3, VouchedKept
<1>2. ASSUME NEW v \in Workers \ {w}, me'[v].at = "begin", plan'[v] # None
      PROVE  \E j \in DOMAIN asked' :
                    /\ asked'[j].filed /\ calls'[j].answer = "more"
                    /\ asked'[j].plan = plan'[v] /\ asked'[j].view = view'[v]
                    /\ calls'[j].source = me'[v].source
  <2>1. Vouched(plan[v], view[v], me[v].source)
    BY <1>2 DEF ProposalsVouched, OthersPlan
  <2> QED BY <1>2, <2>1, VouchedKept DEF OthersPlan, Rows
<1>3. ASSUME NEW v \in Workers \ {w}, me'[v].at = "inside"
      PROVE  \E j \in DOMAIN asked' :
                    /\ calls'[j].by = v /\ calls'[j].answer = None
                    /\ CallOf(calls'[j]) = CallOf(me'[v].kept) /\ asked'[j].view = view'[v]
  BY <1>3 DEF ProposalsVouched, OthersPlan, Rows, AnswersRemain, Open
<1>4. ASSUME NEW v \in Workers \ {w}, me'[v].at = "outcome"
      PROVE  \E j \in DOMAIN asked' :
                    /\ calls'[j].by = v /\ CallOf(calls'[j]) = CallOf(me'[v].kept)
                    /\ calls'[j].answer = me'[v].answer
                    /\ asked'[j].plan = plan'[v] /\ asked'[j].view = view'[v]
  BY <1>4 DEF ProposalsVouched, OthersPlan, Rows, AnswersRemain
<1> QED BY <1>1, <1>2, <1>3, <1>4 DEF ProposalsVouched, Vouched, Open

(* Steps that touch no call.                                                *)
LEMMA ProposalsUntouched ==
    ASSUME Sound, ProposalsVouched, UNCHANGED <<me, calls, asked>>,
           head' = None \/ UNCHANGED <<head, bound, wish>>,
           \A v \in Workers :
              /\ me[v].at \in Out => view'[v] = view[v] /\ plan'[v] = plan[v]
              /\ plan'[v] # None => view'[v] = view[v] /\ plan'[v] = plan[v]
    PROVE  ProposalsVouched' /\ AnswersRemain
<1>1. AnswersRemain
  BY DEF AnswersRemain
<1>2. ProposalsVouched'
  BY DEF ProposalsVouched, Vouched, Open, Out
<1> QED BY <1>1, <1>2

LEMMA ProposalsStep ==
    ASSUME Sound, Sound', Form, ProposalsVouched, [SelectingNext]_allVars
    PROVE  ProposalsVouched' /\ AnswersRemain
<1>0. /\ stage \in [Workers -> Stages] /\ view \in [Workers -> 0 .. Current]
      /\ plan \in [Workers -> Proposal \union {None}]
      /\ asked \in Seq(AskedRow) /\ calls \in Seq(CallRow) /\ DOMAIN asked = DOMAIN calls
      /\ Len(asked) = Len(calls) /\ Len(asked) \in Nat /\ DOMAIN asked = 1 .. Len(asked)
      /\ me \in [Workers -> Memory] /\ ClaimsRemembered /\ Typed /\ Records /\ ViewsCurrent
      /\ \A i \in DOMAIN asked : asked[i] \in AskedRow /\ i \in DOMAIN calls
  <2>1. calls \in Seq(CallRow) /\ asked \in Seq(AskedRow) /\ Len(asked) = Len(calls)
    BY DEF Sound, SelectionOK, Typed, TypeOK, CallRow
  <2>2. \A i \in DOMAIN asked : asked[i] \in AskedRow
    BY <2>1, ElementOfSeq
  <2>3. DOMAIN asked = DOMAIN calls /\ Len(asked) \in Nat /\ DOMAIN asked = 1 .. Len(asked)
    BY <2>1
  <2>4. /\ stage \in [Workers -> Stages] /\ view \in [Workers -> 0 .. Current]
        /\ plan \in [Workers -> Proposal \union {None}]
        /\ me \in [Workers -> Memory]
    BY DEF Sound, SelectionOK, Typed, TypeOK, Memory
  <2>5. ClaimsRemembered /\ Typed /\ Records /\ ViewsCurrent
    BY DEF Sound, Typed
  <2> QED BY <2>1, <2>2, <2>3, <2>4, <2>5
<1>1. CASE Revise
  BY <1>1, ReviseRevises, ProposalsUntouched DEF Revised, Clear, Sound
<1>2. CASE UNCHANGED allVars
  BY <1>2, ProposalsUntouched DEF allVars, vars, selection
<1>3. ASSUME NEW w \in Workers, Arrive(w) \/ RefuseSeed(w) \/ Grant(w) \/ Project(w)
      PROVE  ProposalsVouched' /\ AnswersRemain
  <2>1. UNCHANGED <<vars, bound, wish, plan, asked>>
    BY <1>3 DEF Arrive, RefuseSeed, Grant, Project
  <2>2. /\ UNCHANGED <<me, calls, asked, head, bound, wish, plan>>
        /\ \A v \in Workers : (me[v].at \in Out \/ plan'[v] # None) => view'[v] = view[v]
    <3>1. UNCHANGED view \/ (Projecting(w) /\ view' = [view EXCEPT ![w] = Current])
      BY <1>3 DEF Arrive, RefuseSeed, Grant, Project
    <3> QED BY <1>0, <2>1, <3>1 DEF vars, Projecting, Out
  <2> QED BY <2>2, ProposalsUntouched
<1>4. ASSUME NEW w \in Workers, RecordSeed(w) PROVE ProposalsVouched' /\ AnswersRemain
  BY <1>4, SeedRevises, ProposalsUntouched DEF Sound, Revised, Clear, Prepared, vars
<1>5. ASSUME NEW w \in Workers, ReplayProposal(w) \/ AdmitProposal(w)
      PROVE  ProposalsVouched' /\ AnswersRemain
  <2>1. /\ UNCHANGED <<me, calls, asked>> /\ (head' = None \/ UNCHANGED <<head, bound, wish>>)
        /\ me[w].at = "begin" /\ Resumed(w)
    BY <1>5 DEF ReplayProposal, AdmitProposal, vars
  <2>2. \A v \in Workers : (me[v].at \in Out \/ plan'[v] # None) =>
           view'[v] = view[v] /\ plan'[v] = plan[v]
    BY <1>0, <2>1 DEF Resumed, Out
  <2> QED BY <2>1, <2>2, ProposalsUntouched
<1>6. ASSUME NEW w \in Workers, StartReady(w) \/ ProjectFails(w) \/ RejectProposal(w) \/ Undisturbed(w)
      PROVE  ProposalsVouched' /\ AnswersRemain
  <2>1. /\ UNCHANGED <<calls, asked, bound, wish, view>>
        /\ me'[w].at \notin {"inside", "outcome"}
        /\ me'[w].at = "begin" => plan'[w] = None
        /\ OthersPlan(w)
        /\ head' # None /\ head'.outcome = "more" => head' = head
    <3>1. CASE StartReady(w)
      <4>1. Start(w) /\ UNCHANGED <<bound, wish, asked, view, plan, stage>>
        BY <3>1 DEF StartReady, selection
      <4>2. /\ me[w].at = "new" /\ me'[w].at = "begin" /\ \A v \in Workers \ {w} : me'[v] = me[v]
            /\ UNCHANGED <<head, calls>>
        BY <1>0, <4>1, WorkerSteps
      <4>3. plan[w] = None
        BY <4>2 DEF Sound, SelectionOK
      <4> QED BY <4>1, <4>2, <4>3 DEF OthersPlan
    <3>2. CASE ProjectFails(w) \/ RejectProposal(w)
      <4>1. /\ GiveUp(w) /\ me'[w].at = "stop" /\ UNCHANGED <<head, bound, wish, asked, view>>
        BY <1>0, <3>2 DEF ProjectFails, RejectProposal, Projecting, GiveUp, Go, selection, Memory
      <4>2. \A v \in Workers \ {w} : stage'[v] = stage[v] /\ plan'[v] = plan[v]
        BY <1>0, <3>2 DEF ProjectFails, RejectProposal, selection
      <4>3. UNCHANGED calls /\ \A v \in Workers \ {w} : me'[v] = me[v]
        BY <1>0, <4>1, WorkerSteps
      <4> QED BY <4>1, <4>2, <4>3 DEF OthersPlan
    <3>3. CASE Undisturbed(w)
      <4>1. UNCHANGED <<bound, wish, asked, view, plan, stage>>
        BY <3>3 DEF Undisturbed, selection
      <4>2. CASE GiveUp(w) \/ Pause(w) \/ Stop(w) \/ Refuse(w)
        <5>1. /\ me'[w].at \in {"stop", "gone"} /\ \A v \in Workers \ {w} : me'[v] = me[v]
              /\ UNCHANGED calls /\ (head' = head \/ head' = None)
          BY <1>0, <4>2, WorkerSteps
        <5> QED BY <4>1, <5>1 DEF OthersPlan
      <4>3. CASE Admit(w) \/ CloseUninvoked(w)
        <5>1. /\ me'[w].at \in {"admitted", "stop"} /\ \A v \in Workers \ {w} : me'[v] = me[v]
              /\ UNCHANGED calls /\ head'.outcome \in {None, "stopped"}
          BY <1>0, <4>3, WorkerSteps
        <5> QED BY <4>1, <5>1, NoneAssumption DEF OthersPlan, Outcomes, Answers, Results
      <4>4. CASE Retry(w)
        <5>1. /\ me'[w].at = "claimed" /\ \A v \in Workers \ {w} : me'[v] = me[v]
              /\ UNCHANGED calls /\ head'.outcome = None
          <6>1. HeadIsCurrent
            BY DEF Sound, Known
          <6> QED BY <1>0, <4>4, <6>1, ClaimMade
        <5> QED BY <4>1, <5>1, NoneAssumption DEF OthersPlan, Outcomes, Answers, Results
      <4> QED BY <3>3, <4>2, <4>3, <4>4 DEF Undisturbed
    <3> QED BY <1>6, <3>1, <3>2, <3>3
  <2>2. Rows(w)
    BY <1>0, <2>1 DEF Rows, AnswersRemain
  <2> QED BY <2>1, <2>2, ProposalsKept DEF Rows
<1>7. ASSUME NEW w \in Workers, ClaimOnView(w) PROVE ProposalsVouched' /\ AnswersRemain
  <2>1. /\ UNCHANGED <<sets, stage, asked>> /\ view[w] > 0 /\ plan[w] = None /\ me[w].at = "begin"
    BY <1>0, <1>7 DEF ClaimOnView, Bindable, ClaimFirst, ClaimNext, ClaimExpired, ClaimReplay, Claiming
  <2>2. CASE /\ ClaimFirst(w) \/ ClaimNext(w) \/ ClaimExpired(w)
             /\ UNCHANGED <<view, plan>>
    <3>1. /\ head'.outcome = None /\ me'[w].at = "claimed" /\ UNCHANGED calls
          /\ \A v \in Workers \ {w} : me'[v] = me[v]
      <4>1. HeadIsCurrent
        BY DEF Sound, Known
      <4> QED BY <1>0, <2>2, <4>1, ClaimMade
    <3>2. Rows(w) /\ OthersPlan(w) /\ head'.outcome # "more"
      BY <1>0, <2>1, <2>2, <3>1, NoneAssumption
         DEF Rows, AnswersRemain, OthersPlan, Outcomes, Answers, Results
    <3> QED BY <3>1, <3>2, ProposalsKept DEF Rows
  <2>3. CASE /\ ClaimReplay(w) /\ bound = view[w] /\ UNCHANGED <<bound, wish>>
             /\ IF head.outcome = "more" THEN NextTurn(w, wish) ELSE UNCHANGED <<view, plan>>
    <3>1. /\ \A v \in Workers \ {w} : me'[v] = me[v]
          /\ me'[w].at \in {"begin", "pause", "retry", "stop"}
          /\ me'[w].at = "begin" => head'.outcome = "more"
          /\ me'[w].source = me[w].source /\ head'.source = me[w].source
          /\ UNCHANGED <<calls, head>> /\ head' # None
      BY <1>0, <2>3, CallClosed DEF ClaimReplay
    <3>2. \A v \in Workers \ {w} : view'[v] = view[v] /\ plan'[v] = plan[v]
      BY <1>0, <2>3 DEF NextTurn
    <3>3. Rows(w) /\ OthersPlan(w)
      BY <1>0, <2>1, <3>1, <3>2 DEF Rows, AnswersRemain, OthersPlan
    <3>4. ASSUME me'[w].at = "begin", plan'[w] # None
          PROVE  \E j \in DOMAIN asked' :
                    /\ asked'[j].filed /\ calls'[j].answer = "more"
                    /\ asked'[j].plan = plan'[w] /\ asked'[j].view = view'[w]
                    /\ calls'[j].source = me'[w].source
      <4>1. plan'[w] = wish /\ wish # None /\ view' = view
        BY <1>0, <2>3, <3>1, <3>4 DEF NextTurn
      <4>2. Vouched(wish, bound, head.source)
        BY <3>1, <3>4, <4>1 DEF ProposalsVouched
      <4> QED BY <2>1, <2>3, <3>1, <4>1, <4>2 DEF Vouched
    <3>5. head' = head /\ wish' = wish /\ bound' = bound
      BY <2>3, <3>1
    <3>6. me'[w].at \notin {"inside", "outcome"}
      BY <3>1
    <3>7. ProposalsVouched'
      BY <3>3, <3>4, <3>5, <3>6, ProposalsKept
    <3> QED BY <3>3, <3>7 DEF Rows
  <2> QED BY <1>7, <2>2, <2>3 DEF ClaimOnView
<1>8. ASSUME NEW w \in Workers, InvokeOnView(w) PROVE ProposalsVouched' /\ AnswersRemain
  <2>1. /\ Invoke(w) /\ UNCHANGED <<sets, bound, wish, stage, view, plan>>
        /\ asked' = Append(asked, [view |-> view[w], plan |-> None, filed |-> FALSE])
        /\ me[w].at = "admitted"
        /\ calls' = Append(calls, [source |-> me[w].source, turn |-> me[w].turn,
                                   gen |-> me[w].kept.gen, by |-> w, answer |-> None])
    BY <1>8 DEF InvokeOnView, Invoke
  <2>2. /\ \A v \in Workers \ {w} : me'[v] = me[v]
        /\ me'[w].at = "inside" /\ me'[w].kept = me[w].kept /\ UNCHANGED head
    BY <1>0, <2>1 DEF Invoke, Go, Memory
  <2>3. CallOf(me[w].kept) = <<me[w].source, me[w].turn>>
    BY <1>0, <2>1 DEF ClaimsRemembered, Remembers, Claimant, Out
  <2> DEFINE n == Len(asked) + 1
             row == [view |-> view[w], plan |-> None, filed |-> FALSE]
             call == [source |-> me[w].source, turn |-> me[w].turn,
                      gen |-> me[w].kept.gen, by |-> w, answer |-> None]
  <2>4. /\ call.by = w /\ call.answer = None /\ CallOf(call) = CallOf(me[w].kept)
        /\ row.view = view[w]
    BY <2>3 DEF CallOf
  <2>5. asked' = Append(asked, row) /\ calls' = Append(calls, call)
    BY <2>1
  <2> HIDE DEF row, call
  <2>6. /\ n \in DOMAIN asked' /\ asked'[n] = row /\ calls'[n] = call
        /\ \A j \in DOMAIN asked : j \in DOMAIN asked' /\ asked'[j] = asked[j] /\ calls'[j] = calls[j]
    BY <1>0, <2>5
  <2>7. Rows(w) /\ OthersPlan(w)
    BY <2>1, <2>2, <2>6 DEF Rows, AnswersRemain, OthersPlan, CallOf
  <2>8. \E j \in DOMAIN asked' :
                    /\ calls'[j].by = w /\ calls'[j].answer = None
                    /\ CallOf(calls'[j]) = CallOf(me'[w].kept) /\ asked'[j].view = view'[w]
    BY <2>1, <2>2, <2>4, <2>6
  <2>9. ProposalsVouched'
    BY <2>1, <2>2, <2>7, <2>8, ProposalsKept
  <2> QED BY <2>7, <2>9 DEF Rows
<1>9. ASSUME NEW w \in Workers, NEW a \in Answers, ReturnWish(w, a)
      PROVE  ProposalsVouched' /\ AnswersRemain
  <2>1. PICK p \in Wishes(w, a) :
          /\ plan' = [plan EXCEPT ![w] = p]
          /\ asked' = [i \in DOMAIN asked |->
                         IF Open(w, i) THEN [asked[i] EXCEPT !.plan = p] ELSE asked[i]]
    BY <1>9 DEF ReturnWish
  <2>2. /\ Return(w, a) /\ UNCHANGED <<sets, bound, wish, stage, view>> /\ me[w].at = "inside"
        /\ calls' = [i \in DOMAIN calls |->
                       IF Open(w, i) THEN [calls[i] EXCEPT !.answer = a] ELSE calls[i]]
        /\ UNCHANGED head
    BY <1>9 DEF ReturnWish, Return
  <2>3. /\ me'[w].at = "outcome" /\ me'[w].answer = a /\ me'[w].kept = me[w].kept
        /\ \A v \in Workers \ {w} : me'[v] = me[v]
    BY <1>0, <2>2 DEF Return, Memory
  <2>4. \A i \in DOMAIN asked :
            /\ calls'[i].source = calls[i].source /\ calls'[i].by = calls[i].by
            /\ CallOf(calls'[i]) = CallOf(calls[i])
            /\ calls'[i].answer = IF Open(w, i) THEN a ELSE calls[i].answer
    BY <1>0, <2>2, CallAnswered
  <2>5. /\ DOMAIN asked' = DOMAIN asked
        /\ \A i \in DOMAIN asked :
            /\ asked'[i].view = asked[i].view /\ asked'[i].filed = asked[i].filed
            /\ asked'[i].plan = IF Open(w, i) THEN p ELSE asked[i].plan
    BY <1>0, <2>1 DEF AskedRow
  <2>6. Rows(w) /\ OthersPlan(w)
    BY <1>0, <2>1, <2>2, <2>3, <2>4, <2>5 DEF Rows, AnswersRemain, OthersPlan, Open
  <2>7. PICK j \in DOMAIN asked : Open(w, j) /\ CallOf(calls[j]) = CallOf(me[w].kept)
                                  /\ asked[j].view = view[w]
    BY <2>2 DEF ProposalsVouched
  <2>8. plan'[w] = p
    BY <1>0, <2>1
  <2>9. \E i \in DOMAIN asked' :
                    /\ calls'[i].by = w /\ CallOf(calls'[i]) = CallOf(me'[w].kept)
                    /\ calls'[i].answer = me'[w].answer
                    /\ asked'[i].plan = plan'[w] /\ asked'[i].view = view'[w]
    BY <2>2, <2>3, <2>4, <2>5, <2>7, <2>8 DEF Open
  <2>10. ProposalsVouched'
    BY <2>2, <2>3, <2>6, <2>9, ProposalsKept
  <2> QED BY <2>6, <2>10 DEF Rows
<1>10. ASSUME NEW w \in Workers, SettleWish(w) PROVE ProposalsVouched' /\ AnswersRemain
  <2>1. /\ Settle(w) /\ wish' = plan[w] /\ UNCHANGED <<sets, bound, stage>>
        /\ me[w].at = "outcome" /\ head = me[w].kept /\ head # None
        /\ head' = Closed(head, me[w].answer)
    BY <1>10 DEF SettleWish, Settle
  <2>2. IF head'.outcome = "more" THEN NextTurn(w, plan[w]) ELSE UNCHANGED <<view, plan>>
    BY <1>10 DEF SettleWish
  <2>3. asked' = [i \in DOMAIN asked |->
                   IF calls[i].by = w /\ CallOf(calls[i]) = CallOf(head)
                     THEN [asked[i] EXCEPT !.filed = TRUE] ELSE asked[i]]
    BY <1>10 DEF SettleWish
  <2>4. /\ \A v \in Workers \ {w} : me'[v] = me[v]
        /\ me'[w].at \in {"begin", "pause", "retry", "stop"}
        /\ me'[w].at = "begin" => head'.outcome = "more"
        /\ me'[w].source = me[w].source /\ head'.source = me[w].source
        /\ head.source = head'.source /\ head.turn = head'.turn
        /\ calls' = calls
    BY <1>0, <2>1, CallClosed
  <2>5. /\ DOMAIN asked' = DOMAIN asked
        /\ \A i \in DOMAIN asked :
            /\ asked'[i].view = asked[i].view /\ asked'[i].plan = asked[i].plan
            /\ asked'[i].filed = (asked[i].filed \/ (calls[i].by = w /\ CallOf(calls[i]) = CallOf(head)))
    BY <1>0, <2>3 DEF AskedRow
  <2>6. plan' = plan /\ \A v \in Workers \ {w} : view'[v] = view[v]
    BY <1>0, <2>2 DEF NextTurn
  <2>7. Rows(w) /\ OthersPlan(w)
    BY <1>0, <2>1, <2>4, <2>5, <2>6 DEF Rows, AnswersRemain, OthersPlan
  <2>8. head'.outcome = me[w].answer
    <3>1. head \in Record /\ me[w].answer \in Outcomes
      BY <1>0, <2>1 DEF ClaimsRemembered, Remembers, Outcomes, Claimant, Out
    <3> QED BY <2>1, <3>1, ClosedTyped
  <2>9. PICK j \in DOMAIN asked :
               /\ calls[j].by = w /\ CallOf(calls[j]) = CallOf(me[w].kept)
               /\ calls[j].answer = me[w].answer
               /\ asked[j].plan = plan[w] /\ asked[j].view = view[w]
    BY <2>1 DEF ProposalsVouched
  <2>10. calls[j].source = me[w].source
    BY <2>1, <2>4, <2>9 DEF CallOf
  <2>11. bound = view[w]
    BY <1>0, <2>1 DEF ViewsCurrent, Holding, Claimant, Out
  <2>12. head'.outcome = "more" =>
              \E i \in DOMAIN asked' :
                    /\ asked'[i].filed /\ calls'[i].answer = "more"
                    /\ asked'[i].plan = wish' /\ asked'[i].view = bound'
                    /\ calls'[i].source = head'.source
    <3>1. asked'[j].filed
      BY <2>1, <2>5, <2>9
    <3>2. /\ j \in DOMAIN asked' /\ calls'[j].answer = me[w].answer /\ asked'[j].plan = wish'
          /\ asked'[j].view = bound' /\ calls'[j].source = head'.source
      BY <2>1, <2>4, <2>5, <2>9, <2>10, <2>11
    <3> QED BY <2>8, <3>1, <3>2
  <2>13. me'[w].at = "begin" /\ plan'[w] # None =>
              \E i \in DOMAIN asked' :
                    /\ asked'[i].filed /\ calls'[i].answer = "more"
                    /\ asked'[i].plan = plan'[w] /\ asked'[i].view = view'[w]
                    /\ calls'[i].source = me'[w].source
    <3> SUFFICES ASSUME me'[w].at = "begin", plan'[w] # None
                 PROVE  \E i \in DOMAIN asked' :
                    /\ asked'[i].filed /\ calls'[i].answer = "more"
                    /\ asked'[i].plan = plan'[w] /\ asked'[i].view = view'[w]
                    /\ calls'[i].source = me'[w].source
      OBVIOUS
    <3>1. view'[w] = view[w] /\ plan'[w] = plan[w]
      BY <2>2, <2>4, <2>6 DEF NextTurn
    <3> QED BY <2>1, <2>4, <2>11, <2>12, <3>1
  <2>14. me'[w].at \notin {"inside", "outcome"}
    BY <2>4
  <2>15. ProposalsVouched'
    BY <2>7, <2>12, <2>13, <2>14, ProposalsKept
  <2> QED BY <2>7, <2>15 DEF Rows
<1> QED BY <1>1, <1>2, <1>3, <1>4, <1>5, <1>6, <1>7, <1>8, <1>9, <1>10 DEF SelectingNext, SelectingStep

-----------------------------------------------------------------------------
(* A committed promotion keeps backing its source, and messages it made
   durable on a revision are the same whatever is recorded later.           *)
BackedThen(x) ==
    \E j \in DOMAIN sets' : /\ sets'[j].by # None /\ sets'[j].by.what.kind = "promote"
                           /\ sets'[j].committed
                           /\ CallerSource(sets'[j].by.pause, sets'[j].by.what.which) = x
PinsBackedThen(pins) ==
    \A s \in Slots : pins[s] \in Documents \union {None} \/ BackedThen(pins[s])

LEMMA BackedKept ==
    ASSUME Longer \/ sets' = sets
    PROVE  /\ \A x : Backed(x) => BackedThen(x)
           /\ \A pins : PinsBacked(pins) => PinsBackedThen(pins)
           /\ \A i \in DOMAIN sets : i \in DOMAIN sets' /\ sets'[i] = sets[i]
<1>1. \A i \in DOMAIN sets : i \in DOMAIN sets' /\ sets'[i] = sets[i]
  BY DEF Longer
<1>2. \A x : Backed(x) => BackedThen(x)
  BY <1>1 DEF Backed, BackedThen, Promoted, SourceOf
<1> QED BY <1>1, <1>2 DEF PinsBacked, PinsBackedThen

LEMMA PromotableKept ==
    ASSUME SelectionOK, SelectionOK', SourcesBacked, Longer \/ sets' = sets,
           NEW i \in DOMAIN sets, NEW k \in Nat
    PROVE  Promotable(i, k) \subseteq Promotable(i, k)'
<1>0. /\ sets \in Seq(SpecRecord) /\ sets' \in Seq(SpecRecord)
      /\ \A j \in DOMAIN sets : j \in DOMAIN sets' /\ sets'[j] = sets[j]
  BY BackedKept DEF SelectionOK
<1>1. ASSUME NEW j \in Backing(i, k)'
      PROVE  \E h \in Backing(i, k) : sets[h].by.what.which = sets'[j].by.what.which
  <2> DEFINE which == sets'[j].by.what.which
             x == CallerSource(k, which)
  <2>1. /\ j \in DOMAIN sets' /\ sets'[j].by # None /\ sets'[j].by.what.kind = "promote"
        /\ sets'[j].by.pause = k /\ x \in Pinned(sets[i].pins)
    BY <1>0, <1>1 DEF Backing, PromotionsOf, Promoted, SourceOf
  <2>2. which \in SUBSET (1 .. Said)
    <3>1. sets'[j] \in SpecRecord
      BY <1>0, <2>1, ElementOfSeq
    <3>2. sets'[j].by.what \in Proposal
      BY <2>1, <3>1 DEF SpecRecord, Evidence
    <3> QED BY <2>1, <3>2 DEF Proposal
  <2>3. x \in CallerSources /\ x \notin Documents
    BY <2>2, DigestsAssumption DEF CallerSource, CallerSources
  <2>4. Backed(x)
    BY <2>1, <2>3 DEF Pinned, SourcesBacked, PinsBacked
  <2>5. PICK h \in DOMAIN sets : Promoted(h) /\ sets[h].committed /\ SourceOf(h) = x
    BY <2>4 DEF Backed
  <2>6. sets[h].by.pause = k /\ sets[h].by.what.which = which
    BY <2>5 DEF SourceOf, CallerSource
  <2> QED BY <2>1, <2>5, <2>6 DEF Backing, PromotionsOf
<1>2. Durable(i, k)' \subseteq Durable(i, k)
  BY <1>1 DEF Durable
<1> QED BY <1>2 DEF Promotable, Ingress

(* What the three revisions of an admitted proposal pin is backed.          *)
LEMMA AdmissionBacked ==
    ASSUME Sound, SourcesBacked, NEW w \in Workers, AdmitProposal(w)
    PROVE  /\ Longer /\ Current \in Nat /\ Current > 0 /\ Current' = Current + 3
           /\ \A i \in 1 .. 3 : /\ PinsBackedThen(sets'[Current + i].pins)
                                /\ sets'[Current + i].by # None
                                /\ sets'[Current + i].by.from = Current
<1> DEFINE p == plan[w]
           e == [what |-> p, from |-> Current, pause |-> me[w].source, called |-> head # None]
           n == Current
           pins == Successor(p, sets[n].pins, me[w].source)
<1>1. /\ Revised /\ n > 0 /\ n \in Nat /\ p \in Proposal /\ e # None /\ n' = n + 3
      /\ sets[n] \in SpecRecord /\ sets[n].committed /\ Longer
      /\ sets'[n + 1].by = e /\ sets'[n + 2].by = e /\ sets'[n + 3].by = e
      /\ sets'[n + 1].pins = NoPins /\ sets'[n + 2].pins = pins /\ sets'[n + 3].pins = pins
      /\ sets'[n + 3].committed
  <2>1. Typed /\ SelectionOK
    BY DEF Sound
  <2>2. n \in Nat
    BY <2>1 DEF SelectionOK, Current
  <2> HIDE DEF n, e, pins
  <2>3. /\ Revised /\ n > 0 /\ p \in Proposal /\ e # None /\ n' = n + 3
        /\ sets[n] \in SpecRecord /\ sets[n].committed
        /\ sets'[n + 1] = [attempt |-> p.next, rev |-> 1, prev |-> n,
                           parent |-> sets[n].attempt, pins |-> NoPins,
                           committed |-> FALSE, by |-> e]
        /\ sets'[n + 2] = [attempt |-> p.next, rev |-> 2, prev |-> n + 1,
                           parent |-> sets[n].attempt, pins |-> pins,
                           committed |-> FALSE, by |-> e]
        /\ sets'[n + 3] = [attempt |-> p.next, rev |-> 3, prev |-> n + 2,
                           parent |-> sets[n].attempt, pins |-> pins,
                           committed |-> TRUE, by |-> e]
    BY <2>1, AdmissionRevises DEF n, e, pins
  <2> QED BY <2>2, <2>3 DEF Revised
<1>2. n + 3 \in DOMAIN sets' /\ n \in DOMAIN sets
  BY <1>1 DEF Current, Sound, SelectionOK, Longer
<1>3. PinsBackedThen(NoPins)
  BY DEF PinsBackedThen, NoPins
<1>4. PinsBackedThen(pins)
  <2>1. CASE p.kind = "select"
    <3>1. pins = p.pins /\ p # None
      BY <1>1, <2>1, DigestsAssumption DEF Successor
    <3>2. PinsBacked(p.pins)
      BY <2>1, <3>1 DEF SourcesBacked
    <3> QED BY <1>1, <3>1, <3>2, BackedKept
  <2>2. CASE p.kind # "select"
    <3>1. p.kind = "promote"
      BY <1>1, <2>2 DEF Proposal
    <3>2. pins = [sets[n].pins EXCEPT ![p.slot] = CallerSource(me[w].source, p.which)]
      BY <2>2 DEF Successor
    <3>3. BackedThen(CallerSource(me[w].source, p.which))
      BY <1>1, <1>2, <3>1 DEF BackedThen, CallerSource
    <3>4. PinsBacked(sets[n].pins)
      BY <1>2 DEF SourcesBacked
    <3>5. \A s \in Slots : sets[n].pins[s] \in Documents \union {None} \/ BackedThen(sets[n].pins[s])
      BY <1>1, <3>4, BackedKept DEF PinsBacked
    <3>6. DOMAIN sets[n].pins = Slots
      BY <1>1 DEF SpecRecord, Pins
    <3> HIDE DEF pins, n
    <3>7. \A s \in Slots : pins[s] = CallerSource(me[w].source, p.which) \/ pins[s] = sets[n].pins[s]
      BY <3>2, <3>6
    <3>8. \A s \in Slots : pins[s] \in Documents \union {None} \/ BackedThen(pins[s])
      BY <3>3, <3>5, <3>7
    <3> QED BY <3>8 DEF PinsBackedThen
  <2> QED BY <2>1, <2>2
<1>5. \A i \in 1 .. 3 : i = 1 \/ i = 2 \/ i = 3
  OBVIOUS
<1>6. e.from = n
  OBVIOUS
<1> HIDE DEF pins, n, e
<1>7. ASSUME NEW i \in 1 .. 3
      PROVE  PinsBackedThen(sets'[n + i].pins) /\ sets'[n + i].by # None /\ sets'[n + i].by.from = n
  <2>1. CASE i = 1
    BY <1>1, <1>3, <1>6, <2>1
  <2>2. CASE i = 2
    BY <1>1, <1>4, <1>6, <2>2
  <2>3. CASE i = 3
    BY <1>1, <1>4, <1>6, <2>3
  <2> QED BY <1>5, <2>1, <2>2, <2>3
<1> QED BY <1>1, <1>7 DEF n

(* A revision that is not of a proposal pins what is backed already.        *)
LEMMA RevisionBacked ==
    ASSUME Sound, SourcesBacked, NEW r \in SpecRecord, sets' = Append(sets, r), r.by = None,
           PinsBacked(r.pins) \/ \E i \in DOMAIN sets : r.pins = sets[i].pins
    PROVE  /\ Longer /\ DOMAIN sets' = DOMAIN sets \union {Current + 1} /\ sets'[Current + 1] = r
           /\ PinsBackedThen(r.pins)
<1>1. sets \in Seq(SpecRecord)
  BY DEF Sound, SelectionOK
<1>2. Longer /\ DOMAIN sets' = DOMAIN sets \union {Current + 1} /\ sets'[Current + 1] = r
  BY <1>1, Extended DEF Current
<1>3. PinsBacked(r.pins)
  BY DEF SourcesBacked, PinsBacked
<1> QED BY <1>2, <1>3, BackedKept

(* The steps that record a revision: without a proposal, or an admission.   *)
LEMMA RevisionsOf ==
    ASSUME Sound, SourcesBacked, [SelectingNext]_allVars
    PROVE  \/ sets' = sets
           \/ UNCHANGED <<wish, plan>> /\ \E r \in SpecRecord :
                 /\ sets' = Append(sets, r) /\ r.by = None
                 /\ PinsBacked(r.pins) \/ \E i \in DOMAIN sets : r.pins = sets[i].pins
           \/ \E w \in Workers : AdmitProposal(w)
<1>1. CASE Revise
  <2>1. SelectionOK
    BY DEF Sound
  <2> QED BY <1>1, <2>1, ReviseRevises DEF Revised
<1>2. ASSUME NEW w \in Workers, RecordSeed(w), sets' # sets
      PROVE  UNCHANGED <<wish, plan>> /\ \E r \in SpecRecord :
                 /\ sets' = Append(sets, r) /\ r.by = None /\ PinsBacked(r.pins)
  <2>1. PICK r \in {Seed, SeedCommitted} : sets' = Append(sets, r) /\ UNCHANGED <<wish, plan>>
    BY <1>2, SeedRevises DEF Sound, Prepared, Revised
  <2>2. r \in SpecRecord /\ r.by = None /\ r.pins = NoPins
    <3>1. /\ Seed \in SpecRecord /\ SeedCommitted \in SpecRecord /\ Seed.by = None
          /\ Seed.pins = NoPins
      BY SeedTyped DEF Seed, Revision, NoPins
    <3>2. SeedCommitted.by = Seed.by /\ SeedCommitted.pins = Seed.pins
      <4>1. 1 \in Nat /\ NoPins \in Pins /\ None \in Evidence \union {None}
        BY DEF NoPins, Pins
      <4>2. Commit(Seed, 1) = [attempt |-> Seed.attempt, rev |-> Seed.rev + 1, prev |-> 1,
               parent |-> Seed.parent, pins |-> Seed.pins, committed |-> TRUE, by |-> Seed.by]
        BY <3>1, <4>1, RevisionTyped
      <4> QED BY <4>2 DEF SeedCommitted
    <3> QED BY <2>1, <3>1, <3>2
  <2> QED BY <2>1, <2>2 DEF PinsBacked, NoPins
<1>3. CASE UNCHANGED allVars
  BY <1>3 DEF allVars, selection
<1>4. ASSUME NEW w \in Workers, ~AdmitProposal(w), ~RecordSeed(w),
             Arrive(w) \/ StartReady(w) \/ SelectingStep(w)
      PROVE  sets' = sets
  BY <1>4 DEF SelectingStep, Arrive, StartReady, RefuseSeed, Project, ProjectFails,
              ClaimOnView, InvokeOnView, ReturnWish, SettleWish, Grant, ReplayProposal,
              RejectProposal, Undisturbed, selection
<1> QED BY <1>1, <1>2, <1>3, <1>4 DEF SelectingNext, SelectingStep

(* A proposal selects among sources that were stored or pinned before.      *)
LEMMA WishesBacked ==
    ASSUME Sound, SourcesBacked, [SelectingNext]_allVars
    PROVE  /\ wish' # None /\ wish'.kind = "select" => PinsBacked(wish'.pins)
           /\ \A w \in Workers : plan'[w] # None /\ plan'[w].kind = "select" =>
                                    PinsBacked(plan'[w].pins)
<1>0. /\ plan \in [Workers -> Proposal \union {None}] /\ wish \in Proposal \union {None}
      /\ sets \in Seq(SpecRecord) /\ Typed /\ SelectionOK
  BY DEF Sound, SelectionOK
<1>1. ASSUME wish' \in {wish, None}, \A v \in Workers : plan'[v] \in {plan[v], None}
      PROVE  /\ wish' # None /\ wish'.kind = "select" => PinsBacked(wish'.pins)
             /\ \A w \in Workers : plan'[w] # None /\ plan'[w].kind = "select" =>
                                      PinsBacked(plan'[w].pins)
  BY <1>1 DEF SourcesBacked
<1>2. CASE Revise \/ UNCHANGED allVars
  BY <1>0, <1>1, <1>2, ReviseRevises DEF Revised, allVars, selection
<1>3. ASSUME NEW w \in Workers,
             \/ Arrive(w) \/ StartReady(w) \/ RefuseSeed(w) \/ RecordSeed(w) \/ Project(w)
             \/ ProjectFails(w) \/ InvokeOnView(w) \/ Grant(w) \/ ReplayProposal(w)
             \/ AdmitProposal(w) \/ RejectProposal(w) \/ Undisturbed(w)
      PROVE  wish' \in {wish, None} /\ \A v \in Workers : plan'[v] \in {plan[v], None}
  <2>1. wish' = wish /\ (plan' = plan \/ plan' = [plan EXCEPT ![w] = None])
    <3>1. CASE RecordSeed(w)
      BY <1>0, <3>1, SeedRevises DEF Prepared, Revised
    <3>2. CASE ~RecordSeed(w)
      BY <1>3, <3>2 DEF Arrive, StartReady, RefuseSeed, Project, ProjectFails,
              InvokeOnView, Grant, ReplayProposal, AdmitProposal, Resumed,
              RejectProposal, Undisturbed, selection
    <3> QED BY <3>1, <3>2
  <2> QED BY <1>0, <2>1
<1>4. ASSUME NEW w \in Workers, ClaimOnView(w) \/ SettleWish(w)
      PROVE  /\ wish' \in {wish, None, plan[w]}
             /\ \A v \in Workers : plan'[v] \in {plan[v], None, wish}
  <2>1. CASE ClaimOnView(w)
    BY <1>0, <2>1 DEF ClaimOnView, NextTurn
  <2>2. CASE SettleWish(w)
    BY <1>0, <2>2 DEF SettleWish, NextTurn
  <2> QED BY <1>4, <2>1, <2>2
<1>5. ASSUME NEW w \in Workers, ClaimOnView(w) \/ SettleWish(w)
      PROVE  /\ wish' # None /\ wish'.kind = "select" => PinsBacked(wish'.pins)
             /\ \A v \in Workers : plan'[v] # None /\ plan'[v].kind = "select" =>
                                      PinsBacked(plan'[v].pins)
  BY <1>4, <1>5 DEF SourcesBacked
<1>6. ASSUME NEW w \in Workers, NEW a \in Answers, ReturnWish(w, a)
      PROVE  /\ wish' # None /\ wish'.kind = "select" => PinsBacked(wish'.pins)
             /\ \A v \in Workers : plan'[v] # None /\ plan'[v].kind = "select" =>
                                      PinsBacked(plan'[v].pins)
  <2>1. PICK p \in Wishes(w, a) : plan' = [plan EXCEPT ![w] = p]
    BY <1>6 DEF ReturnWish
  <2>2. wish' = wish /\ me[w].at = "inside"
    BY <1>6 DEF ReturnWish, Return
  <2>3. view[w] > 0
    BY <2>2 DEF Sound, SelectionOK, Holding, Claimant, Out
  <2>4. p # None /\ p.kind = "select" =>
           \A s \in Slots : \/ p.pins[s] \in Documents \union {None}
                            \/ \E j \in DOMAIN sets, t \in Slots : p.pins[s] = sets[j].pins[t]
    BY <1>0, <2>1, <2>3, WishesTyped
  <2>5. p # None /\ p.kind = "select" => PinsBacked(p.pins)
    BY <2>4 DEF PinsBacked, SourcesBacked
  <2>6. \A v \in Workers : plan'[v] \in {plan[v], p}
    BY <1>0, <2>1
  <2> QED BY <2>2, <2>5, <2>6 DEF SourcesBacked
<1> QED BY <1>1, <1>2, <1>3, <1>5, <1>6 DEF SelectingNext, SelectingStep

LEMMA SourcesStep ==
    ASSUME Sound, SourcesBacked, [SelectingNext]_allVars
    PROVE  SourcesBacked'
<1>0. /\ sets \in Seq(SpecRecord) /\ DOMAIN sets = 1 .. Current /\ Current \in Nat
      /\ Current' = Len(sets')
  BY DEF Sound, SelectionOK, Current
<1>1. Longer \/ sets' = sets
  BY RevisionsOf, RevisionBacked, AdmissionBacked
<1>2. \A x : BackedThen(x) => \E j \in DOMAIN sets' : Promoted(j)' /\ sets'[j].committed /\ SourceOf(j)' = x
  BY DEF BackedThen, Promoted, SourceOf
<1>3. ASSUME NEW i \in DOMAIN sets
      PROVE  /\ i \in DOMAIN sets' /\ PinsBackedThen(sets'[i].pins)
             /\ sets'[i].by # None => sets'[i].by.from \in 1 .. i - 1
  BY <1>1, BackedKept DEF SourcesBacked
<1>4. ASSUME NEW i \in DOMAIN sets', i \notin DOMAIN sets
      PROVE  /\ PinsBackedThen(sets'[i].pins)
             /\ sets'[i].by # None => sets'[i].by.from \in 1 .. i - 1
  <2>1. ASSUME NEW r \in SpecRecord, sets' = Append(sets, r), r.by = None,
               PinsBacked(r.pins) \/ \E j \in DOMAIN sets : r.pins = sets[j].pins
        PROVE  PinsBackedThen(sets'[i].pins) /\ sets'[i].by = None
    BY <1>4, <2>1, RevisionBacked
  <2>2. ASSUME NEW w \in Workers, AdmitProposal(w)
        PROVE  PinsBackedThen(sets'[i].pins) /\ sets'[i].by.from \in 1 .. i - 1
    <3>1. /\ Longer /\ Current > 0 /\ Current' = Current + 3
          /\ \A k \in 1 .. 3 : /\ PinsBackedThen(sets'[Current + k].pins)
                               /\ sets'[Current + k].by # None
                               /\ sets'[Current + k].by.from = Current
      BY <2>2, AdmissionBacked
    <3>2. i \in Current + 1 .. Current + 3
      <4>1. sets' \in Seq(SpecRecord)
        BY <3>1 DEF Longer
      <4>2. i \in 1 .. Current + 3 /\ i \notin 1 .. Current
        <5>1. DOMAIN sets' = 1 .. Len(sets')
          BY <4>1
        <5>2. Len(sets') = Current + 3
          BY <1>0, <3>1
        <5> QED BY <1>0, <1>4, <5>1, <5>2
      <4> QED BY <1>0, <4>2
    <3>3. PICK k \in 1 .. 3 : i = Current + k
      BY <1>0, <3>2
    <3> QED BY <1>0, <3>1, <3>3
  <2> QED BY <1>4, <2>1, <2>2, RevisionsOf
<1>5. /\ wish' # None /\ wish'.kind = "select" => PinsBackedThen(wish'.pins)
      /\ \A w \in Workers : plan'[w] # None /\ plan'[w].kind = "select" =>
                               PinsBackedThen(plan'[w].pins)
  BY <1>1, WishesBacked, BackedKept
<1>6. \A i \in DOMAIN sets' : /\ PinsBackedThen(sets'[i].pins)
                              /\ sets'[i].by # None => sets'[i].by.from \in 1 .. i - 1
  BY <1>3, <1>4
<1> QED BY <1>2, <1>5, <1>6 DEF SourcesBacked, PinsBacked, PinsBackedThen, Backed

-----------------------------------------------------------------------------
(* What a revision must say of its evidence once a step is taken.           *)
PromotableThen(i, k) ==
    Ingress(k) \ UNION {sets'[j].by.what.which :
        j \in {j \in {j \in DOMAIN sets' : (sets'[j].by # None /\ sets'[j].by.what.kind = "promote")
                                           /\ sets'[j].by.pause = k} :
                  sets'[j].committed
                  /\ CallerSource(sets'[j].by.pause, sets'[j].by.what.which) \in Pinned(sets'[i].pins)}}
AnsweredThen(e) ==
    \E j \in DOMAIN asked' :
        /\ asked'[j].filed /\ calls'[j].answer = "more"
        /\ asked'[j].plan = e.what /\ asked'[j].view = e.from
        /\ e.what.kind = "promote" =>
              calls'[j].source = e.pause
              /\ e.what.which \subseteq PromotableThen(e.from, calls'[j].source)
SustainedThen(i, e) ==
    /\ sets'[i].attempt = e.what.next
    /\ sets'[i].committed <=> sets'[i].rev = 3
    /\ sets'[i].rev = 1 => /\ e.from = i - 1 /\ i - 1 > 0 /\ sets'[i - 1].committed
                           /\ sets'[i].pins = NoPins
                           /\ e.called => AnsweredThen(e)
    /\ sets'[i].rev # 1 => /\ sets'[i - 1].by = e /\ sets'[i].rev = sets'[i - 1].rev + 1
                           /\ sets'[i].pins = Successor(e.what, sets'[e.from].pins, e.pause)

LEMMA EvidenceThen ==
    ASSUME \A i \in DOMAIN sets' : sets'[i].by # None => SustainedThen(i, sets'[i].by)
    PROVE  EvidenceSound'
BY DEF SustainedThen, AnsweredThen, PromotableThen, EvidenceSound, Answered, Promotable, Durable,
       Backing, PromotionsOf, Promoted, SourceOf, IsCommitted, ExpectedPins

LEMMA PromotableNext ==
    ASSUME NEW i, NEW k
    PROVE  Promotable(i, k)' = PromotableThen(i, k)
BY DEF PromotableThen, Promotable, Durable, Backing, PromotionsOf, Promoted, SourceOf

(* The answer a proposal had stays its answer, of messages still free then. *)
LEMMA AnsweredKept ==
    ASSUME Sound, Sound', SourcesBacked, AnswersRemain, Longer \/ sets' = sets,
           NEW e, NEW j \in DOMAIN asked, e.from \in DOMAIN sets,
           asked[j].filed, calls[j].answer = "more",
           asked[j].plan = e.what, asked[j].view = e.from,
           e.what.kind = "promote" =>
              calls[j].source = e.pause
              /\ e.what.which \subseteq Promotable(e.from, calls[j].source)
    PROVE  AnsweredThen(e)
<1>1. SelectionOK /\ SelectionOK' /\ calls \in Seq(CallRow) /\ Len(asked) = Len(calls) /\ asked \in Seq(AskedRow)
  BY DEF Sound, SelectionOK, Typed, TypeOK, CallRow
<1>2. calls[j].source \in Nat
  <2>1. j \in DOMAIN calls
    BY <1>1
  <2>2. calls[j] \in CallRow
    BY <1>1, <2>1, ElementOfSeq
  <2> QED BY <2>2 DEF CallRow
<1> DEFINE v == e.from
           k == calls[j].source
<1>3. v \in DOMAIN sets /\ k \in Nat
  BY <1>2
<1>4. \A i \in DOMAIN sets, s \in Nat : Promotable(i, s) \subseteq PromotableThen(i, s)
  BY <1>1, PromotableKept, PromotableNext
<1>5. /\ j \in DOMAIN asked' /\ calls'[j].source = calls[j].source
      /\ asked'[j].view = asked[j].view /\ asked'[j].filed
      /\ calls'[j].answer = "more" /\ asked'[j].plan = asked[j].plan
  <2>1. calls[j].answer # None
    BY NoneAssumption DEF Outcomes, Answers, Results
  <2> QED BY <2>1 DEF AnswersRemain
<1>6. e.what.kind = "promote" =>
         calls'[j].source = e.pause
         /\ e.what.which \subseteq PromotableThen(e.from, calls'[j].source)
  BY <1>3, <1>4, <1>5
<1> QED BY <1>5, <1>6 DEF AnsweredThen

(* The revisions recorded before say what they said.                        *)
LEMMA EvidenceKept ==
    ASSUME Sound, Sound', SourcesBacked, AnswersRemain, EvidenceSound, Longer \/ sets' = sets,
           NEW i \in DOMAIN sets, sets[i].by # None
    PROVE  sets'[i] = sets[i] /\ SustainedThen(i, sets[i].by)
<1>1. sets \in Seq(SpecRecord) /\ DOMAIN sets = 1 .. Len(sets) /\ Len(sets) \in Nat
  BY DEF Sound, SelectionOK
<1> DEFINE e == sets[i].by
<1>2. e.from \in 1 .. i - 1 /\ e.from \in DOMAIN sets /\ i - 1 \in DOMAIN sets
  <2>1. e.from \in 1 .. i - 1
    BY DEF SourcesBacked
  <2> HIDE DEF e
  <2> QED BY <1>1, <2>1
<1>3. /\ sets'[i] = sets[i] /\ sets'[i - 1] = sets[i - 1] /\ sets'[e.from] = sets[e.from]
  BY <1>2, BackedKept
<1>4. /\ sets[i].attempt = e.what.next
      /\ sets[i].committed <=> sets[i].rev = 3
      /\ IF sets[i].rev = 1
           THEN /\ e.from = i - 1 /\ IsCommitted(i - 1)
                /\ sets[i].pins = NoPins
                /\ e.called => Answered(e)
           ELSE /\ sets[i - 1].by = e /\ sets[i].rev = sets[i - 1].rev + 1
                /\ sets[i].pins = Successor(e.what, sets[e.from].pins, e.pause)
  BY DEF EvidenceSound, ExpectedPins
<1>5. ASSUME Answered(e) PROVE AnsweredThen(e)
  <2>1. PICK j \in DOMAIN asked :
        /\ asked[j].filed /\ calls[j].answer = "more"
        /\ asked[j].plan = e.what /\ asked[j].view = e.from
        /\ e.what.kind = "promote" =>
              calls[j].source = e.pause
              /\ e.what.which \subseteq Promotable(e.from, calls[j].source)
    BY <1>5 DEF Answered
  <2> HIDE DEF e
  <2> QED BY <1>2, <2>1, AnsweredKept
<1> HIDE DEF e
<1>6. SustainedThen(i, e)
  BY <1>3, <1>4, <1>5 DEF SustainedThen, IsCommitted
<1> QED BY <1>3, <1>6 DEF e

(* An admitted proposal is the answer of the call that was closed.          *)
LEMMA EvidenceAdmitted ==
    ASSUME Sound, Sound', SourcesBacked, ProposalsVouched, AnswersRemain,
           NEW w \in Workers, AdmitProposal(w)
    PROVE  /\ Longer /\ Current' = Current + 3
           /\ \A i \in Current + 1 .. Current + 3 : SustainedThen(i, sets'[i].by)
<1> DEFINE p == plan[w]
           n == Current
           k == me[w].source
           e == [what |-> p, from |-> n, pause |-> k, called |-> head # None]
           pins == Successor(p, sets[n].pins, k)
<1>0. Typed /\ SelectionOK /\ n \in Nat /\ me[w].source \in Nat
  <2>1. Typed /\ SelectionOK /\ sets \in Seq(SpecRecord)
    BY DEF Sound, SelectionOK
  <2>2. me \in [Workers -> Memory]
    BY <2>1 DEF Typed, TypeOK, Memory
  <2> QED BY <2>1, <2>2 DEF Current, Memory
<1>1. e.what = p /\ e.from = n /\ e.pause = k
  OBVIOUS
<1> HIDE DEF e, pins
<1>2. /\ Revised /\ n > 0 /\ view[w] = n /\ p \in Proposal /\ e # None /\ n' = n + 3
      /\ me[w].at = "begin"
      /\ sets[n] \in SpecRecord /\ sets[n].committed
      /\ sets'[n + 1] = [attempt |-> p.next, rev |-> 1, prev |-> n,
                         parent |-> sets[n].attempt, pins |-> NoPins,
                         committed |-> FALSE, by |-> e]
      /\ sets'[n + 2] = [attempt |-> p.next, rev |-> 2, prev |-> n + 1,
                         parent |-> sets[n].attempt, pins |-> pins,
                         committed |-> FALSE, by |-> e]
      /\ sets'[n + 3] = [attempt |-> p.next, rev |-> 3, prev |-> n + 2,
                         parent |-> sets[n].attempt, pins |-> pins,
                         committed |-> TRUE, by |-> e]
      /\ SelectionLegal(w, p, n) \/ PromotionLegal(w, p, n)
  BY <1>0, AdmissionRevises DEF e, pins
<1>3. Longer /\ n \in DOMAIN sets /\ sets'[n] = sets[n]
  BY <1>0, <1>2, BackedKept DEF Revised, Current, SelectionOK
<1>4. AnsweredThen(e)
  <2>1. p # None
    BY <1>2, DigestsAssumption
  <2>2. Vouched(p, n, k)
    BY <1>2, <2>1 DEF ProposalsVouched
  <2>3. PICK j \in DOMAIN asked :
            /\ asked[j].filed /\ calls[j].answer = "more"
            /\ asked[j].plan = p /\ asked[j].view = n /\ calls[j].source = k
    BY <2>2 DEF Vouched
  <2>4. p.kind = "promote" => p.which \subseteq Promotable(n, k)
    BY <1>2 DEF SelectionLegal, PromotionLegal
  <2> HIDE DEF p, n, k
  <2> QED BY <1>1, <1>3, <2>3, <2>4, AnsweredKept
<1>5. pins = Successor(e.what, sets'[e.from].pins, e.pause)
  BY <1>1, <1>3 DEF pins
<1> HIDE DEF p, n, k
<1>6. SustainedThen(n + 1, e) /\ sets'[n + 1].by = e
  BY <1>0, <1>1, <1>2, <1>3, <1>4 DEF SustainedThen
<1>7. SustainedThen(n + 2, e) /\ sets'[n + 2].by = e
  <2>1. n + 2 - 1 = n + 1
    BY <1>0
  <2>2. /\ sets'[n + 2].attempt = p.next /\ sets'[n + 2].rev = 2
        /\ sets'[n + 2].committed = FALSE /\ sets'[n + 2].pins = pins
        /\ sets'[n + 2].by = e /\ sets'[n + 1].by = e /\ sets'[n + 1].rev = 1
    BY <1>2
  <2>3. sets'[n + 2 - 1].by = e /\ sets'[n + 2].rev = sets'[n + 2 - 1].rev + 1
    BY <2>1, <2>2
  <2>4. sets'[n + 2].rev # 1 /\ (sets'[n + 2].committed <=> sets'[n + 2].rev = 3)
    BY <2>2
  <2>5. SustainedThen(n + 2, e)
    <3>1. sets'[n + 2].attempt = e.what.next
      BY <1>1, <2>2
    <3>2. sets'[n + 2].pins = Successor(e.what, sets'[e.from].pins, e.pause)
      BY <1>5, <2>2
    <3> QED BY <1>0, <2>3, <2>4, <3>1, <3>2 DEF SustainedThen
  <2> QED BY <2>2, <2>5
<1>8. SustainedThen(n + 3, e) /\ sets'[n + 3].by = e
  <2>1. n + 3 - 1 = n + 2
    BY <1>0
  <2>2. /\ sets'[n + 3].attempt = p.next /\ sets'[n + 3].rev = 3
        /\ sets'[n + 3].committed = TRUE /\ sets'[n + 3].pins = pins
        /\ sets'[n + 3].by = e /\ sets'[n + 2].by = e /\ sets'[n + 2].rev = 2
    BY <1>2
  <2>3. sets'[n + 3 - 1].by = e /\ sets'[n + 3].rev = sets'[n + 3 - 1].rev + 1
    BY <2>1, <2>2
  <2>4. sets'[n + 3].rev # 1 /\ (sets'[n + 3].committed <=> sets'[n + 3].rev = 3)
    BY <2>2
  <2>5. SustainedThen(n + 3, e)
    <3>1. sets'[n + 3].attempt = e.what.next
      BY <1>1, <2>2
    <3>2. sets'[n + 3].pins = Successor(e.what, sets'[e.from].pins, e.pause)
      BY <1>5, <2>2
    <3> QED BY <1>0, <2>3, <2>4, <3>1, <3>2 DEF SustainedThen
  <2> QED BY <2>2, <2>5
<1>9. \A i \in n + 1 .. n + 3 : i = n + 1 \/ i = n + 2 \/ i = n + 3
  BY <1>0
<1>10. \A i \in n + 1 .. n + 3 : SustainedThen(i, sets'[i].by)
  BY <1>6, <1>7, <1>8, <1>9
<1> QED BY <1>2, <1>3, <1>10 DEF n

LEMMA EvidenceStep ==
    ASSUME Sound, Sound', SourcesBacked, ProposalsVouched, AnswersRemain, EvidenceSound,
           [SelectingNext]_allVars
    PROVE  EvidenceSound'
<1>0. sets \in Seq(SpecRecord) /\ sets' \in Seq(SpecRecord) /\ Current = Len(sets) /\ Current' = Len(sets')
  BY DEF Sound, SelectionOK, Current
<1>1. Longer \/ sets' = sets
  BY RevisionsOf, RevisionBacked, AdmissionBacked
<1>2. \A i \in DOMAIN sets : sets'[i].by # None => SustainedThen(i, sets'[i].by)
  BY <1>1, BackedKept, EvidenceKept
<1>3. ASSUME NEW i \in DOMAIN sets', i \notin DOMAIN sets, sets'[i].by # None
      PROVE  SustainedThen(i, sets'[i].by)
  <2>1. ASSUME NEW r \in SpecRecord, sets' = Append(sets, r), r.by = None,
               PinsBacked(r.pins) \/ \E j \in DOMAIN sets : r.pins = sets[j].pins
        PROVE  FALSE
    BY <1>3, <2>1, RevisionBacked
  <2>2. ASSUME NEW w \in Workers, AdmitProposal(w)
        PROVE  SustainedThen(i, sets'[i].by)
    <3>1. /\ Current' = Current + 3
          /\ \A j \in Current + 1 .. Current + 3 : SustainedThen(j, sets'[j].by)
      BY <2>2, EvidenceAdmitted
    <3>2. i \in Current + 1 .. Current + 3
      <4>1. DOMAIN sets' = 1 .. Len(sets') /\ DOMAIN sets = 1 .. Len(sets) /\ Len(sets) \in Nat
        BY <1>0
      <4>2. Len(sets') = Len(sets) + 3
        BY <1>0, <3>1
      <4> QED BY <1>0, <1>3, <4>1, <4>2
    <3> QED BY <3>1, <3>2
  <2> QED BY <1>3, <2>1, <2>2, RevisionsOf
<1>4. \A i \in DOMAIN sets' : sets'[i].by # None => SustainedThen(i, sets'[i].by)
  BY <1>2, <1>3
<1> QED BY <1>4, EvidenceThen

(* The continuity doctor would find no fault in the history of the revisions:
   each one that cites a proposal is its exact replan, selection or commit,
   and a completed call, asked on the predecessor it names, answered it.    *)
THEOREM EvidenceAlwaysSound == SelectionSpec => []EvidenceSound
<1> DEFINE IInv == Sound /\ ProposalsVouched /\ SourcesBacked /\ EvidenceSound
<1>1. InitSelection => IInv
  <2> SUFFICES ASSUME InitSelection PROVE ProposalsVouched /\ SourcesBacked /\ EvidenceSound
    BY SoundInit
  <2> QED BY DEF InitSelection, Init, ProposalsVouched, SourcesBacked, EvidenceSound
<1>2. IInv /\ [SelectingNext]_allVars => IInv'
  BY SoundStep, ProposalsStep, SourcesStep, EvidenceStep
<1>3. IInv => EvidenceSound
  OBVIOUS
<1> QED BY <1>1, <1>2, <1>3, PTL DEF SelectionSpec
=============================================================================
