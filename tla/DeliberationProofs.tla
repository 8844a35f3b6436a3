-------------------------- MODULE DeliberationProofs --------------------------
(* Theorems about Deliberation, for any budgets, Tools and answers of the     *)
(* Provider, and about what the parser makes of an answer, whatever it is.    *)
EXTENDS Deliberation, FiniteSetTheorems, TLAPS

Before == {"starting", "tasked", "connecting"}         \* nothing is sent yet
Stages == Before \cup {"waiting", "closing", "done"}
InFlight == {"polling", "cancelling", "overdue", "drain cancelled", "drain overdue"}
Between == {"preflight", "admitted", "dispatch", "between", "loop"}

Errors == [code : {"none", "FAILED", "TRANSPORT_FAILED", "TIMEOUT"} \cup Refusals,
           safety : {"none", "ambiguous", "rejected"}]
Call == [stage : Stages, cancelled : BOOLEAN, woken : BOOLEAN,
         wire : {"unsent", "sent", "served", "refused"},
         answer : Answers \cup {NoAnswer}, error : Errors]
Meter == [sent : Nat, tokens : Nat, hidden : Nat]
Budget == [calls : Nat, tokens : Nat, tools : Nat, fixes : Nat]

(* How many calls of a turn name a Tool is left open: the parser sorts them.  *)
CallTyped == transport \in {"handle", "blocking"} /\ call \in Call /\ meter \in Meter
RunTyped ==
    /\ budget \in Budgets /\ grant \in Budget
    /\ estimates \in BOOLEAN /\ cancelled \in BOOLEAN /\ expired \in BOOLEAN
    /\ pc \in InFlight \cup Between \cup {"ended"} /\ phase \in {"A", "B"}
    /\ used = [calls |-> used.calls, tokens |-> used.tokens,
               tools |-> used.tools, fixes |-> used.fixes]
    /\ used.calls \in Nat /\ used.tokens \in Nat /\ told \in Nat
TypeOK == CallTyped /\ RunTyped

(* A thread that has not sent has a request that is not on the wire, a served *)
(* one has an answer, and between two calls nothing is out.                   *)
WireFollowsThread ==
    /\ call.stage \in Before => call.wire = "unsent"
    /\ call.wire = "served" => call.answer \in Answers
    /\ pc \in Between => call.stage = "done" /\ call.wire # "sent"

(* Where the composition stands in its budget: phase A counts nothing itself  *)
(* and has made a call once it is past its dispatch; phase B has been granted *)
(* what phase A left.                                                         *)
PhasesShare ==
    /\ phase = "A" => used = Unused /\ grant = budget /\ (told = 0 \/ pc \in {"between", "ended"})
    /\ phase = "B" => /\ grant.calls = budget.calls - 1
                      /\ grant.tokens = budget.tokens - told
    /\ pc \in {"preflight", "admitted", "between"} => phase = "A"
    /\ pc = "loop" => phase = "B"
    /\ pc = "between" => told <= budget.tokens
    /\ phase = "A" /\ pc \notin {"preflight", "ended"} => budget.calls >= 2
    /\ pc \in InFlight \cup {"dispatch"} /\ phase = "B" => used.calls < grant.calls
    /\ pc \in InFlight \cup {"admitted", "dispatch"} /\ estimates =>
          told + used.tokens + TokenBound <= budget.tokens

(* What the Harness has put down for the calls that were made.                *)
Charged == used.calls + (IF phase = "B" THEN 1 ELSE 0)
                      + (IF pc \in InFlight \cup {"between"} THEN 1 ELSE 0)

Upcoming == IF call.stage \in Before THEN 1 ELSE 0

(* No call was sent that is not put down, or about to be.                     *)
CallsCharged == pc # "ended" => meter.sent + Upcoming <= Charged

(* The same for tokens the Provider showed; the answer of the call that is    *)
(* out is not put down yet.                                                   *)
Shown(a) == IF a.reported THEN a.cost ELSE 0
Arrived == IF call.wire = "served" THEN Shown(call.answer) ELSE 0
Spent == meter.tokens - meter.hidden
TokensCharged ==
    /\ pc \in Between => Spent <= told + used.tokens
    /\ pc \in InFlight => Spent <= told + used.tokens + Arrived

(* With what may still be served, all of it fits the budget.                  *)
Pending == IF call.stage \in Before \/ call.wire = "sent" THEN TokenBound ELSE 0
Afforded ==
    /\ meter.sent + Upcoming <= budget.calls
    /\ estimates => Spent + Pending <= budget.tokens

(* A composition that reports "not dispatched" has no thread that could send. *)
EndedUnsent == pc = "ended" /\ ~result.dispatched => meter.sent = 0 /\ Upcoming = 0

IInv == /\ TypeOK /\ WireFollowsThread /\ PhasesShare /\ CallsCharged
        /\ TokensCharged /\ Afforded /\ EndedUnsent

-----------------------------------------------------------------------------
LEMMA ShownTyped == ASSUME NEW a \in Answers PROVE a.cost \in Nat /\ Shown(a) \in 0 .. TokenBound
BY BoundAssumption DEF Shown

(* The thread either sends its request or leaves the wire alone, and it never *)
(* goes back before the point where it sends.                                 *)
LEMMA ThreadMoves ==
    ASSUME CallTyped, Thread
    PROVE  /\ CallTyped' /\ call.stage # "done"
           /\ call'.stage \in Before => call.stage \in Before
           /\ call'.answer = call.answer
           /\ \/ meter' = meter /\ call'.wire = call.wire
              \/ /\ meter' = [meter EXCEPT !.sent = @ + 1]
                 /\ call.stage = "connecting" /\ call'.stage = "waiting" /\ call'.wire = "sent"
<1> USE DEF CallTyped, Call, Stages, Before
<1>1. ASSUME NEW e \in Errors, Failed(e), call.stage # "done", UNCHANGED <<transport, meter>>
      PROVE  /\ CallTyped' /\ call'.stage = "closing" /\ call'.answer = call.answer
             /\ call'.wire = call.wire
  BY <1>1 DEF Failed
<1>2. /\ AdapterError("FAILED", "ambiguous") \in Errors
      /\ AdapterError("TRANSPORT_FAILED", "ambiguous") \in Errors
      /\ AdapterError("TIMEOUT", "ambiguous") \in Errors
      /\ \A c \in Refusals : AdapterError(c, "rejected") \in Errors
  BY DEF Errors, AdapterError
<1>3. CASE CreateTask
  BY <1>1, <1>2, <1>3 DEF CreateTask, Ambiguous
<1>4. CASE BeginPost
  BY <1>1, <1>2, <1>4 DEF BeginPost, Ambiguous
<1>5. CASE Send
  <2>1. call'.stage = "waiting" /\ call'.wire = "sent" /\ call' \in Call /\ call'.answer = call.answer
    BY <1>5 DEF Send
  <2>2. meter'.sent = meter.sent + 1 /\ meter' \in Meter
    BY <1>5 DEF Send, Meter
  <2> QED BY <1>5, <2>1, <2>2 DEF Send
<1>6. CASE ConnectionLost \/ SocketTimeout \/ TooLong \/ CancelDelivered
  BY <1>1, <1>2, <1>6 DEF ConnectionLost, SocketTimeout, TooLong, CancelDelivered, Ambiguous, Posting
<1>7. CASE Receive
  BY <1>1, <1>2, <1>7 DEF Receive, Ambiguous
<1>8. CASE Close
  BY <1>8 DEF Close
<1> QED BY <1>3, <1>4, <1>5, <1>6, <1>7, <1>8 DEF Thread

LEMMA ThreadKeeps ==
    ASSUME IInv, Thread, UNCHANGED dvars
    PROVE  IInv'
<1> USE DEF IInv, TypeOK
<1>1. /\ CallTyped' /\ call.stage # "done"
      /\ call'.stage \in Before => call.stage \in Before
      /\ call'.answer = call.answer
      /\ \/ meter' = meter /\ call'.wire = call.wire
         \/ /\ meter' = [meter EXCEPT !.sent = @ + 1]
            /\ call.stage = "connecting" /\ call'.stage = "waiting" /\ call'.wire = "sent"
  BY ThreadMoves
<1>2. /\ UNCHANGED <<budget, estimates, cancelled, expired, pc, phase, used, grant, told,
                     offered, effects, result>>
      /\ RunTyped' /\ PhasesShare'
  BY DEF dvars, RunTyped, PhasesShare
<1>3. pc \notin Between /\ WireFollowsThread'
  BY <1>1, <1>2 DEF WireFollowsThread, Before
<1>4. /\ meter'.sent + Upcoming' <= meter.sent + Upcoming
      /\ meter'.sent = meter.sent \/ Upcoming = 1
      /\ Upcoming' <= Upcoming
  BY <1>1 DEF Upcoming, Before, CallTyped, Meter
<1>5. Spent' = Spent /\ Arrived' = Arrived /\ Pending' <= Pending
  BY <1>1, BoundAssumption DEF Spent, Arrived, Pending, WireFollowsThread, Before, CallTyped, Meter, Call
<1>6. CallsCharged' /\ TokensCharged'
  <2>1. Charged' = Charged /\ Charged \in Nat
    BY <1>2 DEF Charged, RunTyped
  <2>2. /\ meter.sent \in Nat /\ meter'.sent \in Nat
        /\ Upcoming \in {0, 1} /\ Upcoming' \in {0, 1}
    BY <1>1 DEF CallTyped, Meter, Upcoming
  <2>3. CallsCharged'
    BY <1>2, <1>4, <2>1, <2>2 DEF CallsCharged
  <2>4. TokensCharged'
    BY <1>2, <1>5 DEF TokensCharged
  <2> QED BY <2>3, <2>4
<1>7. Afforded'
  BY <1>2, <1>4, <1>5, <1>1, BoundAssumption, BudgetAssumption
     DEF Afforded, CallTyped, Meter, RunTyped, Upcoming, Pending, Spent
<1>8. EndedUnsent'
  BY <1>2, <1>4, <1>1 DEF EndedUnsent, Upcoming
<1> QED BY <1>1, <1>2, <1>3, <1>6, <1>7, <1>8

LEMMA Billed ==
    ASSUME meter \in Meter, NEW x \in Nat, NEW y \in Nat,
           meter' = [meter EXCEPT !.tokens = @ + x, !.hidden = @ + y]
    PROVE  /\ meter'.sent = meter.sent /\ meter'.tokens = meter.tokens + x
           /\ meter'.hidden = meter.hidden + y /\ meter' \in Meter
<1>1. /\ meter.sent \in Nat /\ meter.tokens \in Nat /\ meter.hidden \in Nat
      /\ meter = [sent |-> meter.sent, tokens |-> meter.tokens, hidden |-> meter.hidden]
  BY DEF Meter
<1>2. meter' = [sent |-> meter.sent, tokens |-> meter.tokens + x, hidden |-> meter.hidden + y]
  BY <1>1
<1> QED BY <1>1, <1>2 DEF Meter

(* The Provider answers a request once; what the answer shows was set aside.  *)
LEMMA ProviderKeeps ==
    ASSUME IInv, Provider, UNCHANGED dvars
    PROVE  IInv'
<1> USE DEF IInv, TypeOK
<1>1. /\ UNCHANGED <<budget, estimates, cancelled, expired, pc, phase, used, grant, told,
                     offered, effects, result>>
      /\ RunTyped' /\ PhasesShare'
  BY DEF dvars, RunTyped, PhasesShare
<1>2. /\ CallTyped' /\ call.wire = "sent" /\ call'.stage = call.stage /\ meter'.sent = meter.sent
      /\ \/ call'.wire = "refused" /\ meter' = meter
         \/ \E a \in Answers : /\ call'.wire = "served" /\ call'.answer = a
                               /\ Spent' = Spent + Shown(a)
  <2>1. CASE RefuseRequest
    BY <2>1 DEF RefuseRequest, CallTyped, Call
  <2>2. ASSUME NEW a \in Answers, Serve(a)
        PROVE  /\ CallTyped' /\ call.wire = "sent" /\ call'.stage = call.stage
               /\ meter'.sent = meter.sent
               /\ call'.wire = "served" /\ call'.answer = a /\ Spent' = Spent + Shown(a)
    <3>1. /\ call'.stage = call.stage /\ call'.wire = "served" /\ call'.answer = a
          /\ call' \in Call /\ call.wire = "sent" /\ transport' = transport
      BY <2>2 DEF Serve, CallTyped, Call
    <3>2. /\ meter'.sent = meter.sent /\ meter'.tokens = meter.tokens + a.cost
          /\ meter'.hidden = meter.hidden + (IF a.reported THEN 0 ELSE a.cost)
          /\ meter' \in Meter
      <4>1. a.cost \in Nat /\ (IF a.reported THEN 0 ELSE a.cost) \in Nat
        BY ShownTyped
      <4>2. meter' = [meter EXCEPT !.tokens = @ + a.cost,
                                   !.hidden = @ + IF a.reported THEN 0 ELSE a.cost]
        BY <2>2 DEF Serve
      <4> QED BY <4>1, <4>2, Billed DEF CallTyped
    <3>3. Spent' = Spent + Shown(a)
      BY <3>2, ShownTyped DEF Spent, Shown, CallTyped, Meter
    <3> QED BY <3>1, <3>2, <3>3 DEF CallTyped
  <2> QED BY <2>1, <2>2 DEF Provider
<1>3. /\ pc \notin Between /\ call.stage \notin Before
      /\ WireFollowsThread' /\ Upcoming' = Upcoming
  BY <1>1, <1>2 DEF WireFollowsThread, Upcoming
<1>4. /\ Arrived = 0 /\ Pending = TokenBound /\ Pending' = 0
      /\ Spent' = Spent + Arrived' /\ Arrived' \in 0 .. TokenBound
  BY <1>2, <1>3, ShownTyped, BoundAssumption DEF Arrived, Pending, Spent, CallTyped, Meter, Before
<1>5. CallsCharged' /\ TokensCharged'
  BY <1>1, <1>2, <1>3, <1>4
     DEF CallsCharged, TokensCharged, Charged, CallTyped, Meter, RunTyped, Spent
<1>6. Afforded'
  BY <1>1, <1>2, <1>3, <1>4, BoundAssumption, BudgetAssumption
     DEF Afforded, CallTyped, Meter, RunTyped, Spent
<1>7. EndedUnsent'
  BY <1>1, <1>2, <1>3 DEF EndedUnsent
<1> QED BY <1>1, <1>2, <1>3, <1>5, <1>6, <1>7

-----------------------------------------------------------------------------
(* Steps of the composition.  However it ends, it leaves the call alone.      *)
LEMMA EndKeeps ==
    ASSUME IInv, pc' = "ended",
           UNCHANGED <<hvars, budget, estimates, cancelled, expired, phase, grant, told>>,
           used' = used \/ (phase = "B" /\ used' = [calls |-> used'.calls, tokens |-> used'.tokens,
                                                    tools |-> used'.tools, fixes |-> used'.fixes]
                                        /\ used'.calls \in Nat /\ used'.tokens \in Nat),
           result'.dispatched \/ (meter.sent = 0 /\ Upcoming = 0)
    PROVE  IInv'
<1> USE DEF IInv, TypeOK
<1>1. CallTyped' /\ RunTyped'
  BY DEF CallTyped, RunTyped, hvars
<1>2. WireFollowsThread' /\ CallsCharged' /\ TokensCharged'
  BY DEF WireFollowsThread, CallsCharged, TokensCharged, hvars, InFlight, Between
<1>3. PhasesShare'
  BY DEF PhasesShare, InFlight
<1>4. Afforded' /\ EndedUnsent'
  BY DEF Afforded, EndedUnsent, Spent, Pending, Upcoming, hvars
<1> QED BY <1>1, <1>2, <1>3, <1>4

LEMMA StopEnds ==
    ASSUME NEW c, NEW d \in BOOLEAN, RunTyped, Stop(c, d)
    PROVE  /\ pc' = "ended" /\ phase' = phase
           /\ phase = "A" => result'.dispatched = d
           /\ phase = "B" => result'.dispatched = TRUE
<1>1. CASE phase = "A"
  BY <1>1 DEF Stop, Fail
<1>2. CASE phase = "B"
  BY <1>2 DEF Stop, Return, Fail
<1> QED BY <1>1, <1>2 DEF RunTyped

(* While a call is out the composition may raise its flag or wake its task.   *)
LEMMA FlightKeeps ==
    ASSUME IInv, pc \in InFlight, pc' \in InFlight, NEW b \in BOOLEAN, NEW k \in BOOLEAN,
           call' = [call EXCEPT !.cancelled = b, !.woken = k],
           UNCHANGED <<transport, meter, budget, estimates, cancelled, expired, phase, used, grant,
                       told>>
    PROVE  IInv'
<1> USE DEF IInv, TypeOK
<1>1. CallTyped' /\ RunTyped'
  BY DEF CallTyped, RunTyped, Call
<1>2. /\ call'.stage = call.stage /\ call'.wire = call.wire /\ call'.answer = call.answer
      /\ pc # "ended" /\ pc' # "ended" /\ pc \notin Between /\ pc' \notin Between
  BY DEF CallTyped, Call, InFlight, Between
<1>3. WireFollowsThread' /\ CallsCharged' /\ TokensCharged'
  BY <1>2 DEF WireFollowsThread, CallsCharged, TokensCharged, Charged, Upcoming, Spent, Arrived
<1>4. PhasesShare'
  BY DEF PhasesShare, InFlight
<1>5. Afforded' /\ EndedUnsent'
  BY <1>2 DEF Afforded, EndedUnsent, Spent, Pending, Upcoming
<1> QED BY <1>1, <1>3, <1>4, <1>5

(* The stop and the clock, which the invariant does not speak of.             *)
LEMMA OutsideKeeps ==
    ASSUME IInv, cancelled' \in BOOLEAN, expired' \in BOOLEAN,
           UNCHANGED <<hvars, budget, estimates, pc, phase, used, grant, told, result>>
    PROVE  IInv'
<1> USE DEF IInv, TypeOK
<1>1. CallTyped' /\ RunTyped' /\ WireFollowsThread' /\ PhasesShare'
  BY DEF CallTyped, RunTyped, WireFollowsThread, PhasesShare, hvars
<1>2. CallsCharged' /\ TokensCharged' /\ Afforded' /\ EndedUnsent'
  BY DEF CallsCharged, TokensCharged, Afforded, EndedUnsent, Charged, Upcoming, Spent, Pending,
         Arrived, hvars
<1> QED BY <1>1, <1>2

(* Between two calls nothing is sent and nothing can be, and what is charged  *)
(* only moves.                                                                *)
LEMMA BetweenKeeps ==
    ASSUME IInv, pc \in Between, pc' \in Between, RunTyped', PhasesShare',
           UNCHANGED <<hvars, budget, estimates>>,
           Charged' = Charged, told' + used'.tokens = told + used.tokens
    PROVE  IInv'
<1> USE DEF IInv, TypeOK
<1>1. CallTyped' /\ WireFollowsThread'
  BY DEF CallTyped, WireFollowsThread, hvars, Between
<1>2. CallsCharged' /\ TokensCharged'
  BY DEF CallsCharged, TokensCharged, Upcoming, Spent, Between, InFlight, hvars
<1>3. Afforded' /\ EndedUnsent'
  BY DEF Afforded, EndedUnsent, Spent, Pending, Upcoming, hvars, Between
<1> QED BY <1>1, <1>2, <1>3

LEMMA OutsideTyped == ASSUME Cancel \/ Expire \/ UNCHANGED vars, RunTyped
                      PROVE  /\ cancelled' \in BOOLEAN /\ expired' \in BOOLEAN
                             /\ UNCHANGED <<hvars, budget, estimates, pc, phase, used, grant, told,
                                            result>>
BY DEF Cancel, Expire, vars, dvars, RunTyped

(* Phase A up to its dispatch, where everything is still unspent.             *)
LEMMA PreflightKeeps == ASSUME IInv, Preflight PROVE IInv'
<1> USE DEF IInv, TypeOK
<1>1. phase = "A" /\ meter.sent = 0 /\ Upcoming = 0 /\ used = Unused /\ told = 0 /\ grant = budget
      /\ budget.calls \in Nat /\ budget.tokens \in Nat
  <2>1. phase = "A" /\ pc # "between"
    BY DEF Preflight, PhasesShare
  <2>2. used = Unused /\ told = 0 /\ grant = budget
    BY <2>1 DEF Preflight, PhasesShare
  <2>3. Upcoming = 0
    BY DEF Preflight, WireFollowsThread, Upcoming, Before, Between
  <2>4. meter.sent = 0
    BY <2>1, <2>2, <2>3 DEF Preflight, CallsCharged, Charged, Unused, CallTyped, Meter, InFlight
  <2> QED BY <2>1, <2>2, <2>3, <2>4, BudgetAssumption DEF RunTyped
<1>2. CASE pc' = "ended"
  <2>1. UNCHANGED <<hvars, budget, estimates, cancelled, expired, phase, used, grant, told>>
    BY <1>1, <1>2 DEF Preflight, Keep, Fail, Go
  <2> QED BY <1>1, <1>2, <2>1, EndKeeps
<1>3. CASE pc' # "ended"
  <2>1. /\ pc = "preflight" /\ pc' = "admitted" /\ budget.calls >= 2 /\ ~Over(used)
        /\ UNCHANGED <<hvars, budget, estimates, cancelled, expired, phase, used, grant, told,
                       result>>
    BY <1>3, <1>1 DEF Preflight, Fail, Go, Keep
  <2>2. RunTyped'
    BY <2>1 DEF RunTyped, Between
  <2>3. estimates => told + used.tokens + TokenBound <= budget.tokens
    BY <2>1, <1>1, BoundAssumption DEF Over, Unused
  <2>4. PhasesShare'
    BY <2>1, <2>3, <1>1 DEF PhasesShare, InFlight
  <2> QED BY <2>1, <2>2, <2>4, BetweenKeeps DEF Between, Charged, InFlight
<1> QED BY <1>2, <1>3

LEMMA AdmitKeeps == ASSUME IInv, Admit PROVE IInv'
<1> USE DEF IInv, TypeOK
<1>1. phase = "A" /\ meter.sent = 0 /\ Upcoming = 0
  <2>1. phase = "A" /\ used = Unused
    BY DEF Admit, PhasesShare
  <2>2. Upcoming = 0
    BY DEF Admit, WireFollowsThread, Upcoming, Before, Between
  <2> QED BY <2>1, <2>2 DEF Admit, CallsCharged, Charged, Unused, CallTyped, Meter, InFlight
<1>2. CASE pc' = "ended"
  <2>1. /\ result'.dispatched = FALSE
        /\ UNCHANGED <<hvars, budget, estimates, cancelled, expired, phase, used, grant, told>>
    BY <1>1, <1>2 DEF Admit, Keep, Fail, Go
  <2> QED BY <1>1, <1>2, <2>1, EndKeeps
<1>3. CASE pc' # "ended"
  <2>1. /\ pc = "admitted" /\ pc' = "dispatch"
        /\ UNCHANGED <<hvars, budget, estimates, cancelled, expired, phase, used, grant, told,
                       result>>
    BY <1>3 DEF Admit, Fail, Go, Keep
  <2>2. RunTyped' /\ PhasesShare'
    BY <2>1, <1>1 DEF RunTyped, Between, PhasesShare, InFlight
  <2> QED BY <2>1, <2>2, BetweenKeeps DEF Between, Charged, InFlight
<1> QED BY <1>2, <1>3

(* A call begins within what is left, or not at all.                          *)
LEMMA DispatchKeeps == ASSUME IInv, Dispatch PROVE IInv'
<1> USE DEF IInv, TypeOK
<1>1. pc = "dispatch" /\ Upcoming = 0 /\ Pending = 0
      /\ UNCHANGED <<transport, meter, budget, estimates, cancelled, expired, used, grant, told>>
  BY DEF Dispatch, Keep, WireFollowsThread, Upcoming, Pending, Before, Between
<1>2. CASE Stop("PROVIDER_TIMEOUT", FALSE) /\ UNCHANGED call
  <2>1. /\ pc' = "ended" /\ phase' = phase
        /\ phase = "B" => result'.dispatched = TRUE
    BY <1>2, StopEnds
  <2>2. phase = "A" => meter.sent = 0
    BY <1>1 DEF PhasesShare, CallsCharged, Charged, Unused, CallTyped, Meter, InFlight
  <2> QED BY <1>1, <1>2, <2>1, <2>2, EndKeeps DEF hvars, RunTyped
<1>3. CASE Go("polling") /\ call' = NewCall
  <2>1. /\ pc' = "polling" /\ UNCHANGED <<phase, result>>
        /\ call'.stage \in {"starting", "connecting"} /\ call'.wire = "unsent"
        /\ CallTyped'
    <3>1. NoError \in Errors
      BY DEF NoError, AdapterError, Errors
    <3> QED BY <1>1, <1>3, <3>1 DEF Go, NewCall, CallTyped, Call, Stages, Before
  <2>2. RunTyped' /\ WireFollowsThread' /\ EndedUnsent'
    BY <1>1, <2>1 DEF RunTyped, WireFollowsThread, EndedUnsent, InFlight, Between, Before
  <2>3. PhasesShare'
    BY <1>1, <2>1 DEF PhasesShare, InFlight
  <2>4. Upcoming' = 1 /\ Pending' = TokenBound /\ Arrived' = 0 /\ Spent' = Spent
    BY <1>1, <2>1 DEF Upcoming, Pending, Arrived, Spent, Before
  <2>5. Charged' = Charged + 1 /\ Charged \in Nat /\ Charged' <= budget.calls
        /\ meter.sent <= Charged /\ Spent <= told + used.tokens
    <3>1. Charged = used.calls + (IF phase = "B" THEN 1 ELSE 0) /\ Charged' = Charged + 1
      BY <1>1, <2>1 DEF Charged, InFlight, RunTyped
    <3>2. budget.calls \in Nat
      BY BudgetAssumption DEF RunTyped
    <3>3. used.calls + (IF phase = "B" THEN 1 ELSE 0) + 1 <= budget.calls
      BY <1>1, <3>2 DEF PhasesShare, Unused, RunTyped, Budget
    <3>4. meter.sent <= Charged
      BY <1>1 DEF CallsCharged, CallTyped, Meter
    <3>5. Spent <= told + used.tokens
      BY <1>1 DEF TokensCharged, Between
    <3> QED BY <3>1, <3>3, <3>4, <3>5 DEF RunTyped
  <2>6. CallsCharged' /\ TokensCharged'
    BY <1>1, <2>1, <2>4, <2>5
       DEF CallsCharged, TokensCharged, CallTyped, Meter, RunTyped, Spent, InFlight, Between
  <2>7. estimates => told + used.tokens + TokenBound <= budget.tokens
    BY <1>1 DEF PhasesShare
  <2>8. budget.calls \in Nat /\ budget.tokens \in Nat /\ Spent \in Int
    BY BudgetAssumption DEF RunTyped, Spent, CallTyped, Meter
  <2>9. Afforded'
    BY <1>1, <2>4, <2>5, <2>7, <2>8, BoundAssumption
       DEF Afforded, CallTyped, Meter, RunTyped
  <2> QED BY <2>1, <2>2, <2>3, <2>6, <2>9
<1> QED BY <1>2, <1>3 DEF Dispatch

-----------------------------------------------------------------------------
(* Interrupting, waking and draining a call that is out, and its failures.    *)
LEMMA InterruptKeeps == ASSUME IInv, Interrupt \/ Wake PROVE IInv'
<1> USE DEF IInv, TypeOK
<1>1. /\ pc \in InFlight /\ pc' \in InFlight
      /\ UNCHANGED <<transport, meter, budget, estimates, cancelled, expired, phase, used, grant,
                     told>>
  BY DEF Interrupt, Wake, Go, Keep, InFlight
<1>2. CASE Interrupt
  <2>1. call' = [call EXCEPT !.cancelled = TRUE, !.woken = call.woken] /\ call.woken \in BOOLEAN
    BY <1>2 DEF Interrupt, RaiseFlag, CallTyped, Call
  <2> QED BY <1>1, <2>1, FlightKeeps
<1>3. CASE Wake
  <2> DEFINE k == call.woken \/ call.stage \in {"tasked", "connecting", "waiting"}
  <2>1. call' = [call EXCEPT !.cancelled = call.cancelled, !.woken = k]
    BY <1>3 DEF Wake, WakeTask, CallTyped, Call
  <2>2. call.cancelled \in BOOLEAN /\ k \in BOOLEAN
    BY DEF CallTyped, Call
  <2> QED BY <1>1, <2>1, <2>2, FlightKeeps
<1> QED BY <1>2, <1>3

LEMMA StopKeeps ==
    ASSUME IInv, NEW c, Stop(c, TRUE), Keep, UNCHANGED <<hvars, used, grant, told>>
    PROVE  IInv'
<1>1. pc' = "ended" /\ phase' = phase /\ (result'.dispatched = TRUE)
  BY StopEnds DEF IInv, TypeOK, RunTyped
<1> QED BY <1>1, EndKeeps DEF Keep

LEMMA GiveUpKeeps == ASSUME IInv, Drained \/ CallFailed \/ Unreadable PROVE IInv'
<1>1. CASE Drained
  BY <1>1, StopKeeps DEF Drained
<1>2. CASE CallFailed
  BY <1>2, StopKeeps DEF CallFailed
<1>3. CASE Unreadable
  BY <1>3, StopKeeps DEF Unreadable
<1> QED BY <1>1, <1>2, <1>3

(* An answered call is over, and it showed the tokens of its answer.          *)
LEMMA AnswerIn ==
    ASSUME IInv, pc = "polling", Answered
    PROVE  /\ call.stage = "done" /\ call.wire = "served" /\ call.answer \in Answers
           /\ Upcoming = 0 /\ Pending = 0 /\ Spent \in Int
           /\ Spent <= told + used.tokens + Shown(call.answer)
           /\ meter.sent <= Charged /\ Charged = used.calls + (IF phase = "B" THEN 1 ELSE 0) + 1
           /\ call.answer.cost \in Nat /\ Shown(call.answer) \in Nat
<1> USE DEF IInv, TypeOK
<1>1. call.stage = "done" /\ call.wire = "served" /\ call.answer \in Answers
  BY DEF Answered, Done, WireFollowsThread
<1>2. Upcoming = 0 /\ Pending = 0 /\ Arrived = Shown(call.answer)
  BY <1>1 DEF Upcoming, Pending, Arrived, Before
<1>3. Spent <= told + used.tokens + Shown(call.answer) /\ Spent \in Int
  BY <1>2 DEF TokensCharged, InFlight, Spent, CallTyped, Meter
<1>4. Charged = used.calls + (IF phase = "B" THEN 1 ELSE 0) + 1
  BY DEF Charged, InFlight
<1>5. meter.sent <= Charged
  BY <1>2 DEF CallsCharged, CallTyped, Meter
<1>6. call.answer.cost \in Nat /\ Shown(call.answer) \in Nat
  BY <1>1, ShownTyped, BoundAssumption
<1> QED BY <1>1, <1>2, <1>3, <1>4, <1>5, <1>6

(* The answer to the deliberation is charged as reported, or the composition  *)
(* ends.                                                                      *)
LEMMA DeliberatedKeeps == ASSUME IInv, Deliberated PROVE IInv'
<1> USE DEF IInv, TypeOK
<1>1. /\ pc = "polling" /\ phase = "A" /\ Answered
      /\ UNCHANGED <<hvars, budget, estimates, cancelled, expired, used, grant>>
  BY DEF Deliberated, Keep
<1>2. /\ used = Unused /\ told = 0 /\ grant = budget /\ budget.calls >= 2
  BY <1>1 DEF PhasesShare, InFlight
<1>3. CASE pc' = "ended"
  <2>1. UNCHANGED <<phase, told>> /\ (result'.dispatched = TRUE)
    BY <1>3 DEF Deliberated, Fail, Go
  <2> QED BY <1>1, <1>3, <2>1, EndKeeps
<1>4. CASE pc' # "ended"
  <2>1. /\ pc' = "between" /\ UNCHANGED <<phase, result>>
        /\ call.answer.reported /\ call.answer.cost <= budget.tokens /\ told' = call.answer.cost
    <3>1. call.answer.cost \in Nat /\ budget.tokens \in Nat
      BY <1>1, AnswerIn, BudgetAssumption DEF RunTyped
    <3> QED BY <1>4, <3>1 DEF Deliberated, Fail, Go
  <2>2. CallTyped' /\ RunTyped' /\ WireFollowsThread'
    <3>1. CallTyped'
      BY <1>1 DEF CallTyped, hvars
    <3>2. RunTyped'
      BY <1>1, <2>1, AnswerIn DEF RunTyped, Between, InFlight
    <3>3. WireFollowsThread'
      BY <1>1, <2>1, AnswerIn DEF WireFollowsThread, hvars, Before
    <3> QED BY <3>1, <3>2, <3>3
  <2>3. PhasesShare'
    BY <1>1, <1>2, <2>1 DEF PhasesShare, InFlight, Unused
  <2>4. /\ Upcoming' = 0 /\ Pending' = 0 /\ Spent' = Spent /\ Charged' = Charged
        /\ Shown(call.answer) = told'
    BY <1>1, <1>2, <2>1, AnswerIn DEF hvars, Upcoming, Pending, Spent, Charged, InFlight, Before, Shown
  <2>5. CallsCharged'
    BY <1>1, <2>1, <2>4, AnswerIn DEF CallsCharged, hvars, CallTyped, Meter
  <2>6. TokensCharged'
    BY <1>1, <1>2, <2>1, <2>4, AnswerIn DEF TokensCharged, Unused, Between, InFlight
  <2>7. Afforded' /\ EndedUnsent'
    BY <1>1, <2>1, <2>4, AnswerIn DEF Afforded, EndedUnsent, hvars
  <2> QED BY <2>2, <2>3, <2>5, <2>6, <2>7
<1> QED BY <1>3, <1>4

(* Phase B is granted exactly what is left.                                   *)
LEMMA ExposeKeeps == ASSUME IInv, ExposeTools PROVE IInv'
<1> USE DEF IInv, TypeOK
<1>1. /\ pc = "between" /\ phase = "A"
      /\ UNCHANGED <<hvars, budget, estimates, cancelled, expired, used, told>>
      /\ used = Unused
  BY DEF ExposeTools, Keep, PhasesShare
<1>2. CASE pc' = "ended"
  <2>1. UNCHANGED <<phase, grant>> /\ (result'.dispatched = TRUE)
    BY <1>2 DEF ExposeTools, Fail
  <2> QED BY <1>1, <1>2, <2>1, EndKeeps
<1>3. CASE pc' # "ended"
  <2>1. /\ pc' = "loop" /\ phase' = "B" /\ result' = result /\ grant' = Remainder
        /\ ~(Remainder.calls < 1) /\ ~(Remainder.tokens < 1)
    BY <1>3 DEF ExposeTools, Fail
  <2>2. /\ budget \in [calls : Nat \ {0}, tokens : Nat \ {0}, tools : Nat, fixes : Nat]
        /\ told \in Nat
    BY BudgetAssumption DEF RunTyped
  <2>3. grant'.calls = budget.calls - 1 /\ grant'.tokens = budget.tokens - told /\ grant' \in Budget
    <3>1. grant' = [calls |-> budget.calls - 1, tokens |-> budget.tokens - told,
                    tools |-> budget.tools, fixes |-> budget.fixes]
      BY <2>1, <2>2 DEF Remainder
    <3>2. budget.calls - 1 \in Nat /\ budget.tokens - told \in Nat
      BY <2>1, <2>2, <3>1
    <3> QED BY <3>1, <3>2, <2>2 DEF Budget
  <2>4. RunTyped'
    BY <1>1, <2>1, <2>3 DEF RunTyped, Between
  <2>5. PhasesShare'
    BY <1>1, <2>1, <2>3 DEF PhasesShare, InFlight
  <2>6. Charged' = Charged
    BY <1>1, <2>1 DEF Charged, InFlight, Unused
  <2> QED BY <1>1, <2>1, <2>4, <2>5, <2>6, BetweenKeeps DEF Between
<1> QED BY <1>2, <1>3

LEMMA LoopHeadKeeps == ASSUME IInv, LoopHead PROVE IInv'
<1> USE DEF IInv, TypeOK
<1>1. /\ pc = "loop" /\ phase = "B"
      /\ UNCHANGED <<hvars, budget, estimates, cancelled, expired, used, grant, told>>
  BY DEF LoopHead, Keep, PhasesShare
<1>2. CASE pc' = "ended"
  <2>1. phase' = phase /\ (result'.dispatched = TRUE)
    BY <1>2 DEF LoopHead, Return, Fail, Go
  <2> QED BY <1>1, <1>2, <2>1, EndKeeps
<1>3. CASE pc' # "ended"
  <2>1. /\ pc' = "dispatch" /\ UNCHANGED <<phase, result>>
        /\ ~(used.calls >= grant.calls) /\ ~Over(used)
    BY <1>3 DEF LoopHead, Return, Fail, Go
  <2>2. RunTyped' /\ Charged' = Charged
    BY <1>1, <2>1 DEF RunTyped, Between, Charged, InFlight
  <2>3. PhasesShare'
    <3>1. /\ grant.calls \in Nat /\ grant.tokens \in Nat /\ budget.tokens \in Nat
          /\ used.calls \in Nat /\ used.tokens \in Nat /\ told \in Nat /\ TokenBound \in Nat
      BY BudgetAssumption, BoundAssumption DEF RunTyped, Budget
    <3>2. grant.tokens = budget.tokens - told
      BY <1>1 DEF PhasesShare
    <3>3. used.calls < grant.calls
      BY <2>1, <3>1
    <3>4. estimates => told + used.tokens + TokenBound <= budget.tokens
      BY <2>1, <3>1, <3>2 DEF Over
    <3> QED BY <1>1, <2>1, <3>3, <3>4 DEF PhasesShare, InFlight
  <2> QED BY <1>1, <2>1, <2>2, <2>3, BetweenKeeps DEF Between
<1> QED BY <1>2, <1>3

LEMMA TooLateKeeps == ASSUME IInv, AnswerTooLate PROVE IInv'
<1>1. /\ pc' = "ended" /\ phase' = phase /\ (result'.dispatched = TRUE)
      /\ UNCHANGED <<hvars, budget, estimates, cancelled, expired, used, grant, told>>
  BY DEF AnswerTooLate, Return, Fail, Keep
<1> QED BY <1>1, EndKeeps

LEMMA Updated ==
    ASSUME NEW u, NEW v, NEW c, NEW k, NEW n, NEW x,
           u = [calls |-> c, tokens |-> k, tools |-> n, fixes |-> x]
    PROVE  /\ [u EXCEPT !.tools = v] = [calls |-> c, tokens |-> k, tools |-> v, fixes |-> x]
           /\ [u EXCEPT !.fixes = v] = [calls |-> c, tokens |-> k, tools |-> n, fixes |-> v]
OBVIOUS

LEMMA CountedUp ==
    ASSUME RunTyped, NEW z \in Nat, z = Shown(call.answer)
    PROVE  Counted = [calls |-> used.calls + 1, tokens |-> used.tokens + z,
                      tools |-> used.tools, fixes |-> used.fixes]
<1>1. /\ used = [calls |-> used.calls, tokens |-> used.tokens,
                 tools |-> used.tools, fixes |-> used.fixes]
      /\ used.calls \in Nat /\ used.tokens \in Nat
  BY DEF RunTyped
<1>2. Counted = [used EXCEPT !.calls = @ + 1, !.tokens = @ + z]
  BY DEF Counted, Shown
<1>3. ASSUME NEW c, c = [used EXCEPT !.calls = @ + 1, !.tokens = @ + z]
      PROVE  c = [calls |-> used.calls + 1, tokens |-> used.tokens + z,
                  tools |-> used.tools, fixes |-> used.fixes]
  BY <1>1, <1>3
<1> QED BY <1>2, <1>3

(* A turn charges its call and what its answer showed, wherever it leads.     *)
LEMMA TurnKeeps == ASSUME IInv, TakeTurn PROVE IInv'
<1> USE DEF IInv, TypeOK
<1>1. /\ pc = "polling" /\ phase = "B" /\ Answered
      /\ UNCHANGED <<hvars, budget, estimates, cancelled, expired, grant, told>>
  BY DEF TakeTurn, Keep
<1> DEFINE after == [Counted EXCEPT !.tools = @ + Named(Turn.calls)]
<1>2. /\ used' \in {Counted, after, [after EXCEPT !.fixes = @ + Len(Turn.calls)]}
  BY DEF TakeTurn
<1>3. /\ phase' = phase
      /\ \/ pc' = "ended" /\ (result'.dispatched = TRUE)
         \/ pc' = "loop" /\ result' = result
  BY DEF TakeTurn, Return, Fail, Go
<1>4. /\ used'.calls = used.calls + 1 /\ used'.tokens = used.tokens + Shown(call.answer)
      /\ used' = [calls |-> used'.calls, tokens |-> used'.tokens,
                  tools |-> used'.tools, fixes |-> used'.fixes]
      /\ used'.calls \in Nat /\ used'.tokens \in Nat
  <2> DEFINE c == used.calls + 1
             k == used.tokens + Shown(call.answer)
             n == used.tools + Named(Turn.calls)
             x == used.fixes + Len(Turn.calls)
  <2>1. Shown(call.answer) \in Nat
    BY <1>1, AnswerIn
  <2>2. Counted = [calls |-> c, tokens |-> k, tools |-> used.tools, fixes |-> used.fixes]
    BY <2>1, CountedUp
  <2>3. Counted.tools = used.tools /\ Counted.fixes = used.fixes
    BY <2>2
  <2>4. after = [Counted EXCEPT !.tools = n]
    BY <2>3
  <2>5. after = [calls |-> c, tokens |-> k, tools |-> n, fixes |-> used.fixes]
    BY <2>2, <2>4, Updated
  <2>6. c \in Nat /\ k \in Nat
    BY <2>1 DEF RunTyped
  <2> HIDE DEF after, c, k, n
  <2>7. after.fixes = used.fixes
    BY <2>5
  <2>8. [after EXCEPT !.fixes = @ + Len(Turn.calls)] = [after EXCEPT !.fixes = x]
    BY <2>7
  <2>9. [after EXCEPT !.fixes = x] = [calls |-> c, tokens |-> k, tools |-> n, fixes |-> x]
    BY <2>5, Updated
  <2> HIDE DEF x
  <2>10. \E t, f : used' = [calls |-> c, tokens |-> k, tools |-> t, fixes |-> f]
    BY <1>2, <2>2, <2>5, <2>8, <2>9
  <2>11. /\ used'.calls = c /\ used'.tokens = k
         /\ used' = [calls |-> used'.calls, tokens |-> used'.tokens,
                     tools |-> used'.tools, fixes |-> used'.fixes]
    BY <2>10
  <2> QED BY <2>6, <2>11 DEF c, k
<1> HIDE DEF after
<1>5. CASE pc' = "ended"
  BY <1>1, <1>3, <1>4, <1>5, EndKeeps
<1>6. CASE pc' # "ended"
  <2>1. CallTyped' /\ RunTyped' /\ WireFollowsThread'
    <3>1. CallTyped'
      BY <1>1 DEF CallTyped, hvars
    <3>2. RunTyped'
      BY <1>1, <1>3, <1>4, <1>6 DEF RunTyped, Between, InFlight
    <3>3. WireFollowsThread'
      BY <1>1, <1>3, <1>6, AnswerIn DEF WireFollowsThread, hvars, Before
    <3> QED BY <3>1, <3>2, <3>3
  <2>2. PhasesShare'
    BY <1>1, <1>3, <1>6 DEF PhasesShare, InFlight
  <2>3. /\ Upcoming' = 0 /\ Pending' = 0 /\ Spent' = Spent /\ Charged' = Charged
    <3>1. Upcoming' = 0 /\ Pending' = 0 /\ Spent' = Spent
      BY <1>1, AnswerIn DEF hvars, Upcoming, Pending, Spent, Before
    <3>2. Charged' = used'.calls + 1
      <4>1. phase' = "B" /\ pc' = "loop" /\ used'.calls \in Nat
        BY <1>1, <1>3, <1>4, <1>6
      <4>2. pc' \notin InFlight \cup {"between"}
        BY <4>1 DEF InFlight
      <4> QED BY <4>1, <4>2 DEF Charged
    <3>3. Charged = used.calls + 2 /\ used.calls \in Nat
      BY <1>1, AnswerIn DEF RunTyped
    <3> QED BY <3>1, <3>2, <3>3, <1>4
  <2>4. CallsCharged'
    BY <1>1, <2>3, AnswerIn DEF CallsCharged, hvars, CallTyped, Meter
  <2>5. TokensCharged'
    <3>1. told' + used'.tokens = told + used.tokens + Shown(call.answer)
      BY <1>1, <1>4, AnswerIn DEF RunTyped
    <3>2. Spent' <= told' + used'.tokens
      BY <1>1, <2>3, <3>1, AnswerIn
    <3> QED BY <1>3, <1>6, <3>2 DEF TokensCharged, InFlight
  <2>6. Afforded' /\ EndedUnsent'
    BY <1>1, <1>3, <1>6, <2>3, AnswerIn DEF Afforded, EndedUnsent, hvars
  <2> QED BY <2>1, <2>2, <2>4, <2>5, <2>6
<1> QED BY <1>5, <1>6

-----------------------------------------------------------------------------
(* What the parser makes of an answer, whatever its calls are.                *)

LEMMA UpTo == ASSUME NEW n \in Nat PROVE IsFiniteSet(1 .. n) /\ Cardinality(1 .. n) = n
BY FS_Interval

(* The numbers 1 .. n in order are the numbers themselves; no number of a set *)
(* that is not empty is lost.                                                 *)
LEMMA OrderOfAll ==
    ASSUME NEW n \in Nat
    PROVE  InOrder(1 .. n) = [k \in 1 .. n |-> k]
<1>1. Cardinality(1 .. n) = n
  BY UpTo
<1>2. ASSUME NEW i \in 1 .. n PROVE Cardinality({j \in 1 .. n : j < i}) = i - 1
  <2>1. {j \in 1 .. n : j < i} = 1 .. i - 1
    OBVIOUS
  <2>2. Cardinality(1 .. i - 1) = i - 1
    <3>1. i - 1 \in Nat /\ 1 \in Int
      OBVIOUS
    <3> QED BY <3>1, UpTo
  <2> QED BY <2>1, <2>2
<1>3. ASSUME NEW k \in 1 .. n
      PROVE  (CHOOSE i \in 1 .. n : Cardinality({j \in 1 .. n : j < i}) = k - 1) = k
  <2>1. \E i \in 1 .. n : Cardinality({j \in 1 .. n : j < i}) = k - 1
    BY <1>2
  <2>2. \A i \in 1 .. n : Cardinality({j \in 1 .. n : j < i}) = k - 1 => i = k
    BY <1>2
  <2> QED BY <2>1, <2>2
<1> QED BY <1>1, <1>3 DEF InOrder

LEMMA OrderNotEmpty ==
    ASSUME NEW n \in Nat, NEW S \in SUBSET (1 .. n), S # {}
    PROVE  1 \in DOMAIN InOrder(S)
<1>1. IsFiniteSet(S)
  BY UpTo, FS_Subset
<1>2. Cardinality(S) \in Nat /\ Cardinality(S) # 0
  BY <1>1, FS_CardinalityType, FS_EmptySet
<1> QED BY <1>2 DEF InOrder

(* An answer with a control takes that control and was nothing else.          *)
LEMMA ControlAlone ==
    ASSUME NEW raw \in Seq(RawCall), NEW offer, Singles(raw) # {}, ~Mixed(raw, offer),
           \A i \in DOMAIN raw : ~Spoils(raw, i, offer)
    PROVE  /\ raw = <<raw[1]>> /\ raw[1].name = Action(raw) /\ Action(raw) # "calls"
           /\ raw[1].form = "sound" /\ Action(raw) \in offer
<1>1. Singles(raw) = DOMAIN raw /\ ~(Cardinality(Singles(raw)) > 1)
  BY DEF Mixed, RuntimeCalls, Singles
<1>2. Len(raw) = 1
  <2>1. Len(raw) \in Nat /\ DOMAIN raw = 1 .. Len(raw)
    OBVIOUS
  <2>2. Cardinality(DOMAIN raw) = Len(raw) /\ Len(raw) # 0
    BY <1>1, <2>1, UpTo
  <2> QED BY <1>1, <2>1, <2>2
<1>3. Singles(raw) = {1} /\ raw = <<raw[1]>> /\ raw[1] \in RawCall
  BY <1>1, <1>2
<1>4. Action(raw) = raw[1].name
  BY <1>3 DEF Action
<1>5. raw[1].name \in Single /\ Readable(raw[1])
  BY <1>3 DEF Singles
<1>6. raw[1].name \in offer /\ raw[1].form # "unsound"
  BY <1>3, <1>5 DEF Spoils, Control
<1> QED BY <1>3, <1>4, <1>5, <1>6 DEF Single, Readable, RawCall

(* One that concludes was nothing but its conclusion.                         *)
LEMMA ConclusionAlone ==
    ASSUME NEW raw \in Seq(RawCall), raw # <<>>, Singles(raw) = {}, RuntimeCalls(raw) = {}
    PROVE  /\ raw = <<raw[1]>> /\ raw[1].name = Action(raw) /\ Action(raw) = Conclusion
           /\ raw[1].form = "sound"
<1>1. DOMAIN raw = Concludes(raw)
  BY DEF RuntimeCalls, Concludes
<1>2. \A i, j \in Concludes(raw) : i = j
  BY DEF Concludes
<1>3. 1 \in DOMAIN raw /\ Len(raw) \in DOMAIN raw
  OBVIOUS
<1>4. Len(raw) = 1
  BY <1>1, <1>2, <1>3
<1>5. raw = <<raw[1]>> /\ raw[1].name = Conclusion /\ raw[1].form = "sound"
  BY <1>1, <1>3, <1>4 DEF Concludes
<1> QED BY <1>5 DEF Action

(* Calls that may be executed are all the calls there were.                   *)
LEMMA CallsWhole ==
    ASSUME NEW raw \in Seq(RawCall), NEW offer, Action(raw) = "calls",
           InvalidCalls(raw, offer) = {}, Concludes(raw) = {}, Singles(raw) = {},
           ~Mixed(raw, offer)
    PROVE  /\ Len(TurnOf(raw, offer).calls) = Len(raw)
           /\ \A k \in DOMAIN raw :
                 /\ TurnOf(raw, offer).calls[k].call = raw[k] /\ raw[k].name \in offer \ Single
                 /\ Readable(raw[k]) /\ TurnOf(raw, offer).calls[k].valid
                 /\ raw[k].name = "history" => Len(raw) = 1
<1>1. RuntimeCalls(raw) = 1 .. Len(raw)
  BY DEF RuntimeCalls
<1>2. Kept(raw, offer) = [k \in 1 .. Len(raw) |-> k]
  BY <1>1, OrderOfAll DEF Kept
<1>3. TurnOf(raw, offer).calls = [k \in 1 .. Len(raw) |-> [call |-> raw[k], valid |-> TRUE]]
  BY <1>2 DEF TurnOf
<1>4. ASSUME NEW k \in DOMAIN raw
      PROVE  /\ raw[k].name \in offer \ Single /\ Readable(raw[k])
             /\ raw[k].name = "history" => Len(raw) = 1
  <2>1. ~InvalidCall(raw, k, offer)
    BY <1>1 DEF InvalidCalls
  <2>2. raw[k].name \in offer \ Single /\ Readable(raw[k])
    BY <2>1 DEF InvalidCall, Singles
  <2>3. ASSUME raw[k].name = "history" PROVE Len(raw) = 1
    <3>1. 1 .. Len(raw) = {k} /\ Len(raw) \in Nat
      BY <1>1, <2>1, <2>3 DEF Mixed
    <3>2. 1 \in 1 .. Len(raw) /\ Len(raw) \in 1 .. Len(raw)
      BY <3>1
    <3> QED BY <3>1, <3>2
  <2> QED BY <2>2, <2>3
<1> QED BY <1>3, <1>4

LEMMA CallsRefused ==
    ASSUME NEW raw \in Seq(RawCall), NEW offer, Action(raw) = "calls",
           InvalidCalls(raw, offer) # {} \/ Concludes(raw) # {}
    PROVE  /\ TurnOf(raw, offer).calls # <<>>
           /\ \A k \in DOMAIN TurnOf(raw, offer).calls : ~TurnOf(raw, offer).calls[k].valid
<1>1. RuntimeCalls(raw) # {} /\ Singles(raw) = {}
  BY DEF Action, Singles, Conclusion, Single
<1>2. /\ DOMAIN raw = 1 .. Len(raw) /\ Len(raw) \in Nat
      /\ RuntimeCalls(raw) \in SUBSET (1 .. Len(raw))
      /\ InvalidCalls(raw, offer) \in SUBSET (1 .. Len(raw))
  BY DEF InvalidCalls, RuntimeCalls
<1>3. 1 \in DOMAIN Kept(raw, offer)
  <2>1. CASE InvalidCalls(raw, offer) # {}
    <3>1. Kept(raw, offer) = InOrder(InvalidCalls(raw, offer))
      BY <2>1 DEF Kept
    <3> QED BY <1>2, <2>1, <3>1, OrderNotEmpty
  <2>2. CASE InvalidCalls(raw, offer) = {}
    <3>1. Kept(raw, offer) = InOrder(RuntimeCalls(raw))
      BY <2>2 DEF Kept
    <3> QED BY <1>1, <1>2, <3>1, OrderNotEmpty
  <2> QED BY <2>1, <2>2
<1>4. TurnOf(raw, offer).calls =
          [k \in DOMAIN Kept(raw, offer) |-> [call |-> raw[Kept(raw, offer)[k]], valid |-> FALSE]]
  BY DEF TurnOf
<1> QED BY <1>3, <1>4

(* Whatever the Provider answers and whatever it was offered: the Harness     *)
(* takes the whole of an answer, offered and sound, or nothing of it.         *)
THEOREM ParsesToOneChoice ==
    ASSUME NEW answer, answer.calls \in Seq(RawCall), NEW offer, Conclusion \in offer
    PROVE  OneChoice(answer, offer)
<1> DEFINE raw == answer.calls
           t == Parse(answer, offer)
<1> SUFFICES ASSUME t.kind = "turn"
             PROVE  \/ Whole(answer, offer)
                    \/ t.action = "calls" /\ t.calls # <<>> /\ \A k \in DOMAIN t.calls : ~t.calls[k].valid
  BY DEF OneChoice
<1>1. /\ t = TurnOf(raw, offer)
      /\ raw # <<>> /\ ~Mixed(raw, offer) /\ \A i \in DOMAIN raw : ~Spoils(raw, i, offer)
  BY DEF Parse, Unavailable, Malformed
<1>2. t.action = Action(raw)
  BY <1>1 DEF TurnOf
<1> HIDE DEF t
<1>3. CASE Singles(raw) # {}
  <2>1. /\ raw = <<raw[1]>> /\ raw[1].name = Action(raw) /\ Action(raw) # "calls"
        /\ raw[1].form = "sound" /\ Action(raw) \in offer
    BY <1>1, <1>3, ControlAlone
  <2> QED BY <1>2, <2>1 DEF Whole, t
<1>4. CASE Singles(raw) = {} /\ RuntimeCalls(raw) = {}
  <2>1. /\ raw = <<raw[1]>> /\ raw[1].name = Action(raw) /\ Action(raw) = Conclusion
        /\ raw[1].form = "sound"
    BY <1>1, <1>4, ConclusionAlone
  <2> QED BY <1>2, <2>1 DEF Whole, t, Conclusion
<1>5. CASE Singles(raw) = {} /\ RuntimeCalls(raw) # {}
  <2>1. Action(raw) = "calls"
    BY <1>5 DEF Action
  <2>2. CASE InvalidCalls(raw, offer) = {} /\ Concludes(raw) = {}
    <3>1. /\ Len(t.calls) = Len(raw)
          /\ \A k \in DOMAIN raw :
                /\ t.calls[k].call = raw[k] /\ raw[k].name \in offer \ Single
                /\ Readable(raw[k]) /\ t.calls[k].valid
                /\ raw[k].name = "history" => Len(raw) = 1
      BY <1>1, <1>5, <2>1, <2>2, CallsWhole
    <3> QED BY <1>2, <2>1, <3>1 DEF Whole, t
  <2>3. CASE InvalidCalls(raw, offer) # {} \/ Concludes(raw) # {}
    BY <1>1, <1>2, <2>1, <2>3, CallsRefused
  <2> QED BY <2>2, <2>3
<1> QED BY <1>3, <1>4, <1>5

-----------------------------------------------------------------------------
LEMMA InvInit == Init => IInv
<1> SUFFICES ASSUME Init PROVE IInv
  OBVIOUS
<1>1. /\ call.stage = "done" /\ call.wire = "unsent" /\ CallTyped
  <2>1. NoError \in Errors
    BY DEF NoError, AdapterError, Errors
  <2> QED BY <2>1 DEF Init, HandleInit, Idle, NewCall, CallTyped, Call, Stages, Before, Meter
<1>2. RunTyped
  <2>1. budget \in Budget
    BY BudgetAssumption DEF Init, Budget
  <2> QED BY <2>1 DEF Init, RunTyped, Between, Unused
<1>3. WireFollowsThread /\ PhasesShare
  BY <1>1 DEF Init, WireFollowsThread, PhasesShare, Before, InFlight
<1>4. /\ Upcoming = 0 /\ Pending = 0 /\ Spent = 0 /\ meter.sent = 0 /\ Charged = 0
  BY <1>1 DEF Init, HandleInit, Upcoming, Pending, Spent, Charged, Unused, Before, InFlight
<1>5. CallsCharged /\ TokensCharged /\ EndedUnsent
  BY <1>4 DEF Init, CallsCharged, TokensCharged, EndedUnsent, Unused, InFlight
<1>6. Afforded
  BY <1>4, BudgetAssumption DEF Init, Afforded
<1> QED BY <1>1, <1>2, <1>3, <1>5, <1>6 DEF IInv, TypeOK

LEMMA InvStep == IInv /\ [Next]_vars => IInv'
<1> SUFFICES ASSUME IInv, [Next]_vars PROVE IInv'
  OBVIOUS
<1>1. CASE Cancel \/ Expire \/ UNCHANGED vars
  BY <1>1, OutsideTyped, OutsideKeeps DEF IInv, TypeOK
<1>2. CASE Process
  BY <1>2, PreflightKeeps, AdmitKeeps, DispatchKeeps, InterruptKeeps, GiveUpKeeps, DeliberatedKeeps,
     ExposeKeeps, LoopHeadKeeps, TooLateKeeps, TurnKeeps DEF Process
<1>3. CASE Wire
  BY <1>3, ThreadKeeps, ProviderKeeps DEF Wire
<1> QED BY <1>1, <1>2, <1>3 DEF Next

(* Every reachable state is type-correct.                                     *)
THEOREM Typing == Spec => []TypeOK
<1>1. IInv => TypeOK
  BY DEF IInv
<1> QED BY InvInit, InvStep, <1>1, PTL DEF Spec

(* A composition that ends with "not dispatched" never had a request on the   *)
(* wire, and none follows.                                                    *)
THEOREM SafeAlwaysUnsent == Spec => []SafeMeansUnsent
<1>1. IInv => SafeMeansUnsent
  BY DEF IInv, EndedUnsent, SafeMeansUnsent
<1> QED BY InvInit, InvStep, <1>1, PTL DEF Spec

(* Both phases together stay within the budget of the caller: the calls       *)
(* always, and what the Provider showed with an adapter that estimates.       *)
THEOREM SpendingFits == Spec => []SpendingWithinAggregate
<1>1. IInv => SpendingWithinAggregate
  <2> SUFFICES ASSUME IInv PROVE SpendingWithinAggregate
    OBVIOUS
  <2>1. /\ meter.sent \in Nat /\ Spent \in Int /\ budget.calls \in Nat /\ budget.tokens \in Nat
        /\ Upcoming \in {0, 1} /\ Pending \in Nat
    BY BudgetAssumption, BoundAssumption
       DEF IInv, TypeOK, CallTyped, RunTyped, Meter, Spent, Upcoming, Pending
  <2> QED BY <2>1 DEF IInv, Afforded, SpendingWithinAggregate, Spent
<1> QED BY InvInit, InvStep, <1>1, PTL DEF Spec

(* A turn is one choice: nothing is executed, adopted or concluded from a     *)
(* part of an answer, in either phase and whatever was offered.               *)
THEOREM TurnIsOneChoice == Spec => []OneChoicePerTurn
<1>1. IInv => OneChoicePerTurn
  <2> SUFFICES ASSUME IInv, Answered, NEW controls \in SUBSET Control
               PROVE  OneChoice(call.answer, Offer(offered, controls))
    BY DEF OneChoicePerTurn
  <2>1. call.answer.calls \in Seq(RawCall)
    BY AnswersAssumption DEF IInv, Answered, Done, WireFollowsThread
  <2>2. Conclusion \in Offer(offered, controls)
    BY DEF Offer
  <2> QED BY <2>1, <2>2, ParsesToOneChoice
<1> QED BY InvInit, InvStep, <1>1, PTL DEF Spec

=============================================================================
