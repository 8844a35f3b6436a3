---------------------------- MODULE Deliberation ----------------------------
(* run_lifecycle_bound: one Provider call that only deliberates, then a Tool  *)
(* loop that is told its record, both under one cancellation, one deadline    *)
(* and one budget.  The call is ProviderHandle, its answer TurnAnswer.  The   *)
(* Tool loop is the Agent loop of AgentLoop without a Store, kept to what     *)
(* spends the budget.                                                         *)
EXTENDS TurnAnswer, ProviderHandle

CONSTANTS
    Budgets,                    \* RunBudgets of the caller
    TokenBound                  \* request_token_upper_bound of every request

ASSUME BoundAssumption ==
    /\ TokenBound \in Nat
    /\ \A a \in Answers : a.cost \in 0 .. TokenBound

(* What _parse_response is given.                                             *)
ASSUME AnswersAssumption == \A a \in Answers : a.calls \in Seq(RawCall)

(* RunBudget.__post_init__.                                                   *)
ASSUME BudgetAssumption ==
    Budgets \subseteq [calls : Nat \ {0}, tokens : Nat \ {0}, tools : Nat, fixes : Nat]

(* The adapter refuses a catalogue that collides with a control.              *)
ASSUME CatalogueAssumption == Preparable(Tools, {}, 0)

VARIABLES
    budget,                     \* the caller's
    estimates,                  \* the adapter has request_token_upper_bound
    cancelled,                  \* the CancellationToken
    expired,                    \* the shared deadline is past
    pc, phase,                  \* "A" deliberation, "B" Tool loop
    used,                       \* what this phase counted
    grant,                      \* what phase B was given
    told,                       \* tokens phase A reported
    offered,                    \* the Tools of the call that is out
    effects,                    \* Tools executed
    result                      \* how the composition ended

dvars == <<budget, estimates, cancelled, expired, pc, phase, used, grant, told,
           offered, effects, result>>
vars == <<hvars, dvars>>

Unused == [calls |-> 0, tokens |-> 0, tools |-> 0, fixes |-> 0]

Init ==
    /\ budget \in Budgets /\ estimates \in BOOLEAN /\ transport \in {"handle", "blocking"}
    /\ HandleInit
    /\ cancelled = FALSE /\ expired = FALSE
    /\ pc = "preflight" /\ phase = "A"
    /\ used = Unused /\ grant = budget /\ told = 0
    /\ offered = {} /\ effects = 0
    /\ result = [code |-> "none", dispatched |-> FALSE]

Go(l) == pc' = l /\ UNCHANGED <<phase, result>>

(* DeliberationLifecycleError, or whatever else leaves the composition.       *)
Fail(c, dispatched) ==
    /\ pc' = "ended" /\ result' = [code |-> c, dispatched |-> dispatched]
    /\ UNCHANGED phase

(* The Tool loop returned.  Its usage is added to that of phase A and must    *)
(* fit the caller's budget.                                                   *)
Return(c, u) ==
    Fail(IF told + u.tokens > budget.tokens \/ 1 + u.calls > budget.calls
           THEN "RuntimeError" ELSE c, TRUE)

Stop(c, dispatched) == IF phase = "A" THEN Fail(c, dispatched) ELSE Return(c, used)

Over(u) == estimates /\ TokenBound > grant.tokens - u.tokens

-----------------------------------------------------------------------------
Cancel ==
    /\ ~cancelled /\ pc # "ended"
    /\ cancelled' = TRUE
    /\ UNCHANGED <<hvars, budget, estimates, expired, pc, phase, used, grant, told, offered,
                   effects, result>>

Expire ==
    /\ ~expired /\ pc # "ended"
    /\ expired' = TRUE
    /\ UNCHANGED <<hvars, budget, estimates, cancelled, pc, phase, used, grant, told, offered,
                   effects, result>>

Keep == UNCHANGED <<budget, estimates, cancelled, expired>>

Preflight ==
    /\ pc = "preflight"
    /\ IF cancelled /\ budget.calls >= 2 THEN Fail("CANCELLED", FALSE)
       ELSE IF budget.calls < 2 \/ expired \/ Over(used) THEN Fail("BUDGET_EXHAUSTED", FALSE)
       ELSE Go("admitted")
    /\ Keep /\ UNCHANGED <<hvars, used, grant, told, offered, effects>>

(* _invoke_lifecycle_bound looks at the token before it turns to the adapter. *)
Admit ==
    /\ pc = "admitted"
    /\ IF cancelled THEN Fail("CANCELLED", FALSE) ELSE Go("dispatch")
    /\ Keep /\ UNCHANGED <<hvars, used, grant, told, offered, effects>>

(* start_invoke, or invoke_with_control of a blocking transport: a request to *)
(* stop that is seen here is safe, nothing was sent.                          *)
Dispatch ==
    /\ pc = "dispatch"
    /\ IF cancelled \/ expired
         THEN Stop("PROVIDER_TIMEOUT", FALSE) /\ UNCHANGED call
         ELSE Go("polling") /\ call' = NewCall
    /\ Keep /\ UNCHANGED <<transport, meter, used, grant, told, offered, effects>>

-----------------------------------------------------------------------------
(* The poll loop of a handle looks at the token and the deadline first.       *)
Interrupt ==
    /\ pc = "polling" /\ transport = "handle"
    /\ cancelled \/ expired
    /\ RaiseFlag
    /\ Go(IF cancelled THEN "cancelling" ELSE "overdue")
    /\ Keep /\ UNCHANGED <<transport, meter, used, grant, told, offered, effects>>

Wake ==
    /\ pc \in {"cancelling", "overdue"}
    /\ WakeTask
    /\ Go(IF pc = "cancelling" THEN "drain cancelled" ELSE "drain overdue")
    /\ Keep /\ UNCHANGED <<transport, meter, used, grant, told, offered, effects>>

(* Mutant: nothing seen on the wire so far is taken for nothing sent.       *)
DrainedByWire ==
    /\ pc \in {"drain cancelled", "drain overdue"}
    /\ Stop("CANCEL_UNKNOWN", call.wire # "unsent")
    /\ Keep /\ UNCHANGED <<hvars, used, grant, told, offered, effects>>

(* Half a second for the handle, whose answer is discarded.  Phase B asks the *)
(* token again for the reason.                                                *)
Drained ==
    /\ pc \in {"drain cancelled", "drain overdue"}
    /\ LET byCancel == IF phase = "A" THEN pc = "drain cancelled" ELSE cancelled
       IN  Stop(IF byCancel THEN "CANCEL_UNKNOWN" ELSE "PROVIDER_STATE_UNKNOWN", TRUE)
    /\ Keep /\ UNCHANGED <<hvars, used, grant, told, offered, effects>>

(* AgentTurnAdapterError of a call that is over.                              *)
CallFailed ==
    /\ pc = "polling" /\ Done /\ ~Answered
    /\ Stop(IF call.error.safety = "ambiguous" THEN "PROVIDER_STATE_UNKNOWN"
            ELSE call.error.code, TRUE)
    /\ Keep /\ UNCHANGED <<hvars, used, grant, told, offered, effects>>

Turn == Parse(call.answer, Offer(offered, {}))

Unreadable ==
    /\ pc = "polling" /\ Answered /\ Turn.kind # "turn"
    /\ CASE Turn.kind = "unavailable" -> Stop("UNAVAILABLE", TRUE)
         [] OTHER -> Stop(IF phase = "A" THEN "ValueError" ELSE "INVALID_MODEL_OUTPUT", TRUE)
    /\ Keep /\ UNCHANGED <<hvars, used, grant, told, offered, effects>>

-----------------------------------------------------------------------------
(* Phase A: the usage must be accountable, and the record is made of a        *)
(* completed conclusion only.                                                 *)
Deliberated ==
    /\ pc = "polling" /\ phase = "A" /\ Answered /\ Turn.kind = "turn"
    /\ LET a == call.answer
       IN  IF ~a.reported THEN Fail("HARNESS_FAILED", TRUE) /\ UNCHANGED told
           ELSE IF a.cost > budget.tokens THEN Fail("BUDGET_EXHAUSTED", TRUE) /\ UNCHANGED told
           ELSE IF Turn.action # Conclusion \/ ~a.complete
                  THEN Fail("ValueError", TRUE) /\ UNCHANGED told
           ELSE Go("between") /\ told' = a.cost
    /\ Keep /\ UNCHANGED <<hvars, used, grant, offered, effects>>

(* Mutant: the Tool loop gets the caller's tokens once more.                *)
RemainderTwice == [budget EXCEPT !.calls = @ - 1]

(* The exact remainder of the budget goes to the Tool loop.                   *)
Remainder == [budget EXCEPT !.calls = @ - 1, !.tokens = @ - told]

ExposeTools ==
    /\ pc = "between"
    /\ IF cancelled THEN Fail("CANCELLED", TRUE) /\ UNCHANGED grant
       ELSE IF expired \/ Remainder.calls < 1 \/ Remainder.tokens < 1
              THEN Fail("BUDGET_EXHAUSTED", TRUE) /\ UNCHANGED grant
       ELSE pc' = "loop" /\ phase' = "B" /\ grant' = Remainder /\ UNCHANGED result
    /\ Keep /\ UNCHANGED <<hvars, used, told, offered, effects>>

(* The head of the loop.                                                      *)
LoopHead ==
    /\ pc = "loop"
    /\ IF cancelled THEN Return("CANCELLED", used) /\ UNCHANGED offered
       ELSE IF used.calls >= grant.calls \/ used.tokens >= grant.tokens \/ expired \/ Over(used)
              THEN Return("BUDGET_EXHAUSTED", used) /\ UNCHANGED offered
       ELSE /\ Go("dispatch")
            /\ offered' = IF used.tools < grant.tools THEN Tools ELSE {}
    /\ Keep /\ UNCHANGED <<hvars, used, grant, told, effects>>

(* An answer is counted unless the Run stopped meanwhile; tokens only when    *)
(* they are reported.                                                         *)
Counted ==
    [used EXCEPT !.calls = @ + 1,
                 !.tokens = @ + IF call.answer.reported THEN call.answer.cost ELSE 0]

AnswerTooLate ==
    /\ pc = "polling" /\ phase = "B" /\ Answered /\ Turn.kind = "turn"
    /\ cancelled \/ expired
    /\ Return(IF cancelled THEN "CANCELLED" ELSE "BUDGET_EXHAUSTED", used)
    /\ Keep /\ UNCHANGED <<hvars, used, grant, told, offered, effects>>

Named(calls) == Cardinality({k \in DOMAIN calls : calls[k].call.name \in Tools})

(* One turn of the loop: concluded, answered with errors, or executed.        *)
TakeTurn ==
    /\ pc = "polling" /\ phase = "B" /\ Answered /\ Turn.kind = "turn"
    /\ ~cancelled /\ ~expired
    /\ LET c == Counted
           t == Turn.calls
           after == [c EXCEPT !.tools = @ + Named(t)]
           valid == \A k \in DOMAIN t : t[k].valid
       IN  IF c.tokens > grant.tokens
             THEN Return("BUDGET_EXHAUSTED", c) /\ used' = c /\ UNCHANGED effects
           ELSE IF Turn.action = Conclusion
             THEN Return("CANDIDATE_COMPLETED", c) /\ used' = c /\ UNCHANGED effects
           ELSE IF after.tools > grant.tools
             THEN Return("BUDGET_EXHAUSTED", c) /\ used' = c /\ UNCHANGED effects
           ELSE IF valid
             THEN Go("loop") /\ used' = after /\ effects' = effects + Len(t)
           ELSE IF c.fixes + Len(t) > grant.fixes
             THEN Return("INVALID_TOOL_CALL", c) /\ used' = c /\ UNCHANGED effects
           ELSE Go("loop") /\ used' = [after EXCEPT !.fixes = @ + Len(t)] /\ UNCHANGED effects
    /\ Keep /\ UNCHANGED <<hvars, grant, told, offered>>

-----------------------------------------------------------------------------
Process ==
    \/ Preflight \/ Admit \/ Dispatch \/ Interrupt \/ Wake \/ Drained \/ CallFailed
    \/ Unreadable \/ Deliberated \/ ExposeTools \/ LoopHead \/ AnswerTooLate \/ TakeTurn

Wire == (Thread \/ Provider) /\ UNCHANGED dvars

Next == Cancel \/ Expire \/ Process \/ Wire

Spec == Init /\ [][Next]_vars

(* The process and the thread are scheduled and time passes; the Provider and *)
(* the network owe nothing.                                                   *)
FairSpec ==
    /\ Spec
    /\ WF_vars(Process) /\ WF_vars(Expire)
    /\ WF_vars(ThreadRuns /\ UNCHANGED dvars)

-----------------------------------------------------------------------------
(* A turn is one choice: _parse_response never lets the loop act on a part of *)
(* an answer - a Tool call beside an unreadable one or beside a conclusion, a *)
(* control beside anything - whichever controls the loop offers as well.      *)
OneChoicePerTurn ==
    Answered => \A controls \in SUBSET Control : OneChoice(call.answer, Offer(offered, controls))

(* A composition that ends with "not dispatched" never had a request on the   *)
(* wire, and none follows: its caller may start it again.  The reason is      *)
(* found at four places, two of them beside a thread.                         *)
SafeMeansUnsent ==
    pc = "ended" /\ ~result.dispatched => meter.sent = 0

(* With an adapter that bounds its requests, what the Provider spent on both  *)
(* phases fits the caller's budget, whatever was cancelled, discarded or lost *)
(* - except for answers that do not report their usage.  Model calls fit it   *)
(* in any case.                                                               *)
SpendingWithinAggregate ==
    /\ meter.sent <= budget.calls
    /\ estimates => meter.tokens - meter.hidden <= budget.tokens

(* A handle that is cancelled ends its thread, though the Provider never      *)
(* answers, wherever the cancel overtakes the thread.                         *)
CancelLands == (call.cancelled /\ Open) ~> Done

=============================================================================
