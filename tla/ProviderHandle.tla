--------------------------- MODULE ProviderHandle ---------------------------
(* One physical Provider call of the DeepSeek adapter.  With a "handle" a     *)
(* thread of its own runs an asyncio loop with the request as its task, and   *)
(* the Harness polls and may cancel; with a "blocking" transport the Harness  *)
(* itself waits in urlopen.  Time is an outcome: a socket timeout may fire    *)
(* whenever the call waits.                                                   *)
EXTENDS Naturals

CONSTANTS
    Answers,                    \* what the Provider may answer
    Refusals                    \* failure codes of its HTTP errors

VARIABLES
    transport,                  \* "handle" | "blocking"
    call,                       \* the last call
    meter                       \* what left and what the Provider spent

hvars == <<transport, call, meter>>

NoAnswer == [none |-> TRUE]

(* AgentTurnAdapterError; ambiguous unless the raise says otherwise.          *)
AdapterError(code, safety) == [code |-> code, safety |-> safety]
Ambiguous(code) == AdapterError(code, "ambiguous")
NoError == AdapterError("none", "none")

NewCall == [ stage |-> IF transport = "handle" THEN "starting" ELSE "connecting",
             cancelled |-> FALSE, woken |-> FALSE,
             wire |-> "unsent", answer |-> NoAnswer, error |-> NoError ]
Idle == [NewCall EXCEPT !.stage = "done"]

HandleInit ==
    /\ call = Idle
    /\ meter = [sent |-> 0, tokens |-> 0, hidden |-> 0]

Open == call.stage # "done"
Posting == call.stage \in {"connecting", "waiting"}

Failed(e) == call' = [call EXCEPT !.stage = "closing", !.error = e]

-----------------------------------------------------------------------------
(* _run: the loop and the task appear under the lock; a cancel that came      *)
(* before is noticed here.                                                    *)
CreateTask ==
    /\ call.stage = "starting"
    /\ IF call.cancelled
         THEN Failed(Ambiguous("FAILED"))
         ELSE call' = [call EXCEPT !.stage = "tasked"]
    /\ UNCHANGED <<transport, meter>>

(* _post: the first step of the task looks at the flag once more.             *)
BeginPost ==
    /\ call.stage = "tasked"
    /\ IF call.cancelled
         THEN Failed(Ambiguous("FAILED"))
         ELSE call' = [call EXCEPT !.stage = "connecting"]
    /\ UNCHANGED <<transport, meter>>

Send ==
    /\ call.stage = "connecting"
    /\ call' = [call EXCEPT !.stage = "waiting", !.wire = "sent"]
    /\ meter' = [meter EXCEPT !.sent = @ + 1]
    /\ UNCHANGED transport

(* httpx.RequestError, URLError: refused, reset, no route.                    *)
ConnectionLost ==
    /\ Posting
    /\ Failed(Ambiguous("TRANSPORT_FAILED"))
    /\ UNCHANGED <<transport, meter>>

(* httpx.TimeoutException, TimeoutError.                                      *)
SocketTimeout ==
    /\ Posting
    /\ Failed(Ambiguous("TIMEOUT"))
    /\ UNCHANGED <<transport, meter>>

(* The body is in; a cancel seen now discards it.                             *)
Receive ==
    /\ call.stage = "waiting" /\ call.wire \in {"served", "refused"}
    /\ IF call.cancelled THEN Failed(Ambiguous("FAILED"))
       ELSE IF call.wire = "refused" THEN \E c \in Refusals : Failed(AdapterError(c, "rejected"))
       ELSE call' = [call EXCEPT !.stage = "closing"]
    /\ UNCHANGED <<transport, meter>>

(* The answer is longer than max_response_bytes.                              *)
TooLong ==
    /\ call.stage = "waiting" /\ call.wire = "served" /\ ~call.cancelled
    /\ Failed(Ambiguous("FAILED"))
    /\ UNCHANGED <<transport, meter>>

(* task.cancel, queued by call_soon_threadsafe, reaches the task.             *)
CancelDelivered ==
    /\ call.woken /\ Posting
    /\ Failed(Ambiguous("FAILED"))
    /\ UNCHANGED <<transport, meter>>

(* The finally block: under the lock the task disappears, then _done is set.  *)
Close ==
    /\ call.stage = "closing"
    /\ call' = [call EXCEPT !.stage = "done"]
    /\ UNCHANGED <<transport, meter>>

Thread ==
    \/ CreateTask \/ BeginPost \/ Send \/ ConnectionLost \/ SocketTimeout
    \/ Receive \/ TooLong \/ CancelDelivered \/ Close

(* What the thread does whatever the network does: fair.                      *)
ThreadRuns == CreateTask \/ BeginPost \/ Receive \/ CancelDelivered \/ Close

-----------------------------------------------------------------------------
(* The Provider.  It works on a request whether or not anyone still waits.    *)
Serve(a) ==
    /\ call.wire = "sent"
    /\ call' = [call EXCEPT !.wire = "served", !.answer = a]
    /\ meter' = [meter EXCEPT !.tokens = @ + a.cost,
                              !.hidden = @ + IF a.reported THEN 0 ELSE a.cost]
    /\ UNCHANGED transport

RefuseRequest ==
    /\ call.wire = "sent"
    /\ call' = [call EXCEPT !.wire = "refused"]
    /\ UNCHANGED <<transport, meter>>

Provider == RefuseRequest \/ \E a \in Answers : Serve(a)

-----------------------------------------------------------------------------
(* cancel() of the handle: the flag first, then the task under the lock.      *)
RaiseFlag == call' = [call EXCEPT !.cancelled = TRUE]

(* Mutant: the flag is all there is.                            *)
WakeNobody == UNCHANGED call

WakeTask ==
    call' = [call EXCEPT !.woken = @ \/ call.stage \in {"tasked", "connecting", "waiting"}]

Done == call.stage = "done"
Answered == Done /\ call.error = NoError /\ call.wire = "served"

=============================================================================
