----------------------------- MODULE TurnAnswer -----------------------------
(* What the DeepSeek adapter offers in one Provider request and what it makes *)
(* of the answer: pure operators over one raw answer                          *)
(*                                                                            *)
(*   [calls |-> <<[id, name, form], ...>>, finish |-> "tool_calls" | ...]     *)
(*                                                                            *)
(* where a raw call is "unreadable" when its arguments are no JSON object and *)
(* "unsound" when they are one that the named control cannot be built from.   *)
(* A name is a granted Tool, a control of the Harness, or anything else.      *)
EXTENDS Naturals, Sequences, FiniteSets

CONSTANT Tools              \* the domain's or Runtime's Tools

Conclusion == "conclusion"
Single == {"transition", "promotion", "program"}       \* one to a turn
Control == Single \cup {"history"}

(* _prepare_request raises before anything is sent: a catalogue that collides *)
(* with a control, or a program without a Tool call left to spend.            *)
Preparable(tools, controls, callsLeft) ==
    /\ tools \intersect (Control \cup {Conclusion}) = {}
    /\ "program" \in controls => callsLeft >= 1

Offer(tools, controls) == tools \cup controls \cup {Conclusion}

-----------------------------------------------------------------------------
RawCall == [id : Nat, name : STRING, form : {"sound", "unsound", "unreadable"}]

Readable(c) == c.form # "unreadable"

(* The calls of the answer that become its conclusion: the first sound one.   *)
Concludes(raw) ==
    LET sound == {i \in DOMAIN raw : raw[i].name = Conclusion /\ raw[i].form = "sound"}
    IN  {i \in sound : \A j \in sound : i <= j}

Singles(raw) == {i \in DOMAIN raw : raw[i].name \in Single /\ Readable(raw[i])}

(* Calls that make the whole answer malformed: a control that is not admitted *)
(* or cannot be built, or is taken twice, or an admitted one with arguments   *)
(* that cannot be read.                                                       *)
Spoils(raw, i, offer) ==
    /\ raw[i].name \in Control
    /\ IF Readable(raw[i])
         THEN \/ raw[i].name \notin offer \/ raw[i].form = "unsound"
              \/ /\ raw[i].name \in Single
                 /\ \E j \in 1 .. i - 1 : Readable(raw[j]) /\ raw[j].name = raw[i].name
         ELSE raw[i].name \in offer

(* Calls that are kept to be answered with an error.                          *)
InvalidCall(raw, i, offer) ==
    \/ ~Readable(raw[i])
    \/ raw[i].name = Conclusion /\ i \notin Concludes(raw)
    \/ raw[i].name \notin offer

RuntimeCalls(raw) == DOMAIN raw \ (Concludes(raw) \cup Singles(raw))

(* A control beside anything else, or the history beside anything else.       *)
Mixed(raw, offer) ==
    \/ /\ Singles(raw) # {}
       /\ RuntimeCalls(raw) \cup Concludes(raw) # {} \/ Cardinality(Singles(raw)) > 1
    \/ \E i \in RuntimeCalls(raw) :
          /\ raw[i].name = "history" /\ ~InvalidCall(raw, i, offer)
          /\ RuntimeCalls(raw) # {i} \/ Concludes(raw) # {}

InvalidCalls(raw, offer) == {i \in RuntimeCalls(raw) : InvalidCall(raw, i, offer)}

(* The numbers of a set, the smallest first.                                  *)
InOrder(S) == [k \in 1 .. Cardinality(S) |-> CHOOSE i \in S : Cardinality({j \in S : j < i}) = k - 1]

(* The calls the turn keeps: only the invalid ones when there is one.         *)
Kept(raw, offer) ==
    LET bad == InvalidCalls(raw, offer)
    IN  InOrder(IF bad # {} THEN bad ELSE RuntimeCalls(raw))

(* The action of the turn.  A conclusion beside Tool calls is not taken, and  *)
(* the calls are answered with an error as well.                              *)
Action(raw) ==
    IF Singles(raw) # {} THEN raw[CHOOSE i \in Singles(raw) : TRUE].name
    ELSE IF RuntimeCalls(raw) # {} THEN "calls" ELSE Conclusion

(* Mutant: the conclusion is dropped, the calls beside it are not. *)
TurnOfMixed(raw, offer) ==
    [ kind |-> "turn", action |-> Action(raw),
      calls |-> IF Action(raw) # "calls" THEN <<>>
                ELSE [k \in DOMAIN Kept(raw, offer) |->
                        [ call |-> raw[Kept(raw, offer)[k]],
                          valid |-> InvalidCalls(raw, offer) = {} ]] ]

TurnOf(raw, offer) ==
    [ kind |-> "turn", action |-> Action(raw),
      calls |-> IF Action(raw) # "calls" THEN <<>>
                ELSE [k \in DOMAIN Kept(raw, offer) |->
                        [ call |-> raw[Kept(raw, offer)[k]],
                          valid |-> InvalidCalls(raw, offer) = {} /\ Concludes(raw) = {} ]] ]

(* AgentTurnResult: call identities are unique.                               *)
UniqueCalls(calls) == \A j, k \in DOMAIN calls : calls[j].call.id = calls[k].call.id => j = k

Unavailable == [kind |-> "unavailable"]
Malformed   == [kind |-> "malformed"]

Parse(answer, offer) ==
    LET raw == answer.calls
    IN  CASE answer.finish = "exhausted" -> Unavailable
          [] answer.finish # "exhausted"
               /\ \/ raw = <<>> \/ (\E i \in DOMAIN raw : Spoils(raw, i, offer))
                  \/ Mixed(raw, offer) \/ answer.finish # "tool_calls"
                  \/ ~UniqueCalls(TurnOf(raw, offer).calls) -> Malformed
          [] OTHER -> TurnOf(raw, offer)

-----------------------------------------------------------------------------
(* What is executed, adopted or concluded from an answer is the whole answer, *)
(* offered and sound ...                                                      *)
Whole(answer, offer) ==
    LET t == Parse(answer, offer)
        raw == answer.calls
    IN  IF t.action # "calls"
          THEN raw = <<raw[1]>> /\ raw[1].name = t.action /\ raw[1].form = "sound" /\ t.action \in offer
          ELSE /\ Len(t.calls) = Len(raw)
               /\ \A k \in DOMAIN raw :
                     /\ t.calls[k].call = raw[k] /\ raw[k].name \in offer \ Single
                     /\ Readable(raw[k]) /\ t.calls[k].valid
                     /\ raw[k].name = "history" => Len(raw) = 1

(* ... or nothing of it is: every call that is kept gets an error back.       *)
OneChoice(answer, offer) ==
    LET t == Parse(answer, offer)
    IN  t.kind = "turn" =>
          \/ Whole(answer, offer)
          \/ t.action = "calls" /\ t.calls # <<>> /\ \A k \in DOMAIN t.calls : ~t.calls[k].valid

=============================================================================
