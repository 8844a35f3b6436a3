---------------------------- MODULE ProviderCall ----------------------------
(***************************************************************************)
(* The durable Provider Call lifecycle: several process instances drive    *)
(* the turns of one Run without Tools (loop.py, sqlite_agent_bridge.py)    *)
(* over the Provider records of its Journal (sqlite_run_store.py).         *)
(*                                                                         *)
(* One action is one step of a worker between two reads or writes of the   *)
(* Journal.  Each writing method of the store takes the Run lease, reads   *)
(* the head record, and admits one Event under that lease; a lease row     *)
(* pins the head (LeasesPinHeads, proved of HarnessJournal), so read and   *)
(* write are one step, and losing the lease, or not getting it, is Refuse. *)
(* A crash is a worker that takes no further step: its memory is lost, its *)
(* records stay, and a fresh worker starts from them.  Clocks are free, so *)
(* a claim of another worker may be found expired at any time.             *)
(***************************************************************************)
EXTENDS Integers, Sequences, FiniteSets

CONSTANTS
    Workers,      \* process instances, each its own claim holder
    MaxTurns,     \* budget.max_model_calls
    MaxRetries,   \* budget.max_model_retries
    None

ASSUME BudgetAssumption == MaxTurns \in Nat \ {0} /\ MaxRetries \in Nat

VARIABLES
    head,    \* the current Provider Call record of the Run, or None
    source,  \* Run Snapshots recorded; 0 is the Assignment, the first source
    saved,   \* next turn and retries left in the current Snapshot's state
    ended,   \* a terminal Event is recorded
    me,      \* [Workers -> where the loop stands and what it remembers]
    calls    \* history: the physical invocations, in order

vars == <<head, source, saved, ended, me, calls>>

-----------------------------------------------------------------------------
(* What a physical call returns, as the loop classifies it: a result that
   asks for another turn, asks the caller, or concludes; or an error.       *)
Results == {"more", "ask", "done"}
Failures == {"safe", "rejected", "ambiguous"}
Answers == Results \union Failures

(* A call the holder closed before invoking fails as "stopped".             *)
Outcomes == Answers \union {"stopped"}

StatusOf(a) ==
    CASE a \in Results -> "completed"
      [] a = "ambiguous" -> "unknown"
      [] OTHER -> "failed"

Turns == 1 .. MaxTurns
Record == [source: Nat, turn: Turns, gen: Nat \ {0}, holder: Workers,
           status: {"claimed", "dispatching", "completed", "failed", "unknown"},
           left: 0 .. MaxRetries, outcome: Outcomes \union {None}]

(* None is no worker, no outcome and no record.                             *)
ASSUME NoneAssumption == None \notin Workers /\ None \notin Outcomes /\ None \notin Record

Places == {"new", "begin", "claimed", "admitted", "inside", "outcome",
           "retry", "pause", "stop", "gone"}

(* The claim a worker may make where it stands.                             *)
Claim(w, gen, left) ==
    [source |-> me[w].source, turn |-> me[w].turn, gen |-> gen, holder |-> w,
     status |-> "claimed", left |-> left, outcome |-> None]

Closed(h, a) == [h EXCEPT !.status = StatusOf(a), !.outcome = a]

(* Where the loop goes once its call is closed, live or replayed.  Only a
   safe failure with retries left is tried again.                           *)
Onward(m, h) ==
    [m EXCEPT !.kept = h,
              !.turn = IF h.outcome \in {"more", "ask"} THEN @ + 1 ELSE @,
              !.at = CASE h.outcome = "more" -> "begin"
                       [] h.outcome = "ask" -> "pause"
                       [] h.outcome = "safe" /\ m.left > 0 -> "retry"
                       [] OTHER -> "stop"]

Go(w, place) == me' = [me EXCEPT ![w].at = place]
GoWith(w, place, h) == me' = [me EXCEPT ![w].at = place, ![w].kept = h]
CallOf(h) == <<h.source, h.turn>>

Init ==
    /\ head = None
    /\ source = 0
    /\ saved = [turn |-> 1, left |-> MaxRetries]
    /\ ended = FALSE
    /\ me = [w \in Workers |-> [at |-> "new", source |-> 0, turn |-> 1,
                                left |-> MaxRetries, kept |-> None, answer |-> None]]
    /\ calls = <<>>

-----------------------------------------------------------------------------
(* StandaloneAgentRunner.run, or resume once there is a Snapshot: then the
   loop starts from the state of the current record, if it was not left
   dispatching (load_provider_replay_state), else from the Snapshot's.      *)
(* Mutant: a resumed loop counts its turns afresh.                          *)
BeginningAfresh == [turn |-> 1, left |-> saved.left]

Beginning ==
    IF source > 0 /\ head # None /\ head.status # "dispatching"
      THEN [turn |-> head.turn, left |-> head.left]
      ELSE saved

Start(w) ==
    /\ me[w].at = "new" /\ ~ended
    /\ me' = [me EXCEPT ![w].at = "begin", ![w].source = source,
                        ![w].turn = Beginning.turn, ![w].left = Beginning.left]
    /\ UNCHANGED <<head, source, saved, ended, calls>>

(* The loop ends by itself where it may: cancelled, out of time or turns.   *)
GiveUp(w) ==
    /\ me[w].at \in {"begin", "retry", "pause"}
    /\ Go(w, "stop")
    /\ UNCHANGED <<head, source, saved, ended, calls>>

(* claim_provider_call.  The same turn of the same source is the same call. *)
Claiming(w) ==
    /\ me[w].at = "begin" /\ me[w].turn <= MaxTurns
    /\ ~ended
    /\ me[w].source = source

Mine(w) == head # None /\ CallOf(head) = <<me[w].source, me[w].turn>>

ClaimFirst(w) ==
    /\ Claiming(w)
    /\ head = None
    /\ head' = Claim(w, 1, me[w].left)
    /\ GoWith(w, "claimed", head')
    /\ UNCHANGED <<source, saved, ended, calls>>

ClaimNext(w) ==
    /\ Claiming(w)
    /\ head # None /\ CallOf(head) = <<me[w].source, me[w].turn - 1>>
    /\ head.status = "completed"
    /\ head' = Claim(w, 1, me[w].left)
    /\ GoWith(w, "claimed", head')
    /\ UNCHANGED <<source, saved, ended, calls>>

(* The claim of another worker expired before it was dispatched; the state
   bound to it must be the claimant's own.                                  *)
(* Mutant: a dispatched claim that expired is taken over too.               *)
ClaimExpiredEvenOut(w) ==
    /\ Claiming(w)
    /\ Mine(w)
    /\ head.status \in {"claimed", "dispatching"} /\ head.holder # w
    /\ head.left = me[w].left
    /\ head' = Claim(w, head.gen + 1, me[w].left)
    /\ GoWith(w, "claimed", head')
    /\ UNCHANGED <<source, saved, ended, calls>>

ClaimExpired(w) ==
    /\ Claiming(w)
    /\ Mine(w)
    /\ head.status = "claimed" /\ head.holder # w
    /\ head.left = me[w].left
    /\ head' = Claim(w, head.gen + 1, me[w].left)
    /\ GoWith(w, "claimed", head')
    /\ UNCHANGED <<source, saved, ended, calls>>

(* The call is closed already: its outcome is replayed without a dispatch.  *)
ClaimReplay(w) ==
    /\ Claiming(w)
    /\ Mine(w)
    /\ head.status \in {"completed", "failed", "unknown"}
    /\ me' = [me EXCEPT ![w] = Onward(@, head)]
    /\ UNCHANGED <<head, source, saved, ended, calls>>

-----------------------------------------------------------------------------
(* mark_provider_call_dispatching, under the claim the worker kept.         *)
(* Mutant: the record is not compared with the one the worker kept.         *)
AdmitUnchecked(w) ==
    /\ me[w].at = "claimed" /\ ~ended
    /\ head # None /\ head.status = "claimed"
    /\ head' = [head EXCEPT !.status = "dispatching"]
    /\ GoWith(w, "admitted", head')
    /\ UNCHANGED <<source, saved, ended, calls>>

Admit(w) ==
    /\ me[w].at = "claimed" /\ ~ended
    /\ head # None /\ head = me[w].kept
    /\ head' = [head EXCEPT !.status = "dispatching"]
    /\ GoWith(w, "admitted", head')
    /\ UNCHANGED <<source, saved, ended, calls>>

(* A stop was requested before the claim was dispatched, or right after, but
   before the physical call: the record fails as safe, and the loop stops.  *)
CloseUninvoked(w) ==
    /\ me[w].at \in {"claimed", "admitted"} /\ ~ended
    /\ head # None /\ head = me[w].kept
    /\ head' = Closed(head, "stopped")
    /\ GoWith(w, "stop", head')
    /\ UNCHANGED <<source, saved, ended, calls>>

(* The physical call, and its return or exception.                          *)
Invoke(w) ==
    /\ me[w].at = "admitted"
    /\ calls' = Append(calls, [source |-> me[w].source, turn |-> me[w].turn,
                               gen |-> me[w].kept.gen, by |-> w, answer |-> None])
    /\ Go(w, "inside")
    /\ UNCHANGED <<head, source, saved, ended>>

Open(w, i) == calls[i].by = w /\ calls[i].answer = None

Return(w, a) ==
    /\ me[w].at = "inside"
    /\ calls' = [i \in DOMAIN calls |->
                   IF Open(w, i) THEN [calls[i] EXCEPT !.answer = a] ELSE calls[i]]
    /\ me' = [me EXCEPT ![w].at = "outcome", ![w].answer = a]
    /\ UNCHANGED <<head, source, saved, ended>>

(* complete_provider_call or fail_provider_call.                            *)
(* Mutant: an ambiguous failure is recorded as a safe one.                  *)
SettleOptimistic(w) ==
    /\ me[w].at = "outcome" /\ ~ended
    /\ head # None /\ head = me[w].kept
    /\ head' = Closed(head, IF me[w].answer = "ambiguous" THEN "safe" ELSE me[w].answer)
    /\ me' = [me EXCEPT ![w] = Onward(@, head')]
    /\ UNCHANGED <<source, saved, ended, calls>>

Settle(w) ==
    /\ me[w].at = "outcome" /\ ~ended
    /\ head # None /\ head = me[w].kept
    /\ head' = Closed(head, me[w].answer)
    /\ me' = [me EXCEPT ![w] = Onward(@, head')]
    /\ UNCHANGED <<source, saved, ended, calls>>

(* retry_failed_provider_call: a new generation of the same call, paid for
   with exactly one retry.                                                  *)

Retry(w) ==
    /\ me[w].at = "retry" /\ ~ended
    /\ head # None /\ head = me[w].kept /\ head.outcome = "safe"
    /\ me[w].left = head.left
    /\ head' = Claim(w, head.gen + 1, me[w].left - 1)
    /\ me' = [me EXCEPT ![w].at = "claimed", ![w].left = @ - 1, ![w].kept = head']
    /\ UNCHANGED <<source, saved, ended, calls>>

-----------------------------------------------------------------------------
(* record_pause: a Snapshot becomes the next source and clears the head,
   whatever record is current; the process ends with the Run paused.        *)
Pause(w) ==
    /\ me[w].at = "pause" /\ ~ended
    /\ source' = source + 1
    /\ saved' = [turn |-> me[w].turn, left |-> me[w].left]
    /\ head' = None
    /\ Go(w, "gone")
    /\ UNCHANGED <<ended, calls>>

(* record_result with a terminal stop code, whatever record is current.     *)
Stop(w) ==
    /\ me[w].at = "stop" /\ ~ended
    /\ ended' = TRUE
    /\ head' = None
    /\ Go(w, "gone")
    /\ UNCHANGED <<source, saved, calls>>

(* The Journal refused: the Run lease is held or was lost, the Run ended, or
   the record is not the one the step needs.  A refused admission or pause
   makes the loop stop with HARNESS_FAILED; any other refusal leaves it as
   an exception, and nothing is recorded.                                   *)
(* Mutant: the wait for the outcome lease has no deadline.                  *)
AfterRefusalPatient(place) ==
    CASE place \in {"claimed", "admitted", "pause"} -> "stop"
      [] place = "outcome" -> "outcome"
      [] OTHER -> "gone"

AfterRefusal(place) ==
    IF place \in {"claimed", "admitted", "pause"} THEN "stop" ELSE "gone"

Refuse(w) ==
    /\ me[w].at \in {"begin", "claimed", "admitted", "outcome", "retry", "pause", "stop"}
    /\ Go(w, AfterRefusal(me[w].at))
    /\ UNCHANGED <<head, source, saved, ended, calls>>

Step(w) ==
    \/ GiveUp(w)
    \/ ClaimFirst(w) \/ ClaimNext(w) \/ ClaimExpired(w) \/ ClaimReplay(w)
    \/ Admit(w) \/ CloseUninvoked(w)
    \/ Invoke(w)
    \/ \E a \in Answers : Return(w, a)
    \/ Settle(w) \/ Retry(w)
    \/ Pause(w) \/ Stop(w)
    \/ Refuse(w)

Next == \E w \in Workers : Start(w) \/ Step(w)

Spec == Init /\ [][Next]_vars

(* The workers that do not crash: each goes on while it can.                *)
FairSpec == Spec /\ \A w \in Workers : WF_vars(Step(w))

-----------------------------------------------------------------------------
TypeOK ==
    /\ head \in Record \union {None}
    /\ source \in Nat
    /\ saved \in [turn: 1 .. MaxTurns + 1, left: 0 .. MaxRetries]
    /\ ended \in BOOLEAN
    /\ me \in [Workers -> [at: Places, source: Nat, turn: 1 .. MaxTurns + 1,
                           left: 0 .. MaxRetries, kept: Record \union {None},
                           answer: Answers \union {None}]]
    /\ calls \in Seq([source: Nat, turn: Turns, gen: Nat \ {0}, by: Workers,
                      answer: Answers \union {None}])

(* Uncertain effects are not blindly redispatched: a call is made physically
   again only after the one before was answered with a proof that it was
   never delivered, whoever made it and whoever crashed in between.         *)
NoBlindRedispatch ==
    \A i, j \in DOMAIN calls :
        i < j /\ CallOf(calls[i]) = CallOf(calls[j]) => calls[i].answer = "safe"

(* From admission until its outcome is settled a call is the current record
   of the Run, as its caller knows it, unless the Run was ended or moved to
   another Snapshot; so every newcomer sees that it may be out.             *)
JournalKnowsOpenCall ==
    \A w \in Workers :
        me[w].at \in {"admitted", "inside", "outcome"} =>
            \/ head # None /\ head = me[w].kept /\ head.status = "dispatching"
            \/ source > me[w].source
            \/ ended

(* A closed record, which other workers replay instead of calling, tells
   what the physical call of its generation answered, or that none was made. *)
RecordedOutcomeHappened ==
    head # None /\ head.outcome # None =>
        LET mine == {i \in DOMAIN calls : CallOf(calls[i]) = CallOf(head)
                                           /\ calls[i].gen = head.gen}
        IN IF head.outcome = "stopped" THEN mine = {}
           ELSE \E i \in mine : calls[i].answer = head.outcome

(* A turn is asked only on the answers before it, even by workers that
   replay them or resume: only the Assignment has a first turn, and any other
   follows the preceding turn, which said of the same source that it needs
   more, or of an earlier one that it asks the caller.                      *)
TurnsFollowAnswers ==
    \A i \in DOMAIN calls :
        \/ calls[i].turn = 1 /\ calls[i].source = 0
        \/ \E j \in 1 .. i - 1 :
              /\ calls[j].turn = calls[i].turn - 1
              /\ IF calls[j].source = calls[i].source
                   THEN calls[j].answer = "more"
                   ELSE calls[j].source < calls[i].source /\ calls[j].answer = "ask"

(* Every started worker that keeps running ends, settled or refused.        *)
WorkersFinish == \A w \in Workers : me[w].at # "new" ~> me[w].at = "gone"

=============================================================================
