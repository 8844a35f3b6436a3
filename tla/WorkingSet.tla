----------------------------- MODULE WorkingSet -----------------------------
(***************************************************************************)
(* Working Set continuity: the Agent's durable selection of what the model *)
(* sees, revised while several process instances drive the Run.            *)
(*                                                                         *)
(* The module composes ProviderCall with the revisions of the selection    *)
(* (sqlite_run_store.py, working_view.py, standalone.py).  A turn is asked *)
(* on a view of the current committed revision; its answer may propose a   *)
(* successor attempt (a selection of exact sources, or a promotion of      *)
(* caller messages), which the worker has admitted as one batch of three   *)
(* Events.  Every revision clears the head Provider Call record.           *)
(*                                                                         *)
(* A digest is the identity of what it digests: each revision names its    *)
(* predecessor's digest, so a revision is known by its place in sets.      *)
(***************************************************************************)
EXTENDS ProviderCall

CONSTANTS
    Attempts,     \* names an Agent may give a cognition attempt
    SeedAttempt,  \* the attempt of the caller's cognition seed
    Slots,        \* places of a selection
    Documents,    \* sources the caller stored
    Said,         \* caller messages supplied when a paused Run is resumed
    MaxSets       \* bound: revisions a client of the store may reach

ASSUME SelectionAssumption ==
    /\ SeedAttempt \in Attempts
    /\ None \notin Attempts \union Documents
    /\ Said \in Nat /\ MaxSets \in Nat

VARIABLES
    sets,   \* the recorded revisions, in order; the last is current
    bound,  \* the revision the request of the head record was made on
    wish,   \* the proposal in the result of the head record, or None
    stage,  \* [Workers -> how far the worker is with seed or proposal]
    view,   \* [Workers -> the revision its turn is asked on, or 0]
    plan,   \* [Workers -> the proposal it has to get admitted, or None]
    asked   \* history: of each physical call its view, proposal and filing

selection == <<sets, bound, wish, stage, view, plan, asked>>
allVars == <<vars, selection>>

-----------------------------------------------------------------------------
(* A promoted source is derived from the pause and the messages chosen.     *)
CallerSource(k, which) == [pause |-> k, which |-> which]
CallerSources == [pause: Nat, which: SUBSET (1 .. Said)]

Pins == [Slots -> Documents \union CallerSources \union {None}]
NoPins == [s \in Slots |-> None]
Pinned(pins) == {pins[s] : s \in Slots} \ {None}

(* What an answer may propose: a selection among the sources stored, or a
   promotion of caller messages into a slot.                                *)
Transition(a, pins) == [kind |-> "select", next |-> a, pins |-> pins]
Promotion(a, s, which) == [kind |-> "promote", next |-> a, slot |-> s, which |-> which]

Promotions == {Promotion(a, s, I) : a \in Attempts, s \in Slots,
                                    I \in (SUBSET (1 .. Said)) \ {{}}}
Selections(sources) == {Transition(a, pins) : a \in Attempts,
                                              pins \in [Slots -> sources \union {None}]}

(* What an Event keeps of a proposal: the revision it was made on, the pause
   its caller messages follow, whether a Provider Call vouches for it.      *)
Proposal == [kind: {"select"}, next: Attempts, pins: Pins]
            \union [kind: {"promote"}, next: Attempts, slot: Slots, which: SUBSET (1 .. Said)]
Evidence == [what: Proposal, from: Nat, pause: Nat, called: BOOLEAN]

(* A digest tells what it is the digest of.                                 *)
ASSUME DigestsAssumption ==
    /\ None \notin Proposal \union Evidence
    /\ Documents \intersect CallerSources = {}

(* HarnessWorkingSetSpec, and the evidence its Event gives, if any.          *)
Revision(a, rev, prev, parent, pins) ==
    [attempt |-> a, rev |-> rev, prev |-> prev, parent |-> parent,
     pins |-> pins, committed |-> FALSE, by |-> None]

Seed == Revision(SeedAttempt, 1, 0, None, [s \in Slots |-> None])
Replan(i, a) == Revision(a, 1, i, sets[i].attempt, NoPins)
SelectPins(r, i, pins) == [r EXCEPT !.rev = @ + 1, !.prev = i, !.pins = pins]
Commit(r, i) == [r EXCEPT !.rev = @ + 1, !.prev = i, !.committed = TRUE]
SeedCommitted == Commit(Seed, 1)

Current == Len(sets)
IsCommitted(i) == i > 0 /\ sets[i].committed

(* _require_working_set_predecessor.                                        *)
Follows(i, r) ==
    \/ i = 0 /\ r.rev = 1 /\ r.prev = 0 /\ r.parent = None
    \/ /\ i > 0 /\ r.prev = i
       /\ \/ /\ r.attempt = sets[i].attempt /\ ~sets[i].committed
             /\ r.rev = sets[i].rev + 1 /\ r.parent = sets[i].parent
          \/ /\ r.attempt # sets[i].attempt /\ sets[i].committed
             /\ r.rev = 1 /\ r.parent = sets[i].attempt

(* A Provider Call that may still act on the view it was given.             *)
(* Mutant: only a claim and an unknown outcome are waited for.              *)
MayStillActIdle == head # None /\ head.status \in {"claimed", "unknown"}

MayStillAct == head # None /\ head.status \in {"claimed", "dispatching", "unknown"}

-----------------------------------------------------------------------------
(* The caller messages of the interaction that pause k began.               *)
Ingress(k) == IF k = 0 THEN {} ELSE 1 .. Said

Promoted(i) == sets[i].by # None /\ sets[i].by.what.kind = "promote"
PromotionsOf(k) == {i \in DOMAIN sets : Promoted(i) /\ sets[i].by.pause = k}
SourceOf(i) == CallerSource(sets[i].by.pause, sets[i].by.what.which)

(* _durable_caller_ingress_indexes: the committed promotions of that
   interaction whose source revision i still selects, and their messages.   *)
Backing(i, k) == {j \in PromotionsOf(k) : sets[j].committed
                                          /\ SourceOf(j) \in Pinned(sets[i].pins)}
Durable(i, k) == UNION {sets[j].by.what.which : j \in Backing(i, k)}
Promotable(i, k) == Ingress(k) \ Durable(i, k)

(* _validate_caller_ingress_promotion_attempt, of every promotion behind the
   view of revision i: it refuses an attempt promoted more than once.       *)
Readable(i, k) ==
    Ingress(k) # {} => \A j \in Backing(i, k) :
        Cardinality({n \in DOMAIN sets : Promoted(n) /\ sets[n].attempt = sets[j].attempt}) = 3

(* _working_set_history_for: the earlier committed revisions, whose exact
   pins the Agent may select again.                                         *)
HistoryOf(i) == {j \in 1 .. i - 1 : sets[j].committed}
Recallable(i) == UNION {Pinned(sets[j].pins) : j \in HistoryOf(i)}
Selectable(i) == Documents \union Pinned(sets[i].pins) \union Recallable(i)

-----------------------------------------------------------------------------
InitSelection ==
    /\ Init
    /\ sets = <<>>
    /\ bound = 0
    /\ wish = None
    /\ stage = [w \in Workers |-> "new"]
    /\ view = [w \in Workers |-> 0]
    /\ plan = [w \in Workers |-> None]
    /\ asked = <<>>

(* record_working_set: a revision that extends the current one, while no
   call may act on it.  It clears the head record.                          *)
Recording(r) ==
    /\ ~ended
    /\ ~MayStillAct
    /\ Follows(Current, r)
    /\ sets' = Append(sets, r)
    /\ head' = None
    /\ UNCHANGED <<source, saved, ended, calls, bound, wish, view, plan, asked>>

(* _ensure_cognition_ready: a first worker has a seed, which it records in
   two revisions unless another got there; a later one needs a committed
   revision; anything else leaves run or resume as an exception.            *)
Arrive(w) ==
    /\ me[w].at = "new" /\ stage[w] = "new" /\ ~ended
    /\ \/ Current = 0 /\ stage' = [stage EXCEPT ![w] = "initial"]
       \/ Current = 1 /\ sets[1] = Seed /\ stage' = [stage EXCEPT ![w] = "commit"]
       \/ IsCommitted(Current) /\ stage' = [stage EXCEPT ![w] = "ready"]
    /\ UNCHANGED <<vars, sets, bound, wish, view, plan, asked>>

RecordSeed(w) ==
    \/ /\ stage[w] = "initial"
       /\ \/ Recording(Seed)
          \/ Current = 1 /\ sets[1] = Seed
             /\ UNCHANGED <<head, source, saved, ended, calls, sets, bound, wish, view, plan, asked>>
       /\ stage' = [stage EXCEPT ![w] = "commit"]
       /\ UNCHANGED me
    \/ /\ stage[w] = "commit"
       /\ \/ Recording(SeedCommitted)
          \/ Current = 2 /\ sets[2] = SeedCommitted
             /\ UNCHANGED <<head, source, saved, ended, calls, sets, bound, wish, view, plan, asked>>
       /\ stage' = [stage EXCEPT ![w] = "ready"]
       /\ UNCHANGED me

RefuseSeed(w) ==
    /\ stage[w] \in {"initial", "commit"}
    /\ stage' = [stage EXCEPT ![w] = "refused"]
    /\ UNCHANGED <<vars, sets, bound, wish, view, plan, asked>>

(* Another client of the store records a revision of its own: replan, select
   and commit, each built on a revision it has read, which may be stale.    *)
Revise ==
    /\ Current < MaxSets
    /\ \E i \in DOMAIN sets :
          LET m == sets[i] IN
          \E r \in ({Replan(i, a) : a \in Attempts}
                    \union {SelectPins(m, i, pins) : pins \in [Slots -> Documents]}
                    \union {Commit(m, i)}) :
             Recording([r EXCEPT !.by = None])
    /\ UNCHANGED <<me, stage>>

-----------------------------------------------------------------------------
(* A turn begins by projecting the current committed revision; a revision
   that is not committed or not readable stops the loop.                    *)
Projecting(w) ==
    me[w].at = "begin" /\ stage[w] = "ready" /\ view[w] = 0 /\ plan[w] = None

Project(w) ==
    /\ Projecting(w)
    /\ IsCommitted(Current) /\ Readable(Current, me[w].source)
    /\ view' = [view EXCEPT ![w] = Current]
    /\ UNCHANGED <<vars, sets, bound, wish, stage, plan, asked>>

ProjectFails(w) ==
    /\ Projecting(w)
    /\ ~(IsCommitted(Current) /\ Readable(Current, me[w].source))
    /\ Go(w, "stop")
    /\ UNCHANGED <<head, source, saved, ended, calls, selection>>

(* claim_provider_call: the request must be the current view, and repeat the
   request of a record it finds.                                            *)

Bindable(w) == view[w] # 0 /\ view[w] = Current

NextTurn(w, p) ==
    /\ plan' = [plan EXCEPT ![w] = p]
    /\ view' = IF p = None THEN [view EXCEPT ![w] = 0] ELSE view

ClaimOnView(w) ==
    /\ Bindable(w) /\ plan[w] = None
    /\ \/ /\ ClaimFirst(w) \/ ClaimNext(w)
          /\ bound' = view[w] /\ wish' = None
          /\ UNCHANGED <<view, plan>>
       \/ /\ bound = view[w]
          /\ ClaimExpired(w)
          /\ UNCHANGED <<bound, wish, view, plan>>
       \/ /\ bound = view[w]
          /\ ClaimReplay(w)
          /\ IF head.outcome = "more" THEN NextTurn(w, wish) ELSE UNCHANGED <<view, plan>>
          /\ UNCHANGED <<bound, wish>>
    /\ UNCHANGED <<sets, stage, asked>>

InvokeOnView(w) ==
    /\ Invoke(w)
    /\ asked' = Append(asked, [view |-> view[w], plan |-> None, filed |-> FALSE])
    /\ UNCHANGED <<sets, bound, wish, stage, view, plan>>

(* Only an answer that asks for another turn carries a proposal.            *)
Wishes(w, a) ==
    IF a # "more" THEN {None}
    ELSE {None} \union Promotions \union Selections(Selectable(view[w]))

ReturnWish(w, a) ==
    /\ Return(w, a)
    /\ \E p \in Wishes(w, a) :
          /\ plan' = [plan EXCEPT ![w] = p]
          /\ asked' = [i \in DOMAIN asked |->
                         IF Open(w, i) THEN [asked[i] EXCEPT !.plan = p] ELSE asked[i]]
    /\ UNCHANGED <<sets, bound, wish, stage, view>>

SettleWish(w) ==
    /\ Settle(w)
    /\ wish' = plan[w]
    /\ IF head'.outcome = "more" THEN NextTurn(w, plan[w]) ELSE UNCHANGED <<view, plan>>
    /\ asked' = [i \in DOMAIN asked |->
                   IF calls[i].by = w /\ CallOf(calls[i]) = CallOf(head)
                     THEN [asked[i] EXCEPT !.filed = TRUE] ELSE asked[i]]
    /\ UNCHANGED <<sets, bound, stage>>

-----------------------------------------------------------------------------
(* CognitionAdmissionKernel._require_current_source.                        *)
Grant(w) ==
    /\ me[w].at = "begin" /\ plan[w] # None /\ stage[w] = "ready"
    /\ Current = view[w]
    /\ stage' = [stage EXCEPT ![w] = "granted"]
    /\ UNCHANGED <<vars, sets, bound, wish, view, plan, asked>>

(* existing_transition and existing_promotion: the current revision is the
   third of an attempt that this very proposal made.                        *)
AlreadyMade(p, v) ==
    LET made == {i \in DOMAIN sets : sets[i].attempt = p.next}
    IN /\ sets[Current].committed /\ Current \in made
       /\ Cardinality(made) = 3
       /\ \A i \in made : sets[i].by # None /\ sets[i].by.what = p
       /\ p.kind = "select" => \A i \in made : sets[i].by.from = v

(* What the retained record must say: the completed call of this very view
   answered this very proposal.                                             *)
Proven(p, v) ==
    head # None /\ head.status = "completed" /\ bound = v /\ wish = p

(* apply_working_set_transition admits a selection of stored sources; one
   that no record backs only on the base view.                              *)
SelectionLegal(w, p, v) ==
    /\ p.kind = "select"
    /\ Proven(p, v) \/ (head = None /\ Promotable(v, me[w].source) = {})

(* apply_caller_ingress_promotion admits messages that the request marked,
   into a slot that is free.                                                *)
PromotionLegal(w, p, v) ==
    /\ p.kind = "promote"
    /\ sets[v].pins[p.slot] = None
    /\ Proven(p, v)
    /\ p.which \subseteq Promotable(v, me[w].source)

Successor(p, pins, k) ==
    IF p.kind = "select" THEN p.pins
    ELSE [pins EXCEPT ![p.slot] = CallerSource(k, p.which)]

(* Replan, selection and commit are one batch.                              *)
Chain(p, v, k) ==
    LET proof == [what |-> p, from |-> v, pause |-> k, called |-> head # None]
        r == [Replan(Current, p.next) EXCEPT !.by = proof]
        s == SelectPins(r, Current + 1, Successor(p, sets[Current].pins, k))
    IN <<r, s, Commit(s, Current + 2)>>

(* Mutant: the source revision need not be current any more.                *)
AdmissibleStale(w, p, v) ==
    /\ ~ended
    /\ sets[Current].committed /\ p.next # sets[Current].attempt
    /\ SelectionLegal(w, p, v) \/ PromotionLegal(w, p, v)

Admissible(w, p, v) ==
    /\ ~ended
    /\ sets[Current].committed /\ p.next # sets[Current].attempt
    /\ v = Current
    /\ SelectionLegal(w, p, v) \/ PromotionLegal(w, p, v)

(* The worker goes on with its next turn, on a new view.                    *)
Resumed(w) ==
    /\ stage' = [stage EXCEPT ![w] = "ready"]
    /\ view' = [view EXCEPT ![w] = 0]
    /\ plan' = [plan EXCEPT ![w] = None]

ReplayProposal(w) ==
    /\ stage[w] = "granted" /\ me[w].at = "begin"
    /\ AlreadyMade(plan[w], view[w])
    /\ Resumed(w)
    /\ UNCHANGED <<vars, sets, bound, wish, asked>>

AdmitProposal(w) ==
    /\ stage[w] = "granted" /\ me[w].at = "begin"
    /\ ~AlreadyMade(plan[w], view[w])
    /\ Admissible(w, plan[w], view[w])
    /\ sets' = sets \o Chain(plan[w], view[w], me[w].source)
    /\ head' = None
    /\ Resumed(w)
    /\ UNCHANGED <<source, saved, ended, me, calls, bound, wish, asked>>

(* A proposal that is refused, or the lease with it, stops the loop.        *)
RejectProposal(w) ==
    /\ me[w].at = "begin" /\ plan[w] # None
    /\ Go(w, "stop")
    /\ stage' = [stage EXCEPT ![w] = "ready"]
    /\ plan' = [plan EXCEPT ![w] = None]
    /\ UNCHANGED <<head, source, saved, ended, calls, sets, bound, wish, view, asked>>

-----------------------------------------------------------------------------
(* The steps of the loop that leave the selection alone.                    *)
Undisturbed(w) ==
    /\ \/ GiveUp(w) /\ plan[w] = None
       \/ Admit(w) \/ CloseUninvoked(w) \/ Retry(w) \/ Pause(w) \/ Stop(w)
       \/ Refuse(w) /\ ~(me[w].at = "begin" /\ plan[w] # None)
    /\ UNCHANGED selection

SelectingStep(w) ==
    \/ RecordSeed(w) \/ RefuseSeed(w)
    \/ Project(w) \/ ProjectFails(w) \/ ClaimOnView(w)
    \/ InvokeOnView(w)
    \/ \E a \in Answers : ReturnWish(w, a)
    \/ SettleWish(w)
    \/ Grant(w) \/ ReplayProposal(w) \/ AdmitProposal(w) \/ RejectProposal(w)
    \/ Undisturbed(w)

StartReady(w) == stage[w] = "ready" /\ Start(w) /\ UNCHANGED selection

SelectingNext ==
    \/ \E w \in Workers : Arrive(w) \/ StartReady(w) \/ SelectingStep(w)
    \/ Revise

SelectionSpec == InitSelection /\ [][SelectingNext]_allVars

FairSelectionSpec == SelectionSpec /\ \A w \in Workers : WF_allVars(SelectingStep(w))

-----------------------------------------------------------------------------
(* Working Set cannot change while a Provider Call may still act on the
   prior view: from its admission until its outcome is settled a call stays
   the current record and its view the current revision, whoever else seeds,
   revises or has a proposal admitted, unless the Run ended or was paused.  *)
ViewHeldWhileCallOut ==
    \A w \in Workers :
        me[w].at \in {"admitted", "inside", "outcome"} /\ ~ended /\ source = me[w].source
            => head = me[w].kept /\ bound = Current /\ view[w] = Current

(* The continuity doctor's reading of the whole history
   (_validate_working_set_transition_evidence and its promotion twin): each
   revision that cites a proposal is its exact replan, selection or commit,
   and a completed call, asked on the predecessor it names, answered it.    *)
Answered(e) ==
    \E j \in DOMAIN asked :
        /\ asked[j].filed /\ calls[j].answer = "more"
        /\ asked[j].plan = e.what /\ asked[j].view = e.from
        /\ e.what.kind = "promote" =>
              calls[j].source = e.pause
              /\ e.what.which \subseteq Promotable(e.from, calls[j].source)

ExpectedPins(e) == Successor(e.what, sets[e.from].pins, e.pause)

EvidenceSound ==
    \A i \in DOMAIN sets :
        LET e == sets[i].by IN
        e # None =>
            /\ sets[i].attempt = e.what.next
            /\ sets[i].committed <=> sets[i].rev = 3
            /\ IF sets[i].rev = 1
                 THEN /\ e.from = i - 1 /\ IsCommitted(i - 1)
                      /\ sets[i].pins = NoPins
                      /\ e.called => Answered(e)
                 ELSE /\ sets[i - 1].by = e /\ sets[i].rev = sets[i - 1].rev + 1
                      /\ sets[i].pins = ExpectedPins(e)

(* No crash, retry or competing worker makes the same request twice: a turn
   is asked again on the same view only after its call was answered with a
   proof that it was never delivered.                                       *)
RequestMadeOnce ==
    \A i, j \in DOMAIN calls :
        i < j /\ CallOf(calls[i]) = CallOf(calls[j]) /\ asked[i].view = asked[j].view
            => calls[i].answer = "safe"

=============================================================================
