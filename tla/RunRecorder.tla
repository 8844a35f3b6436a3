----------------------------- MODULE RunRecorder -----------------------------
(***************************************************************************)
(* IndependentRunRecorder (independent_result.py): what processes that     *)
(* executed or examine one Run leave in its Journal.  An execution returns *)
(* a Trace; the recorder retains it as a segment, and, unless the Run only *)
(* paused, ends the Run with a receipt over all retained segments.  Other  *)
(* processes record recovery assessments.  Every record is computed from   *)
(* Events read before the lease it is appended under.                      *)
(***************************************************************************)
EXTENDS Integers, Sequences, FiniteSets

CONSTANTS
    Workers,   \* processes
    Traces,    \* the Traces an execution may return, by digest
    Pauses,    \* those that end in NEEDS_INPUT or NO_PROGRESS
    Notes,     \* the contents and times of recovery assessments
    MaxEvents, \* the length of history at which other work stops
    None

ASSUME RecorderAssumption ==
    /\ Pauses \subseteq Traces
    /\ None \notin Traces \union Notes
    /\ MaxEvents \in Nat

VARIABLES
    log,     \* the Events of the Run, whose count is its revision
    lease,   \* the worker whose lease row the Run has, or None
    me       \* [Workers -> what the process does and remembers]

rvars == <<log, lease, me>>

(* `of` is the Trace of a segment, that of the result a receipt is about, or
   the note of an assessment; `number` a segmentIndex or a sequence; `covers`
   the segments combined, in the order of the history, in the Trace of a
   receipt; `cause` the position of the Event it names as its cause.       *)
Kinds == {"work", "trace", "recovery", "terminal"}
Event == [kind: Kinds, of: Traces \union Notes \union {None}, number: Nat,
          covers: SUBSET Traces, cause: Nat]

Stages == {"running", "returned", "segment", "segmenting", "retained", "combine",
           "result", "finishing", "done", "assess", "assessing", "refused"}
Process == [at: Stages, of: Traces \union Notes \union {None}, seen: Nat, rev: Nat,
            covers: SUBSET Traces, told: Event \union {None}]

Count(kind, n) == Cardinality({i \in 1 .. n : log[i].kind = kind})

Segments(n) == {log[i].of : i \in {j \in 1 .. n : log[j].kind = "trace"}}

Retained(trace) == \E i \in DOMAIN log : log[i].kind = "trace" /\ log[i].of = trace
Final == log[Len(log)]
Ended == log # <<>> /\ Final.kind = "terminal"

Fresh == [at |-> "running", of |-> None, seen |-> 0, rev |-> 0, covers |-> {}, told |-> None]

Init ==
    /\ log = <<>>
    /\ lease = None
    /\ me = [w \in Workers |-> Fresh]

-----------------------------------------------------------------------------
(* Any other Event of the Run, admitted under a lease of its own, also when
   the row of another worker is late.                                      *)
Work(w) ==
    /\ me[w].at = "running" /\ ~Ended /\ Len(log) < MaxEvents
    /\ log' = Append(log, [kind |-> "work", of |-> None, number |-> 0, covers |-> {},
                           cause |-> Len(log)])
    /\ lease' = None
    /\ UNCHANGED me

(* run or resume is over.                                                  *)
Return(w, trace) ==
    /\ me[w].at = "running"
    /\ me' = [me EXCEPT ![w].at = "returned", ![w].of = trace]
    /\ UNCHANGED <<log, lease>>

(* record_result for the same result once more: its answer was lost, or it
   was refused.                                                            *)
Retry(w) ==
    /\ me[w].at \in {"done", "refused"} /\ me[w].of \in Traces
    /\ me' = [me EXCEPT ![w] = [Fresh EXCEPT !.at = "returned", !.of = me[w].of]]
    /\ UNCHANGED <<log, lease>>

(* The process resumes the Run it paused.                                  *)
Resume(w) ==
    /\ me[w].at = "done" /\ me[w].of \in Pauses /\ ~Ended
    /\ me' = [me EXCEPT ![w] = Fresh]
    /\ UNCHANGED <<log, lease>>

(* acquire_run_lease.  The row of another worker is taken over, late.      *)
Lease(w, from, to) ==
    /\ me[w].at = from /\ ~Ended
    /\ lease' = w
    /\ me' = [me EXCEPT ![w].at = to, ![w].rev = Len(log)]
    /\ UNCHANGED log

(* The identity of an Event is a digest; a segment's is that of its Trace, an
   assessment's covers its sequence, a receipt's what it combines.         *)
SameIdentity(e, f) ==
    /\ e.kind = f.kind /\ e.of = f.of /\ e.covers = f.covers
    /\ e.kind = "recovery" => e.number = f.number

(* Mutant: the identity of a segment covers its index.                     *)
SeenIndexed(e) ==
    \E i \in DOMAIN log : SameIdentity(log[i], e) /\ log[i].number = e.number

Seen(e) == \E i \in DOMAIN log : SameIdentity(log[i], e)

(* append_event under the lease, and the release of the lease.             *)
Admit(w, e) ==
    /\ ~Seen(e) /\ ~Ended
    /\ lease = w /\ me[w].rev = Len(log)
    /\ log' = Append(log, e)
    /\ lease' = None

Existing(w, e) ==
    /\ me[w].rev < Len(log) /\ log[me[w].rev + 1] = e
    /\ lease' = IF lease = w THEN None ELSE lease
    /\ UNCHANGED log

(* Another live lease, an ended Run, a lost lease, an older time, another
   Event under the identity: the recording raises.                         *)
Refuse(w) ==
    /\ me[w].at \in {"segment", "segmenting", "result", "finishing", "assess", "assessing"}
    /\ lease' = IF lease = w THEN None ELSE lease
    /\ me' = [me EXCEPT ![w] = [Fresh EXCEPT !.at = "refused", !.of = me[w].of]]
    /\ UNCHANGED log

-----------------------------------------------------------------------------
(* record_trace_segment.                                                   *)
ReadSegments(w) ==
    /\ me[w].at = "returned"
    /\ me' = [me EXCEPT ![w].at = IF Retained(me[w].of) THEN "retained" ELSE "segment",
                        ![w].seen = Len(log)]
    /\ UNCHANGED <<log, lease>>

Segment(w) ==
    [kind |-> "trace", of |-> me[w].of, covers |-> {}, cause |-> me[w].seen,
     number |-> Count("trace", me[w].seen) + 1]

RecordSegment(w) ==
    /\ me[w].at = "segmenting"
    /\ Admit(w, Segment(w)) \/ Existing(w, Segment(w))
    /\ me' = [me EXCEPT ![w].at = "retained"]

(* Mutant: any ended Run answers with its receipt.                         *)
ReplayAgreesAlways(w) == Ended

(* The receipt of this result over the Trace of the retained one.          *)
ReplayAgrees(w) == Ended /\ Final.of = me[w].of

(* The rest of record_result: a pause has no receipt, an ended Run answers
   with the one it has or refuses another.                                 *)
ReadStatus(w) ==
    /\ me[w].at = "retained"
    /\ IF me[w].of \in Pauses THEN me' = [me EXCEPT ![w].at = "done"]
       ELSE IF ~Ended THEN me' = [me EXCEPT ![w].at = "combine"]
       ELSE IF ReplayAgrees(w) THEN me' = [me EXCEPT ![w].at = "done", ![w].told = Final]
       ELSE me' = [me EXCEPT ![w].at = "refused"]
    /\ UNCHANGED <<log, lease>>

(* Mutant: the Events read for the segment are combined.                   *)
CombineEarlier(w) ==
    /\ me[w].at = "combine"
    /\ me' = [me EXCEPT ![w].at = "result", ![w].covers = Segments(me[w].seen)]
    /\ UNCHANGED <<log, lease>>

Combine(w) ==
    /\ me[w].at = "combine"
    /\ me' = [me EXCEPT ![w].at = "result", ![w].covers = Segments(Len(log))]
    /\ UNCHANGED <<log, lease>>

Receipt(w) ==
    [kind |-> "terminal", of |-> me[w].of, number |-> 0, covers |-> me[w].covers,
     cause |-> me[w].rev]

RecordTerminal(w) ==
    /\ me[w].at = "finishing"
    /\ Admit(w, Receipt(w)) \/ Existing(w, Receipt(w))
    /\ me' = [me EXCEPT ![w].at = "done", ![w].told = Receipt(w)]

-----------------------------------------------------------------------------
(* record_recovery_assessment.                                             *)
ReadAssessments(w, note) ==
    /\ me[w].at = "running" /\ Len(log) < MaxEvents
    /\ me' = [me EXCEPT ![w].at = "assess", ![w].of = note, ![w].seen = Len(log)]
    /\ UNCHANGED <<log, lease>>

Assessment(w) ==
    [kind |-> "recovery", of |-> me[w].of, covers |-> {}, cause |-> me[w].seen,
     number |-> Count("recovery", me[w].seen) + 1]

RecordAssessment(w) ==
    /\ me[w].at = "assessing"
    /\ Admit(w, Assessment(w)) \/ Existing(w, Assessment(w))
    /\ me' = [me EXCEPT ![w] = Fresh]

Record(w) ==
    \/ ReadSegments(w) \/ RecordSegment(w) \/ ReadStatus(w) \/ Combine(w) \/ RecordTerminal(w)
    \/ RecordAssessment(w)
    \/ Lease(w, "segment", "segmenting") \/ Lease(w, "result", "finishing")
    \/ Lease(w, "assess", "assessing")
    \/ Refuse(w)

Next ==
    \E w \in Workers :
        \/ Work(w) \/ Retry(w) \/ Resume(w) \/ Record(w)
        \/ \E trace \in Traces : Return(w, trace)
        \/ \E note \in Notes : ReadAssessments(w, note)

Spec == Init /\ [][Next]_rvars

-----------------------------------------------------------------------------
TypeOK ==
    /\ log \in Seq(Event)
    /\ lease \in Workers \union {None}
    /\ me \in [Workers -> Process]

(* A Trace is retained once, whoever returns it how often, and a segment or
   an assessment never carries a number beyond its place: numbers may
   repeat, when two processes computed them from the same Events, but none
   claims predecessors that were never recorded.                           *)
RecordsCountPredecessors ==
    /\ \A i, j \in DOMAIN log :
          log[i].kind = "trace" /\ log[j].kind = "trace" /\ log[i].of = log[j].of => i = j
    /\ \A i \in DOMAIN log : log[i].kind \in {"trace", "recovery"} =>
          log[i].number \in 1 .. Count(log[i].kind, i)

(* A receipt combines what the Run had retained at one moment, and the
   execution it is about is part of it, although it was computed before
   the lease was held and others recorded in between.                      *)
ReceiptCoversItsRun ==
    Ended => /\ \E n \in DOMAIN log : Final.covers = Segments(n)
             /\ Final.of \in Final.covers \ Pauses

(* record_result answers with the receipt the Run ended with, about this
   very result, or, for a pause, with nothing, its Trace being retained.   *)
AnswersHold ==
    \A w \in Workers : me[w].at = "done" =>
        /\ Retained(me[w].of)
        /\ IF me[w].of \in Pauses THEN me[w].told = None
           ELSE Ended /\ me[w].told = Final /\ me[w].told.of = me[w].of
=============================================================================
