-------------------------- MODULE RunRecorderProofs --------------------------
(***************************************************************************)
(* Theorems about RunRecorder, for any number of processes, Traces and     *)
(* assessments and histories of any length.                                *)
(***************************************************************************)
EXTENDS RunRecorder, FiniteSetTheorems, TLAPS

(* A process that records a result knows its Trace; what it remembers of
   the history is of the past; segments carry Traces and nothing else.     *)
Recording == {"returned", "segment", "segmenting", "retained", "combine", "result",
              "finishing", "done"}
Sound(m) ==
    /\ m.at \in Recording => m.of \in Traces
    /\ m.at \in {"assess", "assessing"} => m.of \in Notes
    /\ m.seen <= Len(log) /\ m.rev <= Len(log)
Plain(e) == e.kind = "trace" => e.of \in Traces /\ e.covers = {}
Typed ==
    /\ TypeOK
    /\ \A w \in Workers : Sound(me[w])
    /\ \A i \in DOMAIN log : Plain(log[i])

(* The history is left alone, or goes on by one Event while it is open.    *)
GoesOn(e) == ~Ended /\ e \in Event /\ Plain(e) /\ log' = Append(log, e)

-----------------------------------------------------------------------------
(* Counting Events of a kind gives a number.                               *)
LEMMA CountType ==
    ASSUME NEW kind, NEW n \in Nat
    PROVE  /\ IsFiniteSet({i \in 1 .. n : log[i].kind = kind})
           /\ Count(kind, n) \in Nat
<1>1. IsFiniteSet(1 .. n)
  BY FS_Interval
<1>2. {i \in 1 .. n : log[i].kind = kind} \in SUBSET (1 .. n)
  OBVIOUS
<1>3. IsFiniteSet({i \in 1 .. n : log[i].kind = kind})
  BY <1>1, <1>2, FS_Subset
<1> QED BY <1>3, FS_CardinalityType DEF Count

(* Appending leaves what was there.                                        *)
LEMMA Appended ==
    ASSUME log \in Seq(Event), NEW e \in Event, log' = Append(log, e)
    PROVE  /\ log' \in Seq(Event)
           /\ Len(log') = Len(log) + 1 /\ log'[Len(log) + 1] = e
           /\ \A i \in DOMAIN log : log'[i] = log[i]
           /\ DOMAIN log = 1 .. Len(log) /\ DOMAIN log' = 1 .. Len(log) + 1
           /\ Final' = e /\ log' # <<>>
BY DEF Final

(* The Event each recording writes is well-formed.                         *)
LEMMA RecordsTyped ==
    ASSUME Typed, NEW w \in Workers
    PROVE  /\ me[w].of \in Traces => Segment(w) \in Event /\ Plain(Segment(w))
           /\ me[w].of \in Traces => Receipt(w) \in Event /\ Plain(Receipt(w))
           /\ me[w].of \in Notes => Assessment(w) \in Event /\ Plain(Assessment(w))
<1>1. me[w] \in Process
  BY DEF Typed, TypeOK
<1>2. Count("trace", me[w].seen) \in Nat /\ Count("recovery", me[w].seen) \in Nat
  BY <1>1, CountType DEF Process
<1> QED
  BY <1>1, <1>2 DEF Segment, Receipt, Assessment, Event, Process, Kinds, Plain

(* An admission goes on with the history, and lies in nobody's past.       *)
LEMMA AdmitGoesOn ==
    ASSUME Typed, NEW w \in Workers, NEW e \in Event, Plain(e), Admit(w, e) \/ Existing(w, e)
    PROVE  /\ log' = log \/ GoesOn(e)
           /\ lease' \in Workers \union {None}
BY DEF Admit, Existing, GoesOn, Typed, TypeOK

(* What a step may do to the history.                                      *)
LEMMA StepShape ==
    ASSUME Typed, [Next]_rvars
    PROVE  log' = log \/ \E e \in Event : GoesOn(e)
<1>1. CASE UNCHANGED rvars
  BY <1>1 DEF rvars
<1>2. CASE Next
  <2> PICK w \in Workers :
         \/ Work(w) \/ Retry(w) \/ Resume(w) \/ Record(w)
         \/ \E trace \in Traces : Return(w, trace)
         \/ \E note \in Notes : ReadAssessments(w, note)
    BY <1>2 DEF Next
  <2>1. CASE Work(w)
    <3> DEFINE e == [kind |-> "work", of |-> None, number |-> 0, covers |-> {},
                     cause |-> Len(log)]
    <3>1. e \in Event /\ Plain(e)
      BY DEF Event, Kinds, Plain, Typed, TypeOK
    <3> QED BY <2>1, <3>1 DEF Work, GoesOn
  <2>2. CASE RecordSegment(w)
    <3>1. me[w].of \in Traces
      BY <2>2 DEF RecordSegment, Typed, Sound, Recording
    <3> QED BY <2>2, <3>1, RecordsTyped, AdmitGoesOn DEF RecordSegment
  <2>3. CASE RecordTerminal(w)
    <3>1. me[w].of \in Traces
      BY <2>3 DEF RecordTerminal, Typed, Sound, Recording
    <3> QED BY <2>3, <3>1, RecordsTyped, AdmitGoesOn DEF RecordTerminal
  <2>4. CASE RecordAssessment(w)
    <3>1. me[w].of \in Notes
      BY <2>4 DEF RecordAssessment, Typed, Sound
    <3> QED BY <2>4, <3>1, RecordsTyped, AdmitGoesOn DEF RecordAssessment
  <2> QED
    BY <2>1, <2>2, <2>3, <2>4 DEF Record, Retry, Resume, Return, ReadAssessments,
       ReadSegments, ReadStatus, Combine, Lease, Refuse
<1> QED BY <1>1, <1>2

(* The history only grows, so that what a process remembers stays past.    *)
LEMMA PastStaysPast ==
    ASSUME Typed, [Next]_rvars, NEW m \in Process, Sound(m)
    PROVE  Sound(m)'
<1>1. Len(log') >= Len(log)
  <2>1. CASE log' = log
    BY <2>1 DEF Typed, TypeOK
  <2>2. CASE \E e \in Event : GoesOn(e)
    BY <2>2, Appended DEF GoesOn, Typed, TypeOK
  <2> QED BY <2>1, <2>2, StepShape
<1>2. m.seen \in Nat /\ m.rev \in Nat /\ Len(log) \in Nat /\ Len(log') \in Nat
  <2>1. log' \in Seq(Event)
    BY StepShape, Appended DEF GoesOn, Typed, TypeOK
  <2> QED BY <2>1 DEF Process, Typed, TypeOK
<1> QED BY <1>1, <1>2 DEF Sound

(* A step changes at most the memory of one process, to a sound one.       *)
LEMMA MemoryStep ==
    ASSUME Typed, [Next]_rvars
    PROVE  me' = me \/ \E w \in Workers, m \in Process :
                          me' = [me EXCEPT ![w] = m] /\ Sound(m)
<1>1. CASE UNCHANGED rvars
  BY <1>1 DEF rvars
<1>2. CASE Next
  <2> PICK w \in Workers :
         \/ Work(w) \/ Retry(w) \/ Resume(w) \/ Record(w)
         \/ \E trace \in Traces : Return(w, trace)
         \/ \E note \in Notes : ReadAssessments(w, note)
    BY <1>2 DEF Next
  <2>0. /\ me \in [Workers -> Process] /\ me[w] \in Process /\ Sound(me[w])
        /\ Len(log) \in Nat
        /\ Fresh \in Process /\ Sound(Fresh)
    BY RecorderAssumption DEF Typed, TypeOK, Fresh, Process, Stages, Sound, Recording
  <2> SUFFICES ASSUME me' # me PROVE \E m \in Process : me' = [me EXCEPT ![w] = m] /\ Sound(m)
    OBVIOUS
  <2>1. CASE Retry(w)
    <3> DEFINE m == [Fresh EXCEPT !.at = "returned", !.of = me[w].of]
    <3>1. m \in Process /\ Sound(m)
      BY <2>0, <2>1 DEF Retry, Fresh, Process, Stages, Sound, Recording
    <3> QED BY <2>1, <3>1 DEF Retry
  <2>2. CASE Resume(w) \/ RecordAssessment(w)
    BY <2>0, <2>2 DEF Resume, RecordAssessment
  <2>3. CASE \E trace \in Traces : Return(w, trace)
    <3> PICK trace \in Traces : Return(w, trace)
      BY <2>3
    <3> DEFINE m == [me[w] EXCEPT !.at = "returned", !.of = trace]
    <3>1. m \in Process /\ Sound(m)
      BY <2>0 DEF Process, Stages, Sound, Recording
    <3> QED BY <2>0, <3>1 DEF Return
  <2>4. CASE \E note \in Notes : ReadAssessments(w, note)
    <3> PICK note \in Notes : ReadAssessments(w, note)
      BY <2>4
    <3> DEFINE m == [me[w] EXCEPT !.at = "assess", !.of = note, !.seen = Len(log)]
    <3>1. m \in Process
      BY <2>0 DEF Process, Stages
    <3>2. Sound(m)
      BY <2>0 DEF Process, Sound, Recording
    <3> QED BY <2>0, <3>1, <3>2 DEF ReadAssessments
  <2>5. CASE Refuse(w)
    <3> DEFINE m == [Fresh EXCEPT !.at = "refused", !.of = me[w].of]
    <3>1. m \in Process /\ Sound(m)
      BY <2>0 DEF Fresh, Process, Stages, Sound, Recording
    <3> QED BY <2>5, <3>1 DEF Refuse
  <2>6. CASE ReadSegments(w)
    <3> DEFINE m == [me[w] EXCEPT !.at = IF Retained(me[w].of) THEN "retained" ELSE "segment",
                                  !.seen = Len(log)]
    <3>1. m \in Process
      BY <2>0 DEF Process, Stages
    <3>2. Sound(m)
      BY <2>0, <2>6 DEF ReadSegments, Process, Sound, Recording
    <3> QED BY <2>0, <2>6, <3>1, <3>2 DEF ReadSegments
  <2>7. CASE RecordSegment(w)
    <3> DEFINE m == [me[w] EXCEPT !.at = "retained"]
    <3>1. m \in Process /\ Sound(m)
      BY <2>0, <2>7 DEF RecordSegment, Process, Stages, Sound, Recording
    <3> QED BY <2>0, <2>7, <3>1 DEF RecordSegment
  <2>8. CASE ReadStatus(w)
    <3> DEFINE m(at, told) == [me[w] EXCEPT !.at = at, !.told = told]
    <3>1. Ended => Final \in Event
      BY DEF Ended, Final, Typed, TypeOK
    <3>2. \A at \in {"done", "combine", "refused"}, told \in {me[w].told} \union
              (IF Ended THEN {Final} ELSE {}) : m(at, told) \in Process /\ Sound(m(at, told))
      BY <2>0, <2>8, <3>1 DEF ReadStatus, Process, Stages, Sound, Recording
    <3>3. \/ me' = [me EXCEPT ![w] = m("done", me[w].told)]
          \/ me' = [me EXCEPT ![w] = m("combine", me[w].told)]
          \/ me' = [me EXCEPT ![w] = m("refused", me[w].told)]
          \/ Ended /\ me' = [me EXCEPT ![w] = m("done", Final)]
      BY <2>0, <2>8 DEF ReadStatus, Process, ReplayAgrees
    <3> QED BY <3>2, <3>3
  <2>9. CASE Combine(w)
    <3> DEFINE m == [me[w] EXCEPT !.at = "result", !.covers = Segments(Len(log))]
    <3>1. Segments(Len(log)) \subseteq Traces
      BY DEF Segments, Plain, Typed, TypeOK
    <3>2. m \in Process /\ Sound(m)
      BY <2>0, <2>9, <3>1 DEF Combine, Process, Stages, Sound, Recording
    <3> QED BY <2>0, <2>9, <3>2 DEF Combine
  <2>10. CASE RecordTerminal(w)
    <3> DEFINE m == [me[w] EXCEPT !.at = "done", !.told = Receipt(w)]
    <3>1. me[w].of \in Traces
      BY <2>0, <2>10 DEF RecordTerminal, Sound, Recording
    <3>2. m \in Process /\ Sound(m)
      BY <2>0, <2>10, <3>1, RecordsTyped DEF RecordTerminal, Process, Stages, Sound, Recording
    <3> QED BY <2>0, <2>10, <3>2 DEF RecordTerminal
  <2>11. ASSUME NEW from \in {"segment", "result", "assess"},
                NEW to \in {"segmenting", "finishing", "assessing"}, Lease(w, from, to),
                from = "assess" <=> to = "assessing"
         PROVE  \E m \in Process : me' = [me EXCEPT ![w] = m] /\ Sound(m)
    <3> DEFINE m == [me[w] EXCEPT !.at = to, !.rev = Len(log)]
    <3>1. m \in Process
      BY <2>0 DEF Process, Stages
    <3>2. Sound(m)
      BY <2>0, <2>11 DEF Lease, Process, Sound, Recording
    <3> QED BY <2>0, <2>11, <3>1, <3>2 DEF Lease
  <2>12. CASE Work(w)
    BY <2>12 DEF Work
  <2> QED
    BY <2>1, <2>2, <2>3, <2>4, <2>5, <2>6, <2>7, <2>8, <2>9, <2>10, <2>11, <2>12 DEF Record
<1> QED BY <1>1, <1>2

(* The typing of the history and of the memories is inductive.             *)
LEMMA TypingSound == Spec => []Typed
<1>1. Init => Typed
  BY RecorderAssumption DEF Init, Typed, TypeOK, Fresh, Process, Stages, Sound, Recording, Plain
<1>2. Typed /\ [Next]_rvars => Typed'
  <2> SUFFICES ASSUME Typed, [Next]_rvars PROVE Typed'
    OBVIOUS
  <2>1. log' \in Seq(Event) /\ \A i \in DOMAIN log' : Plain(log'[i])
    BY StepShape, Appended DEF GoesOn, Typed, TypeOK
  <2>2. lease' \in Workers \union {None}
    BY DEF Typed, TypeOK, Next, Work, Retry, Resume, Record, Return, ReadAssessments,
       ReadSegments, RecordSegment, ReadStatus, Combine, RecordTerminal, RecordAssessment,
       Lease, Refuse, Admit, Existing, rvars
  <2>3. /\ me' \in [Workers -> Process]
        /\ \A v \in Workers : \E m \in Process : m = me'[v] /\ Sound(m)
    BY MemoryStep DEF Typed, TypeOK
  <2>4. ASSUME NEW v \in Workers
        PROVE  Sound(me[v])'
    <3>1. PICK m \in Process : m = me'[v] /\ Sound(m)
      BY <2>3
    <3>2. Sound(m)'
      BY <3>1, PastStaysPast
    <3> QED BY <3>1, <3>2 DEF Sound
  <2> QED BY <2>1, <2>2, <2>3, <2>4 DEF Typed, TypeOK
<1> QED BY <1>1, <1>2, PTL DEF Spec

(* Every reachable state is type-correct, and segments hold Traces.        *)
THEOREM Typing == Spec => [](TypeOK /\ \A i \in DOMAIN log : Plain(log[i]))
<1>1. Typed => TypeOK /\ \A i \in DOMAIN log : Plain(log[i])
  BY DEF Typed
<1> QED BY <1>1, TypingSound, PTL

-----------------------------------------------------------------------------
(* What a receipt combines, what a process remembers of its result, and
   what the Event that ends the Run is.                                    *)
Covered(of, covers) == of \in covers /\ \E n \in DOMAIN log : covers = Segments(n)
Memory(m) ==
    /\ m.at \in {"retained", "combine", "result", "finishing", "done"} => Retained(m.of)
    /\ m.at \in {"combine", "result", "finishing"} => m.of \notin Pauses
    /\ m.at \in {"result", "finishing"} => Covered(m.of, m.covers)
    /\ m.at # "done" => m.told = None
    /\ m.at = "done" =>
          IF m.of \in Pauses THEN m.told = None
          ELSE Ended /\ m.told = Final /\ m.told.of = m.of
EndSound ==
    \A i \in DOMAIN log : log[i].kind = "terminal" =>
        /\ i = Len(log)
        /\ Covered(log[i].of, log[i].covers)
        /\ log[i].of \notin Pauses
Honest == EndSound /\ \A w \in Workers : Memory(me[w])

(* A longer history has the same segments up to where it was.              *)
LEMMA PrefixKept ==
    ASSUME Typed, NEW e, GoesOn(e), NEW n \in 0 .. Len(log)
    PROVE  /\ Segments(n)' = Segments(n)
           /\ \A kind : Count(kind, n)' = Count(kind, n)
<1>1. \A i \in 1 .. n : log'[i] = log[i]
  BY Appended DEF GoesOn, Typed, TypeOK
<1>2. Segments(n)' = Segments(n)
  BY <1>1 DEF Segments
<1>3. \A kind : {i \in 1 .. n : log'[i].kind = kind} = {i \in 1 .. n : log[i].kind = kind}
  BY <1>1
<1> QED BY <1>2, <1>3 DEF Count

(* What was combined stays the segments of a moment.                       *)
LEMMA CoveredStays ==
    ASSUME Typed, NEW of, NEW covers, Covered(of, covers),
           log' = log \/ \E e \in Event : GoesOn(e)
    PROVE  Covered(of, covers)'
<1>1. CASE log' = log
  BY <1>1 DEF Covered, Segments
<1>2. CASE \E e \in Event : GoesOn(e)
  <2> PICK e \in Event : GoesOn(e)
    BY <1>2
  <2> PICK n \in DOMAIN log : covers = Segments(n)
    BY DEF Covered
  <2>1. n \in 0 .. Len(log) /\ n \in DOMAIN log'
    BY Appended DEF GoesOn, Typed, TypeOK
  <2> QED BY <2>1, PrefixKept DEF Covered
<1> QED BY <1>1, <1>2

(* What a process remembers of its result stays true: a Run that ended
   gets no further Event.                                                  *)
LEMMA MemoryStays ==
    ASSUME Typed, NEW m, Memory(m), log' = log \/ \E e \in Event : GoesOn(e)
    PROVE  Memory(m)'
<1>1. Covered(m.of, m.covers) => Covered(m.of, m.covers)'
  BY CoveredStays
<1>2. Retained(m.of) => Retained(m.of)'
  BY Appended DEF GoesOn, Retained, Typed, TypeOK
<1>3. Ended => Ended' /\ Final' = Final
  BY DEF GoesOn, Ended, Final
<1> QED BY <1>1, <1>2, <1>3 DEF Memory

(* After a recording the Event is where the lease said.                    *)
LEMMA Written ==
    ASSUME Typed, NEW w \in Workers, NEW e \in Event, Admit(w, e) \/ Existing(w, e)
    PROVE  me[w].rev + 1 \in DOMAIN log' /\ log'[me[w].rev + 1] = e
<1>1. me[w].rev \in Nat /\ Len(log) \in Nat
  BY DEF Typed, TypeOK, Process
<1> QED BY <1>1, Appended DEF Admit, Existing, Typed, TypeOK

(* The history keeps one honest end.                                       *)
LEMMA EndStays ==
    ASSUME Typed, Honest, [Next]_rvars
    PROVE  EndSound'
<1>1. CASE log' = log
  BY <1>1 DEF Honest, EndSound, Covered, Segments
<1>2. ASSUME NEW e \in Event, GoesOn(e),
             e.kind # "terminal" \/ (Covered(e.of, e.covers) /\ e.of \notin Pauses)
      PROVE  EndSound'
  <2>1. \A i \in DOMAIN log : log[i].kind # "terminal"
    BY <1>2 DEF GoesOn, Ended, Final, Honest, EndSound, Typed, TypeOK
  <2>2. Covered(e.of, e.covers) => Covered(e.of, e.covers)'
    BY <1>2, CoveredStays
  <2> QED BY <1>2, <2>1, <2>2, Appended DEF EndSound, GoesOn, Typed, TypeOK
<1>3. CASE log' # log
  <2> PICK w \in Workers : Work(w) \/ RecordSegment(w) \/ RecordTerminal(w) \/ RecordAssessment(w)
    BY <1>3 DEF Next, Record, Retry, Resume, Return, ReadAssessments, ReadSegments,
       ReadStatus, Combine, Lease, Refuse, rvars
  <2>0. PICK e \in Event : GoesOn(e)
    BY <1>3, StepShape
  <2>1. e = log'[Len(log) + 1]
    BY <2>0, Appended DEF GoesOn, Typed, TypeOK
  <2>2. CASE RecordTerminal(w)
    <3>1. me[w].of \in Traces
      BY <2>2 DEF RecordTerminal, Typed, Sound, Recording
    <3>2. Receipt(w) \in Event
      BY <3>1, RecordsTyped
    <3>3. e = Receipt(w)
      BY <1>3, <2>1, <2>2, <3>2, Appended DEF RecordTerminal, Admit, Existing, Typed, TypeOK
    <3>4. Covered(e.of, e.covers) /\ e.of \notin Pauses
      BY <2>2, <3>3 DEF RecordTerminal, Receipt, Honest, Memory
    <3> QED BY <1>2, <2>0, <3>4
  <2>3. CASE Work(w) \/ RecordSegment(w) \/ RecordAssessment(w)
    <3>1. Segment(w).kind # "terminal" /\ Assessment(w).kind # "terminal"
      BY DEF Segment, Assessment
    <3>2. PICK f \in Event : f.kind # "terminal" /\ log' = Append(log, f)
      <4>1. CASE Work(w)
        BY <4>1 DEF Work, Event, Kinds, Typed, TypeOK
      <4>2. CASE RecordSegment(w)
        BY <1>3, <3>1, <4>2, RecordsTyped DEF RecordSegment, Admit, Existing, Typed, Sound,
           Recording
      <4>3. CASE RecordAssessment(w)
        BY <1>3, <3>1, <4>3, RecordsTyped DEF RecordAssessment, Admit, Existing, Typed, Sound
      <4> QED BY <2>3, <4>1, <4>2, <4>3
    <3>3. e.kind # "terminal"
      <4>1. log \in Seq(Event)
        BY DEF Typed, TypeOK
      <4>2. log'[Len(log) + 1] = f
        BY <3>2, <4>1, Appended
      <4> QED BY <2>1, <3>2, <4>2
    <3>4. e.kind # "terminal" \/ (Covered(e.of, e.covers) /\ e.of \notin Pauses)
      BY <3>3
    <3> QED BY <1>2, <2>0, <3>4
  <2> QED BY <2>2, <2>3
<1> QED BY <1>1, <1>3

(* Every step leaves its process with a memory that is true afterwards.    *)
LEMMA MemoryTrue ==
    ASSUME Typed, Honest, [Next]_rvars
    PROVE  \A v \in Workers : Memory(me[v])'
<1>0. log' = log \/ \E e \in Event : GoesOn(e)
  BY StepShape
<1>1. me' = me \/ \E w \in Workers, m \in Process : me' = [me EXCEPT ![w] = m] /\ Memory(m)'
  <2>1. CASE UNCHANGED rvars
    BY <2>1 DEF rvars
  <2>2. CASE Next
    <3> PICK w \in Workers :
           \/ Work(w) \/ Retry(w) \/ Resume(w) \/ Record(w)
           \/ \E trace \in Traces : Return(w, trace)
           \/ \E note \in Notes : ReadAssessments(w, note)
      BY <2>2 DEF Next
    <3>0. me \in [Workers -> Process] /\ me[w] \in Process /\ Memory(me[w])
      BY DEF Typed, TypeOK, Honest
    <3> SUFFICES ASSUME me' # me
                 PROVE  \E m \in Process : me' = [me EXCEPT ![w] = m] /\ Memory(m)'
      OBVIOUS
    <3>1. PICK m \in Process : me' = [me EXCEPT ![w] = m]
      <4>1. PICK v \in Workers, m \in Process : me' = [me EXCEPT ![v] = m]
        BY MemoryStep
      <4>2. me' = [me EXCEPT ![w] = me'[w]]
        BY <3>0 DEF Work, Retry, Resume, Record, Return, ReadAssessments, ReadSegments,
           RecordSegment, ReadStatus, Combine, RecordTerminal, RecordAssessment, Lease, Refuse
      <4>3. me'[w] \in Process
        BY <3>0, <4>1
      <4> QED BY <4>2, <4>3
    <3>2. m = me'[w]
      BY <3>0, <3>1
    <3> SUFFICES Memory(m)'
      BY <3>1
    <3>3. CASE \/ Work(w) \/ Retry(w) \/ Resume(w) \/ RecordAssessment(w) \/ Refuse(w)
               \/ \E trace \in Traces : Return(w, trace)
               \/ \E note \in Notes : ReadAssessments(w, note)
      <4> SUFFICES m.at \in {"returned", "running", "refused", "assess"} /\ m.told = None
        BY DEF Memory
      <4>1. CASE Retry(w)
        BY <3>0, <3>2, <4>1 DEF Retry, Fresh
      <4>2. CASE Resume(w) \/ RecordAssessment(w)
        BY <3>0, <3>2, <4>2 DEF Resume, RecordAssessment, Fresh
      <4>3. CASE Refuse(w)
        BY <3>0, <3>2, <4>3 DEF Refuse, Fresh
      <4>4. CASE \E trace \in Traces : Return(w, trace)
        <5> PICK trace \in Traces : Return(w, trace)
          BY <4>4
        <5>1. m = [me[w] EXCEPT !.at = "returned", !.of = trace] /\ me[w].at = "running"
          BY <3>0, <3>2 DEF Return
        <5> QED BY <3>0, <5>1 DEF Process, Memory
      <4>5. CASE \E note \in Notes : ReadAssessments(w, note)
        <5> PICK note \in Notes : ReadAssessments(w, note)
          BY <4>5
        <5>1. /\ m = [me[w] EXCEPT !.at = "assess", !.of = note, !.seen = Len(log)]
              /\ me[w].at = "running"
          BY <3>0, <3>2 DEF ReadAssessments
        <5> QED BY <3>0, <5>1 DEF Process, Memory
      <4> QED BY <3>3, <4>1, <4>2, <4>3, <4>4, <4>5 DEF Work
    <3>4. CASE \/ Lease(w, "segment", "segmenting") \/ Lease(w, "result", "finishing")
               \/ Lease(w, "assess", "assessing")
      <4>1. Memory(m)
        BY <3>0, <3>2, <3>4 DEF Lease, Process, Memory
      <4> QED BY <1>0, <4>1, MemoryStays
    <3>5. CASE ReadSegments(w)
      <4>1. Memory(m)
        BY <3>0, <3>2, <3>5 DEF ReadSegments, Process, Memory
      <4> QED BY <1>0, <4>1, MemoryStays
    <3>6. CASE RecordSegment(w)
      <4>1. me[w].of \in Traces /\ m.at = "retained" /\ m.of = me[w].of /\ m.told = None
        BY <3>0, <3>2, <3>6 DEF RecordSegment, Process, Memory, Typed, Sound, Recording
      <4>2. Segment(w) \in Event
        BY <4>1, RecordsTyped
      <4>3. Retained(m.of)'
        BY <3>6, <4>1, <4>2, Written DEF RecordSegment, Segment, Retained
      <4> QED BY <4>1, <4>3 DEF Memory
    <3>7. CASE ReadStatus(w)
      <4>1. Memory(m)
        BY <3>0, <3>2, <3>7 DEF ReadStatus, ReplayAgrees, Process, Memory
      <4> QED BY <1>0, <4>1, MemoryStays
    <3>8. CASE Combine(w)
      <4>1. m.at = "result" /\ m.of = me[w].of /\ m.covers = Segments(Len(log)) /\ m.told = None
        BY <3>0, <3>2, <3>8 DEF Combine, Process, Memory
      <4>2. Retained(m.of) /\ m.of \notin Pauses
        BY <3>0, <3>8, <4>1 DEF Combine, Memory
      <4>3. Covered(m.of, m.covers)
        <5>1. Len(log) \in DOMAIN log /\ DOMAIN log = 1 .. Len(log)
          BY <4>2 DEF Retained, Typed, TypeOK
        <5> QED BY <4>1, <4>2, <5>1 DEF Covered, Retained, Segments
      <4>4. Memory(m)
        BY <4>1, <4>2, <4>3 DEF Memory
      <4> QED BY <1>0, <4>4, MemoryStays
    <3>9. CASE RecordTerminal(w)
      <4>1. /\ me[w].of \in Traces \ Pauses /\ Retained(me[w].of)
            /\ m.at = "done" /\ m.of = me[w].of /\ m.told = Receipt(w)
        BY <3>0, <3>2, <3>9 DEF RecordTerminal, Process, Memory, Typed, Sound, Recording
      <4>2. Receipt(w) \in Event
        BY <4>1, RecordsTyped
      <4>3. me[w].rev + 1 \in DOMAIN log' /\ log'[me[w].rev + 1] = Receipt(w)
        BY <3>9, <4>2, Written DEF RecordTerminal
      <4>4. me[w].rev + 1 = Len(log')
        BY <4>3, EndStays DEF EndSound, Receipt
      <4>5. Ended' /\ Final' = Receipt(w)
        BY <4>3, <4>4 DEF Ended, Final, Receipt
      <4>6. Retained(m.of)'
        BY <1>0, <4>1, Appended DEF GoesOn, Retained, Typed, TypeOK
      <4> QED BY <4>1, <4>5, <4>6 DEF Memory, Receipt
    <3> QED BY <3>3, <3>4, <3>5, <3>6, <3>7, <3>8, <3>9 DEF Record
  <2> QED BY <2>1, <2>2
<1>2. ASSUME NEW v \in Workers
      PROVE  Memory(me[v])'
  <2>1. Memory(me[v])
    BY DEF Honest
  <2>2. \E m : m = me'[v] /\ Memory(m)'
    <3>1. \A m : m = me[v] => Memory(m)'
      BY <1>0, <2>1, MemoryStays
    <3> QED BY <1>1, <3>1 DEF Typed, TypeOK
  <2> QED BY <2>2 DEF Memory
<1> QED BY <1>2

(* What is remembered and how the Run ends is always as it should be.      *)
LEMMA Honesty == Spec => []Honest
<1>1. Init => Honest
  BY DEF Init, Fresh, Honest, EndSound, Memory
<1>2. Typed /\ Honest /\ [Next]_rvars => Honest'
  BY EndStays, MemoryTrue DEF Honest
<1> QED BY <1>1, <1>2, TypingSound, PTL DEF Spec

(* The receipt combines what was retained at one moment, the execution it
   is about included: ReceiptCoversItsRun.                                 *)
THEOREM ReceiptsCover == Spec => []ReceiptCoversItsRun
<1>1. Typed /\ Honest => ReceiptCoversItsRun
  BY DEF Typed, TypeOK, Honest, EndSound, Covered, Ended, Final, ReceiptCoversItsRun
<1> QED BY <1>1, Honesty, TypingSound, PTL

(* Whoever is answered was told the receipt the Run ended with, or paused
   with its Trace retained: AnswersHold.                                   *)
THEOREM AnswersAlwaysHold == Spec => []AnswersHold
<1>1. Honest => AnswersHold
  BY DEF Honest, Memory, AnswersHold
<1> QED BY <1>1, Honesty, PTL

-----------------------------------------------------------------------------
(* A count of Events grows with the range counted, and by the Event that
   is appended.                                                            *)
LEMMA CountGrows ==
    ASSUME Typed, NEW e \in Event, GoesOn(e), NEW n \in 0 .. Len(log),
           NEW k \in Nat, k = Len(log) + 1
    PROVE  /\ Count(e.kind, n) \in Nat
           /\ Count(e.kind, k)' \in Nat
           /\ Count(e.kind, n) + 1 <= Count(e.kind, k)'
<1> DEFINE A == {i \in 1 .. n : log[i].kind = e.kind}
           B == {i \in 1 .. Len(log) : log[i].kind = e.kind}
           C == {i \in 1 .. k : log'[i].kind = e.kind}
<1>0. n \in Nat /\ Len(log) \in Nat
  BY DEF Typed, TypeOK
<1>1. C = B \union {k} /\ k \notin B /\ A \subseteq B
  BY Appended DEF GoesOn, Typed, TypeOK
<1>2. /\ IsFiniteSet(A) /\ Cardinality(A) \in Nat
      /\ IsFiniteSet(B) /\ Cardinality(B) \in Nat
  <2>1. IsFiniteSet(A) /\ IsFiniteSet(B)
    BY <1>0, CountType
  <2> HIDE DEF A, B
  <2> QED BY <2>1, FS_CardinalityType
<1>3. Count(e.kind, n) = Cardinality(A)
  BY DEF Count
<1>4. Count(e.kind, k)' = Cardinality(C)
  BY DEF Count
<1> HIDE DEF A, B, C
<1>5. Cardinality(A) <= Cardinality(B)
  BY <1>1, <1>2, FS_Subset
<1>6. Cardinality(C) = Cardinality(B) + 1
  BY <1>1, <1>2, FS_AddElement
<1> QED BY <1>2, <1>3, <1>4, <1>5, <1>6

(* Numbers and Traces of what is recorded, whatever was recorded between
   the reading and the lease: RecordsCountPredecessors.                    *)
THEOREM RecordsAlwaysCount == Spec => []RecordsCountPredecessors
<1>1. Init => RecordsCountPredecessors
  BY DEF Init, RecordsCountPredecessors
<1>2. Typed /\ RecordsCountPredecessors /\ [Next]_rvars => RecordsCountPredecessors'
  <2> SUFFICES ASSUME Typed, RecordsCountPredecessors, [Next]_rvars
               PROVE  RecordsCountPredecessors'
    OBVIOUS
  <2>1. CASE log' = log
    BY <2>1 DEF RecordsCountPredecessors, Count
  <2>2. CASE log' # log
    <3> PICK w \in Workers : Work(w) \/ RecordSegment(w) \/ RecordTerminal(w) \/ RecordAssessment(w)
      BY <2>2 DEF Next, Record, Retry, Resume, Return, ReadAssessments, ReadSegments,
         ReadStatus, Combine, Lease, Refuse, rvars
    <3>0. me[w].seen \in 0 .. Len(log)
      BY DEF Typed, TypeOK, Process, Sound
    <3>1. PICK e \in Event :
             /\ GoesOn(e)
             /\ e.kind = "trace" => e = Segment(w) /\ ~Seen(e)
             /\ e.kind = "recovery" => e = Assessment(w)
      <4>1. CASE Work(w)
        <5> DEFINE e == [kind |-> "work", of |-> None, number |-> 0, covers |-> {},
                         cause |-> Len(log)]
        <5>1. e \in Event /\ GoesOn(e)
          BY <4>1 DEF Work, GoesOn, Event, Kinds, Plain, Typed, TypeOK
        <5> QED BY <5>1
      <4>2. CASE RecordSegment(w)
        <5>1. Segment(w) \in Event /\ Plain(Segment(w)) /\ Segment(w).kind = "trace"
          BY <4>2, RecordsTyped DEF RecordSegment, Typed, Sound, Recording, Segment
        <5> QED BY <2>2, <4>2, <5>1 DEF RecordSegment, Admit, Existing, GoesOn
      <4>3. CASE RecordTerminal(w)
        <5>1. Receipt(w) \in Event /\ Plain(Receipt(w)) /\ Receipt(w).kind = "terminal"
          BY <4>3, RecordsTyped DEF RecordTerminal, Typed, Sound, Recording, Receipt
        <5> QED BY <2>2, <4>3, <5>1 DEF RecordTerminal, Admit, Existing, GoesOn
      <4>4. CASE RecordAssessment(w)
        <5>1. /\ Assessment(w) \in Event /\ Plain(Assessment(w))
              /\ Assessment(w).kind = "recovery"
          BY <4>4, RecordsTyped DEF RecordAssessment, Typed, Sound, Assessment
        <5> QED BY <2>2, <4>4, <5>1 DEF RecordAssessment, Admit, Existing, GoesOn
      <4> QED BY <4>1, <4>2, <4>3, <4>4
    <3> PICK k \in Nat : k = Len(log) + 1
      BY DEF Typed, TypeOK
    <3>2. /\ DOMAIN log' = DOMAIN log \union {k}
          /\ k \notin DOMAIN log /\ log'[k] = e
          /\ \A i \in DOMAIN log : log'[i] = log[i] /\ i \in 0 .. Len(log)
      BY <3>1, Appended DEF GoesOn, Typed, TypeOK
    <3>3. ASSUME NEW i \in DOMAIN log, log[i].kind = "trace", e.kind = "trace"
          PROVE  log[i].of # e.of
      BY <3>1, <3>3 DEF Seen, SameIdentity, Typed, Plain, GoesOn
    <3>4. \A i, j \in DOMAIN log' :
             log'[i].kind = "trace" /\ log'[j].kind = "trace" /\ log'[i].of = log'[j].of => i = j
      BY <3>2, <3>3 DEF RecordsCountPredecessors
    <3>5. \A i \in DOMAIN log : \A kind : Count(kind, i)' = Count(kind, i)
      BY <3>1, <3>2, PrefixKept
    <3>6. e.kind \in {"trace", "recovery"} => e.number = Count(e.kind, me[w].seen) + 1
      BY <3>1 DEF Segment, Assessment
    <3>7. e.kind \in {"trace", "recovery"} => e.number \in 1 .. Count(e.kind, k)'
      <4>1. /\ Count(e.kind, me[w].seen) \in Nat
            /\ Count(e.kind, k)' \in Nat
            /\ Count(e.kind, me[w].seen) + 1 <= Count(e.kind, k)'
        BY <3>0, <3>1, CountGrows
      <4> QED BY <3>6, <4>1
    <3>8. \A i \in DOMAIN log', kind \in {"trace", "recovery"} :
             log'[i].kind = kind => log'[i].number \in 1 .. Count(kind, i)'
      <4>1. \A i \in DOMAIN log, kind \in {"trace", "recovery"} :
               log'[i].kind = kind => log'[i].number \in 1 .. Count(kind, i)'
        <5> SUFFICES ASSUME NEW i \in DOMAIN log, NEW kind \in {"trace", "recovery"},
                            log'[i].kind = kind
                     PROVE  log'[i].number \in 1 .. Count(kind, i)'
          OBVIOUS
        <5>1. log[i].kind = kind /\ log'[i].number = log[i].number
          BY <3>2
        <5>2. log[i].number \in 1 .. Count(kind, i)
          BY <5>1 DEF RecordsCountPredecessors
        <5> QED BY <3>5, <5>1, <5>2
      <4> QED BY <3>2, <3>7, <4>1
    <3> QED BY <3>4, <3>8 DEF RecordsCountPredecessors, Count
  <2> QED BY <2>1, <2>2
<1> QED BY <1>1, <1>2, TypingSound, PTL DEF Spec
=============================================================================
