------------------------ MODULE HarnessJournalProofs ------------------------
(***************************************************************************)
(* What holds of the Journal for every set of Runs, workers, Contracts,    *)
(* batches and clock readings, however many Events are admitted; and of    *)
(* doctor and backup beside any number of workers, in any order of their   *)
(* reads and the workers' transactions.                                    *)
(***************************************************************************)
EXTENDS Maintenance, TLAPS, SequenceTheorems

-----------------------------------------------------------------------------
(* Lemmas about RunEvents' operators.                                      *)

(* A stamped batch is a sequence of Events as long as the batch.           *)
LEMMA StampedType ==
    ASSUME NEW b \in Batches, NEW n \in Nat
    PROVE  /\ b \in Seq(Write)
           /\ Len(b) \in Nat \ {0}
           /\ DOMAIN b = 1 .. Len(b)
           /\ Stamped(b, n) \in Seq(Event)
           /\ Len(Stamped(b, n)) = Len(b)
           /\ DOMAIN Stamped(b, n) = 1 .. Len(b)
<1>1. b \in Seq(Write) /\ b # <<>>
  BY BatchesAssumption
<1>2. Len(b) \in Nat \ {0} /\ DOMAIN b = 1 .. Len(b)
  BY <1>1
<1>3. \A i \in 1 .. Len(b) : b[i] \in Write
  BY <1>1, <1>2
<1>4. \A i \in 1 .. Len(b) :
        [id |-> b[i].id, kind |-> b[i].kind, payload |-> b[i].payload,
         refs |-> b[i].refs, cause |-> b[i].cause, at |-> b[i].at, rev |-> n + i] \in Event
  <2>1. TAKE i \in 1 .. Len(b)
  <2>2. b[i] \in Write
    BY <1>3
  <2>3. n + i \in Nat \ {0}
    BY <1>2
  <2> QED
    BY <2>2, <2>3 DEF Write, Event
<1>5. Stamped(b, n) \in [1 .. Len(b) -> Event]
  BY <1>4 DEF Stamped
<1>6. Stamped(b, n) \in Seq(Event)
  BY <1>5, <1>2, SeqDef
<1>7. Len(Stamped(b, n)) = Len(b) /\ DOMAIN Stamped(b, n) = 1 .. Len(b)
  BY <1>2, <1>6 DEF Stamped
<1> QED
  BY <1>1, <1>2, <1>6, <1>7

(* The creation Event of a Contract is an Event.                           *)
LEMMA CreationType ==
    ASSUME NEW c \in Contracts
    PROVE  /\ c \in Contract
           /\ CreationEvent(c) \in Event
           /\ <<CreationEvent(c)>> \in Seq(Event)
<1>1. c \in Contract
  BY ContractsAssumption
<1>2. CreationEvent(c) \in Event
  BY <1>1 DEF Contract, Event, CreationEvent, Kinds
<1> QED
  BY <1>1, <1>2

(* An Event of s \o Stamped(b, n) is an Event of s or a stamped one.        *)
LEMMA ExtendedHistory ==
    ASSUME NEW s \in Seq(Event), NEW b \in Batches, NEW n \in Nat
    PROVE  LET e == s \o Stamped(b, n) IN
           /\ e \in Seq(Event)
           /\ Len(s) \in Nat
           /\ Len(e) = Len(s) + Len(b)
           /\ DOMAIN e = 1 .. Len(s) + Len(b)
           /\ \A i \in 1 .. Len(s) : e[i] = s[i]
           /\ \A i \in 1 .. Len(b) : e[Len(s) + i] = Stamped(b, n)[i]
<1> DEFINE e == s \o Stamped(b, n)
<1>1. /\ Stamped(b, n) \in Seq(Event) /\ Len(Stamped(b, n)) = Len(b)
      /\ Len(b) \in Nat \ {0}
  BY StampedType
<1>2. Len(s) \in Nat
  BY LenProperties
<1>3. /\ e \in Seq(Event)
      /\ Len(e) = Len(s) + Len(b)
      /\ \A i \in 1 .. Len(s) + Len(b) :
            e[i] = IF i <= Len(s) THEN s[i] ELSE Stamped(b, n)[i - Len(s)]
  BY <1>1, ConcatProperties
<1>4. DOMAIN e = 1 .. Len(s) + Len(b)
  BY <1>3, LenProperties
<1>5. \A i \in 1 .. Len(s) : e[i] = s[i]
  BY <1>1, <1>2, <1>3
<1>6. \A i \in 1 .. Len(b) : e[Len(s) + i] = Stamped(b, n)[i]
  <2>1. TAKE i \in 1 .. Len(b)
  <2>2. Len(s) + i \in 1 .. Len(s) + Len(b) /\ ~(Len(s) + i <= Len(s))
    BY <1>1, <1>2
  <2>3. (Len(s) + i) - Len(s) = i
    BY <1>1, <1>2
  <2> QED
    BY <1>3, <2>2, <2>3
<1> QED
  BY <1>2, <1>3, <1>4, <1>5, <1>6

(* A stamped Event is the submitted one plus its revision.                 *)
LEMMA StampedFields ==
    ASSUME NEW b \in Batches, NEW n \in Nat, NEW i \in 1 .. Len(b)
    PROVE  /\ Stamped(b, n)[i].id = b[i].id
           /\ Stamped(b, n)[i].kind = b[i].kind
           /\ Stamped(b, n)[i].payload = b[i].payload
           /\ Stamped(b, n)[i].refs = b[i].refs
           /\ Stamped(b, n)[i].at = b[i].at
           /\ Stamped(b, n)[i].rev = n + i
BY DEF Stamped

(* Replaying a history and then a batch is replaying the extended history. *)
LEMMA ReplayExtends ==
    ASSUME NEW s \in Seq(Event), NEW b \in Batches, NEW n \in Nat,
           NEW from, NEW mid, NEW to,
           ReplaysTo(s, from, mid), ReplaysTo(b, mid, to)
    PROVE  ReplaysTo(s \o Stamped(b, n), from, to)
<1> DEFINE e == s \o Stamped(b, n)
<1>1. /\ DOMAIN e = 1 .. Len(s) + Len(b) /\ Len(s) \in Nat
      /\ \A i \in 1 .. Len(s) : e[i] = s[i]
      /\ \A i \in 1 .. Len(b) : e[Len(s) + i] = Stamped(b, n)[i]
  BY ExtendedHistory
<1>2. /\ DOMAIN s = 1 .. Len(s) /\ DOMAIN b = 1 .. Len(b)
      /\ Len(b) \in Nat \ {0}
  BY StampedType, LenProperties
<1> HIDE DEF e
<1>3. \A i \in 1 .. Len(b) : e[Len(s) + i].kind = b[i].kind
  <2>1. TAKE i \in 1 .. Len(b)
  <2>2. Stamped(b, n)[i].kind = b[i].kind
    BY StampedFields
  <2> QED
    BY <1>1, <2>2
<1>4. \A k \in DOMAIN e : k > Len(s) => k - Len(s) \in 1 .. Len(b)
                                       /\ e[k].kind = b[k - Len(s)].kind
  <2>1. SUFFICES ASSUME NEW k \in DOMAIN e, k > Len(s)
                 PROVE  k - Len(s) \in 1 .. Len(b) /\ e[k].kind = b[k - Len(s)].kind
    OBVIOUS
  <2>2. k - Len(s) \in 1 .. Len(b) /\ Len(s) + (k - Len(s)) = k
    BY <2>1, <1>1, <1>2
  <2> QED
    BY <2>2, <1>3
<1>5. CASE \E i \in DOMAIN b : b[i].kind \notin PreservingKinds
  <2>1. PICK i \in DOMAIN b :
           /\ b[i].kind \notin PreservingKinds
           /\ \A j \in DOMAIN b : j > i => b[j].kind \in PreservingKinds
           /\ to = StatusAfter(b[i].kind)
    BY <1>5 DEF ReplaysTo
  <2>2. Len(s) + i \in DOMAIN e /\ e[Len(s) + i].kind = b[i].kind
    BY <1>1, <1>2, <1>3
  <2>3. \A k \in DOMAIN e : k > Len(s) + i => e[k].kind \in PreservingKinds
    <3>1. SUFFICES ASSUME NEW k \in DOMAIN e, k > Len(s) + i
                   PROVE  e[k].kind \in PreservingKinds
      OBVIOUS
    <3>2. k > Len(s) /\ k - Len(s) > i
      BY <3>1, <1>1, <1>2
    <3> QED
      BY <3>2, <1>4, <2>1, <1>2
  <2> QED
    BY <2>1, <2>2, <2>3 DEF ReplaysTo, e
<1>6. CASE \A i \in DOMAIN b : b[i].kind \in PreservingKinds
  <2>1. to = mid
    BY <1>6 DEF ReplaysTo
  <2>2. \A k \in DOMAIN e : k > Len(s) => e[k].kind \in PreservingKinds
    BY <1>4, <1>6, <1>2
  <2>3. CASE mid = from /\ \A i \in DOMAIN s : s[i].kind \in PreservingKinds
    <3>1. \A k \in DOMAIN e : e[k].kind \in PreservingKinds
      <4>1. TAKE k \in DOMAIN e
      <4>2. k <= Len(s) => k \in DOMAIN s /\ e[k] = s[k]
        BY <1>1, <1>2
      <4> QED
        BY <4>2, <2>2, <2>3, <1>1
    <3> QED
      BY <3>1, <2>1, <2>3 DEF ReplaysTo, e
  <2>4. CASE \E i \in DOMAIN s :
                /\ s[i].kind \notin PreservingKinds
                /\ \A j \in DOMAIN s : j > i => s[j].kind \in PreservingKinds
                /\ mid = StatusAfter(s[i].kind)
    <3>1. PICK i \in DOMAIN s :
             /\ s[i].kind \notin PreservingKinds
             /\ \A j \in DOMAIN s : j > i => s[j].kind \in PreservingKinds
             /\ mid = StatusAfter(s[i].kind)
      BY <2>4
    <3>2. i \in DOMAIN e /\ e[i] = s[i]
      BY <1>1, <1>2
    <3>3. \A k \in DOMAIN e : k > i => e[k].kind \in PreservingKinds
      <4>1. TAKE k \in DOMAIN e
      <4>2. k <= Len(s) => k \in DOMAIN s /\ e[k] = s[k]
        BY <1>1, <1>2
      <4> QED
        BY <4>2, <2>2, <3>1, <1>1
    <3> QED
      BY <3>1, <3>2, <3>3, <2>1 DEF ReplaysTo, e
  <2> QED
    BY <2>3, <2>4 DEF ReplaysTo
<1> QED
  BY <1>5, <1>6

(* A history whose replay does not end the Run holds no terminal Event.    *)
LEMMA OpenHistory ==
    ASSUME NEW s \in Seq(Event), NEW st,
           TerminalOnlyLast(s), ReplaysTo(s, "created", st), st \notin TerminalStatuses
    PROVE  \A i \in DOMAIN s : s[i].kind \notin TerminalKinds
<1>1. SUFFICES ASSUME NEW i \in DOMAIN s, s[i].kind \in TerminalKinds
               PROVE  FALSE
  OBVIOUS
<1>2. i = Len(s) /\ s[i].kind \notin PreservingKinds
  BY <1>1 DEF TerminalOnlyLast, TerminalKinds, PreservingKinds
<1>3. DOMAIN s = 1 .. Len(s) /\ Len(s) \in Nat
  BY LenProperties
<1>4. PICK k \in DOMAIN s :
         /\ s[k].kind \notin PreservingKinds
         /\ \A j \in DOMAIN s : j > k => s[j].kind \in PreservingKinds
         /\ st = StatusAfter(s[k].kind)
  BY <1>2 DEF ReplaysTo
<1>5. k = i
  BY <1>2, <1>3, <1>4
<1> QED
  BY <1>1, <1>4, <1>5 DEF StatusAfter, TerminalKinds, TerminalStatuses

-----------------------------------------------------------------------------
(* Every variable keeps its type: rows, Events, leases and requests stay
   well formed through every transaction.                                  *)
THEOREM Typing == Spec => []TypeOK
<1>1. Init => TypeOK
  <2> SUFFICES ASSUME Init PROVE TypeOK
    OBVIOUS
  <2>1. log \in [Runs -> Seq(Event)]
    BY EmptySeq DEF Init
  <2> QED
    BY <2>1 DEF Init, TypeOK
<1>2. TypeOK /\ [Next]_jvars => TypeOK'
  <2> SUFFICES ASSUME TypeOK, [Next]_jvars PROVE TypeOK'
    OBVIOUS
  <2> USE DEF TypeOK
  <2>1. ASSUME NEW o \in Objects, PutObject(o) PROVE TypeOK'
    BY <2>1 DEF PutObject
  <2>2. ASSUME NEW w \in Workers, NEW c \in Contracts, CreateNew(w, c) PROVE TypeOK'
    <3>1. c \in Contract /\ <<CreationEvent(c)>> \in Seq(Event)
      BY CreationType
    <3>2. NewRow(c) \in Row
      BY <3>1 DEF NewRow, Row, Contract, Statuses
    <3>3. [op |-> "create", to |-> c, result |-> "created"] \in Reply
      BY DEF Reply, Results
    <3> QED
      BY <2>2, <3>1, <3>2, <3>3 DEF CreateNew, Answer, Contract
  <2>3. ASSUME NEW w \in Workers, NEW c \in Contracts, CreateAgain(w, c) PROVE TypeOK'
    <3>1. c \in Contract
      BY CreationType
    <3>2. \A x \in {"existing", "refused"} :
             [op |-> "create", to |-> c, result |-> x] \in Reply
      BY DEF Reply, Results
    <3> QED
      BY <2>3, <3>1, <3>2 DEF CreateAgain, Answer, Contract
  <2>4. ASSUME NEW w \in Workers, NEW r \in Runs, Reacquire(w, r) PROVE TypeOK'
    BY <2>4 DEF Reacquire
  <2>5. ASSUME NEW w \in Workers, NEW r \in Runs, Acquire(w, r) PROVE TypeOK'
    <3>1. PICK seen \in Readings :
             /\ lease' = [lease EXCEPT ![r] = NewLease(w, r, seen)]
             /\ hand' = [hand EXCEPT ![w] = NewLease(w, r, seen)]
      BY <2>5 DEF Acquire
    <3>2. run[r] \in Row
      BY <2>5 DEF Acquire, Leasable, Exists
    <3>3. NewLease(w, r, seen) \in Lease
      <4>1. seen + TTL \in Nat
        BY TimeAssumption
      <4>2. run[r].revision \in Nat \ {0}
        BY <3>2 DEF Row
      <4>3. lease[r] # None => lease[r].generation + 1 \in Nat \ {0}
        BY DEF Lease
      <4> QED
        BY <4>1, <4>2, <4>3 DEF NewLease, Lease
    <3> QED
      BY <2>5, <3>1, <3>3 DEF Acquire
  <2>6. ASSUME NEW w \in Workers, Release(w) PROVE TypeOK'
    BY <2>6 DEF Release, Lease
  <2>7. ASSUME NEW w \in Workers, NEW r \in Runs, NEW b \in Batches, Prepare(w, r, b)
        PROVE TypeOK'
    <3>1. b \in Seq(Write)
      BY StampedType
    <3>2. Payloads(b) \subseteq Objects
      <4>1. \A i \in DOMAIN b : b[i] \in Write
        BY <3>1, StampedType
      <4> QED
        BY <4>1 DEF Payloads, Write
    <3>3. hand[w].rev \in Nat \ {0}
      BY <2>7 DEF Prepare, Lease
    <3>4. Exists(r) => run[r].revision \in Nat \ {0}
      BY DEF Exists, Row
    <3>5. PICK n \in Nat \ {0} :
             req' = [req EXCEPT ![w] = [run |-> r, batch |-> b, expected |-> n]]
      BY <2>7, <3>3, <3>4 DEF Prepare
    <3> QED
      BY <2>7, <3>2, <3>5 DEF Prepare, Request
  <2>8. ASSUME NEW w \in Workers, SubmitNew(w) PROVE TypeOK'
    <3> DEFINE q == req[w]
               b == q.batch
    <3>1. q \in Request /\ b \in Batches /\ q.run \in Runs /\ q.expected \in Nat
      BY <2>8 DEF SubmitNew, Request
    <3>2. /\ b \in Seq(Write) /\ Len(b) \in Nat \ {0} /\ b[Len(b)] \in Write
          /\ Stamped(b, q.expected) \in Seq(Event)
      BY <3>1, StampedType
    <3>3. run[q.run] \in Row
      BY <2>8, <3>1 DEF SubmitNew, Admissible, BatchFollows, Exists
    <3>4. PICK status \in Statuses :
             run' = [run EXCEPT ![q.run] =
                      [contract |-> @.contract, status |-> status,
                       revision |-> q.expected + Len(b), updated |-> b[Len(b)].at,
                       terminal |-> IF status \in TerminalStatuses
                                      THEN b[Len(b)].id ELSE None]]
      BY <2>8 DEF SubmitNew
    <3>5. run' \in [Runs -> Row \union {None}]
      <4> DEFINE row == [contract |-> run[q.run].contract, status |-> status,
                         revision |-> q.expected + Len(b), updated |-> b[Len(b)].at,
                         terminal |-> IF status \in TerminalStatuses
                                        THEN b[Len(b)].id ELSE None]
      <4>1. run[q.run].contract \in Contracts
        BY <3>3 DEF Row
      <4>2. b[Len(b)].at \in Nat /\ b[Len(b)].id \in EventIds
        BY <3>2 DEF Write
      <4>3. q.expected + Len(b) \in Nat \ {0}
        BY <3>1, <3>2
      <4>4. row \in Row
        BY <4>1, <4>2, <4>3 DEF Row
      <4>5. run' = [run EXCEPT ![q.run] = row]
        BY <3>4
      <4> HIDE DEF row
      <4> QED
        BY <4>4, <4>5, <3>1
    <3>6. log' \in [Runs -> Seq(Event)]
      <4>1. log[q.run] \o Stamped(b, q.expected) \in Seq(Event)
        BY <3>1, <3>2, ConcatProperties
      <4>2. log' = [log EXCEPT ![q.run] = log[q.run] \o Stamped(b, q.expected)]
        BY <2>8 DEF SubmitNew
      <4> QED
        BY <4>1, <4>2, <3>1
    <3>7. [op |-> "append", to |-> q, result |-> "created"] \in Reply
      BY <3>1 DEF Reply, Results
    <3> QED
      BY <2>8, <3>1, <3>5, <3>6, <3>7 DEF SubmitNew, Answer
  <2>9. ASSUME NEW w \in Workers, SubmitReplay(w) \/ SubmitRefused(w) PROVE TypeOK'
    <3>1. \A x \in {"existing", "refused"} :
             [op |-> "append", to |-> req[w], result |-> x] \in Reply
      BY <2>9 DEF SubmitReplay, SubmitRefused, Reply, Results
    <3> QED
      BY <2>9, <3>1 DEF SubmitReplay, SubmitRefused, Answer
  <2>10. CASE UNCHANGED jvars
    BY <2>10 DEF jvars
  <2> QED
    BY <2>1, <2>2, <2>3, <2>4, <2>5, <2>6, <2>7, <2>8, <2>9, <2>10 DEF Next
<1> QED
  BY <1>1, <1>2, PTL DEF Spec

-----------------------------------------------------------------------------
(* The row of a Run that admits batch b with the given final status.       *)
AdmittedRow(row, b, status) ==
    [contract |-> row.contract, status |-> status,
     revision |-> row.revision + Len(b), updated |-> b[Len(b)].at,
     terminal |-> IF status \in TerminalStatuses THEN b[Len(b)].id ELSE None]

(* The doctor's verdict survives an admission: this is why replaying the
   Events always gives back the projection row.                            *)
LEMMA HistoryExtends ==
    ASSUME NEW row \in Row, NEW s \in Seq(Event), NEW b \in Batches,
           NEW status \in Statuses,
           HistoryAgrees(row, s),
           row.status \notin TerminalStatuses,
           TimesMonotone(b),
           \A i \in DOMAIN b : b[i].at >= row.updated,
           TerminalOnlyLast(b),
           ReplaysTo(b, row.status, status)
    PROVE  HistoryAgrees(AdmittedRow(row, b, status), s \o Stamped(b, row.revision))
<1> DEFINE n == row.revision
           e == s \o Stamped(b, n)
<1>1. /\ n = Len(s) /\ n \in Nat \ {0} /\ row.updated = s[Len(s)].at
      /\ s[1] = CreationEvent(row.contract) /\ \A i \in DOMAIN s : s[i].rev = i
      /\ TimesMonotone(s) /\ TerminalOnlyLast(s) /\ ReplaysTo(s, "created", row.status)
  BY DEF HistoryAgrees, Row
<1>2. /\ DOMAIN s = 1 .. n /\ DOMAIN b = 1 .. Len(b) /\ Len(b) \in Nat \ {0}
      /\ b \in Seq(Write) /\ n \in Nat
  BY <1>1, StampedType, LenProperties
<1>3. /\ e \in Seq(Event) /\ Len(e) = n + Len(b) /\ DOMAIN e = 1 .. n + Len(b)
      /\ \A i \in 1 .. n : e[i] = s[i]
      /\ \A i \in 1 .. Len(b) : e[n + i] = Stamped(b, n)[i]
  BY <1>1, <1>2, ExtendedHistory
<1>4. ReplaysTo(e, "created", status)
  BY <1>1, <1>2, ReplayExtends
<1> HIDE DEF e
<1>5. \A i \in 1 .. Len(b) :
         e[n + i].id = b[i].id /\ e[n + i].kind = b[i].kind
         /\ e[n + i].at = b[i].at /\ e[n + i].rev = n + i
  <2>1. TAKE i \in 1 .. Len(b)
  <2>2. /\ Stamped(b, n)[i].id = b[i].id /\ Stamped(b, n)[i].kind = b[i].kind
        /\ Stamped(b, n)[i].at = b[i].at /\ Stamped(b, n)[i].rev = n + i
    BY <1>2, StampedFields
  <2> QED
    BY <1>3, <2>2
<1>6. \A k \in DOMAIN e : \/ k \in DOMAIN s /\ e[k] = s[k]
                         \/ \E i \in DOMAIN b : k = n + i
  <2>1. SUFFICES ASSUME NEW k \in DOMAIN e, k \notin DOMAIN s
                 PROVE  \E i \in DOMAIN b : k = n + i
    BY <1>2, <1>3
  <2>2. k - n \in DOMAIN b /\ k = n + (k - n)
    BY <2>1, <1>2, <1>3
  <2> QED
    BY <2>2
<1>7. e # <<>> /\ e[1] = CreationEvent(row.contract)
  BY <1>1, <1>2, <1>3
<1>8. \A k \in DOMAIN e : e[k].rev = k
  BY <1>1, <1>2, <1>5, <1>6
<1>9. TimesMonotone(e)
  <2>1. SUFFICES ASSUME NEW k \in DOMAIN e, NEW m \in DOMAIN e, k <= m
                 PROVE  e[k].at <= e[m].at
    BY DEF TimesMonotone
  <2>2. CASE m \in DOMAIN s
    <3>1. k \in DOMAIN s /\ e[k] = s[k] /\ e[m] = s[m]
      BY <2>1, <2>2, <1>2, <1>3
    <3>2. s[k].at <= s[m].at
      BY <3>1, <2>1, <2>2, <1>1 DEF TimesMonotone
    <3> QED
      BY <3>1, <3>2
  <2>3. CASE m \notin DOMAIN s
    <3>1. PICK j \in DOMAIN b : m = n + j
      BY <2>3, <1>6
    <3>2. e[m].at = b[j].at
      BY <3>1, <1>2, <1>5
    <3>3. b[j] \in Write
      BY <1>2, ElementOfSeq
    <3>4. b[j].at \in Nat
      BY <3>3 DEF Write
    <3>5. CASE k \in DOMAIN s
      <4>1. k <= n /\ n \in DOMAIN s /\ e[k] = s[k]
        BY <3>5, <1>2, <1>3
      <4>2. s[k].at <= s[n].at
        BY <4>1, <3>5, <1>1 DEF TimesMonotone
      <4>3. s[n].at <= b[j].at
        BY <3>1, <1>1
      <4>4. s[n] \in Event /\ s[k] \in Event
        BY <4>1, <3>5, <1>2, ElementOfSeq
      <4>5. s[n].at \in Nat /\ s[k].at \in Nat
        BY <4>4 DEF Event
      <4> QED
        BY <4>1, <4>2, <4>3, <4>5, <3>2, <3>4
    <3>6. CASE k \notin DOMAIN s
      <4>1. PICK i \in DOMAIN b : k = n + i
        BY <3>6, <1>6
      <4>2. i <= j /\ e[k].at = b[i].at
        BY <4>1, <3>1, <2>1, <1>2, <1>5
      <4>3. b[i].at <= b[j].at
        BY <4>2 DEF TimesMonotone
      <4> QED
        BY <4>2, <4>3, <3>2
    <3> QED
      BY <3>5, <3>6
  <2> QED
    BY <2>2, <2>3
<1>10. TerminalOnlyLast(e)
  <2>1. \A i \in DOMAIN s : s[i].kind \notin TerminalKinds
    BY <1>1, OpenHistory
  <2>2. SUFFICES ASSUME NEW k \in DOMAIN e, e[k].kind \in TerminalKinds
                 PROVE  k = Len(e)
    BY DEF TerminalOnlyLast
  <2>3. PICK i \in DOMAIN b : k = n + i
    BY <2>1, <2>2, <1>6
  <2>4. i = Len(b)
    BY <2>2, <2>3, <1>2, <1>5 DEF TerminalOnlyLast
  <2> QED
    BY <2>3, <2>4, <1>3
<1>11. e[Len(e)].at = b[Len(b)].at /\ e[Len(e)].id = b[Len(b)].id
  BY <1>2, <1>3, <1>5
<1>12. HistoryAgrees(AdmittedRow(row, b, status), e)
  BY <1>3, <1>4, <1>7, <1>8, <1>9, <1>10, <1>11 DEF HistoryAgrees, AdmittedRow
<1> QED
  BY <1>12 DEF e

(* What SubmitNew does to the Run it extends, in terms of that lemma.      *)
LEMMA SubmitNewEffect ==
    ASSUME TypeOK, NEW w \in Workers, SubmitNew(w)
    PROVE  LET q == req[w] IN
           /\ q \in Request /\ q.run \in Runs /\ q.batch \in Batches
           /\ run[q.run] \in Row /\ run[q.run] # None
           /\ run[q.run].revision = q.expected
           /\ q.expected \in Nat \ {0}
           /\ log' = [log EXCEPT ![q.run] = @ \o Stamped(q.batch, q.expected)]
           /\ \E status \in Statuses :
                 /\ ReplaysTo(q.batch, run[q.run].status, status)
                 /\ AdmittedRow(run[q.run], q.batch, status) \in Row
                 /\ run' = [run EXCEPT ![q.run] = AdmittedRow(@, q.batch, status)]
<1> DEFINE q == req[w]
           b == q.batch
<1>1. q \in Request /\ q.run \in Runs /\ b \in Batches /\ q.expected \in Nat \ {0}
  BY DEF TypeOK, SubmitNew, Request
<1>2. run[q.run] \in Row /\ run[q.run] # None /\ run[q.run].revision = q.expected
  BY <1>1 DEF TypeOK, SubmitNew, Admissible, BatchFollows, Exists
<1>3. b[Len(b)] \in Write /\ Len(b) \in Nat \ {0}
  <2>1. b \in Seq(Write) /\ Len(b) \in Nat \ {0}
    BY <1>1, StampedType
  <2>2. Len(b) \in 1 .. Len(b)
    BY <2>1
  <2> QED
    BY <2>1, <2>2, ElementOfSeq
<1>4. PICK status \in Statuses :
         /\ ReplaysTo(b, run[q.run].status, status)
         /\ run' = [run EXCEPT ![q.run] =
                      [contract |-> @.contract, status |-> status,
                       revision |-> q.expected + Len(b), updated |-> b[Len(b)].at,
                       terminal |-> IF status \in TerminalStatuses
                                      THEN b[Len(b)].id ELSE None]]
  BY DEF SubmitNew
<1>5. AdmittedRow(run[q.run], b, status) \in Row
  BY <1>1, <1>2, <1>3 DEF AdmittedRow, Row, Write
<1>6. run' = [run EXCEPT ![q.run] = AdmittedRow(@, b, status)]
  <2> DEFINE row == [contract |-> run[q.run].contract, status |-> status,
                     revision |-> q.expected + Len(b), updated |-> b[Len(b)].at,
                     terminal |-> IF status \in TerminalStatuses
                                    THEN b[Len(b)].id ELSE None]
  <2>1. AdmittedRow(run[q.run], b, status) = row
    BY <1>2 DEF AdmittedRow
  <2>2. run' = [run EXCEPT ![q.run] = row]
    BY <1>4
  <2> HIDE DEF row
  <2> QED
    BY <2>1, <2>2
<1>7. log' = [log EXCEPT ![q.run] = @ \o Stamped(b, q.expected)]
  BY DEF SubmitNew
<1> QED
  BY <1>1, <1>2, <1>4, <1>5, <1>6, <1>7

(* The doctor is always satisfied: whatever workers race, retry, lose or
   abandon, each Run's row is what its Events replay to.                   *)
THEOREM HistoryAlwaysAgrees == Spec => []ProjectionMatchesHistory
<1>1. Init => ProjectionMatchesHistory
  BY DEF Init, ProjectionMatchesHistory, Exists
<1>2. TypeOK /\ ProjectionMatchesHistory /\ [Next]_jvars => ProjectionMatchesHistory'
  <2> SUFFICES ASSUME TypeOK, ProjectionMatchesHistory, [Next]_jvars
               PROVE  ProjectionMatchesHistory'
    OBVIOUS
  <2>1. CASE UNCHANGED <<run, log>>
    BY <2>1 DEF ProjectionMatchesHistory, Exists
  <2>2. ASSUME NEW w \in Workers, NEW c \in Contracts, CreateNew(w, c)
        PROVE  ProjectionMatchesHistory'
    <3> DEFINE s == <<CreationEvent(c)>>
    <3>1. c.run \in Runs /\ NewRow(c).contract = c
      BY CreationType DEF Contract, NewRow
    <3>2. /\ s # <<>> /\ Len(s) = 1 /\ DOMAIN s = {1} /\ s[1] = CreationEvent(c)
          /\ s[1].rev = 1 /\ s[1].kind = "created" /\ s[1].at = c.at
      BY DEF CreationEvent
    <3>3. ReplaysTo(s, "created", "created")
      BY <3>2 DEF ReplaysTo, StatusAfter, PreservingKinds
    <3>4. TimesMonotone(s) /\ TerminalOnlyLast(s)
      <4>1. c.at \in Nat
        BY CreationType DEF Contract
      <4> QED
        BY <3>2, <4>1 DEF TimesMonotone, TerminalOnlyLast
    <3> HIDE DEF s
    <3>5. HistoryAgrees(NewRow(c), s)
      BY <3>1, <3>2, <3>3, <3>4 DEF HistoryAgrees, NewRow, TerminalStatuses
    <3>6. NewRow(c) # None
      BY NullAssumption, CreationType DEF NewRow, Row, Contract, Statuses
    <3> QED
      BY <2>2, <3>1, <3>5, <3>6 DEF CreateNew, ProjectionMatchesHistory, Exists, TypeOK, s
  <2>3. ASSUME NEW w \in Workers, SubmitNew(w) PROVE ProjectionMatchesHistory'
    <3> DEFINE q == req[w]
    <3>1. /\ q.run \in Runs /\ q.batch \in Batches /\ run[q.run] \in Row
          /\ run[q.run] # None /\ run[q.run].revision = q.expected
          /\ log' = [log EXCEPT ![q.run] = @ \o Stamped(q.batch, q.expected)]
      BY <2>3, SubmitNewEffect
    <3>2. PICK status \in Statuses :
             /\ ReplaysTo(q.batch, run[q.run].status, status)
             /\ AdmittedRow(run[q.run], q.batch, status) \in Row
             /\ run' = [run EXCEPT ![q.run] = AdmittedRow(@, q.batch, status)]
      BY <2>3, SubmitNewEffect
    <3>3. /\ run[q.run].status \notin TerminalStatuses
          /\ TimesMonotone(q.batch)
          /\ \A i \in DOMAIN q.batch : q.batch[i].at >= run[q.run].updated
          /\ TerminalOnlyLast(q.batch)
      BY <2>3 DEF SubmitNew, Admissible, BatchFollows
    <3>4. HistoryAgrees(run[q.run], log[q.run]) /\ log[q.run] \in Seq(Event)
      BY <3>1 DEF ProjectionMatchesHistory, Exists, TypeOK
    <3>5. HistoryAgrees(AdmittedRow(run[q.run], q.batch, status),
                        log[q.run] \o Stamped(q.batch, q.expected))
      BY <3>1, <3>2, <3>3, <3>4, HistoryExtends
    <3>6. run'[q.run] # None
      BY <3>1, <3>2, NullAssumption DEF TypeOK
    <3> QED
      BY <3>1, <3>2, <3>5, <3>6 DEF ProjectionMatchesHistory, Exists, TypeOK
  <2>4. \/ UNCHANGED <<run, log>>
        \/ \E w \in Workers, c \in Contracts : CreateNew(w, c)
        \/ \E w \in Workers : SubmitNew(w)
    BY DEF Next, jvars, PutObject, CreateAgain, Reacquire, Acquire, Release,
           Prepare, SubmitReplay, SubmitRefused
  <2> QED
    BY <2>1, <2>2, <2>3, <2>4
<1> QED
  BY <1>1, <1>2, Typing, PTL DEF Spec

-----------------------------------------------------------------------------
(* Only creation and admission write runs and run_events; every other step
   leaves both alone.                                                      *)
LEMMA Writers ==
    ASSUME [Next]_jvars
    PROVE  \/ UNCHANGED <<run, log>>
           \/ \E w \in Workers, c \in Contracts : CreateNew(w, c)
           \/ \E w \in Workers : SubmitNew(w)
BY DEF Next, jvars, PutObject, CreateAgain, Reacquire, Acquire, Release,
       Prepare, SubmitReplay, SubmitRefused

(* An admission creates no Run and leaves every Run its Contract.          *)
LEMMA ContractsKept ==
    ASSUME TypeOK, NEW w \in Workers, SubmitNew(w), NEW r \in Runs
    PROVE  /\ run'[r] # None <=> run[r] # None
           /\ run'[r].contract = run[r].contract
<1>1. PICK status \in Statuses :
         /\ AdmittedRow(run[req[w].run], req[w].batch, status) \in Row
         /\ run' = [run EXCEPT ![req[w].run] =
                      AdmittedRow(run[req[w].run], req[w].batch, status)]
  BY SubmitNewEffect
<1>2. req[w].run \in Runs /\ run[req[w].run] # None
  BY SubmitNewEffect
<1>3. CASE r = req[w].run
  BY <1>1, <1>2, <1>3, NullAssumption DEF TypeOK, AdmittedRow
<1>4. CASE r # req[w].run
  BY <1>1, <1>4 DEF TypeOK
<1> QED
  BY <1>3, <1>4

(* Histories only grow: no step changes or removes an admitted Event.      *)
LEMMA HistoryGrows ==
    ASSUME TypeOK, ProjectionMatchesHistory, [Next]_jvars, NEW r \in Runs
    PROVE  /\ Len(log[r]) \in Nat /\ Len(log'[r]) \in Nat
           /\ Len(log[r]) <= Len(log'[r])
           /\ \A i \in 1 .. Len(log[r]) : log'[r][i] = log[r][i]
<1>1. log[r] \in Seq(Event) /\ Len(log[r]) \in Nat
  BY LenProperties DEF TypeOK
<1> DEFINE Grown == /\ Len(log'[r]) \in Nat
                    /\ Len(log[r]) <= Len(log'[r])
                    /\ \A i \in 1 .. Len(log[r]) : log'[r][i] = log[r][i]
<1>2. ASSUME log'[r] = log[r] PROVE Grown
  BY <1>1, <1>2
<1>3. ASSUME NEW w \in Workers, NEW c \in Contracts, CreateNew(w, c), c.run = r
      PROVE  Grown
  <2>1. Len(log[r]) = 0 /\ Len(log'[r]) = 1
    BY <1>3 DEF CreateNew, ProjectionMatchesHistory, TypeOK
  <2> QED
    BY <2>1
<1>4. ASSUME NEW w \in Workers, SubmitNew(w), req[w].run = r
      PROVE  Grown
  <2> DEFINE b == req[w].batch
             n == req[w].expected
  <2>1. b \in Batches /\ n \in Nat /\ log'[r] = log[r] \o Stamped(b, n)
    BY <1>4, SubmitNewEffect DEF TypeOK
  <2>2. Len(b) \in Nat
    BY <2>1, StampedType
  <2> HIDE DEF b, n
  <2>3. /\ Len(log[r] \o Stamped(b, n)) = Len(log[r]) + Len(b)
        /\ \A i \in 1 .. Len(log[r]) : (log[r] \o Stamped(b, n))[i] = log[r][i]
    BY <2>1, <1>1, ExtendedHistory
  <2> QED
    BY <2>1, <2>2, <2>3, <1>1
<1>5. \/ log'[r] = log[r]
      \/ \E w \in Workers, c \in Contracts : CreateNew(w, c) /\ c.run = r
      \/ \E w \in Workers : SubmitNew(w) /\ req[w].run = r
  BY Writers DEF CreateNew, SubmitNew, TypeOK
<1> QED
  BY <1>1, <1>2, <1>3, <1>4, <1>5

(* A lease row always fences the head of a Run that can still go on.       *)
THEOREM LeasesPinHeads == Spec => []LeasePinsHead
<1>1. Init => LeasePinsHead
  BY DEF Init, LeasePinsHead
<1>2. TypeOK /\ LeasePinsHead /\ [Next]_jvars => LeasePinsHead'
  <2> SUFFICES ASSUME TypeOK, LeasePinsHead, [Next]_jvars,
                      NEW r \in Runs, lease'[r] # None
               PROVE  (Leasable(r) /\ lease[r].run = r /\ lease[r].rev = run[r].revision)'
    BY DEF LeasePinsHead, Leasable
  <2>1. CASE UNCHANGED <<run, lease>>
    BY <2>1 DEF LeasePinsHead, Leasable, Exists
  <2>2. ASSUME NEW w \in Workers, NEW c \in Contracts, CreateNew(w, c)
        PROVE  (Leasable(r) /\ lease[r].run = r /\ lease[r].rev = run[r].revision)'
    <3>1. Leasable(r) /\ r # c.run
      BY <2>2 DEF CreateNew, LeasePinsHead, Leasable
    <3>2. run'[r] = run[r]
      BY <2>2, <3>1 DEF CreateNew, TypeOK
    <3> QED
      BY <2>2, <3>1, <3>2 DEF CreateNew, LeasePinsHead, Leasable, Exists
  <2>3. ASSUME NEW w \in Workers, NEW s \in Runs, Acquire(w, s)
        PROVE  (Leasable(r) /\ lease[r].run = r /\ lease[r].rev = run[r].revision)'
    BY <2>3 DEF Acquire, NewLease, LeasePinsHead, Leasable, Exists, TypeOK
  <2>4. ASSUME NEW w \in Workers, Release(w)
        PROVE  (Leasable(r) /\ lease[r].run = r /\ lease[r].rev = run[r].revision)'
    <3>1. lease'[r] = lease[r] /\ run' = run
      BY <2>4 DEF Release, TypeOK, Lease
    <3> QED
      BY <3>1 DEF LeasePinsHead, Leasable, Exists
  <2>5. ASSUME NEW w \in Workers, SubmitNew(w)
        PROVE  (Leasable(r) /\ lease[r].run = r /\ lease[r].rev = run[r].revision)'
    <3>1. lease' = [lease EXCEPT ![req[w].run] = None]
      BY <2>5 DEF SubmitNew
    <3>2. r # req[w].run /\ lease'[r] = lease[r]
      BY <3>1 DEF TypeOK
    <3>3. run'[r] = run[r]
      BY <2>5, <3>2, SubmitNewEffect DEF TypeOK
    <3> QED
      BY <3>2, <3>3 DEF LeasePinsHead, Leasable, Exists
  <2>6. \/ UNCHANGED <<run, lease>>
        \/ \E w \in Workers, c \in Contracts : CreateNew(w, c)
        \/ \E w \in Workers, s \in Runs : Acquire(w, s)
        \/ \E w \in Workers : Release(w) \/ SubmitNew(w)
    BY DEF Next, jvars, PutObject, CreateAgain, Reacquire,
           Prepare, SubmitReplay, SubmitRefused
  <2> QED
    BY <2>1, <2>2, <2>3, <2>4, <2>5, <2>6
<1> QED
  BY <1>1, <1>2, Typing, PTL DEF Spec

(* Retries are safe to refuse: a resubmitted batch that is stored is never
   answered with a refusal.                                                *)
THEOREM RefusalsAreHonest == Spec => RefusalMeansAbsent
<1>1. TypeOK /\ [Next]_jvars =>
        [\A w \in Workers :
           req[w] # None /\ reply'[w] # reply[w]
            /\ reply'[w] = [op |-> "append", to |-> req[w], result |-> "refused"]
            => ~StoredExactly(req[w])]_jvars
  <2> SUFFICES ASSUME TypeOK, [Next]_jvars, NEW w \in Workers,
                      req[w] # None, reply'[w] # reply[w],
                      reply'[w] = [op |-> "append", to |-> req[w], result |-> "refused"],
                      StoredExactly(req[w])
               PROVE  FALSE
    OBVIOUS
  <2> DEFINE q == req[w]
             e == log[q.run][q.expected + 1]
  <2>1. /\ q.batch \in Batches /\ q.run \in Runs /\ q.expected \in Nat
        /\ log[q.run] \in Seq(Event) /\ Len(log[q.run]) \in Nat
    <3>1. q \in Request
      BY DEF TypeOK
    <3>2. q.batch \in Batches /\ q.run \in Runs /\ q.expected \in Nat
      BY <3>1 DEF Request
    <3>3. log[q.run] \in Seq(Event)
      BY <3>2 DEF TypeOK
    <3> QED
      BY <3>2, <3>3, LenProperties
  <2>2. 1 \in 1 .. Len(q.batch) /\ DOMAIN q.batch = 1 .. Len(q.batch)
    <3> HIDE DEF q
    <3>1. Len(q.batch) \in Nat \ {0} /\ DOMAIN q.batch = 1 .. Len(q.batch)
      BY <2>1, StampedType
    <3> QED
      BY <3>1
  <2>3. q.expected + 1 \in DOMAIN log[q.run] /\ e.id = q.batch[1].id
    <3>1. e = Stamped(q.batch, q.expected)[1]
      BY <2>2 DEF StoredExactly
    <3>2. e.id = q.batch[1].id
      <4> HIDE DEF q
      <4>1. Stamped(q.batch, q.expected)[1].id = q.batch[1].id
        BY <2>1, <2>2, StampedFields
      <4> QED
        BY <4>1, <3>1
    <3>3. q.expected + 1 \in 1 .. Len(log[q.run])
      BY <2>1, <2>2 DEF StoredExactly
    <3> QED
      BY <3>2, <3>3, <2>1, LenProperties
  <2>4. SeenBefore(q)
    <3>1. q.batch[1].id \in Ids(q.batch) /\ q.batch[1].id \in Ids(log[q.run])
      BY <2>2, <2>3 DEF Ids
    <3> QED
      BY <3>1, <2>1 DEF SeenBefore, AllAdmitted, Admitted
  <2>5. SubmitRefused(w)
    <3>1. \/ reply' = reply
          \/ \E v \in Workers, c \in Contracts : CreateNew(v, c) \/ CreateAgain(v, c)
          \/ \E v \in Workers, r \in Runs, b \in Batches : Prepare(v, r, b)
          \/ \E v \in Workers : SubmitNew(v) \/ SubmitReplay(v) \/ SubmitRefused(v)
      BY DEF Next, jvars, PutObject, Reacquire, Acquire, Release
    <3>2. ASSUME NEW v \in Workers, NEW x, NEW op, NEW to,
                 reply' = [reply EXCEPT ![v] = [op |-> op, to |-> to, result |-> x]]
          PROVE  v = w /\ op = "append" /\ x = "refused"
      BY <3>2 DEF TypeOK
    <3>3. ASSUME NEW v \in Workers, NEW c \in Contracts, CreateNew(v, c) \/ CreateAgain(v, c)
          PROVE  FALSE
      BY <3>2, <3>3 DEF CreateNew, CreateAgain, Answer
    <3>4. ASSUME NEW v \in Workers, NEW r \in Runs, NEW b \in Batches, Prepare(v, r, b)
          PROVE  FALSE
      <4>1. reply'[w] = None
        BY <3>4 DEF Prepare, TypeOK
      <4>2. req[w] \in Request
        BY DEF TypeOK
      <4> QED
        BY <4>1, <4>2, NullAssumption DEF Reply, Results
    <3>5. ASSUME NEW v \in Workers, SubmitNew(v) \/ SubmitReplay(v)
          PROVE  FALSE
      <4>1. PICK x \in {"created", "existing"} :
               reply' = [reply EXCEPT ![v] =
                           [op |-> "append", to |-> req[v], result |-> x]]
        BY <3>5 DEF SubmitNew, SubmitReplay, Answer
      <4>2. x = "refused"
        BY <3>2, <4>1
      <4> QED
        BY <4>1, <4>2
    <3>6. ASSUME NEW v \in Workers, SubmitRefused(v) PROVE v = w
      <4>1. reply' = [reply EXCEPT ![v] =
                        [op |-> "append", to |-> req[v], result |-> "refused"]]
        BY <3>6 DEF SubmitRefused, Answer
      <4> QED
        BY <3>2, <4>1
    <3> QED
      BY <3>1, <3>3, <3>4, <3>5, <3>6
  <2> QED
    BY <2>4, <2>5 DEF SubmitRefused
<1> QED
  BY <1>1, Typing, PTL DEF Spec, RefusalMeansAbsent

-----------------------------------------------------------------------------
(* The batch a request carries was published before it can be submitted.   *)
RequestsPublished ==
    \A w \in Workers : req[w] # None =>
        \A i \in DOMAIN req[w].batch :
            req[w].batch[i].payload \in cas /\ req[w].batch[i].refs \subseteq cas

(* Nothing in the Journal points at a missing object.                      *)
THEOREM ReferencesAlwaysPublished == Spec => []ReferencesPublished
<1> DEFINE Inv == ReferencesPublished /\ RequestsPublished
<1>1. Init => Inv
  BY DEF Init, ReferencesPublished, RequestsPublished, Exists
<1>2. TypeOK /\ Inv /\ [Next]_jvars => Inv'
  <2> SUFFICES ASSUME TypeOK, Inv, [Next]_jvars PROVE Inv'
    OBVIOUS
  <2>1. cas \subseteq cas'
    BY DEF Next, jvars, PutObject, CreateNew, CreateAgain, Reacquire, Acquire, Release,
           Prepare, SubmitNew, SubmitReplay, SubmitRefused
  <2>2. RequestsPublished'
    <3>1. CASE req' = req
      BY <3>1, <2>1 DEF RequestsPublished
    <3>2. ASSUME NEW w \in Workers, NEW r \in Runs, NEW b \in Batches, Prepare(w, r, b)
          PROVE  RequestsPublished'
      <4>1. PICK n : req' = [req EXCEPT ![w] = [run |-> r, batch |-> b, expected |-> n]]
        BY <3>2 DEF Prepare
      <4>2. \A i \in DOMAIN b : b[i].payload \in cas' /\ b[i].refs \subseteq cas'
        BY <3>2 DEF Prepare, Payloads
      <4>3. \A v \in Workers : v # w => req'[v] = req[v]
        BY <4>1
      <4>4. req'[w].batch = b
        BY <4>1 DEF TypeOK
      <4> QED
        BY <4>2, <4>3, <4>4, <2>1 DEF RequestsPublished
    <3>3. req' = req \/ \E w \in Workers, r \in Runs, b \in Batches : Prepare(w, r, b)
      BY DEF Next, jvars, PutObject, CreateNew, CreateAgain, Reacquire, Acquire, Release,
             SubmitNew, SubmitReplay, SubmitRefused
    <3> QED
      BY <3>1, <3>2, <3>3
  <2>3. ReferencesPublished'
    <3>1. CASE UNCHANGED <<run, log>>
      BY <3>1, <2>1 DEF ReferencesPublished, Exists
    <3>2. ASSUME NEW w \in Workers, NEW c \in Contracts, CreateNew(w, c)
          PROVE  ReferencesPublished'
      <4>1. /\ run' = [run EXCEPT ![c.run] = NewRow(c)]
            /\ log' = [log EXCEPT ![c.run] = <<CreationEvent(c)>>]
            /\ c.obj \in cas' /\ c.run \in Runs
        BY <3>2, CreationType DEF CreateNew, Contract
      <4>2. \A r \in Runs \ {c.run} : run'[r] = run[r] /\ log'[r] = log[r]
        BY <4>1 DEF TypeOK
      <4>3. run'[c.run].contract.obj \in cas'
        BY <4>1 DEF TypeOK, NewRow
      <4>4. /\ log'[c.run] = <<CreationEvent(c)>>
            /\ CreationEvent(c).payload \in cas' /\ CreationEvent(c).refs \subseteq cas'
        BY <4>1 DEF TypeOK, CreationEvent
      <4>5. \A i \in DOMAIN log'[c.run] : log'[c.run][i] = CreationEvent(c)
        BY <4>4
      <4> QED
        BY <4>2, <4>3, <4>4, <4>5, <2>1 DEF ReferencesPublished, Exists
    <3>3. ASSUME NEW w \in Workers, SubmitNew(w) PROVE ReferencesPublished'
      <4> DEFINE q == req[w]
                 b == q.batch
                 n == q.expected
      <4>1. /\ q.run \in Runs /\ b \in Batches /\ n \in Nat /\ q # None
            /\ run[q.run] # None /\ log[q.run] \in Seq(Event)
            /\ log' = [log EXCEPT ![q.run] = @ \o Stamped(b, n)]
        BY <3>3, SubmitNewEffect DEF TypeOK, SubmitNew
      <4>2. /\ \A r \in Runs : Exists(r)' => Exists(r) /\ run'[r].contract = run[r].contract
            /\ cas' = cas
        BY <3>3, ContractsKept DEF Exists, SubmitNew
      <4>3. \A i \in 1 .. Len(b) : /\ Stamped(b, n)[i].payload \in cas
                                  /\ Stamped(b, n)[i].refs \subseteq cas
        <5>1. \A i \in DOMAIN b : b[i].payload \in cas /\ b[i].refs \subseteq cas
          BY <4>1 DEF RequestsPublished
        <5> HIDE DEF b, n
        <5>2. DOMAIN b = 1 .. Len(b)
          BY <4>1, StampedType
        <5> QED
          BY <4>1, <5>1, <5>2, StampedFields
      <4>4. \A i \in DOMAIN log'[q.run] :
               log'[q.run][i].payload \in cas /\ log'[q.run][i].refs \subseteq cas
        <5> DEFINE s == log[q.run]
                   e == s \o Stamped(b, n)
        <5>1. \A i \in DOMAIN s : s[i].payload \in cas /\ s[i].refs \subseteq cas
          BY <4>1 DEF ReferencesPublished
        <5>2. log'[q.run] = e
          BY <4>1 DEF TypeOK
        <5> HIDE DEF b, n, s
        <5>3. /\ DOMAIN e = 1 .. Len(s) + Len(b) /\ Len(s) \in Nat
              /\ \A i \in 1 .. Len(s) : e[i] = s[i]
              /\ \A i \in 1 .. Len(b) : e[Len(s) + i] = Stamped(b, n)[i]
          BY <4>1, ExtendedHistory DEF s
        <5>4. DOMAIN s = 1 .. Len(s) /\ Len(b) \in Nat
          BY <4>1, StampedType, LenProperties DEF s
        <5>5. ASSUME NEW i \in DOMAIN e
              PROVE  e[i].payload \in cas /\ e[i].refs \subseteq cas
          <6> HIDE DEF e
          <6>1. CASE i <= Len(s)
            BY <6>1, <5>1, <5>3, <5>4
          <6>2. CASE ~(i <= Len(s))
            <7>1. i - Len(s) \in 1 .. Len(b) /\ Len(s) + (i - Len(s)) = i
              BY <6>2, <5>3, <5>4
            <7> QED
              BY <7>1, <5>3, <4>3
          <6> QED
            BY <6>1, <6>2
        <5> QED
          BY <5>2, <5>5
      <4>5. \A r \in Runs \ {q.run} : log'[r] = log[r]
        BY <4>1 DEF TypeOK
      <4> QED
        BY <4>2, <4>4, <4>5 DEF ReferencesPublished
    <3> QED
      BY <3>1, <3>2, <3>3, Writers
  <2> QED
    BY <2>2, <2>3
<1> QED
  BY <1>1, <1>2, Typing, PTL DEF Spec

-----------------------------------------------------------------------------
(* A Run's row names a Contract of that very Run.                          *)
OwnContract == \A r \in Runs : Exists(r) => run[r].contract.run = r

(* After the creation Event, a history holds only submitted Events.        *)
FromBatches ==
    \A r \in Runs : \A i \in DOMAIN log[r] :
        i > 1 => \E b \in Batches : \E j \in DOMAIN b : log[r][i].id = b[j].id

(* A caller reference never names two Runs.                                *)
THEOREM CallersBindOneRun == Spec => []OneRunPerCaller
<1>1. Init => OneRunPerCaller
  BY DEF Init, OneRunPerCaller, Exists
<1>2. TypeOK /\ OneRunPerCaller /\ [Next]_jvars => OneRunPerCaller'
  <2> SUFFICES ASSUME TypeOK, OneRunPerCaller, [Next]_jvars PROVE OneRunPerCaller'
    OBVIOUS
  <2>1. CASE UNCHANGED <<run, log>>
    BY <2>1 DEF OneRunPerCaller, Exists
  <2>2. ASSUME NEW w \in Workers, NEW c \in Contracts, CreateNew(w, c)
        PROVE  OneRunPerCaller'
    <3>1. /\ run' = [run EXCEPT ![c.run] = NewRow(c)]
          /\ \A r \in Runs : run[r] # None => run[r].contract.caller # c.caller
      BY <2>2 DEF CreateNew, CallerBound, Exists
    <3>2. \A r \in Runs : run'[r] = IF r = c.run THEN NewRow(c) ELSE run[r]
      BY <3>1 DEF TypeOK
    <3>3. NewRow(c).contract = c
      BY DEF NewRow
    <3> QED
      BY <3>1, <3>2, <3>3 DEF OneRunPerCaller, Exists
  <2>3. ASSUME NEW w \in Workers, SubmitNew(w) PROVE OneRunPerCaller'
    BY <2>3, ContractsKept DEF OneRunPerCaller, Exists
  <2> QED
    BY <2>1, <2>2, <2>3, Writers
<1> QED
  BY <1>1, <1>2, Typing, PTL DEF Spec

(* Every Run keeps the Contract that opened it, and its later Events are
   Events somebody submitted.                                              *)
LEMMA Provenance == Spec => [](OwnContract /\ FromBatches)
<1> DEFINE Inv == OwnContract /\ FromBatches
<1>1. Init => Inv
  BY DEF Init, OwnContract, FromBatches, Exists
<1>2. TypeOK /\ Inv /\ [Next]_jvars => Inv'
  <2> SUFFICES ASSUME TypeOK, Inv, [Next]_jvars PROVE Inv'
    OBVIOUS
  <2>1. CASE UNCHANGED <<run, log>>
    BY <2>1 DEF OwnContract, FromBatches, Exists
  <2>2. ASSUME NEW w \in Workers, NEW c \in Contracts, CreateNew(w, c)
        PROVE  Inv'
    <3>1. \A r \in Runs : run'[r] = IF r = c.run THEN NewRow(c) ELSE run[r]
      BY <2>2 DEF CreateNew, TypeOK
    <3>2. \A r \in Runs : log'[r] = IF r = c.run THEN <<CreationEvent(c)>> ELSE log[r]
      BY <2>2 DEF CreateNew, TypeOK
    <3>3. OwnContract'
      BY <3>1 DEF OwnContract, Exists, NewRow
    <3>4. FromBatches'
      BY <3>2 DEF FromBatches
    <3> QED
      BY <3>3, <3>4
  <2>3. ASSUME NEW w \in Workers, SubmitNew(w) PROVE Inv'
    <3>1. OwnContract'
      BY <2>3, ContractsKept DEF OwnContract, Exists
    <3> DEFINE q == req[w]
               b == q.batch
               n == q.expected
               s == log[q.run]
               e == s \o Stamped(b, n)
    <3>2. /\ q.run \in Runs /\ b \in Batches /\ n \in Nat /\ s \in Seq(Event)
          /\ \A r \in Runs : log'[r] = IF r = q.run THEN e ELSE log[r]
      BY <2>3, SubmitNewEffect DEF TypeOK
    <3>3. \A i \in DOMAIN s : i > 1 => \E d \in Batches : \E j \in DOMAIN d : s[i].id = d[j].id
      BY <3>2 DEF FromBatches
    <3> HIDE DEF b, n, s
    <3>4. /\ DOMAIN e = 1 .. Len(s) + Len(b) /\ Len(s) \in Nat
          /\ \A i \in 1 .. Len(s) : e[i] = s[i]
          /\ \A i \in 1 .. Len(b) : e[Len(s) + i] = Stamped(b, n)[i]
          /\ DOMAIN s = 1 .. Len(s) /\ DOMAIN b = 1 .. Len(b) /\ Len(b) \in Nat
      BY <3>2, ExtendedHistory, StampedType, LenProperties
    <3>5. ASSUME NEW i \in DOMAIN e, i > 1
          PROVE  \E d \in Batches : \E j \in DOMAIN d : e[i].id = d[j].id
      <4> HIDE DEF e
      <4>1. CASE i <= Len(s)
        BY <4>1, <3>3, <3>4, <3>5
      <4>2. CASE ~(i <= Len(s))
        <5>1. i - Len(s) \in 1 .. Len(b) /\ Len(s) + (i - Len(s)) = i
          BY <4>2, <3>4
        <5>2. Stamped(b, n)[i - Len(s)].id = b[i - Len(s)].id
          BY <5>1, <3>2, StampedFields
        <5> QED
          BY <5>1, <5>2, <3>2, <3>4
      <4> QED
        BY <4>1, <4>2
    <3> HIDE DEF e
    <3>6. FromBatches'
      BY <3>2, <3>5 DEF FromBatches
    <3> QED
      BY <3>1, <3>6
  <2> QED
    BY <2>1, <2>2, <2>3, Writers
<1> QED
  BY <1>1, <1>2, Typing, PTL DEF Spec

(* No Event identity is ever admitted twice, in one Run or in two.         *)
THEOREM EventsAdmittedOnce == Spec => []AdmittedOnce
<1>1. Init => AdmittedOnce
  BY DEF Init, AdmittedOnce
<1>2. /\ TypeOK /\ ProjectionMatchesHistory /\ OwnContract /\ FromBatches
      /\ AdmittedOnce /\ [Next]_jvars
      => AdmittedOnce'
  <2> SUFFICES ASSUME TypeOK, ProjectionMatchesHistory, OwnContract, FromBatches,
                      AdmittedOnce, [Next]_jvars
               PROVE  AdmittedOnce'
    OBVIOUS
  <2>1. CASE UNCHANGED <<run, log>>
    BY <2>1 DEF AdmittedOnce
  <2>2. ASSUME NEW w \in Workers, NEW c \in Contracts, CreateNew(w, c)
        PROVE  AdmittedOnce'
    <3>1. \A r \in Runs : log'[r] = IF r = c.run THEN <<CreationEvent(c)>> ELSE log[r]
      BY <2>2 DEF CreateNew, TypeOK
    <3>2. ASSUME NEW r \in Runs, r # c.run, NEW i \in DOMAIN log[r]
          PROVE  log[r][i].id # c.creation
      <4>1. Exists(r) /\ HistoryAgrees(run[r], log[r]) /\ log[r] \in Seq(Event)
        BY <3>2 DEF ProjectionMatchesHistory, TypeOK
      <4>2. i \in Nat \ {0}
        BY <4>1, LenProperties
      <4>3. CASE i = 1
        <5>1. run[r] \in Row /\ run[r].contract \in Contracts /\ run[r].contract.run = r
          BY <4>1 DEF TypeOK, Exists, Row, OwnContract
        <5>2. log[r][i].id = run[r].contract.creation
          BY <4>1, <4>3 DEF HistoryAgrees, CreationEvent
        <5> QED
          BY <5>1, <5>2, <3>2, ContractsAssumption
      <4>4. CASE i > 1
        BY <4>4, ContractsAssumption DEF FromBatches
      <4> QED
        BY <4>2, <4>3, <4>4
    <3>3. CreationEvent(c).id = c.creation
      BY DEF CreationEvent
    <3> QED
      BY <3>1, <3>2, <3>3 DEF AdmittedOnce
  <2>3. ASSUME NEW w \in Workers, SubmitNew(w) PROVE AdmittedOnce'
    <3> DEFINE q == req[w]
               b == q.batch
               n == q.expected
               s == log[q.run]
               e == s \o Stamped(b, n)
    <3>1. /\ q.run \in Runs /\ b \in Batches /\ n \in Nat /\ s \in Seq(Event)
          /\ \A r \in Runs : log'[r] = IF r = q.run THEN e ELSE log[r]
      BY <2>3, SubmitNewEffect DEF TypeOK
    <3>2. \A j \in DOMAIN b : \A r \in Runs : \A i \in DOMAIN log[r] :
             log[r][i].id # b[j].id
      <4>1. ~SeenBefore(q)
        BY <2>3 DEF SubmitNew
      <4>2. \A r \in Runs : Ids(b) \cap Ids(log[r]) = {}
        BY <4>1 DEF SeenBefore, AllAdmitted, Admitted
      <4> QED
        BY <4>2 DEF Ids
    <3>3. \A i, j \in DOMAIN b : b[i].id = b[j].id => i = j
      BY <3>1, BatchesAssumption
    <3>4. \A i, j \in DOMAIN s : s[i].id = s[j].id => i = j
      BY <3>1 DEF AdmittedOnce
    <3>5. \A j \in DOMAIN b : \A i \in DOMAIN s : s[i].id # b[j].id
      BY <3>1, <3>2
    <3>6. \A r \in Runs \ {q.run} : \A i \in DOMAIN s, k \in DOMAIN log[r] :
             s[i].id # log[r][k].id
      BY <3>1 DEF AdmittedOnce
    <3> HIDE DEF b, n, s
    <3>7. /\ DOMAIN e = 1 .. Len(s) + Len(b) /\ Len(s) \in Nat
          /\ \A i \in 1 .. Len(s) : e[i] = s[i]
          /\ \A i \in 1 .. Len(b) : e[Len(s) + i] = Stamped(b, n)[i]
          /\ DOMAIN s = 1 .. Len(s) /\ DOMAIN b = 1 .. Len(b) /\ Len(b) \in Nat
      <4>1. b \in Batches /\ n \in Nat /\ s \in Seq(Event)
        BY <3>1
      <4> HIDE DEF q
      <4>2. /\ DOMAIN e = 1 .. Len(s) + Len(b) /\ Len(s) \in Nat
            /\ \A i \in 1 .. Len(s) : e[i] = s[i]
            /\ \A i \in 1 .. Len(b) : e[Len(s) + i] = Stamped(b, n)[i]
        BY <4>1, ExtendedHistory
      <4>3. DOMAIN s = 1 .. Len(s) /\ DOMAIN b = 1 .. Len(b) /\ Len(b) \in Nat
        BY <4>1, StampedType, LenProperties
      <4> QED
        BY <4>2, <4>3
    <3> HIDE DEF e
    <3>8. \A i \in DOMAIN e :
             \/ i \in DOMAIN s /\ e[i].id = s[i].id
             \/ \E j \in DOMAIN b : i = Len(s) + j /\ e[i].id = b[j].id
      <4>1. SUFFICES ASSUME NEW i \in DOMAIN e, i \notin DOMAIN s
                     PROVE  \E j \in DOMAIN b : i = Len(s) + j /\ e[i].id = b[j].id
        BY <3>7
      <4>2. i - Len(s) \in 1 .. Len(b) /\ i = Len(s) + (i - Len(s))
        BY <4>1, <3>7
      <4>3. Stamped(b, n)[i - Len(s)].id = b[i - Len(s)].id
        BY <4>2, <3>1, StampedFields
      <4> QED
        BY <4>2, <4>3, <3>7
    <3>9. \A i, j \in DOMAIN e : e[i].id = e[j].id => i = j
      BY <3>3, <3>4, <3>5, <3>8
    <3>10. \A r \in Runs \ {q.run} : \A i \in DOMAIN e, k \in DOMAIN log[r] :
              e[i].id # log[r][k].id
      BY <3>2, <3>6, <3>8
    <3>11. \A r, t \in Runs \ {q.run} : \A i \in DOMAIN log[r], k \in DOMAIN log[t] :
              log[r][i].id = log[t][k].id => r = t /\ i = k
      BY DEF AdmittedOnce
    <3> QED
      BY <3>1, <3>9, <3>10, <3>11 DEF AdmittedOnce
  <2> QED
    BY <2>1, <2>2, <2>3, Writers
<1> QED
  BY <1>1, <1>2, Typing, HistoryAlwaysAgrees, Provenance, PTL DEF Spec

-----------------------------------------------------------------------------
(* StoredExactly, of the state after a step.                               *)
StoredAfter(q) ==
    /\ q.expected + Len(q.batch) <= Len(log'[q.run])
    /\ \A i \in 1 .. Len(q.batch) :
          log'[q.run][q.expected + i] = Stamped(q.batch, q.expected)[i]

(* A stored batch stays stored where it is: nothing rewrites a history.    *)
LEMMA StoredStays ==
    ASSUME TypeOK, ProjectionMatchesHistory, [Next]_jvars, NEW q \in Request,
           StoredExactly(q)
    PROVE  StoredAfter(q)
<1>1. q.run \in Runs /\ q.batch \in Batches /\ q.expected \in Nat
  BY DEF Request
<1>2. Len(q.batch) \in Nat
  BY <1>1, StampedType
<1>3. /\ Len(log[q.run]) \in Nat /\ Len(log'[q.run]) \in Nat
      /\ Len(log[q.run]) <= Len(log'[q.run])
      /\ \A i \in 1 .. Len(log[q.run]) : log'[q.run][i] = log[q.run][i]
  BY <1>1, HistoryGrows
<1>4. q.expected + Len(q.batch) <= Len(log'[q.run])
  BY <1>1, <1>2, <1>3 DEF StoredExactly
<1>5. ASSUME NEW i \in 1 .. Len(q.batch)
      PROVE  log'[q.run][q.expected + i] = Stamped(q.batch, q.expected)[i]
  <2>1. q.expected + i \in 1 .. Len(log[q.run])
    BY <1>1, <1>2, <1>3, <1>5 DEF StoredExactly
  <2> QED
    BY <2>1, <1>3, <1>5 DEF StoredExactly
<1> QED
  BY <1>4, <1>5 DEF StoredAfter

(* An admitted batch is stored where its request expected it.              *)
LEMMA AdmittedIsStored ==
    ASSUME TypeOK, ProjectionMatchesHistory, NEW w \in Workers, SubmitNew(w)
    PROVE  StoredAfter(req[w])
<1> DEFINE q == req[w]
           b == q.batch
           n == q.expected
           s == log[q.run]
<1>1. /\ q.run \in Runs /\ b \in Batches /\ n \in Nat
      /\ run[q.run] # None /\ run[q.run].revision = n
      /\ s \in Seq(Event)
      /\ log'[q.run] = s \o Stamped(b, n)
  BY SubmitNewEffect DEF TypeOK
<1>2. n = Len(s)
  BY <1>1 DEF ProjectionMatchesHistory, Exists, HistoryAgrees
<1>3. /\ Len(log'[q.run]) = n + Len(b) /\ Len(b) \in Nat
      /\ \A i \in 1 .. Len(b) : log'[q.run][n + i] = Stamped(b, n)[i]
  <2>1. b \in Batches /\ n \in Nat /\ s \in Seq(Event) /\ n = Len(s)
        /\ log'[q.run] = s \o Stamped(b, n)
    BY <1>1, <1>2
  <2> HIDE DEF q, b, n, s
  <2>2. /\ Len(s \o Stamped(b, n)) = Len(s) + Len(b)
        /\ \A i \in 1 .. Len(b) : (s \o Stamped(b, n))[Len(s) + i] = Stamped(b, n)[i]
    BY <2>1, ExtendedHistory
  <2>3. Len(b) \in Nat
    BY <2>1, StampedType
  <2> QED
    BY <2>1, <2>2, <2>3
<1>4. n + Len(b) <= Len(log'[q.run])
  BY <1>1, <1>3
<1> QED
  BY <1>3, <1>4 DEF StoredAfter

(* Acknowledged writes are durable: what a worker was told is stored stays
   stored where it was told, whatever other workers do afterwards.         *)
THEOREM AcknowledgementsHold == Spec => []AcknowledgedIsDurable
<1>1. Init => AcknowledgedIsDurable
  BY DEF Init, AcknowledgedIsDurable
<1>2. /\ TypeOK /\ ProjectionMatchesHistory /\ AcknowledgedIsDurable /\ [Next]_jvars
      => AcknowledgedIsDurable'
  <2> SUFFICES ASSUME TypeOK, ProjectionMatchesHistory, AcknowledgedIsDurable, [Next]_jvars,
                      NEW w \in Workers, reply'[w] # None, reply'[w].result # "refused"
               PROVE  IF reply'[w].op = "create"
                        THEN /\ run'[reply'[w].to.run] # None
                             /\ run'[reply'[w].to.run].contract = reply'[w].to
                        ELSE StoredAfter(reply'[w].to)
    BY DEF AcknowledgedIsDurable, Exists, StoredExactly, StoredAfter
  <2>1. ASSUME NEW r \in Runs, run[r] # None
        PROVE  run'[r] # None /\ run'[r].contract = run[r].contract
    <3>1. ASSUME NEW v \in Workers, NEW c \in Contracts, CreateNew(v, c)
          PROVE  run'[r] = run[r]
      BY <2>1, <3>1 DEF CreateNew, Exists, TypeOK
    <3> QED
      BY <2>1, <3>1, Writers, ContractsKept
  <2>2. CASE reply'[w] = reply[w]
    <3>1. reply[w] \in Reply
      BY <2>2 DEF TypeOK
    <3>2. CASE reply[w].op = "create"
      <4>1. reply[w].to \in Contracts
        BY <3>1, <3>2 DEF Reply
      <4>2. reply[w].to.run \in Runs
        BY <4>1, CreationType DEF Contract
      <4> QED
        BY <2>1, <2>2, <3>2, <4>2 DEF AcknowledgedIsDurable, Exists
    <3>3. CASE reply[w].op # "create"
      <4>1. reply[w].to \in Request
        BY <3>1, <3>3 DEF Reply
      <4>2. StoredExactly(reply[w].to)
        BY <2>2, <3>3 DEF AcknowledgedIsDurable
      <4>3. StoredAfter(reply[w].to)
        BY <4>1, <4>2, StoredStays
      <4> QED
        BY <4>3, <2>2, <3>3
    <3> QED
      BY <3>2, <3>3
  <2>3. ASSUME NEW v \in Workers, NEW x, NEW op, NEW to,
               reply' = [reply EXCEPT ![v] = [op |-> op, to |-> to, result |-> x]],
               reply'[w] # reply[w]
        PROVE  v = w /\ reply'[w] = [op |-> op, to |-> to, result |-> x]
    BY <2>3 DEF TypeOK
  <2>4. ASSUME NEW v \in Workers, NEW c \in Contracts, CreateNew(v, c),
               reply'[w] # reply[w]
        PROVE  /\ reply'[w].op = "create" /\ reply'[w].to = c
               /\ run'[c.run] # None /\ run'[c.run].contract = c
    <3>1. reply'[w] = [op |-> "create", to |-> c, result |-> "created"]
      BY <2>3, <2>4 DEF CreateNew, Answer
    <3>2. c.run \in Runs /\ NewRow(c) \in Row /\ NewRow(c).contract = c
      BY CreationType DEF NewRow, Row, Contract, Statuses
    <3>3. run'[c.run] = NewRow(c)
      BY <2>4, <3>2 DEF CreateNew, TypeOK
    <3> QED
      BY <3>1, <3>2, <3>3, NullAssumption
  <2>5. ASSUME NEW v \in Workers, NEW c \in Contracts, CreateAgain(v, c),
               reply'[w] # reply[w]
        PROVE  /\ reply'[w].op = "create" /\ reply'[w].to = c
               /\ run'[c.run] # None /\ run'[c.run].contract = c
    <3>1. reply'[w] = [op |-> "create", to |-> c,
                       result |-> IF Exists(c.run) /\ CreateMatches(c)
                                    THEN "existing" ELSE "refused"]
      BY <2>3, <2>5 DEF CreateAgain, Answer
    <3>2. Exists(c.run) /\ CreateMatches(c)
      BY <3>1
    <3>3. run' = run
      BY <2>5 DEF CreateAgain
    <3> QED
      BY <3>1, <3>2, <3>3 DEF Exists, CreateMatches
  <2>6. ASSUME NEW v \in Workers, SubmitNew(v), reply'[w] # reply[w]
        PROVE  reply'[w].op = "append" /\ StoredAfter(reply'[w].to)
    <3>1. v = w /\ reply'[w] = [op |-> "append", to |-> req[v], result |-> "created"]
      BY <2>3, <2>6 DEF SubmitNew, Answer
    <3>2. StoredAfter(req[v])
      BY <2>6, AdmittedIsStored
    <3> QED
      BY <3>1, <3>2
  <2>7. ASSUME NEW v \in Workers, SubmitReplay(v), reply'[w] # reply[w]
        PROVE  reply'[w].op = "append" /\ StoredAfter(reply'[w].to)
    <3>1. v = w /\ reply'[w] = [op |-> "append", to |-> req[v], result |-> "existing"]
      BY <2>3, <2>7 DEF SubmitReplay, Answer
    <3>2. StoredExactly(req[v]) /\ log' = log
      BY <2>7 DEF SubmitReplay
    <3>3. StoredAfter(req[v])
      BY <3>2 DEF StoredExactly, StoredAfter
    <3> QED
      BY <3>1, <3>3
  <2>8. ASSUME NEW v \in Workers, SubmitRefused(v), reply'[w] # reply[w]
        PROVE  FALSE
    <3>1. reply' = [reply EXCEPT ![v] =
                      [op |-> "append", to |-> req[v], result |-> "refused"]]
      BY <2>8 DEF SubmitRefused, Answer
    <3>2. reply'[w] = [op |-> "append", to |-> req[v], result |-> "refused"]
      BY <2>3, <2>8, <3>1
    <3> QED
      BY <3>2
  <2>9. ASSUME NEW v \in Workers, NEW r \in Runs, NEW b \in Batches, Prepare(v, r, b),
               reply'[w] # reply[w]
        PROVE  FALSE
    BY <2>9 DEF Prepare, TypeOK
  <2>10. \/ reply' = reply
         \/ \E v \in Workers, c \in Contracts : CreateNew(v, c) \/ CreateAgain(v, c)
         \/ \E v \in Workers, r \in Runs, b \in Batches : Prepare(v, r, b)
         \/ \E v \in Workers : SubmitNew(v) \/ SubmitReplay(v) \/ SubmitRefused(v)
    BY DEF Next, jvars, PutObject, Reacquire, Acquire, Release
  <2> QED
    BY <2>2, <2>4, <2>5, <2>6, <2>7, <2>8, <2>9, <2>10
<1> QED
  BY <1>1, <1>2, Typing, HistoryAlwaysAgrees, PTL DEF Spec

-----------------------------------------------------------------------------
(* The ledger speaks of Events in the Journal's own words.                 *)
LEMMA SameWords ==
    /\ Ledger!TerminalKinds = TerminalKinds
    /\ \A c : Ledger!CreationEvent(c) = CreationEvent(c)
    /\ \A s : Ledger!Ids(s) = Ids(s)
    /\ \A b, n : Ledger!Stamped(b, n) = Stamped(b, n)
    /\ \A b : Ledger!TerminalOnlyLast(b) <=> TerminalOnlyLast(b)
    /\ \A s : Ledger!TimesMonotone(s) <=> TimesMonotone(s)
    /\ \A b, s : Ledger!CausesKnown(b, s) <=> CausesKnown(b, s)
<1>1. Ledger!TerminalKinds = TerminalKinds
  BY DEF Ledger!TerminalKinds, TerminalKinds
<1>2. \A c : Ledger!CreationEvent(c) = CreationEvent(c)
  BY DEF Ledger!CreationEvent, CreationEvent
<1>3. \A s : Ledger!Ids(s) = Ids(s)
  BY DEF Ledger!Ids, Ids
<1>4. \A b, n : Ledger!Stamped(b, n) = Stamped(b, n)
  BY DEF Ledger!Stamped, Stamped
<1>5. \A b : Ledger!TerminalOnlyLast(b) <=> TerminalOnlyLast(b)
  BY <1>1 DEF Ledger!TerminalOnlyLast, TerminalOnlyLast
<1>6. \A s : Ledger!TimesMonotone(s) <=> TimesMonotone(s)
  BY DEF Ledger!TimesMonotone, TimesMonotone
<1>7. \A b, s : Ledger!CausesKnown(b, s) <=> CausesKnown(b, s)
  BY <1>3 DEF Ledger!CausesKnown, CausesKnown
<1> QED
  BY <1>1, <1>2, <1>3, <1>4, <1>5, <1>6, <1>7

(* The Journal implements the ledger: each creation opens a ledger, each
   admission extends one by its whole batch, and every other transaction,
   refusal, replay or lease move leaves the ledgers alone.                 *)
THEOREM JournalIsALedger == Spec => ImplementsLedger
<1> DEFINE bnd == [r \in Runs |-> IF run[r] = None THEN None ELSE run[r].contract]
<1>1. Init => Ledger!Init
  BY DEF Init, Ledger!Init
<1>2. TypeOK /\ ProjectionMatchesHistory /\ [Next]_jvars => [Ledger!Next]_Ledger!lvars
  <2> SUFFICES ASSUME TypeOK, ProjectionMatchesHistory, [Next]_jvars
               PROVE  [Ledger!Next]_Ledger!lvars
    OBVIOUS
  <2>1. CASE UNCHANGED <<run, log>>
    BY <2>1 DEF Ledger!lvars
  <2>2. ASSUME NEW w \in Workers, NEW c \in Contracts, CreateNew(w, c)
        PROVE  Ledger!Next
    <3>1. c.run \in Runs /\ NewRow(c) \in Row /\ NewRow(c) # None /\ NewRow(c).contract = c
      BY CreationType, NullAssumption DEF NewRow, Row, Contract, Statuses
    <3>2. run[c.run] = None /\ \A r \in Runs : run[r] # None => run[r].contract.caller # c.caller
      BY <2>2 DEF CreateNew, CallerBound, Exists
    <3>3. \A r \in Runs : run'[r] = IF r = c.run THEN NewRow(c) ELSE run[r]
      BY <2>2 DEF CreateNew, TypeOK
    <3>4. bnd' = [bnd EXCEPT ![c.run] = c]
      BY <3>1, <3>3
    <3>5. bnd[c.run] = None /\ \A r \in Runs : bnd[r] # None => bnd[r].caller # c.caller
      BY <3>1, <3>2
    <3>6. log' = [log EXCEPT ![c.run] = <<CreationEvent(c)>>]
      BY <2>2 DEF CreateNew
    <3> HIDE DEF bnd
    <3>7. Ledger!Open(c)
      BY <3>4, <3>5, <3>6, SameWords DEF Ledger!Open, bnd
    <3> QED
      BY <3>7 DEF Ledger!Next
  <2>3. ASSUME NEW w \in Workers, SubmitNew(w) PROVE Ledger!Next
    <3> DEFINE q == req[w]
               b == q.batch
               s == log[q.run]
    <3>1. /\ q.run \in Runs /\ b \in Batches /\ run[q.run] \in Row
          /\ run[q.run] # None /\ run[q.run].revision = q.expected
          /\ log' = [log EXCEPT ![q.run] = @ \o Stamped(b, q.expected)]
      BY <2>3, SubmitNewEffect
    <3>2. PICK status \in Statuses : ReplaysTo(b, run[q.run].status, status)
      BY <2>3, SubmitNewEffect
    <3>3. /\ run[q.run].status \notin TerminalStatuses
          /\ TimesMonotone(b)
          /\ \A i \in DOMAIN b : b[i].at >= run[q.run].updated
          /\ TerminalOnlyLast(b)
          /\ CausesKnown(b, s)
          /\ Ids(b) \intersect AllAdmitted = {}
      BY <2>3 DEF SubmitNew, Admissible, BatchFollows, SeenBefore
    <3>4. HistoryAgrees(run[q.run], s) /\ s \in Seq(Event) /\ q.expected = Len(s)
      BY <3>1 DEF ProjectionMatchesHistory, Exists, TypeOK, HistoryAgrees
    <3>5. HistoryAgrees(AdmittedRow(run[q.run], b, status), s \o Stamped(b, Len(s)))
      BY <3>1, <3>2, <3>3, <3>4, HistoryExtends
    <3>6. bnd[q.run] # None
      <4>1. run[q.run].contract \in Contracts
        BY <3>1 DEF Row
      <4> QED
        BY <3>1, <4>1, NoneAssumption
    <3>7. \A i \in DOMAIN s : s[i].kind \notin TerminalKinds
      BY <3>3, <3>4, OpenHistory DEF HistoryAgrees
    <3>8. bnd' = bnd
      <4>1. \A r \in Runs : (run'[r] # None <=> run[r] # None) /\ run'[r].contract = run[r].contract
        BY <2>3, ContractsKept
      <4> QED
        BY <4>1
    <3>9. log' = [log EXCEPT ![q.run] = @ \o Stamped(b, Len(@))]
      BY <3>1, <3>4
    <3>10. \A t \in Runs : Ids(b) \intersect Ids(log[t]) = {}
      BY <3>3 DEF AllAdmitted, Admitted
    <3>11. TimesMonotone(s \o Stamped(b, Len(s)))
      BY <3>5 DEF HistoryAgrees
    <3> HIDE DEF b, bnd
    <3>12. Ledger!Extend(q.run, b)
      BY <3>3, <3>6, <3>7, <3>8, <3>9, <3>10, <3>11, SameWords
         DEF Ledger!Extend, Ledger!Closed, bnd
    <3> QED
      BY <3>1, <3>12 DEF Ledger!Next
  <2> QED
    BY <2>1, <2>2, <2>3, Writers
<1> QED
  BY <1>1, <1>2, Typing, HistoryAlwaysAgrees, PTL DEF Spec, ImplementsLedger, Ledger!Spec
-----------------------------------------------------------------------------
(* Doctor and backup beside the workers: Maintenance.                      *)

(* A log that grew from another one.                                       *)
Logs == [Runs -> Seq(Event)]
Extends(s, t) == Len(s) <= Len(t) /\ \A i \in 1 .. Len(s) : t[i] = s[i]
Grown(old, new) == \A r \in Runs : Extends(old[r], new[r])

Databases == [run: [Runs -> Row \union {None}], log: Logs]
Audits == [run: Runs, row: Row, verdict: {"pending", "healthy", "corrupt"}]
Backups == [at: {"begun", "copied", "published", "verified", "rejected", "restored"},
            before: Logs, db: Databases \union {None}, objects: SUBSET Objects]

(* The row an audit read is the current one or an earlier one of its Run.  *)
RowWasRead ==
    audit # None =>
        /\ audit \in Audits /\ Exists(audit.run)
        /\ \/ run[audit.run] = audit.row
           \/ run[audit.run].revision > audit.row.revision

(* What a database copy is worth by itself.                                *)
Healthy(db) ==
    \A r \in Runs : IF db.run[r] = None THEN db.log[r] = <<>>
                                        ELSE HistoryAgrees(db.run[r], db.log[r])

(* A backup is of one moment between its beginning and now; its objects are
   those of a moment no earlier, and more than its own only if the Journal
   went on in between.                                                     *)
OfOneMoment ==
    backup # None =>
        /\ backup \in Backups /\ Grown(backup.before, log)
        /\ backup.at # "begun" =>
              /\ backup.db \in Databases /\ Healthy(backup.db)
              /\ Grown(backup.before, backup.db.log) /\ Grown(backup.db.log, log)
Covered ==
    backup # None =>
        /\ backup.at = "published" =>
              /\ ObjectRefs(backup.db.log) \subseteq backup.objects
              /\ ObjectRefs(backup.db.log) # backup.objects => log # backup.db.log
        /\ backup.at = "rejected" => log # backup.db.log
        /\ backup.at \in {"verified", "restored"} => ObjectRefs(backup.db.log) = backup.objects

-----------------------------------------------------------------------------
(* Maintenance writes nothing of the Journal: all that is proved of the
   Journal holds of a maintained one.                                      *)
LEMMA MaintainedIsJournal == MaintenanceSpec => Spec
<1>1. MaintenanceInit => Init
  BY DEF MaintenanceInit, DoctorInit
<1>2. [MaintenanceNext]_<<jvars, audit, backup>> => [Next]_jvars
  BY DEF MaintenanceNext
<1> QED BY <1>1, <1>2, PTL DEF MaintenanceSpec, Spec

LEMMA Maintained == MaintenanceSpec => [](TypeOK /\ ProjectionMatchesHistory)
BY MaintainedIsJournal, Typing, HistoryAlwaysAgrees, PTL

LEMMA MaintenanceKinds ==
    ASSUME [MaintenanceNext]_<<jvars, audit, backup>>
    PROVE  \/ [Next]_jvars /\ UNCHANGED <<audit, backup>>
           \/ DoctorStep /\ UNCHANGED <<jvars, backup>>
           \/ BackupStep /\ UNCHANGED <<jvars, audit>>
BY DEF MaintenanceNext

(* A row is never replaced but by one of a later revision.                 *)
LEMMA RowsMoveOn ==
    ASSUME TypeOK, [Next]_jvars, NEW r \in Runs, run[r] # None
    PROVE  /\ run'[r] # None
           /\ run'[r] = run[r] \/ run'[r].revision > run[r].revision
<1>1. CASE UNCHANGED <<run, log>>
  BY <1>1
<1>2. ASSUME NEW w \in Workers, NEW c \in Contracts, CreateNew(w, c)
      PROVE  run'[r] = run[r]
  <2>1. c.run # r
    BY <1>2 DEF CreateNew, Exists
  <2> QED BY <1>2, <2>1 DEF CreateNew, TypeOK
<1>3. ASSUME NEW w \in Workers, SubmitNew(w)
      PROVE  run'[r] # None /\ (run'[r] = run[r] \/ run'[r].revision > run[r].revision)
  <2>1. run'[r] # None
    BY <1>3, ContractsKept
  <2>2. PICK status \in Statuses :
           run' = [run EXCEPT ![req[w].run] = AdmittedRow(run[req[w].run], req[w].batch, status)]
    BY <1>3, SubmitNewEffect
  <2>3. /\ req[w].run \in Runs /\ req[w].batch \in Batches /\ run[req[w].run] \in Row
    BY <1>3, SubmitNewEffect
  <2>4. Len(req[w].batch) \in Nat \ {0}
    BY <2>3, StampedType
  <2>5. CASE r = req[w].run
    <3>1. run'[r] = AdmittedRow(run[r], req[w].batch, status)
      BY <2>2, <2>5 DEF TypeOK
    <3>2. run'[r].revision = run[r].revision + Len(req[w].batch) /\ run[r].revision \in Nat
      BY <2>3, <2>5, <3>1 DEF AdmittedRow, Row
    <3> QED BY <2>1, <2>4, <3>2
  <2>6. CASE r # req[w].run
    BY <2>2, <2>6 DEF TypeOK
  <2> QED BY <2>1, <2>5, <2>6
<1> QED BY <1>1, <1>2, <1>3, Writers

LEMMA AuditStep ==
    TypeOK /\ TypeOK' /\ ProjectionMatchesHistory /\ RowWasRead /\ AlarmMeansRaced
        /\ [MaintenanceNext]_<<jvars, audit, backup>>
        => RowWasRead' /\ AlarmMeansRaced'
<1> SUFFICES ASSUME TypeOK, TypeOK', ProjectionMatchesHistory, RowWasRead, AlarmMeansRaced,
                    [MaintenanceNext]_<<jvars, audit, backup>>
             PROVE  RowWasRead' /\ AlarmMeansRaced'
  OBVIOUS
<1>1. CASE [Next]_jvars /\ UNCHANGED <<audit, backup>>
  <2> SUFFICES ASSUME audit # None PROVE RowWasRead' /\ AlarmMeansRaced'
    BY <1>1 DEF RowWasRead, AlarmMeansRaced
  <2>1. /\ audit \in Audits /\ audit.run \in Runs /\ run[audit.run] # None
        /\ audit.row.revision \in Nat
    BY DEF RowWasRead, Audits, Exists, Row
  <2>2. /\ run'[audit.run] # None
        /\ run'[audit.run] = run[audit.run] \/ run'[audit.run].revision > run[audit.run].revision
    BY <1>1, <2>1, RowsMoveOn
  <2>3. run[audit.run] \in Row /\ run'[audit.run].revision \in Nat
    BY <2>1, <2>2, <1>1 DEF TypeOK, Row
  <2> QED BY <1>1, <2>1, <2>2, <2>3 DEF RowWasRead, AlarmMeansRaced, Exists, Row
<1>2. ASSUME NEW r \in Runs, ReadRow(r), UNCHANGED <<jvars, backup>>
      PROVE  RowWasRead' /\ AlarmMeansRaced'
  <2>1. run[r] \in Row /\ audit' = [run |-> r, row |-> run[r], verdict |-> "pending"]
    BY <1>2 DEF ReadRow, TypeOK, Exists
  <2> QED BY <1>2, <2>1 DEF RowWasRead, AlarmMeansRaced, Audits, Exists, ReadRow, jvars
<1>3. CASE ReadEvents /\ UNCHANGED <<jvars, backup>>
  <2> DEFINE v == IF HistoryAgrees(audit.row, log[audit.run]) THEN "healthy" ELSE "corrupt"
  <2>1. audit # None /\ audit \in Audits /\ audit' = [audit EXCEPT !.verdict = v]
    BY <1>3 DEF ReadEvents, RowWasRead
  <2>2. /\ audit' \in Audits /\ audit'.run = audit.run /\ audit'.row = audit.row
        /\ audit'.verdict = v /\ audit.run \in Runs
    BY <2>1 DEF Audits
  <2>3. HistoryAgrees(run[audit.run], log[audit.run])
    BY <2>1, <2>2 DEF RowWasRead, ProjectionMatchesHistory
  <2>4. v = "corrupt" => run[audit.run] # audit.row
    BY <2>3
  <2> HIDE DEF v
  <2>5. UNCHANGED run
    BY <1>3 DEF jvars
  <2> QED BY <2>1, <2>2, <2>4, <2>5 DEF RowWasRead, AlarmMeansRaced, Exists
<1>4. CASE UNCHANGED <<jvars, audit>>
  BY <1>4 DEF RowWasRead, AlarmMeansRaced, jvars, Exists
<1> QED BY <1>1, <1>2, <1>3, <1>4, MaintenanceKinds DEF DoctorStep

(* The doctor raises only where the Journal moved on under it: a Run nobody
   writes to never alarms it.                                              *)
THEOREM AlarmsMeanRaces == MaintenanceSpec => []AlarmMeansRaced
<1> DEFINE IInv == RowWasRead /\ AlarmMeansRaced
<1>1. MaintenanceInit => IInv
  BY DEF MaintenanceInit, DoctorInit, RowWasRead, AlarmMeansRaced
<1>2. TypeOK /\ TypeOK' /\ ProjectionMatchesHistory /\ IInv /\ [MaintenanceNext]_<<jvars, audit, backup>>
         => IInv'
  BY AuditStep
<1> QED BY <1>1, <1>2, Maintained, PTL DEF MaintenanceSpec

-----------------------------------------------------------------------------
(* Growing is an order between logs.                                       *)
LEMMA GrownOrder ==
    /\ \A a \in Logs : Grown(a, a)
    /\ \A a, b, c \in Logs : Grown(a, b) /\ Grown(b, c) => Grown(a, c)
    /\ \A a, b \in Logs : Grown(a, b) /\ Grown(b, a) => a = b
<1>0. \A s \in Seq(Event) : Len(s) \in Nat /\ DOMAIN s = 1 .. Len(s)
  BY LenProperties
<1>1. \A s \in Seq(Event) : Extends(s, s)
  BY <1>0 DEF Extends
<1>2. \A s, t, u \in Seq(Event) : Extends(s, t) /\ Extends(t, u) => Extends(s, u)
  BY <1>0 DEF Extends
<1>3. ASSUME NEW s \in Seq(Event), NEW t \in Seq(Event), Extends(s, t), Extends(t, s)
      PROVE  s = t
  <2>1. Len(s) = Len(t) /\ \A i \in 1 .. Len(s) : s[i] = t[i]
    BY <1>0, <1>3 DEF Extends
  <2> QED BY <2>1, SeqEqual
<1>4. \A a \in Logs, r \in Runs : a[r] \in Seq(Event)
  BY DEF Logs
<1>5. ASSUME NEW a \in Logs, NEW b \in Logs, Grown(a, b), Grown(b, a) PROVE a = b
  <2>1. \A r \in Runs : a[r] = b[r]
    BY <1>3, <1>4, <1>5 DEF Grown
  <2> QED BY <2>1 DEF Logs
<1> QED BY <1>1, <1>2, <1>4, <1>5 DEF Grown

LEMMA GrownIsPrefix ==
    ASSUME NEW s \in Seq(Event), NEW t \in Seq(Event), Extends(s, t)
    PROVE  IsPrefix(s, t)
<1>1. Len(s) \in Nat /\ Len(t) \in Nat
  BY LenProperties
<1>2. \A i \in 1 .. Len(s) : SubSeq(s, 1, Len(s))[i] = SubSeq(t, 1, Len(s))[i]
  BY <1>1 DEF Extends
<1>3. SubSeq(s, 1, Len(s)) = SubSeq(t, 1, Len(s))
  BY <1>1, <1>2 DEF Extends
<1> QED BY <1>3 DEF Extends, IsPrefix

(* What a log references stays referenced when it grows, and is what the
   Objects of its Events are.                                              *)
LEMMA RefsGrow ==
    ASSUME NEW a \in Logs, NEW b \in Logs, Grown(a, b)
    PROVE  ObjectRefs(a) \subseteq ObjectRefs(b) /\ ObjectRefs(b) \subseteq Objects
<1>1. \A s \in Seq(Event) : DOMAIN s = 1 .. Len(s) /\ Len(s) \in Nat
  BY LenProperties
<1>2. \A r \in Runs : a[r] \in Seq(Event) /\ b[r] \in Seq(Event)
  BY DEF Logs
<1>3. \A r \in Runs : \A i \in DOMAIN a[r] : i \in DOMAIN b[r] /\ b[r][i] = a[r][i]
  BY <1>1, <1>2 DEF Grown, Extends
<1>4. \A r \in Runs : \A i \in DOMAIN b[r] : b[r][i] \in Event
  BY <1>2, ElementOfSeq
<1>5. \A e \in Event : {e.payload} \union e.refs \subseteq Objects
  BY DEF Event
<1>6. ASSUME NEW o \in ObjectRefs(a) PROVE o \in ObjectRefs(b)
  <2>1. PICK r \in Runs : \E i \in DOMAIN a[r] : o \in {a[r][i].payload} \union a[r][i].refs
    BY DEF ObjectRefs
  <2>2. \E i \in DOMAIN b[r] : o \in {b[r][i].payload} \union b[r][i].refs
    BY <1>3, <2>1
  <2> QED BY <2>2 DEF ObjectRefs
<1>7. ASSUME NEW o \in ObjectRefs(b) PROVE o \in Objects
  <2>1. PICK r \in Runs : \E i \in DOMAIN b[r] : o \in {b[r][i].payload} \union b[r][i].refs
    BY DEF ObjectRefs
  <2> QED BY <1>4, <1>5, <2>1
<1> QED BY <1>6, <1>7

LEMMA LogGrows ==
    ASSUME TypeOK, ProjectionMatchesHistory, [Next]_jvars
    PROVE  Grown(log, log')
BY HistoryGrows DEF Grown, Extends

LEMMA BackupInvInit == MaintenanceInit => OfOneMoment /\ Covered
BY DEF MaintenanceInit, BackupInit, OfOneMoment, Covered

LEMMA BackupInvStep ==
    TypeOK /\ TypeOK' /\ ProjectionMatchesHistory /\ OfOneMoment /\ Covered
        /\ [MaintenanceNext]_<<jvars, audit, backup>>
        => OfOneMoment' /\ Covered'
<1> SUFFICES ASSUME TypeOK, TypeOK', ProjectionMatchesHistory, OfOneMoment, Covered,
                    [MaintenanceNext]_<<jvars, audit, backup>>
             PROVE  OfOneMoment' /\ Covered'
  OBVIOUS
<1>0. log \in Logs /\ log' \in Logs /\ run \in [Runs -> Row \union {None}]
  BY DEF TypeOK, Logs
<1>1. CASE [Next]_jvars /\ UNCHANGED <<audit, backup>>
  <2> SUFFICES ASSUME backup # None PROVE OfOneMoment' /\ Covered'
    BY <1>1 DEF OfOneMoment, Covered
  <2>1. Grown(log, log') /\ backup \in Backups /\ Grown(backup.before, log)
    BY <1>1, LogGrows DEF OfOneMoment
  <2>2. backup.before \in Logs /\ Grown(backup.before, log')
    <3>1. backup.before \in Logs
      BY <2>1 DEF Backups
    <3> QED BY <1>0, <2>1, <3>1, GrownOrder
  <2>3. backup.at # "begun" => /\ backup.db \in Databases /\ backup.db.log \in Logs
                               /\ Grown(backup.db.log, log) /\ Grown(backup.db.log, log')
    <3>1. backup.at # "begun" => backup.db \in Databases /\ Grown(backup.db.log, log)
      BY DEF OfOneMoment
    <3>2. backup.at # "begun" => backup.db.log \in Logs
      BY <3>1 DEF Databases
    <3> QED BY <1>0, <2>1, <3>1, <3>2, GrownOrder
  <2>4. OfOneMoment'
    BY <1>1, <2>1, <2>2, <2>3 DEF OfOneMoment
  <2>5. backup.at \in {"published", "rejected"} /\ log # backup.db.log => log' # backup.db.log
    BY <1>0, <2>1, <2>3, GrownOrder
  <2>6. Covered'
    BY <1>1, <2>5 DEF Covered
  <2> QED BY <2>4, <2>6
<1>2. CASE UNCHANGED <<jvars, backup>>
  BY <1>2 DEF OfOneMoment, Covered, jvars
<1>3. CASE BackupStep /\ UNCHANGED <<jvars, audit>>
  <2>0. log' = log
    BY <1>3 DEF jvars
  <2>1. CASE Begin
    <3>1. backup' \in Backups /\ backup'.at = "begun" /\ backup'.before = log
      BY <1>0, <2>1 DEF Begin, Backups
    <3> QED BY <1>0, <2>0, <3>1, GrownOrder DEF OfOneMoment, Covered
  <2>2. CASE CopyDatabase
    <3>1. /\ backup # None /\ backup \in Backups /\ Grown(backup.before, log)
          /\ backup' = [backup EXCEPT !.at = "copied", !.db = [run |-> run, log |-> log]]
      BY <2>2 DEF CopyDatabase, OfOneMoment
    <3>2. [run |-> run, log |-> log] \in Databases
      BY <1>0 DEF Databases
    <3>3. /\ backup' \in Backups /\ backup'.at = "copied" /\ backup'.before = backup.before
          /\ backup'.db = [run |-> run, log |-> log]
      BY <3>1, <3>2 DEF Backups
    <3>4. Healthy([run |-> run, log |-> log])
      BY DEF Healthy, ProjectionMatchesHistory, Exists
    <3> QED BY <1>0, <2>0, <3>1, <3>2, <3>3, <3>4, GrownOrder DEF OfOneMoment, Covered
  <2>3. CASE CopyObjects
    <3>1. /\ backup # None /\ backup \in Backups /\ Grown(backup.before, log)
          /\ backup.db \in Databases /\ Healthy(backup.db)
          /\ Grown(backup.before, backup.db.log) /\ Grown(backup.db.log, log)
          /\ backup' = [backup EXCEPT !.at = "published", !.objects = ObjectRefs(log)]
      BY <2>3 DEF CopyObjects, OfOneMoment
    <3>2. backup.db.log \in Logs
      BY <3>1 DEF Databases
    <3>3. ObjectRefs(backup.db.log) \subseteq ObjectRefs(log) /\ ObjectRefs(log) \subseteq Objects
      BY <1>0, <3>1, <3>2, RefsGrow
    <3>4. /\ backup' \in Backups /\ backup'.at = "published" /\ backup'.before = backup.before
          /\ backup'.db = backup.db /\ backup'.objects = ObjectRefs(log)
      BY <3>1, <3>3 DEF Backups
    <3>5. OfOneMoment'
      BY <2>0, <3>1, <3>4 DEF OfOneMoment
    <3>6. ObjectRefs(backup.db.log) # ObjectRefs(log) => log # backup.db.log
      OBVIOUS
    <3>7. Covered'
      BY <2>0, <3>3, <3>4, <3>6 DEF Covered
    <3> QED BY <3>5, <3>7
  <2>4. CASE Abandon
    BY <2>4 DEF Abandon, OfOneMoment, Covered
  <2>5. CASE Verify \/ Restore
    <3> DEFINE to == IF Restore THEN "restored"
                     ELSE IF ObjectRefs(backup.db.log) = backup.objects THEN "verified" ELSE "rejected"
    <3>1. /\ backup # None /\ backup \in Backups /\ Grown(backup.before, log)
          /\ backup.db \in Databases /\ Healthy(backup.db)
          /\ Grown(backup.before, backup.db.log) /\ Grown(backup.db.log, log)
          /\ backup' = [backup EXCEPT !.at = to]
      BY <2>5 DEF Verify, Restore, OfOneMoment
    <3>2. to \in {"verified", "rejected", "restored"}
      OBVIOUS
    <3>3. /\ to \in {"verified", "restored"} => ObjectRefs(backup.db.log) = backup.objects
          /\ to = "rejected" => log # backup.db.log
      BY <2>5 DEF Restore, Verify, Covered
    <3> HIDE DEF to
    <3>4. /\ backup' \in Backups /\ backup'.at = to /\ backup'.before = backup.before
          /\ backup'.db = backup.db /\ backup'.objects = backup.objects
      BY <3>1, <3>2 DEF Backups
    <3> QED BY <2>0, <3>1, <3>2, <3>3, <3>4 DEF OfOneMoment, Covered
  <2> QED BY <1>3, <2>1, <2>2, <2>3, <2>4, <2>5 DEF BackupStep
<1> QED BY <1>1, <1>2, <1>3, MaintenanceKinds

LEMMA BackupInv == MaintenanceSpec => [](TypeOK /\ OfOneMoment /\ Covered)
<1> DEFINE IInv == OfOneMoment /\ Covered
<1>1. MaintenanceInit => IInv
  BY BackupInvInit
<1>2. TypeOK /\ TypeOK' /\ ProjectionMatchesHistory /\ IInv
         /\ [MaintenanceNext]_<<jvars, audit, backup>> => IInv'
  BY BackupInvStep
<1> QED BY <1>1, <1>2, Maintained, PTL DEF MaintenanceSpec

(* A verified backup restores, whoever wrote while it was taken: it is the
   Journal of one moment after it began, with every object it references.  *)
THEOREM VerifiedAlwaysRestores == MaintenanceSpec => []VerifiedRestores
<1>1. TypeOK /\ OfOneMoment /\ Covered => VerifiedRestores
  <2> SUFFICES ASSUME TypeOK, OfOneMoment, Covered, Verified
               PROVE  /\ DoctorAccepts(backup.db, backup.objects)
                      /\ backup.objects = ObjectRefs(backup.db.log)
                      /\ \A r \in Runs : /\ IsPrefix(backup.before[r], backup.db.log[r])
                                         /\ IsPrefix(backup.db.log[r], log[r])
    BY DEF VerifiedRestores
  <2>1. /\ backup \in Backups /\ backup.db \in Databases /\ Healthy(backup.db)
        /\ Grown(backup.before, backup.db.log) /\ Grown(backup.db.log, log)
        /\ ObjectRefs(backup.db.log) = backup.objects
    BY DEF Verified, OfOneMoment, Covered
  <2>2. \A r \in Runs : /\ backup.before[r] \in Seq(Event) /\ backup.db.log[r] \in Seq(Event)
                        /\ log[r] \in Seq(Event)
    BY <2>1 DEF Backups, Databases, Logs, TypeOK
  <2>3. \A r \in Runs : /\ IsPrefix(backup.before[r], backup.db.log[r])
                        /\ IsPrefix(backup.db.log[r], log[r])
    BY <2>1, <2>2, GrownIsPrefix DEF Grown
  <2>4. DoctorAccepts(backup.db, backup.objects)
    BY <2>1 DEF DoctorAccepts, Healthy
  <2> QED BY <2>1, <2>3, <2>4
<1> QED BY <1>1, BackupInv, PTL

(* A backup is refused only if the Journal went on after its copy.         *)
THEOREM RejectionsMeanRaces == MaintenanceSpec => []RejectionMeansRaced
<1>1. Covered => RejectionMeansRaced
  BY DEF Covered, RejectionMeansRaced
<1> QED BY <1>1, BackupInv, PTL
=============================================================================
