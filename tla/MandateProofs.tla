---------------------------- MODULE MandateProofs ----------------------------
(* What holds of every Mandate, however many attempts are made under it,      *)
(* whatever Agents choose and whichever evidence callers hand in.             *)
EXTENDS Mandate, FiniteSetTheorems, SequenceTheorems, TLAPS

-----------------------------------------------------------------------------
(* Sums over finite sets.  MapThenSumSet takes the elements of a set in the   *)
(* order CHOOSE gives; a total of a function is independent of that order.    *)

(* Among some subsets of a finite set there is one that contains no other.    *)
LEMMA SmallestSubset ==
    ASSUME NEW S, IsFiniteSet(S), NEW T \in SUBSET (SUBSET S), T # {}
    PROVE  \E x \in T : \A y \in T : y \subseteq x => y = x
<1>1. IsWellFoundedOn(StrictSubsetOrdering(S), SUBSET S)
  BY FS_StrictSubsetOrderingWellFounded, FS_FiniteSubsetsOfFinite
<1>2. PICK x \in T : \A y \in T : ~(<<y, x>> \in StrictSubsetOrdering(S))
  BY <1>1, WFMin
<1>3. ASSUME NEW y \in T, y \subseteq x PROVE y = x
  <2>1. SUFFICES ASSUME y # x PROVE FALSE
    OBVIOUS
  <2>2. <<y, x>> \in StrictSubsetOrdering(S)
    BY <1>3, <2>1 DEF StrictSubsetOrdering
  <2> QED BY <1>2, <2>2
<1> QED BY <1>3

(* g has the totals of f over the subsets of S, in whatever order.            *)
Totals(g, f, S) ==
    /\ g \in [SUBSET S -> Nat]
    /\ g[{}] = 0
    /\ \A s \in SUBSET S : \A x \in s : g[s] = f[x] + g[s \ {x}]

(* What MapThenSumSet computes.                                               *)
Iterated(g, f, S) ==
    g = [s \in SUBSET S |->
            IF s = {} THEN 0
                      ELSE LET x == CHOOSE x \in s : TRUE IN f[x] + g[s \ {x}]]

SumOf(f, S) == MapThenSumSet(LAMBDA x : f[x], S)

LEMMA TotalsExist ==
    ASSUME NEW S, IsFiniteSet(S), NEW f \in [S -> Nat]
    PROVE  \E g : Totals(g, f, S)
<1> DEFINE Bad == {s \in SUBSET S : ~ \E g : Totals(g, f, s)}
<1>1. SUFFICES ASSUME Bad # {} PROVE FALSE
  OBVIOUS
<1>2. PICK s \in Bad : \A t \in Bad : t \subseteq s => t = s
  <2> HIDE DEF Bad
  <2>1. Bad \in SUBSET (SUBSET S)
    BY DEF Bad
  <2> QED BY <1>1, <2>1, SmallestSubset
<1>3. s \in SUBSET S /\ ~ \E g : Totals(g, f, s)
  BY <1>2
<1>4. CASE s = {}
  <2> DEFINE z == [t \in SUBSET s |-> 0]
  <2>1. Totals(z, f, s)
    BY <1>4 DEF Totals
  <2> QED BY <1>3, <2>1
<1>5. CASE s # {}
  <2>1. PICK a \in s : TRUE
    BY <1>5
  <2> DEFINE r == s \ {a}
  <2>2. r \in SUBSET S /\ r \subseteq s /\ r # s
    BY <1>3, <2>1
  <2>3. r \notin Bad
    BY <1>2, <2>2
  <2>4. PICK g : Totals(g, f, r)
    BY <2>2, <2>3
  <2> DEFINE h == [t \in SUBSET s |-> IF a \in t THEN f[a] + g[t \ {a}] ELSE g[t]]
  <2>5. g \in [SUBSET r -> Nat] /\ g[{}] = 0
    BY <2>4 DEF Totals
  <2>6. ASSUME NEW t \in SUBSET r, NEW x \in t PROVE g[t] = f[x] + g[t \ {x}]
    BY <2>4, <2>6 DEF Totals
  <2>7. \A x \in s : f[x] \in Nat
    BY <1>3
  <2>8. \A t \in SUBSET s : (t \ {a} \in SUBSET r) /\ (a \notin t => t \in SUBSET r)
    OBVIOUS
  <2>9. h \in [SUBSET s -> Nat]
    <3>1. ASSUME NEW t \in SUBSET s
          PROVE  (IF a \in t THEN f[a] + g[t \ {a}] ELSE g[t]) \in Nat
      <4>1. CASE a \in t
        <5>1. g[t \ {a}] \in Nat
          BY <2>5, <2>8
        <5>2. f[a] \in Nat
          BY <2>7, <2>1
        <5> QED BY <4>1, <5>1, <5>2
      <4>2. CASE a \notin t
        BY <4>2, <2>5, <2>8
      <4> QED BY <4>1, <4>2
    <3> QED BY <3>1
  <2>10. h[{}] = 0
    BY <2>5
  <2>11. ASSUME NEW t \in SUBSET s, NEW x \in t PROVE h[t] = f[x] + h[t \ {x}]
    <3>1. t \ {x} \in SUBSET s
      OBVIOUS
    <3>2. h[t] = IF a \in t THEN f[a] + g[t \ {a}] ELSE g[t]
      OBVIOUS
    <3>3. h[t \ {x}] = IF a \in t \ {x} THEN f[a] + g[(t \ {x}) \ {a}] ELSE g[t \ {x}]
      BY <3>1
    <3> HIDE DEF h
    <3>4. CASE a \notin t
      BY <3>2, <3>3, <3>4, <2>6, <2>8
    <3>5. CASE a = x
      BY <3>2, <3>3, <3>5, <2>11
    <3>6. CASE a \in t /\ a # x
      <4>1. x \in t \ {a} /\ t \ {a} \in SUBSET r
        BY <3>6, <2>11, <2>8
      <4>2. g[t \ {a}] = f[x] + g[(t \ {a}) \ {x}]
        BY <4>1, <2>6
      <4>3. (t \ {a}) \ {x} = (t \ {x}) \ {a}
        OBVIOUS
      <4>4. g[(t \ {x}) \ {a}] \in Nat /\ f[x] \in Nat /\ f[a] \in Nat
        BY <4>3, <4>1, <2>5, <2>7, <2>1
      <4>5. h[t] = f[a] + (f[x] + g[(t \ {x}) \ {a}])
        BY <3>2, <3>6, <4>2, <4>3
      <4>6. h[t \ {x}] = f[a] + g[(t \ {x}) \ {a}]
        BY <3>3, <3>6
      <4> HIDE DEF r
      <4> QED BY <4>4, <4>5, <4>6
    <3> QED BY <3>4, <3>5, <3>6
  <2>12. Totals(h, f, s)
    <3> HIDE DEF h
    <3> QED BY <2>9, <2>10, <2>11 DEF Totals
  <2> QED BY <1>3, <2>12
<1> QED BY <1>4, <1>5

(* The choice of an order does not matter.                                    *)
LEMMA SumIsTotal ==
    ASSUME NEW S, IsFiniteSet(S), NEW f \in [S -> Nat], NEW g, Totals(g, f, S)
    PROVE  SumOf(f, S) = g[S]
<1>1. Iterated(g, f, S)
  <2>1. g \in [SUBSET S -> Nat] /\ g[{}] = 0
    BY DEF Totals
  <2>2. ASSUME NEW s \in SUBSET S, s # {}
        PROVE  g[s] = f[CHOOSE x \in s : TRUE] + g[s \ {CHOOSE x \in s : TRUE}]
    <3>1. (CHOOSE x \in s : TRUE) \in s
      BY <2>2
    <3> QED BY <3>1 DEF Totals
  <2> QED BY <2>1, <2>2 DEF Iterated
<1>2. ASSUME NEW h, Iterated(h, f, S) PROVE h[S] = g[S]
  <2> DEFINE Bad == {s \in SUBSET S : h[s] # g[s]}
  <2>1. SUFFICES ASSUME Bad # {} PROVE FALSE
    OBVIOUS
  <2>2. PICK s \in Bad : \A t \in Bad : t \subseteq s => t = s
    <3> HIDE DEF Bad
    <3>1. Bad \in SUBSET (SUBSET S)
      BY DEF Bad
    <3> QED BY <2>1, <3>1, SmallestSubset
  <2>3. s \in SUBSET S /\ h[s] # g[s]
    BY <2>2
  <2>4. CASE s = {}
    BY <2>3, <2>4, <1>1, <1>2 DEF Iterated
  <2>5. CASE s # {}
    <3> DEFINE x == CHOOSE x \in s : TRUE
    <3>1. x \in s
      BY <2>5
    <3>2. g[s] = f[x] + g[s \ {x}]
      BY <2>3, <2>5, <1>1 DEF Iterated
    <3>3. h[s] = f[x] + h[s \ {x}]
      BY <2>3, <2>5, <1>2 DEF Iterated
    <3>4. h[s \ {x}] = g[s \ {x}]
      <4> HIDE DEF x
      <4>1. s \ {x} \in SUBSET S /\ s \ {x} # s
        BY <2>3, <3>1
      <4> QED BY <4>1, <2>2
    <3> QED BY <2>3, <3>2, <3>3, <3>4
  <2> QED BY <2>4, <2>5
<1>3. SumOf(f, S) = (CHOOSE h : Iterated(h, f, S))[S]
  BY DEF SumOf, MapThenSumSet, MapThenFoldSet, Iterated
<1>4. Iterated(CHOOSE h : Iterated(h, f, S), f, S)
  BY <1>1
<1> QED BY <1>2, <1>3, <1>4


LEMMA SumExists ==
    ASSUME NEW U, NEW f \in [U -> Nat], NEW S \in SUBSET U, IsFiniteSet(S)
    PROVE  \E g : /\ Totals(g, f, S)
                  /\ \A T \in SUBSET S : SumOf(f, T) = g[T]
<1> DEFINE e == [x \in S |-> f[x]]
<1>1. e \in [S -> Nat]
  OBVIOUS
<1>2. PICK g : Totals(g, e, S)
  <2> HIDE DEF e
  <2> QED BY <1>1, TotalsExist
<1>3. Totals(g, f, S)
  BY <1>2 DEF Totals
<1>4. ASSUME NEW T \in SUBSET S PROVE SumOf(f, T) = g[T]
  <2> DEFINE d == [x \in T |-> f[x]]
             h == [t \in SUBSET T |-> g[t]]
  <2>1. d \in [T -> Nat] /\ IsFiniteSet(T)
    BY FS_Subset
  <2>2. Totals(h, d, T)
    <3>1. g \in [SUBSET S -> Nat] /\ g[{}] = 0
      BY <1>3 DEF Totals
    <3>2. h \in [SUBSET T -> Nat] /\ h[{}] = 0
      BY <3>1
    <3>3. ASSUME NEW s \in SUBSET T, NEW x \in s PROVE h[s] = d[x] + h[s \ {x}]
      <4>1. s \in SUBSET S /\ s \ {x} \in SUBSET T
        OBVIOUS
      <4>2. g[s] = f[x] + g[s \ {x}]
        BY <1>3, <4>1 DEF Totals
      <4> QED BY <4>1, <4>2
    <3> HIDE DEF h, d
    <3> QED BY <3>2, <3>3 DEF Totals
  <2>3. SumOf(d, T) = h[T]
    <3> HIDE DEF h, d
    <3> QED BY <2>1, <2>2, SumIsTotal
  <2>4. SumOf(d, T) = SumOf(f, T)
    BY DEF SumOf, MapThenSumSet, MapThenFoldSet
  <2>5. h[T] = g[T]
    OBVIOUS
  <2> HIDE DEF h, d
  <2> QED BY <2>3, <2>4, <2>5
<1> QED BY <1>3, <1>4

LEMMA SumType ==
    ASSUME NEW U, NEW f \in [U -> Nat], NEW S \in SUBSET U, IsFiniteSet(S)
    PROVE  SumOf(f, S) \in Nat /\ SumOf(f, {}) = 0
<1>1. PICK g : Totals(g, f, S) /\ \A T \in SUBSET S : SumOf(f, T) = g[T]
  BY SumExists
<1>2. g \in [SUBSET S -> Nat] /\ g[{}] = 0
  BY <1>1 DEF Totals
<1> QED BY <1>1, <1>2

(* One element more or less.                                                  *)
LEMMA SumSplit ==
    ASSUME NEW U, NEW f \in [U -> Nat], NEW S \in SUBSET U, IsFiniteSet(S), NEW x \in S
    PROVE  SumOf(f, S) = f[x] + SumOf(f, S \ {x})
<1>1. PICK g : Totals(g, f, S) /\ \A T \in SUBSET S : SumOf(f, T) = g[T]
  BY SumExists
<1>2. g[S] = f[x] + g[S \ {x}]
  BY <1>1 DEF Totals
<1> QED BY <1>1, <1>2

(* Functions that agree on a set have one sum over it.                        *)
LEMMA SumAgrees ==
    ASSUME NEW S, NEW f, NEW g, \A x \in S : f[x] = g[x]
    PROVE  SumOf(f, S) = SumOf(g, S)
<1>1. ASSUME NEW h PROVE Iterated(h, f, S) <=> Iterated(h, g, S)
  <2>1. ASSUME NEW s \in SUBSET S, s # {}
        PROVE  f[CHOOSE x \in s : TRUE] = g[CHOOSE x \in s : TRUE]
    <3>1. (CHOOSE x \in s : TRUE) \in s
      BY <2>1
    <3> QED BY <3>1
  <2> QED BY <2>1 DEF Iterated
<1>2. (CHOOSE h : Iterated(h, f, S)) = (CHOOSE h : Iterated(h, g, S))
  BY <1>1
<1>3. \A e : SumOf(e, S) = (CHOOSE h : Iterated(h, e, S))[S]
  BY DEF SumOf, MapThenSumSet, MapThenFoldSet, Iterated
<1> QED BY <1>2, <1>3

(* The elements may be named otherwise.                                       *)
LEMMA SumRenamed ==
    ASSUME NEW S, IsFiniteSet(S), NEW f \in [S -> Nat],
           NEW D, IsFiniteSet(D), NEW b \in [D -> S],
           \A i, j \in D : b[i] = b[j] => i = j,
           \A x \in S : \E i \in D : b[i] = x
    PROVE  SumOf([i \in D |-> f[b[i]]], D) = SumOf(f, S)
<1> DEFINE e == [i \in D |-> f[b[i]]]
           Image(d) == {b[i] : i \in d}
<1>1. e \in [D -> Nat]
  OBVIOUS
<1>2. PICK g : Totals(g, f, S) /\ \A T \in SUBSET S : SumOf(f, T) = g[T]
  BY SumExists
<1>3. PICK h : Totals(h, e, D) /\ \A T \in SUBSET D : SumOf(e, T) = h[T]
  <2> HIDE DEF e
  <2> QED BY <1>1, SumExists
<1> DEFINE Bad == {d \in SUBSET D : h[d] # g[Image(d)]}
<1>4. Bad = {}
  <2>1. SUFFICES ASSUME Bad # {} PROVE FALSE
    OBVIOUS
  <2>2. PICK d \in Bad : \A t \in Bad : t \subseteq d => t = d
    <3> HIDE DEF Bad
    <3>1. Bad \in SUBSET (SUBSET D)
      BY DEF Bad
    <3> QED BY <2>1, <3>1, SmallestSubset
  <2>3. d \in SUBSET D /\ h[d] # g[Image(d)]
    BY <2>2
  <2>4. CASE d = {}
    <3>1. Image(d) = {}
      BY <2>4
    <3> QED BY <2>3, <2>4, <3>1, <1>2, <1>3 DEF Totals
  <2>5. CASE d # {}
    <3>1. PICK i \in d : TRUE
      BY <2>5
    <3>2. d \ {i} \in SUBSET D /\ d \ {i} # d
      BY <2>3, <3>1
    <3>3. h[d \ {i}] = g[Image(d \ {i})]
      BY <3>2, <2>2
    <3>4. Image(d) \in SUBSET S /\ b[i] \in Image(d)
      BY <2>3, <3>1
    <3>5. Image(d \ {i}) = Image(d) \ {b[i]}
      BY <2>3, <3>1
    <3>6. g[Image(d)] = f[b[i]] + g[Image(d) \ {b[i]}]
      <4> HIDE DEF Image
      <4> QED BY <3>4, <1>2 DEF Totals
    <3>7. h[d] = e[i] + h[d \ {i}]
      <4> HIDE DEF e
      <4> QED BY <2>3, <3>1, <1>3 DEF Totals
    <3>8. e[i] = f[b[i]]
      BY <2>3, <3>1
    <3> HIDE DEF e, Image
    <3> QED BY <2>3, <3>3, <3>5, <3>6, <3>7, <3>8
  <2> QED BY <2>4, <2>5
<1>5. h[D] = g[Image(D)]
  BY <1>4
<1>6. Image(D) = S
  OBVIOUS
<1> HIDE DEF e, Image
<1> QED BY <1>2, <1>3, <1>5, <1>6 DEF e

-----------------------------------------------------------------------------
(* The invariant of a Mandate's attempts.                                     *)

Evidence == [of : {"receipt", "proposal", "note"}, ref : Nat \cup Notes]
Attempt == [ mandate : Mandates, index : Nat \ {0}, profile : {p.id : p \in Profiles},
             granted : Amount, adopted : SUBSET Evidence, root : Roots,
             ended : BOOLEAN, completed : BOOLEAN, used : Amount ]

Typed == runs \in Seq(Attempt)

(* An attempt that has not ended is charged its budget.                       *)
OpenAtBudget == \A i \in DOMAIN runs : ~runs[i].ended => runs[i].used = runs[i].granted

(* In front of every attempt of a Mandate there is an ended one of each       *)
(* earlier number, so of those that are not forked only the last is open.     *)
Numbered ==
    \A i \in DOMAIN runs : \A k \in 1 .. runs[i].index - 1 :
        \E j \in Under(runs[i].mandate) : runs[j].index = k /\ runs[j].ended

Used(x) == [i \in DOMAIN runs |-> runs[i].used[x]]
Spent(m, x) == SumOf(Used(x), Under(m))

Within == \A m \in Mandates : Unforked(m) =>
             \A x \in Resource : Spent(m, x) <= m.envelope[x] + Overshoot

(* While one is open the envelope is not exceeded: only its end may.          *)
OpenFits ==
    \A m \in Mandates : Unforked(m) /\ (\E i \in Under(m) : ~runs[i].ended) =>
        \A x \in Resource : Spent(m, x) <= m.envelope[x]

(* What an attempt adopted is of an attempt there is.                         *)
Backed ==
    \A i \in DOMAIN runs : \A r \in runs[i].adopted :
        r.of \in {"receipt", "proposal"} => r.ref \in DOMAIN runs

IInv == Typed /\ OpenAtBudget /\ Numbered /\ Within /\ OpenFits /\ Backed /\ OwnEvidenceOnly

LEMMA WithinIsIt == MandateWithinEnvelope <=> Within
<1>1. ASSUME NEW m \in Mandates, NEW x \in Resource
      PROVE  MapThenSumSet(LAMBDA i : runs[i].used[x], Under(m)) = Spent(m, x)
  BY DEF Spent, Used, SumOf, MapThenSumSet, MapThenFoldSet, Under
<1> QED BY <1>1 DEF MandateWithinEnvelope, Within

LEMMA AttemptType ==
    ASSUME Typed, NEW i \in DOMAIN runs
    PROVE  /\ i \in Nat \ {0} /\ runs[i] \in Attempt /\ runs[i].mandate \in Mandates
           /\ runs[i].index \in Nat \ {0} /\ runs[i].ended \in BOOLEAN
           /\ runs[i].used \in Amount /\ runs[i].granted \in Amount
           /\ runs[i].adopted \in SUBSET Evidence
<1>1. runs[i] \in Attempt /\ i \in Nat \ {0}
  BY DEF Typed
<1> QED BY <1>1 DEF Attempt

LEMMA UsedType ==
    ASSUME Typed, NEW x \in Resource
    PROVE  /\ Used(x) \in [DOMAIN runs -> Nat]
           /\ DOMAIN runs = 1 .. Len(runs) /\ Len(runs) \in Nat
           /\ \A m : Under(m) \in SUBSET (DOMAIN runs) /\ IsFiniteSet(Under(m))
<1>1. DOMAIN runs = 1 .. Len(runs) /\ Len(runs) \in Nat
  BY DEF Typed
<1>2. \A i \in DOMAIN runs : runs[i].used \in Amount
  BY AttemptType
<1>3. Used(x) \in [DOMAIN runs -> Nat]
  BY <1>2 DEF Used, Amount
<1>4. ASSUME NEW m PROVE Under(m) \in SUBSET (DOMAIN runs) /\ IsFiniteSet(Under(m))
  <2>1. Under(m) \in SUBSET (DOMAIN runs)
    BY DEF Under
  <2>2. IsFiniteSet(DOMAIN runs)
    BY <1>1, FS_Interval
  <2> QED BY <2>1, <2>2, FS_Subset
<1> QED BY <1>1, <1>3, <1>4

(* What a caller's evidence says was consumed is a sum over its positions.    *)
LEMMA ConsumedIs ==
    ASSUME NEW prior, NEW x \in Resource
    PROVE  Consumed(prior)[x] =
           SumOf([k \in DOMAIN prior |-> runs[prior[k]].used[x]], DOMAIN prior)
BY DEF Consumed, SumOf, MapThenSumSet, MapThenFoldSet

LEMMA ContextType ==
    ASSUME Typed, NEW c \in Contexts
    PROVE  /\ c.prior \in Seq(Ended) /\ Len(c.prior) \in Nat
           /\ DOMAIN c.prior = 1 .. Len(c.prior)
           /\ c.prior \in [1 .. Len(c.prior) -> Ended]
           /\ c.mandate \in Mandates /\ c.available \in SUBSET Profiles
           /\ c.notes \in SUBSET Notes
<1>1. PICK m \in Mandates, prior \in UNION {[1 .. n -> Ended] : n \in 0 .. Len(runs)},
           available \in SUBSET Profiles, notes \in SUBSET Notes :
        c = [mandate |-> m, prior |-> prior, available |-> available, notes |-> notes]
  BY DEF Contexts
<1>2. PICK n \in 0 .. Len(runs) : prior \in [1 .. n -> Ended]
  BY <1>1
<1>3. n \in Nat
  BY <1>2 DEF Typed
<1>4. prior \in Seq(Ended) /\ Len(prior) = n /\ DOMAIN prior = 1 .. n
  BY <1>2, <1>3, SeqDef
<1> QED BY <1>1, <1>2, <1>3, <1>4

(* If the next attempt of a lineage forks nothing, the lineage is all there   *)
(* is, so Harness charges the Mandate with all it spent.                      *)
LEMMA LineageIsAll ==
    ASSUME Typed, Numbered, NEW c \in Contexts, Lineage(c.mandate, c.prior),
           Unforked(c.mandate), NEW x \in Resource,
           \A i \in Under(c.mandate) : runs[i].index # Len(c.prior) + 1
    PROVE  Consumed(c.prior)[x] = Spent(c.mandate, x)
<1> DEFINE m == c.mandate
           p == Len(c.prior)
           b == c.prior
           f == [i \in Under(m) |-> Used(x)[i]]
<1>1. /\ b \in [1 .. p -> Ended] /\ p \in Nat /\ DOMAIN b = 1 .. p
      /\ Used(x) \in [DOMAIN runs -> Nat]
      /\ Under(m) \in SUBSET (DOMAIN runs) /\ IsFiniteSet(Under(m))
  BY ContextType, UsedType
<1>2. \A k \in 1 .. p : b[k] \in Under(m) /\ runs[b[k]].index = k
  BY <1>1 DEF Lineage, Under, Ended
<1>3. b \in [1 .. p -> Under(m)] /\ IsFiniteSet(1 .. p) /\ f \in [Under(m) -> Nat]
  <2>1. b \in [1 .. p -> Under(m)]
    BY <1>1, <1>2
  <2>2. IsFiniteSet(1 .. p)
    BY <1>1, FS_Interval
  <2>3. f \in [Under(m) -> Nat]
    BY <1>1
  <2> QED BY <2>1, <2>2, <2>3
<1>4. \A k, l \in 1 .. p : b[k] = b[l] => k = l
  BY <1>2
<1>5. ASSUME NEW i \in Under(m) PROVE \E k \in 1 .. p : b[k] = i
  <2>1. runs[i].index \in Nat \ {0} /\ runs[i].mandate = m /\ i \in DOMAIN runs
    BY AttemptType DEF Under
  <2>2. CASE runs[i].index <= p
    <3>1. runs[i].index \in 1 .. p
      BY <2>1, <2>2, <1>1
    <3> QED BY <3>1, <1>2 DEF Unforked
  <2>3. CASE runs[i].index > p
    <3>1. runs[i].index # p + 1
      OBVIOUS
    <3>2. p + 1 \in 1 .. runs[i].index - 1
      BY <2>1, <2>3, <3>1, <1>1
    <3>3. \E j \in Under(m) : runs[j].index = p + 1
      BY <2>1, <3>2 DEF Numbered
    <3> QED BY <3>3
  <2> QED BY <2>1, <2>2, <2>3, <1>1
<1>6. SumOf([k \in 1 .. p |-> f[b[k]]], 1 .. p) = SumOf(f, Under(m))
  <2> HIDE DEF f, b, p, m
  <2> QED BY <1>1, <1>3, <1>4, <1>5, SumRenamed
<1>7. SumOf(f, Under(m)) = Spent(m, x)
  <2>1. \A i \in Under(m) : f[i] = Used(x)[i]
    OBVIOUS
  <2> HIDE DEF f
  <2> QED BY <2>1, SumAgrees DEF Spent
<1>8. Consumed(b)[x] = SumOf([k \in 1 .. p |-> runs[b[k]].used[x]], 1 .. p)
  BY <1>1, ConsumedIs
<1>9. [k \in 1 .. p |-> runs[b[k]].used[x]] = [k \in 1 .. p |-> f[b[k]]]
  BY <1>1, <1>2 DEF Used
<1> HIDE DEF f
<1> QED BY <1>6, <1>7, <1>8, <1>9

-----------------------------------------------------------------------------
(* Both steps preserve it.                                                    *)

LEMMA StartStep ==
    ASSUME IInv, NEW c \in Contexts, IsContext(c), NEW s \in Selections, NEW root \in Roots,
           NEW with \in Compositions, StartAttempt(c, s, root, with)
    PROVE  IInv'
<1> DEFINE n == Len(runs) + 1
           m == c.mandate
           p == Len(c.prior)
           r == [ mandate |-> s.mandate, index |-> s.index, profile |-> s.profile,
                  granted |-> s.budget, adopted |-> s.adopted, root |-> root,
                  ended |-> FALSE, completed |-> FALSE, used |-> s.budget ]
<1>1. /\ c.prior \in [1 .. p -> Ended] /\ p \in Nat /\ DOMAIN c.prior = 1 .. p
      /\ m \in Mandates /\ c.notes \in SUBSET Notes
  BY ContextType DEF IInv
<1>2. /\ s.mandate = m /\ s.index = p + 1 /\ s.profile \in m.allowed
      /\ s.budget \in Amount /\ s.profile \in {q.id : q \in Profiles}
      /\ Fits(s.budget, Remaining(c)) /\ \A x \in Resource : Remaining(c)[x] >= 1
      /\ s.adopted \subseteq Adoptable(c)
      /\ Lineage(m, c.prior)
      /\ runs' = Append(runs, r)
  <2>1. Admitted(c, s) /\ Compilable(c, s) /\ runs' = Append(runs, r) /\ Lineage(m, c.prior)
    BY DEF StartAttempt, IsContext
  <2>2. s.budget \in Budgets /\ s.profile \in {q.id : q \in Profiles}
    BY DEF Selections
  <2>3. s.budget \in Amount
    BY <2>2, MandateAssumption
  <2>4. s.mandate = m /\ s.index = p + 1 /\ s.adopted \subseteq Adoptable(c)
    BY <2>1 DEF Admitted
  <2>5. /\ s.profile \in s.mandate.allowed \/ s.profile \in m.allowed
        /\ Fits(s.budget, Remaining(c)) /\ \A x \in Resource : Remaining(c)[x] >= 1
    BY <2>1 DEF Compilable
  <2> QED BY <2>1, <2>2, <2>3, <2>4, <2>5
<1>3. \A k \in 1 .. p : /\ c.prior[k] \in Under(m) /\ c.prior[k] \in DOMAIN runs
                        /\ runs[c.prior[k]].index = k /\ runs[c.prior[k]].ended
                        /\ runs[c.prior[k]].mandate = m
  BY <1>1, <1>2 DEF Lineage, Under, Ended
<1>4. \A e \in s.adopted : /\ e \in Evidence
                           /\ e.of \in {"receipt", "proposal"} =>
                                 /\ \E k \in 1 .. p : e.ref = c.prior[k]
                                 /\ e.of = "proposal" => runs[e.ref].completed
  <2>1. ASSUME NEW e \in s.adopted
        PROVE  /\ e \in Evidence
               /\ e.of \in {"receipt", "proposal"} =>
                     /\ \E k \in 1 .. p : e.ref = c.prior[k]
                     /\ e.of = "proposal" => runs[e.ref].completed
    <3>1. \/ \E k \in 1 .. p : e = Receipt(c.prior[k])
          \/ \E k \in 1 .. p : e = Proposal(c.prior[k]) /\ runs[c.prior[k]].completed
          \/ \E w \in c.notes : e = Note(w)
      BY <1>1, <1>2 DEF Adoptable
    <3>2. ASSUME NEW k \in 1 .. p, e = Receipt(c.prior[k])
          PROVE  e = [of |-> "receipt", ref |-> c.prior[k]] /\ c.prior[k] \in Nat
      BY <3>2, <1>3, AttemptType DEF Receipt, IInv
    <3>3. ASSUME NEW k \in 1 .. p, e = Proposal(c.prior[k])
          PROVE  e = [of |-> "proposal", ref |-> c.prior[k]] /\ c.prior[k] \in Nat
      BY <3>3, <1>3, AttemptType DEF Proposal, IInv
    <3>4. ASSUME NEW w \in c.notes, e = Note(w)
          PROVE  e = [of |-> "note", ref |-> w] /\ w \in Notes
      BY <3>4, <1>1 DEF Note
    <3> QED BY <3>1, <3>2, <3>3, <3>4 DEF Evidence
  <2> QED BY <2>1
<1>5. r \in Attempt
  <2>1. s.adopted \in SUBSET Evidence
    BY <1>4
  <2>2. s.index \in Nat \ {0}
    BY <1>1, <1>2
  <2> QED BY <1>1, <1>2, <2>1, <2>2 DEF Attempt
<1>6. /\ runs' \in Seq(Attempt) /\ Len(runs) \in Nat /\ DOMAIN runs = 1 .. Len(runs)
      /\ n \notin DOMAIN runs /\ DOMAIN runs' = DOMAIN runs \cup {n}
      /\ runs'[n] = r /\ \A i \in DOMAIN runs : runs'[i] = runs[i]
  <2>1. runs \in Seq(Attempt)
    BY DEF IInv, Typed
  <2> HIDE DEF r
  <2> QED BY <2>1, <1>2, <1>5
<1>7. /\ r.mandate = m /\ r.index = p + 1 /\ r.ended = FALSE /\ r.used = s.budget
      /\ r.granted = s.budget /\ r.profile = s.profile /\ r.adopted = s.adopted
  BY <1>2
<1>8. /\ Under(m)' = Under(m) \cup {n} /\ n \notin Under(m)
      /\ \A o : o # m => Under(o)' = Under(o)
  BY <1>6, <1>7 DEF Under
<1> HIDE DEF r, n
<1>9. Typed'
  BY <1>6 DEF Typed
<1>10. OpenAtBudget'
  BY <1>6, <1>7 DEF OpenAtBudget, IInv
<1>11. Numbered'
  <2>1. ASSUME NEW i \in DOMAIN runs', NEW k \in 1 .. runs'[i].index - 1
        PROVE  \E j \in DOMAIN runs' : /\ runs'[j].mandate = runs'[i].mandate
                                       /\ runs'[j].index = k /\ runs'[j].ended
    <3>1. CASE i = n
      <4>1. k \in 1 .. p
        BY <3>1, <1>6, <1>7, <1>1, <2>1
      <4> QED BY <4>1, <3>1, <1>3, <1>6, <1>7
    <3>2. CASE i \in DOMAIN runs
      <4>1. k \in 1 .. runs[i].index - 1
        BY <3>2, <1>6, <2>1
      <4>2. PICK j \in Under(runs[i].mandate) : runs[j].index = k /\ runs[j].ended
        BY <4>1, <3>2 DEF IInv, Numbered
      <4>3. j \in DOMAIN runs /\ runs[j].mandate = runs[i].mandate
        BY <4>2 DEF Under
      <4> QED BY <4>2, <4>3, <3>2, <1>6
    <3> QED BY <3>1, <3>2, <1>6
  <2> QED BY <2>1 DEF Numbered, Under
<1>12. \A o \in Mandates : Unforked(o)' => Unforked(o)
  BY <1>6 DEF Unforked, Under
<1>13. ASSUME NEW o \in Mandates, NEW x \in Resource, o # m
       PROVE  Spent(o, x)' = Spent(o, x)
  <2>1. Under(o)' = Under(o) /\ \A i \in Under(o) : Used(x)'[i] = Used(x)[i]
    BY <1>6, <1>8, <1>13 DEF Under, Used
  <2>2. SumOf(Used(x)', Under(o)) = SumOf(Used(x), Under(o))
    BY <2>1, SumAgrees
  <2> QED BY <2>1, <2>2 DEF Spent
<1>14. ASSUME NEW x \in Resource, Unforked(m)'
       PROVE  Spent(m, x)' \in Nat /\ Spent(m, x)' <= m.envelope[x]
  <2>1. Unforked(m)
    BY <1>1, <1>12, <1>14
  <2>2. \A i \in Under(m) : runs[i].index # p + 1
    <3>1. SUFFICES ASSUME NEW i \in Under(m), runs[i].index = p + 1 PROVE FALSE
      OBVIOUS
    <3>2. runs'[i].index = runs'[n].index /\ i \in Under(m)' /\ n \in Under(m)' /\ i # n
      BY <3>1, <1>6, <1>7, <1>8 DEF Under
    <3> QED BY <3>2, <1>14 DEF Unforked
  <2>3. Consumed(c.prior)[x] = Spent(m, x)
    BY <1>2, <2>1, <2>2, LineageIsAll DEF IInv
  <2>4. /\ Used(x) \in [DOMAIN runs -> Nat] /\ Under(m) \in SUBSET (DOMAIN runs)
        /\ IsFiniteSet(Under(m))
    BY UsedType DEF IInv
  <2>5. Spent(m, x) \in Nat
    BY <2>4, SumType DEF Spent
  <2>6. m.envelope[x] \in Nat /\ s.budget[x] \in Nat
    BY <1>1, <1>2, MandateAssumption DEF Amount
  <2>7. s.budget[x] <= Remaining(c)[x] /\ Remaining(c)[x] >= 1
    BY <1>2 DEF Fits
  <2>8. Remaining(c)[x] = IF Spent(m, x) >= m.envelope[x] THEN 0
                                                           ELSE m.envelope[x] - Spent(m, x)
    BY <2>3 DEF Remaining
  <2>9. s.budget[x] + Spent(m, x) <= m.envelope[x]
    BY <2>5, <2>6, <2>7, <2>8
  <2>10. /\ Used(x)' \in [DOMAIN runs' -> Nat] /\ Under(m)' \in SUBSET (DOMAIN runs')
         /\ IsFiniteSet(Under(m)')
    <3>1. \A i \in DOMAIN runs : runs[i].used[x] = Used(x)[i]
      BY DEF Used
    <3>2. \A i \in DOMAIN runs' : runs'[i].used[x] \in Nat
      BY <3>1, <1>6, <1>7, <2>4, <2>6
    <3>3. IsFiniteSet(Under(m) \cup {n})
      BY <2>4, FS_AddElement
    <3> QED BY <3>2, <3>3, <1>8, <1>6, <2>4 DEF Used
  <2>11. SumOf(Used(x)', Under(m)') = Used(x)'[n] + SumOf(Used(x)', Under(m)' \ {n})
    BY <2>10, <1>8, SumSplit
  <2>12. Under(m)' \ {n} = Under(m)
    BY <1>8
  <2>13. \A i \in Under(m) : Used(x)'[i] = Used(x)[i]
    BY <1>6, <2>4 DEF Used
  <2>14. SumOf(Used(x)', Under(m)) = SumOf(Used(x), Under(m))
    BY <2>13, SumAgrees
  <2>15. Used(x)'[n] = s.budget[x]
    BY <1>6, <1>7 DEF Used
  <2>16. SumOf(Used(x)', Under(m)') \in Nat
    BY <2>10, SumType
  <2> QED BY <2>9, <2>11, <2>12, <2>14, <2>15, <2>16 DEF Spent
<1>15. Within'
  <2>1. ASSUME NEW o \in Mandates, Unforked(o)', NEW x \in Resource
        PROVE  Spent(o, x)' <= o.envelope[x] + Overshoot
    <3>1. CASE o = m
      <4>1. m.envelope[x] \in Nat /\ Overshoot \in Nat
        BY <1>1, MandateAssumption DEF Amount
      <4>2. Spent(m, x)' \in Nat /\ Spent(m, x)' <= m.envelope[x]
        BY <1>14, <2>1, <3>1
      <4> QED BY <3>1, <4>1, <4>2
    <3>2. CASE o # m
      BY <1>12, <1>13, <2>1, <3>2 DEF IInv, Within
    <3> QED BY <3>1, <3>2
  <2> QED BY <2>1 DEF Within
<1>16. OpenFits'
  <2>1. ASSUME NEW o \in Mandates, Unforked(o)', NEW i \in Under(o)', ~runs'[i].ended,
               NEW x \in Resource
        PROVE  Spent(o, x)' <= o.envelope[x]
    <3>1. CASE o = m
      BY <1>14, <2>1, <3>1
    <3>2. CASE o # m
      <4>1. i \in Under(o) /\ ~runs[i].ended
        BY <1>6, <1>8, <2>1, <3>2 DEF Under
      <4> QED BY <1>12, <1>13, <2>1, <3>2, <4>1 DEF IInv, OpenFits
    <3> QED BY <3>1, <3>2
  <2> QED BY <2>1 DEF OpenFits
<1>17. Backed'
  <2>1. \A e \in s.adopted : e.of \in {"receipt", "proposal"} => e.ref \in DOMAIN runs
    BY <1>4, <1>3
  <2> QED BY <2>1, <1>6, <1>7 DEF IInv, Backed
<1>18. OwnEvidenceOnly'
  <2>1. ASSUME NEW i \in DOMAIN runs'
        PROVE  /\ runs'[i].profile \in runs'[i].mandate.allowed
               /\ \A e \in runs'[i].adopted : e.of \in {"receipt", "proposal"} =>
                     /\ runs'[e.ref].ended /\ runs'[e.ref].mandate = runs'[i].mandate
                     /\ runs'[e.ref].index < runs'[i].index
                     /\ e.of = "proposal" => runs'[e.ref].completed
    <3>1. CASE i = n
      <4>1. ASSUME NEW e \in s.adopted, e.of \in {"receipt", "proposal"}
            PROVE  /\ runs'[e.ref].ended /\ runs'[e.ref].mandate = m
                   /\ runs'[e.ref].index < p + 1
                   /\ e.of = "proposal" => runs'[e.ref].completed
        <5>1. PICK k \in 1 .. p : e.ref = c.prior[k]
          BY <1>4, <4>1
        <5>2. e.ref \in DOMAIN runs /\ runs[e.ref].index = k /\ runs[e.ref].ended
              /\ runs[e.ref].mandate = m
          BY <5>1, <1>3
        <5>3. runs'[e.ref] = runs[e.ref] /\ k < p + 1
          BY <5>2, <1>6, <1>1
        <5> QED BY <5>2, <5>3, <4>1, <1>4
      <4> QED BY <4>1, <3>1, <1>2, <1>6, <1>7
    <3>2. CASE i \in DOMAIN runs
      <4>1. /\ runs[i].profile \in runs[i].mandate.allowed
            /\ \A e \in runs[i].adopted : e.of \in {"receipt", "proposal"} =>
                  /\ runs[e.ref].ended /\ runs[e.ref].mandate = runs[i].mandate
                  /\ runs[e.ref].index < runs[i].index
                  /\ e.of = "proposal" => runs[e.ref].completed
        BY <3>2 DEF IInv, OwnEvidenceOnly
      <4>2. \A e \in runs[i].adopted :
               e.of \in {"receipt", "proposal"} => e.ref \in DOMAIN runs
        BY <3>2 DEF IInv, Backed
      <4> QED BY <4>1, <4>2, <3>2, <1>6
    <3> QED BY <3>1, <3>2, <1>6
  <2> QED BY <2>1 DEF OwnEvidenceOnly
<1> QED BY <1>9, <1>10, <1>11, <1>15, <1>16, <1>17, <1>18 DEF IInv


LEMMA EndStep ==
    ASSUME IInv, NEW i \in DOMAIN runs, NEW used \in Reports, NEW completed \in BOOLEAN,
           EndAttempt(i, used, completed)
    PROVE  IInv'
<1>m. PICK m \in Mandates : m = runs[i].mandate
  BY AttemptType DEF IInv
<1>1. /\ ~runs[i].ended /\ used \in Amount
      /\ runs[i].granted \in Amount /\ runs[i].used = runs[i].granted
      /\ \A x \in Resource : used[x] <= runs[i].granted[x] + Overshoot
  BY AttemptType, MandateAssumption DEF EndAttempt, IInv, OpenAtBudget
<1>2. /\ runs' \in Seq(Attempt) /\ DOMAIN runs' = DOMAIN runs
      /\ \A j \in DOMAIN runs : /\ runs'[j].mandate = runs[j].mandate
                                /\ runs'[j].index = runs[j].index
                                /\ runs'[j].profile = runs[j].profile
                                /\ runs'[j].granted = runs[j].granted
                                /\ runs'[j].adopted = runs[j].adopted
      /\ \A j \in DOMAIN runs \ {i} : runs'[j] = runs[j]
      /\ runs'[i].ended = TRUE /\ runs'[i].used = used
  <2> DEFINE r == [runs[i] EXCEPT !.ended = TRUE, !.completed = completed, !.used = used]
  <2>1. runs \in Seq(Attempt) /\ runs[i] \in Attempt
    BY AttemptType DEF IInv, Typed
  <2>2. r \in Attempt /\ r.ended = TRUE /\ r.used = used
        /\ r.mandate = runs[i].mandate /\ r.index = runs[i].index
        /\ r.profile = runs[i].profile /\ r.granted = runs[i].granted
        /\ r.adopted = runs[i].adopted
    BY <2>1, <1>1 DEF Attempt
  <2>3. runs' = [runs EXCEPT ![i] = r]
    BY <2>1 DEF EndAttempt, Attempt
  <2> HIDE DEF r
  <2> QED BY <2>1, <2>2, <2>3
<1>3. \A o : Under(o)' = Under(o)
  BY <1>2 DEF Under
<1>4. \A o \in Mandates : Unforked(o)' => Unforked(o)
  BY <1>2, <1>3 DEF Unforked, Under
<1>5. Typed'
  BY <1>2 DEF Typed
<1>6. OpenAtBudget'
  BY <1>2 DEF OpenAtBudget, IInv
<1>7. Numbered'
  <2>1. ASSUME NEW j \in DOMAIN runs, NEW k \in 1 .. runs[j].index - 1
        PROVE  \E l \in Under(runs[j].mandate) : runs'[l].index = k /\ runs'[l].ended
    <3>1. PICK l \in Under(runs[j].mandate) : runs[l].index = k /\ runs[l].ended
      BY DEF IInv, Numbered
    <3> QED BY <3>1, <1>2 DEF Under
  <2> QED BY <2>1, <1>2, <1>3 DEF Numbered
<1>8. ASSUME NEW o \in Mandates, NEW x \in Resource, o # m
      PROVE  Spent(o, x)' = Spent(o, x)
  <2>1. \A j \in Under(o) : Used(x)'[j] = Used(x)[j]
    BY <1>2, <1>8, <1>m DEF Under, Used
  <2>2. SumOf(Used(x)', Under(o)) = SumOf(Used(x), Under(o))
    BY <2>1, SumAgrees
  <2> QED BY <2>2, <1>3 DEF Spent
<1>9. ASSUME NEW x \in Resource, Unforked(m)
      PROVE  Spent(m, x)' <= m.envelope[x] + Overshoot
  <2>1. /\ Used(x) \in [DOMAIN runs -> Nat] /\ Under(m) \in SUBSET (DOMAIN runs)
        /\ IsFiniteSet(Under(m)) /\ i \in Under(m)
    BY <1>m, UsedType DEF IInv, Under
  <2>2. Spent(m, x) <= m.envelope[x]
    BY <1>1, <1>9, <2>1 DEF IInv, OpenFits
  <2>3. Used(x)' \in [DOMAIN runs -> Nat]
    <3>1. \A j \in DOMAIN runs : runs[j].used[x] = Used(x)[j]
      BY DEF Used
    <3>2. used[x] \in Nat
      BY <1>1 DEF Amount
    <3>3. ASSUME NEW j \in DOMAIN runs PROVE runs'[j].used[x] \in Nat
      <4>1. CASE j = i
        BY <4>1, <3>2, <1>2
      <4>2. CASE j # i
        BY <4>2, <3>1, <1>2, <2>1
      <4> QED BY <4>1, <4>2
    <3> QED BY <3>3, <1>2 DEF Used
  <2>4. SumOf(Used(x), Under(m)) = Used(x)[i] + SumOf(Used(x), Under(m) \ {i})
    BY <2>1, SumSplit
  <2>5. SumOf(Used(x)', Under(m)) = Used(x)'[i] + SumOf(Used(x)', Under(m) \ {i})
    BY <2>1, <2>3, SumSplit
  <2>6. SumOf(Used(x)', Under(m) \ {i}) = SumOf(Used(x), Under(m) \ {i})
    <3>1. \A j \in Under(m) \ {i} : Used(x)'[j] = Used(x)[j]
      BY <1>2, <2>1 DEF Used
    <3> QED BY <3>1, SumAgrees
  <2>7. SumOf(Used(x), Under(m) \ {i}) \in Nat
    <3>1. Under(m) \ {i} \in SUBSET (DOMAIN runs) /\ IsFiniteSet(Under(m) \ {i})
      BY <2>1, FS_RemoveElement
    <3> QED BY <3>1, <2>1, SumType
  <2>8. /\ Used(x)[i] = runs[i].granted[x] /\ Used(x)'[i] = used[x]
        /\ runs[i].granted[x] \in Nat /\ used[x] \in Nat
        /\ m.envelope[x] \in Nat /\ Overshoot \in Nat
    <3>1. runs[i].used[x] = runs[i].granted[x] /\ runs'[i].used[x] = used[x]
      BY <1>1, <1>2
    <3>2. Used(x)[i] = runs[i].used[x] /\ Used(x)'[i] = runs'[i].used[x]
      BY <1>2 DEF Used
    <3>3. /\ runs[i].granted[x] \in Nat /\ used[x] \in Nat
          /\ m.envelope[x] \in Nat /\ Overshoot \in Nat
      BY <1>1, MandateAssumption DEF Amount
    <3> QED BY <3>1, <3>2, <3>3
  <2>9. Spent(m, x)' = SumOf(Used(x)', Under(m)) /\ Spent(m, x) = SumOf(Used(x), Under(m))
    BY <1>3 DEF Spent
  <2>10. used[x] <= runs[i].granted[x] + Overshoot
    BY <1>1
  <2> QED BY <2>2, <2>4, <2>5, <2>6, <2>7, <2>8, <2>9, <2>10
<1>10. Within'
  <2>1. ASSUME NEW o \in Mandates, Unforked(o)', NEW x \in Resource
        PROVE  Spent(o, x)' <= o.envelope[x] + Overshoot
    <3>1. Unforked(o)
      BY <1>4, <2>1
    <3>2. CASE o = m
      BY <3>1, <3>2, <1>9
    <3>3. CASE o # m
      BY <3>1, <3>3, <1>8 DEF IInv, Within
    <3> QED BY <3>2, <3>3
  <2> QED BY <2>1 DEF Within
<1>11. OpenFits'
  <2>1. ASSUME NEW o \in Mandates, Unforked(o), NEW j \in Under(o), ~runs'[j].ended,
               NEW x \in Resource
        PROVE  Spent(o, x)' <= o.envelope[x]
    <3>1. j \in DOMAIN runs /\ j # i /\ ~runs[j].ended /\ runs[j].mandate = o
      BY <1>2, <2>1 DEF Under
    <3>2. CASE o = m
      <4>1. i \in Under(o)
        BY <1>m, <3>2 DEF Under
      <4>2. /\ runs[i].index \in Nat \ {0} /\ runs[j].index \in Nat \ {0}
            /\ runs[i].index # runs[j].index
        BY <2>1, <3>1, <4>1, AttemptType DEF Unforked, IInv
      <4>3. CASE runs[i].index < runs[j].index
        <5>1. runs[i].index \in 1 .. runs[j].index - 1
          BY <4>2, <4>3
        <5>2. PICK l \in Under(o) : runs[l].index = runs[i].index /\ runs[l].ended
          BY <5>1, <3>1 DEF IInv, Numbered
        <5> QED BY <5>2, <4>1, <2>1, <1>1 DEF Unforked
      <4>4. CASE runs[j].index < runs[i].index
        <5>1. runs[j].index \in 1 .. runs[i].index - 1
          BY <4>2, <4>4
        <5>2. PICK l \in Under(o) : runs[l].index = runs[j].index /\ runs[l].ended
          BY <1>m, <5>1, <3>2 DEF IInv, Numbered
        <5> QED BY <5>2, <3>1, <2>1 DEF Unforked
      <4> QED BY <4>2, <4>3, <4>4
    <3>3. CASE o # m
      BY <3>1, <3>3, <2>1, <1>8 DEF IInv, OpenFits
    <3> QED BY <3>2, <3>3
  <2> QED BY <2>1, <1>3, <1>4 DEF OpenFits
<1>12. Backed'
  BY <1>2 DEF IInv, Backed
<1>13. OwnEvidenceOnly'
  <2>1. ASSUME NEW j \in DOMAIN runs, NEW e \in runs[j].adopted,
               e.of \in {"receipt", "proposal"}
        PROVE  /\ runs'[e.ref].ended /\ runs'[e.ref].mandate = runs[j].mandate
               /\ runs'[e.ref].index < runs[j].index
               /\ e.of = "proposal" => runs'[e.ref].completed
    <3>1. /\ e.ref \in DOMAIN runs /\ runs[e.ref].ended
          /\ runs[e.ref].mandate = runs[j].mandate /\ runs[e.ref].index < runs[j].index
          /\ e.of = "proposal" => runs[e.ref].completed
      BY <2>1 DEF IInv, Backed, OwnEvidenceOnly
    <3>2. runs'[e.ref] = runs[e.ref]
      BY <3>1, <1>1, <1>2
    <3> QED BY <3>1, <3>2
  <2>2. \A j \in DOMAIN runs : runs[j].profile \in runs[j].mandate.allowed
    BY DEF IInv, OwnEvidenceOnly
  <2> QED BY <2>1, <2>2, <1>2 DEF OwnEvidenceOnly
<1> QED BY <1>5, <1>6, <1>7, <1>10, <1>11, <1>12, <1>13 DEF IInv

LEMMA Inductive == Spec => []IInv
<1>1. Init => IInv
  <2> SUFFICES ASSUME Init PROVE IInv
    OBVIOUS
  <2>1. runs = <<>> /\ DOMAIN runs = {} /\ \A o : Under(o) = {}
    BY DEF Init, Under
  <2>2. Typed
    BY <2>1 DEF Typed
  <2>3. ASSUME NEW o \in Mandates, NEW x \in Resource
        PROVE  Spent(o, x) <= o.envelope[x] + Overshoot
    <3>1. Used(x) \in [DOMAIN runs -> Nat] /\ IsFiniteSet({})
      BY <2>2, UsedType, FS_EmptySet
    <3>2. SumOf(Used(x), {}) = 0
      BY <3>1, SumType
    <3>3. Spent(o, x) = 0
      BY <2>1, <3>2 DEF Spent
    <3>4. o.envelope[x] \in Nat /\ Overshoot \in Nat
      BY MandateAssumption DEF Amount
    <3> QED BY <3>3, <3>4
  <2> QED BY <2>1, <2>2, <2>3 DEF IInv, OpenAtBudget, Numbered, Within, OpenFits, Backed,
                                   OwnEvidenceOnly
<1>2. IInv /\ [Next]_runs => IInv'
  <2> SUFFICES ASSUME IInv, [Next]_runs PROVE IInv'
    OBVIOUS
  <2>1. CASE Start
    BY <2>1, StartStep DEF Start
  <2>2. CASE End
    BY <2>2, EndStep DEF End
  <2>3. CASE UNCHANGED runs
    <3>1. \A o \in Mandates : Under(o)' = Under(o) /\ (Unforked(o)' <=> Unforked(o))
      BY <2>3 DEF Under, Unforked
    <3>2. ASSUME NEW o \in Mandates, NEW x \in Resource PROVE Spent(o, x)' = Spent(o, x)
      <4>1. Used(x)' = Used(x) /\ Under(o)' = Under(o)
        BY <2>3, <3>1 DEF Used
      <4> QED BY <4>1 DEF Spent
    <3>3. Within' /\ OpenFits'
      BY <2>3, <3>1, <3>2 DEF IInv, Within, OpenFits
    <3>4. Typed' /\ OpenAtBudget' /\ Backed' /\ OwnEvidenceOnly'
      BY <2>3 DEF IInv, Typed, OpenAtBudget, Backed, OwnEvidenceOnly
    <3>5. Numbered'
      BY <2>3 DEF IInv, Numbered, Under
    <3> QED BY <3>3, <3>4, <3>5 DEF IInv
  <2> QED BY <2>1, <2>2, <2>3 DEF Next
<1> QED BY <1>1, <1>2, PTL DEF Spec

(* The aggregate envelope of a Mandate holds over all its attempts, open ones *)
(* at their budget, whatever Agents choose and callers hand in, as long as    *)
(* no attempt is started twice.                                               *)
THEOREM EnvelopeHolds == Spec => []MandateWithinEnvelope
<1>1. IInv => MandateWithinEnvelope
  BY WithinIsIt DEF IInv
<1> QED BY <1>1, Inductive, PTL

(* What an attempt adopts is of ended attempts of the very same Mandate in    *)
(* front of it, and its profile is one the Mandate allows.                    *)
THEOREM EvidenceIsOwn == Spec => []OwnEvidenceOnly
<1>1. IInv => OwnEvidenceOnly
  BY DEF IInv
<1> QED BY <1>1, Inductive, PTL

=============================================================================
