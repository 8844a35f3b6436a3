------------------------------- MODULE Mandate -------------------------------
(* A caller's Mandate and the attempts made under it.  Harness keeps nothing  *)
(* of a Mandate: the caller hands in the ended attempts it knows, Harness     *)
(* derives what they consumed, an Agent chooses a Strategy for the next one,  *)
(* and the admitted choice is compiled into the Contract of one Run.  What    *)
(* caller and Agent hand in is arbitrary; nobody sees what others start.      *)
(*                                                                            *)
(* A Run is its Contract and, once it ended, its receipt; how it gets there   *)
(* is AgentLoop and RunRecorder.  A digest equals another exactly when what   *)
(* it digests does, so records stand for their digests.                       *)
EXTENDS Naturals, Sequences, FiniteSets, FiniteSetsExt

CONSTANTS
    Mandates,                   \* what callers may delegate, changed versions included
    Profiles,                   \* [id, adapter, surface]
    Notes,                      \* bound references of caller and domain
    Roots,                      \* state roots, one Store each
    Budgets,                    \* RunBudgets an Agent may choose
    Reports,                    \* what a Run may report to have used
    Overshoot,                  \* how far that may exceed its budget
    Resource,                   \* "tokens", "wallTimeMs": all alike
    MaxRuns                     \* bound on the attempts of one behaviour

Amount == [Resource -> Nat]

ASSUME MandateAssumption ==
    /\ Overshoot \in Nat /\ MaxRuns \in Nat
    /\ Budgets \subseteq Amount /\ Reports \subseteq Amount
    /\ \A m \in Mandates : m.envelope \in Amount /\ m.context \subseteq Notes

VARIABLE runs                   \* every attempt there is

Init == runs = <<>>

Fits(a, b) == \A x \in Resource : a[x] <= b[x]

-----------------------------------------------------------------------------
(* HarnessPriorAttemptEvidence: a compiled attempt with the receipt of that   *)
(* very Run, so an attempt that ended; any other pair is refused.             *)
Ended == {i \in DOMAIN runs : runs[i].ended}

(* Mutant: a Mandate is known by its name.                                    *)
LineageByName(m, prior) ==
    \A k \in DOMAIN prior :
        /\ runs[prior[k]].mandate.id = m.id
        /\ runs[prior[k]].index = k

(* derive_harness_mandate_consumption: the attempts are of this very Mandate  *)
(* and are numbered as they are listed.                                       *)
Lineage(m, prior) ==
    \A k \in DOMAIN prior :
        /\ runs[prior[k]].mandate = m
        /\ runs[prior[k]].index = k

(* Mutant: only attempts that completed are charged.                          *)
ConsumedByCompleted(prior) ==
    [x \in Resource |->
        MapThenSumSet(LAMBDA k : IF runs[prior[k]].completed
                                   THEN runs[prior[k]].used[x] ELSE 0, DOMAIN prior)]

Consumed(prior) ==
    [x \in Resource |->
        MapThenSumSet(LAMBDA k : runs[prior[k]].used[x], DOMAIN prior)]

Remaining(c) ==
    [x \in Resource |->
        LET spent == Consumed(c.prior)[x]
        IN  IF spent >= c.mandate.envelope[x] THEN 0 ELSE c.mandate.envelope[x] - spent]

Receipt(i)  == [of |-> "receipt", ref |-> i]
Proposal(i) == [of |-> "proposal", ref |-> i]
Note(n)     == [of |-> "note", ref |-> n]

(* What the Agent may adopt: the receipts and Completion Proposals of the     *)
(* prior attempts and the Strategy evidence of the context, each exactly.     *)
Adoptable(c) ==
    LET ended == {c.prior[k] : k \in DOMAIN c.prior}
    IN  {Receipt(i) : i \in ended}
        \cup {Proposal(i) : i \in {j \in ended : runs[j].completed}}
        \cup {Note(n) : n \in c.notes}

References == {Receipt(i) : i \in DOMAIN runs} \cup {Proposal(i) : i \in DOMAIN runs}
              \cup {Note(n) : n \in Notes}

-----------------------------------------------------------------------------
(* build_harness_strategy_selection_context over any evidence at hand; what   *)
(* is not a lineage is refused and nothing changes.                           *)
Contexts ==
    {[mandate |-> m, prior |-> prior, available |-> available, notes |-> notes] :
        m \in Mandates, prior \in UNION {[1 .. n -> Ended] : n \in 0 .. Len(runs)},
        available \in SUBSET Profiles, notes \in SUBSET Notes}

IsContext(c) ==
    /\ c.available # {} /\ {p.id : p \in c.available} \subseteq c.mandate.allowed
    /\ Lineage(c.mandate, c.prior)

(* An Agent answers with anything.                                            *)
Selections ==
    [ mandate : Mandates, index : 1 .. MaxRuns, profile : {p.id : p \in Profiles},
      budget : Budgets, adopted : {{}} \cup {{r} : r \in References} ]

(* admit_harness_agent_strategy.  A selection names the context it was made   *)
(* for and is refused for every other, so context and choice need no state of *)
(* their own between the steps: the caller may build the same context again.  *)
Admitted(c, s) ==
    /\ s.mandate = c.mandate
    /\ s.index = Len(c.prior) + 1
    /\ \E p \in c.available : p.id = s.profile
    /\ Fits(s.budget, Remaining(c))
    /\ s.adopted \subseteq Adoptable(c)

(* compile_harness_attempt asks once more, and for an envelope that is not    *)
(* exhausted and references that do not collide with the Mandate's.           *)
Compilable(c, s) ==
    /\ s.profile \in c.mandate.allowed
    /\ \A x \in Resource : Remaining(c)[x] >= 1
    /\ Fits(s.budget, Remaining(c))
    /\ \A r \in s.adopted : r \notin {Note(n) : n \in c.mandate.context}

(* HarnessAgentRun validates the composition before any state is created.  A  *)
(* compiled Contract binds no Provider Use Policy, so none may be supplied.   *)
Composable(p, with) ==
    /\ with.adapter = p.adapter
    /\ ~with.policy
    /\ CASE p.surface = "none"   -> ~with.runtime
         [] p.surface = "search" -> with.runtime
         [] OTHER                -> FALSE

Compositions == [adapter : {p.adapter : p \in Profiles}, policy : BOOLEAN, runtime : BOOLEAN]

(* A Store holds one Run of a caller reference, which is the Mandate's id.    *)
Vacant(root, m) == \A i \in DOMAIN runs : runs[i].root = root => runs[i].mandate.id # m.id

(* One selection may be compiled and started any number of times.             *)
StartAttempt(c, s, root, with) ==
    /\ Admitted(c, s) /\ Compilable(c, s)
    /\ \E p \in c.available : p.id = s.profile /\ Composable(p, with)
    /\ Vacant(root, s.mandate)
    /\ runs' = Append(runs,
          [ mandate |-> s.mandate, index |-> s.index, profile |-> s.profile,
            granted |-> s.budget, adopted |-> s.adopted, root |-> root,
            ended |-> FALSE, completed |-> FALSE, used |-> s.budget ])

(* The Run ends with its receipt.  The last answer and the last wait may      *)
(* exceed its budget.                                                         *)
EndAttempt(i, used, completed) ==
    /\ ~runs[i].ended
    /\ \A x \in Resource : used[x] <= runs[i].granted[x] + Overshoot
    /\ runs' = [runs EXCEPT ![i].ended = TRUE, ![i].completed = completed, ![i].used = used]

Start ==
    /\ Len(runs) < MaxRuns
    /\ \E c \in {x \in Contexts : IsContext(x)}, s \in Selections, root \in Roots,
         with \in Compositions : StartAttempt(c, s, root, with)

End ==
    \E i \in DOMAIN runs, used \in Reports, completed \in BOOLEAN : EndAttempt(i, used, completed)

Next == Start \/ End

Spec == Init /\ [][Next]_runs

-----------------------------------------------------------------------------
Under(m) == {i \in DOMAIN runs : runs[i].mandate = m}

(* No attempt was started twice: no two callers, no attempt given up.         *)
Unforked(m) == \A i, j \in Under(m) : runs[i].index = runs[j].index => i = j

(* The aggregate envelope of a Mandate holds over all its attempts, open ones *)
(* at their budget, whatever Agents choose and whichever evidence the caller  *)
(* hands in - as long as no attempt is started twice, which nothing but the   *)
(* caller prevents.  What Runs report beyond their budgets does not add up.   *)
MandateWithinEnvelope ==
    \A m \in Mandates : Unforked(m) =>
        \A x \in Resource :
            MapThenSumSet(LAMBDA i : runs[i].used[x], Under(m)) <= m.envelope[x] + Overshoot

(* What an attempt builds on is its own: receipts and proposals it adopted    *)
(* are of ended attempts of the very same Mandate that come before it, never  *)
(* of a changed Mandate with the same name, and its profile is one the        *)
(* Mandate allows.                                                            *)
OwnEvidenceOnly ==
    \A i \in DOMAIN runs :
        /\ runs[i].profile \in runs[i].mandate.allowed
        /\ \A r \in runs[i].adopted : r.of \in {"receipt", "proposal"} =>
              /\ runs[r.ref].ended /\ runs[r.ref].mandate = runs[i].mandate
              /\ runs[r.ref].index < runs[i].index
              /\ r.of = "proposal" => runs[r.ref].completed

=============================================================================
