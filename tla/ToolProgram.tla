---------------------------- MODULE ToolProgram ----------------------------
(***************************************************************************)
(* A Tool program: a bounded sequence of Tool calls that one answer of the *)
(* model asks for, whose arguments may refer to the Observations of earlier*)
(* steps, and the recovery of its cursor from what is durable              *)
(* (tool_program.py, tool_program_recovery.py,                             *)
(* tool_program_durable_recovery.py).                                      *)
(*                                                                         *)
(* Content of an Observation is an element of Content; a reference cannot  *)
(* be resolved in an element of Pathless.  A call is known by its place    *)
(* and the contents its arguments were made of: that is its digest.        *)
(***************************************************************************)
EXTENDS Integers, Sequences

CONSTANTS
    Tools,     \* names of the Tools
    Content,   \* contents of an Observation
    Pathless,  \* those without the path that references name
    MaxSteps,  \* the longest program the code admits
    None

ASSUME ContentAssumption ==
    /\ Pathless \subseteq Content
    /\ MaxSteps \in Nat \ {0}

Endings == {"rejected", "unknown", "cancel-requested", "cancelled"}
ASSUME EndingsAssumption ==
    /\ Content \intersect Endings = {}
    /\ None \notin Content \union Endings \union {"observed"}

(* A step names its Tool and the earlier steps its arguments refer to.      *)
ProgramStep == [tool: Tools, refs: SUBSET (1 .. MaxSteps)]
Program == [steps: Seq(ProgramStep), outs: SUBSET (1 .. MaxSteps)]

(* HarnessToolProgram.__post_init__: only an earlier step may be named.     *)
WellFormed(p) ==
    /\ p \in Program
    /\ Len(p.steps) \in 1 .. MaxSteps
    /\ \A i \in DOMAIN p.steps : p.steps[i].refs \subseteq 1 .. i - 1
    /\ p.outs \subseteq DOMAIN p.steps

(* _resolve_template over the outcomes of the steps so far.                 *)
Resolvable(refs, seen) == \A r \in refs : r \in DOMAIN seen /\ seen[r] \in Content \ Pathless

(* derive_tool_program_inner_call: a later step follows observed ones only. *)
Derivable(p, seen) ==
    /\ Len(seen) < Len(p.steps)
    /\ \A i \in DOMAIN seen : seen[i] \in Content
    /\ Resolvable(p.steps[Len(seen) + 1].refs, seen)

InnerCall(p, seen) ==
    LET i == Len(seen) + 1
    IN  [at |-> i, args |-> [r \in p.steps[i].refs |-> seen[r]]]

NextCall(call) == [is |-> "next", call |-> call]
Terminal(status) == [is |-> "terminal", call |-> status]
Blocked(why) == [is |-> "blocked", call |-> why]   \* recovery-required
Rejected == [is |-> "rejected", call |-> None]     \* an exception

Broken(seen) == seen # <<>> /\ seen[Len(seen)] \notin Content

(* recover_tool_program_action, from the outcomes of a prefix of the steps. *)
Recover(p, seen) ==
    CASE Broken(seen) -> Terminal(seen[Len(seen)])
      [] ~Broken(seen) /\ Len(seen) = Len(p.steps) ->
            IF Resolvable(p.outs, seen) THEN Terminal("completed") ELSE Rejected
      [] ~Broken(seen) /\ Len(seen) < Len(p.steps) ->
            IF Derivable(p, seen) THEN NextCall(InnerCall(p, seen)) ELSE Rejected

(* recover_tool_program_from_durable_evidence.  A piece of evidence is an
   Intent (its call) with the status of its receipt, None before it, and
   the content of the Observation, None where Privacy withheld it.          *)
Evidence == [call: [at: 1 .. MaxSteps, args: UNION {[R -> Content] : R \in SUBSET (1 .. MaxSteps)}],
             status: {"observed", None} \union Endings,
             content: Content \union Endings \union {None}]

Withheld(e) == e.status # None /\ e.content = None

(* The content of a step is compared while that of every earlier one is
   there; a step without a receipt ends the examination.                    *)
Recoverable(p, pieces) ==
    /\ Len(pieces) <= Len(p.steps)
    /\ \A i \in DOMAIN pieces :
          LET seen == [j \in 1 .. i - 1 |-> pieces[j].content] IN
          /\ pieces[i].call.at = i
          /\ (\A j \in 1 .. i - 1 : ~Withheld(pieces[j])) =>
                Derivable(p, seen) /\ pieces[i].call = InnerCall(p, seen)
          /\ pieces[i].status \in Endings => i = Len(pieces)

(* Mutant: a step without a receipt is taken for one that did not happen.   *)
DurableRecoveryForgetful(p, pieces) ==
    LET closed == SelectSeq(pieces, LAMBDA e : e.status # None) IN
    CASE \E i \in DOMAIN closed : Withheld(closed[i]) ->
            Blocked("tool-observation-content-unavailable")
      [] OTHER -> Recover(p, [i \in DOMAIN closed |-> closed[i].content])

DurableRecovery(p, pieces) ==
    CASE ~Recoverable(p, pieces) -> Rejected
      [] Recoverable(p, pieces) /\ \E i \in DOMAIN pieces : pieces[i].status = None ->
            Blocked("tool-step-nonterminal")
      [] Recoverable(p, pieces) /\ \A i \in DOMAIN pieces : pieces[i].status # None ->
            IF \E i \in DOMAIN pieces : Withheld(pieces[i])
              THEN Blocked("tool-observation-content-unavailable")
              ELSE Recover(p, [i \in DOMAIN pieces |-> pieces[i].content])
=============================================================================
