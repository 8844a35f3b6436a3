------------------------------ MODULE MCMandate ------------------------------
(* Two versions of one Mandate, the second wider in tokens and in profiles,   *)
(* three attempts in three state roots.                                       *)
EXTENDS Mandate, TLC

Of(t, w) == [x \in Resource |-> IF x = "tokens" THEN t ELSE w]

MCProfiles == {[id |-> "p", adapter |-> "d", surface |-> "none"],
               [id |-> "q", adapter |-> "d", surface |-> "search"]}
MCMandates ==
    {[id |-> "m", envelope |-> Of(2, 2), allowed |-> {"p"}, context |-> {}],
     [id |-> "m", envelope |-> Of(3, 2), allowed |-> {"p", "q"}, context |-> {"n"}]}
MCBudgets == {Of(1, 1), Of(2, 1)}
MCReports == {Of(0, 0), Of(2, 1), Of(3, 1)}

RootsAlike == Permutations(Roots)

=============================================================================
