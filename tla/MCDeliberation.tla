--------------------------- MODULE MCDeliberation ---------------------------
(* Small answers and budgets for Deliberation.                                *)
EXTENDS Deliberation

MCTools == {"look", "ask"}
MCTokenBound == 2
MCRefusals == {"REJECTED", "UNAVAILABLE", "TIMEOUT"}

Raw(id, name, form) == [id |-> id, name |-> name, form |-> form]

Replies ==
    { [calls |-> c, finish |-> "tool_calls", complete |-> k] :
        c \in { <<Raw(1, "conclusion", "sound")>>, <<Raw(1, "look", "sound")>>,
                <<Raw(1, "look", "sound"), Raw(2, "conclusion", "sound")>>,
                <<Raw(1, "transition", "sound")>> },
        k \in BOOLEAN }
    \cup
    { [calls |-> c, finish |-> "tool_calls", complete |-> FALSE] :
        c \in { <<Raw(1, "look", "sound"), Raw(2, "ask", "unreadable")>>,
                <<Raw(1, "history", "sound"), Raw(2, "look", "sound")>>,
                <<Raw(1, "look", "sound"), Raw(2, "program", "sound"), Raw(3, "conclusion", "sound")>> } }
    \cup { [calls |-> <<>>, finish |-> "exhausted", complete |-> FALSE] }

MCAnswers ==
    { [calls |-> r.calls, finish |-> r.finish, complete |-> r.complete, cost |-> n, reported |-> k] :
        r \in Replies, n \in 1 .. 2, k \in BOOLEAN }

MCBudgets ==
    { [calls |-> c, tokens |-> n, tools |-> 2, fixes |-> 1] : c \in {1, 3}, n \in {1, 3, 5} }

=============================================================================
