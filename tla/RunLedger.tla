----------------------------- MODULE RunLedger -----------------------------
(***************************************************************************)
(* What the Harness Journal promises its callers, with no leases, no       *)
(* revisions to quote, no workers and no object store: every Run has one   *)
(* ledger, opened once by one Contract whose caller binding is its own,    *)
(* that only grows, by whole batches of Events never admitted before, and  *)
(* that a terminal Event closes for good.                                  *)
(***************************************************************************)
EXTENDS RunEvents

VARIABLES
    bound,   \* [Runs -> Contract that opened the Run, or None]
    ledger   \* [Runs -> sequence of admitted Events]

lvars == <<bound, ledger>>

Closed(r) == \E i \in DOMAIN ledger[r] : ledger[r][i].kind \in TerminalKinds

Init ==
    /\ bound = [r \in Runs |-> None]
    /\ ledger = [r \in Runs |-> <<>>]

(* Contract c opens its Run.                                               *)
Open(c) ==
    /\ bound[c.run] = None
    /\ \A r \in Runs : bound[r] # None => bound[r].caller # c.caller
    /\ bound' = [bound EXCEPT ![c.run] = c]
    /\ ledger' = [ledger EXCEPT ![c.run] = <<CreationEvent(c)>>]

(* A batch of new Events extends an open ledger.                           *)
Extend(r, b) ==
    /\ bound[r] # None
    /\ ~Closed(r)
    /\ \A s \in Runs : Ids(b) \intersect Ids(ledger[s]) = {}
    /\ TerminalOnlyLast(b)
    /\ CausesKnown(b, ledger[r])
    /\ TimesMonotone(ledger[r] \o Stamped(b, Len(ledger[r])))
    /\ ledger' = [ledger EXCEPT ![r] = @ \o Stamped(b, Len(@))]
    /\ UNCHANGED bound

Next ==
    \/ \E c \in Contracts : Open(c)
    \/ \E r \in Runs, b \in Batches : Extend(r, b)

Spec == Init /\ [][Next]_lvars
=============================================================================
