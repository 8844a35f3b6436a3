---------------------------- MODULE MCAgentLoop ----------------------------
(***************************************************************************)
(* A small Run of the Agent loop: two Tools, one of which only looks, two  *)
(* contents of an Observation, and answers of every kind.                  *)
(***************************************************************************)
EXTENDS AgentLoop, TLC

CONSTANTS look, act, e1, e2

Program1 == [steps |-> <<[tool |-> look, refs |-> {}], [tool |-> act, refs |-> {1}]>>,
             outs |-> {2}]
ASSUME ProgramAssumption == WellFormed(Program1)

AllAnswers ==
    {Plain("malformed"), Plain("select"), Plain("reselect"), Plain("done"), Plain("ask"),
     ProgramAction(Program1), ToolCalls(<<look>>), ToolCalls(<<act, look>>),
     ToolCalls(<<"recall">>), ToolCalls(<<"gone">>), ToolCalls(<<"bad", act>>)}

Composition(d, p, c) == [deliberate |-> d, projected |-> p, clocked |-> c]
(* A plain Run whose requests another process can repeat, and one with every
   option, of an Adapter whose requests it cannot.                          *)
AllModes == {Composition(FALSE, FALSE, FALSE), Composition(TRUE, TRUE, TRUE)}
=============================================================================
