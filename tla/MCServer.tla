------------------------------ MODULE MCServer ------------------------------
(***************************************************************************)
(* Server with a connection on the route of agent a1, and any other one on  *)
(* /ws.                                                                    *)
(***************************************************************************)
EXTENDS Server, TLC

CONSTANTS c1, c2, a1, a2, e1, e2, e3

MCAgents == {a1, a2}
MCAgentOf == [c \in Chans |-> IF c = c1 THEN a1 ELSE NoAgent]

=============================================================================
