-------------------------- MODULE MCWorkflowEngine --------------------------
(* Small graphs for TLC. *)
EXTENDS WorkflowEngine

CONSTANTS a, b, c

(* a, then b; c beside them. *)
ChainAndSide == [n \in Node |-> IF n = b THEN {a} ELSE {}]

(* Two nodes with no edge, so a wave of width two has both in flight. *)
NoEdges == [n \in Node |-> {}]
=============================================================================
