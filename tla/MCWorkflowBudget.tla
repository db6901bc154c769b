-------------------------- MODULE MCWorkflowBudget --------------------------
(* Two nodes under an envelope of which a long attempt of b takes exactly  *)
(* four fifths, so that it warns, and two of them too much; a heavy        *)
(* attempt of a takes the largest word.                                    *)
EXTENDS WorkflowBudget

CONSTANTS a, b

NoEdges == [n \in Node |-> {}]

Light == [wall |-> 1, calls |-> 0, micros |-> None]
Heavy == [wall |-> MaxU, calls |-> 1, micros |-> 2]
Long == [wall |-> 4, calls |-> 1, micros |-> None]
Attempts == [n \in Node |-> IF n \in AgentNode THEN {Light, Heavy} ELSE {Long}]

(* a also has a slice of its own that a heavy attempt exceeds. *)
Limits == [n \in Node |-> [x \in Ceiling |-> CASE x = "flowWall" -> 5
                                               [] x = "nodeMicros" /\ n = a -> 1
                                               [] OTHER -> None]]
=============================================================================
