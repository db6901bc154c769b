-------------------------- MODULE MCWorkflowStart --------------------------
(* Two owners share a key; requests differ in definition, input and form. *)
EXTENDS WorkflowStart

CONSTANTS o1, o2, k1, x, y, v1, v2, broken

Base == [owner |-> o1, key |-> k1, input |-> x, named |-> TRUE, manifest |-> v1,
         expected |-> None, ceiling |-> FALSE]

Sent == {Base,
         [Base EXCEPT !.input = y],
         [Base EXCEPT !.expected = v1],
         [Base EXCEPT !.expected = v2],
         [Base EXCEPT !.ceiling = TRUE],
         [Base EXCEPT !.named = FALSE],
         [Base EXCEPT !.named = FALSE, !.manifest = v2, !.expected = v1],
         [Base EXCEPT !.owner = o2, !.named = FALSE, !.manifest = v2]}
=============================================================================
