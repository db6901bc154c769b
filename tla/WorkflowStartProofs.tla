------------------------ MODULE WorkflowStartProofs ------------------------
(* Proofs about WorkflowStart, for every set of requests and any number of *)
(* concurrent deliveries.                                                  *)
EXTENDS WorkflowStart, TLAPS

(* The variables the argument is about. *)
Typed ==
    /\ row \in [Owner -> [Key -> Run \cup {None}]]
    /\ pc \in [Delivery -> HandlerPc]
    /\ req \in [Delivery -> Request \cup {None}]
    /\ text \in [Delivery -> Manifest \cup {None}]
    /\ reply \in [Delivery -> {"none", "started", "rejected", "retry"}]
    /\ late \in [Delivery -> BOOLEAN]
    /\ receipts \subseteq Request

(* The manifest a handler carries is the one its request asks for. *)
Carries(m, r) ==
    /\ m \in Manifest
    /\ m.tight = r.ceiling
    /\ r.expected # None => m.def = r.expected
    /\ (r.expected = None /\ ~r.named) => m.def = r.manifest

(* What holds of a handler: what it is about to insert or has found is     *)
(* what it was asked for, and a bound request that was accepted before     *)
(* never gets past the lookup.                                             *)
HandlerInv(d) ==
    /\ pc[d] # "idle" => req[d] \in Request
    /\ pc[d] = "lookup" => req[d].expected # None
    /\ pc[d] = "create" => Carries(text[d], req[d])
    /\ pc[d] \in {"fresh", "spawn"} => Serves(Row(d), req[d])
    /\ late[d] => req[d] \in receipts
    /\ (late[d] /\ req[d].expected # None) =>
          pc[d] \notin {"resolve", "create"} /\ reply[d] # "rejected"

StartInv == Typed /\ AcceptedIsServed /\ \A d \in Delivery : HandlerInv(d)

----------------------------------------------------------------------------
(* Nothing runs in the initial state. *)
LEMMA StartInvInit == Init => StartInv
  BY DEF Init, StartInv, Typed, AcceptedIsServed, HandlerInv, HandlerPc

(* Steps of the others: they leave the runs and the handlers alone, or     *)
(* only end handlers.                                                      *)
LEMMA QuietStep ==
    ASSUME StartInv, UNCHANGED <<row, req, text, reply, late, receipts>>,
           UNCHANGED pc \/ pc' = [d \in Delivery |-> "idle"]
    PROVE  StartInv'
  BY DEF StartInv, Typed, AcceptedIsServed, HandlerInv, HandlerPc, Row, Serves, Carries

(* A request arrives. *)
LEMMA DeliverStep ==
    ASSUME StartInv, NEW d \in Delivery, NEW r \in Request, Deliver(d, r)
    PROVE  StartInv'
<1> USE DEF StartInv, Typed, Deliver, Goes, runs
<1>1. Typed' /\ AcceptedIsServed'
  BY DEF HandlerPc, AcceptedIsServed, Serves
<1>2. ASSUME NEW e \in Delivery, e # d PROVE HandlerInv(e)'
  BY <1>2 DEF HandlerInv, Row, Serves, Carries
<1>3. ASSUME r \in receipts, r.expected # None PROVE pc'[d] = "lookup"
  BY <1>3
<1>4. HandlerInv(d)'
  BY <1>3 DEF HandlerInv, Row, HandlerPc
<1> QED
  BY <1>1, <1>2, <1>4

(* A bound request that was accepted before finds its run. *)
LEMMA LookupStep ==
    ASSUME StartInv, NEW d \in Delivery, Lookup(d)
    PROVE  StartInv'
<1> USE DEF StartInv, Typed, Goes, Answer
<1>1. req[d] \in Request /\ req[d].expected # None /\ req[d].owner \in Owner /\ req[d].key \in Key
  BY StartAssumption DEF Lookup, HandlerInv, Requests
<1>2. UNCHANGED <<row, req, text, late, receipts>>
  BY DEF Lookup, runs
<1>3. pc' = [pc EXCEPT ![d] = pc'[d]] /\ pc'[d] \in {"resolve", "fresh", "idle"}
  BY DEF Lookup
<1>4. Typed' /\ AcceptedIsServed'
  BY <1>2, <1>3 DEF HandlerPc, AcceptedIsServed, Serves, Lookup
<1>5. ASSUME NEW e \in Delivery, e # d PROVE HandlerInv(e)'
  <2>1. pc'[e] = pc[e] /\ reply'[e] = reply[e]
    BY <1>3, <1>5 DEF Lookup
  <2>2. Row(e)' = Row(e) /\ req'[e] = req[e] /\ text'[e] = text[e] /\ late'[e] = late[e]
    BY <1>2 DEF Row
  <2>3. HandlerInv(e) /\ receipts' = receipts
    BY <1>2
  <2> QED
    BY <2>1, <2>2, <2>3 DEF HandlerInv, Serves, Carries
<1>6. ~req[d].ceiling
  BY <1>1, StartAssumption DEF Requests
<1>7. pc'[d] = "fresh" => Serves(Row(d), req[d])'
  <2> SUFFICES ASSUME pc'[d] = "fresh" PROVE Serves(Row(d), req[d])'
    OBVIOUS
  <2>1. Row(d) # None /\ Row(d) = [manifest |-> [def |-> req[d].expected, tight |-> FALSE],
                                   input |-> req[d].input]
    BY DEF Lookup
  <2>2. req[d].ceiling = FALSE
    BY <1>1, <1>6, StartAssumption DEF Requests
  <2>3. Serves(Row(d), req[d])
    <3>1. Row(d).input = req[d].input
      BY <2>1
    <3>2. Row(d).manifest = [def |-> req[d].expected, tight |-> FALSE]
      BY <2>1
    <3>3. Row(d).manifest.def = req[d].expected /\ Row(d).manifest.tight = FALSE
      BY <3>2
    <3> QED
      BY <1>1, <2>1, <2>2, <3>1, <3>3 DEF Serves
  <2>4. Row(d)' = Row(d) /\ req'[d] = req[d]
    BY <1>2 DEF Row
  <2> QED
    BY <2>3, <2>4 DEF Serves
<1>8. late[d] => pc'[d] = "fresh" /\ reply'[d] = reply[d]
  <2> SUFFICES ASSUME late[d] PROVE pc'[d] = "fresh" /\ reply'[d] = reply[d]
    OBVIOUS
  <2>1. Serves(Row(d), req[d])
    BY DEF HandlerInv, AcceptedIsServed, Row
  <2>2. Row(d) \in Run
    BY <1>1, <2>1 DEF Serves, Row
  <2>3. Row(d) = [manifest |-> [def |-> req[d].expected, tight |-> FALSE], input |-> req[d].input]
    <3>1. /\ Row(d).manifest \in Manifest
          /\ Row(d) = [manifest |-> Row(d).manifest, input |-> Row(d).input]
      BY <2>2 DEF Run
    <3>2. Row(d).manifest = [def |-> Row(d).manifest.def, tight |-> Row(d).manifest.tight]
      BY <3>1 DEF Manifest
    <3>3. Row(d).manifest.tight = FALSE
      BY <1>1, <1>6, <2>1, StartAssumption DEF Serves, Requests
    <3>4. Row(d).input = req[d].input /\ Row(d).manifest.def = req[d].expected
      BY <1>1, <2>1 DEF Serves
    <3> QED
      BY <3>1, <3>2, <3>3, <3>4
  <2> QED
    BY <2>1, <2>3 DEF Lookup, Serves
<1>9. HandlerInv(d)'
  BY <1>1, <1>2, <1>3, <1>7, <1>8 DEF HandlerInv
<1> QED
  BY <1>4, <1>5, <1>9

(* The sources are read. *)
LEMMA ResolveStep ==
    ASSUME StartInv, NEW d \in Delivery, Resolve(d)
    PROVE  StartInv'
<1> USE DEF StartInv, Typed, Goes, Answer
<1> DEFINE def == IF req[d].named THEN source ELSE req[d].manifest
<1>1. req[d] \in Request /\ pc[d] = "resolve"
  BY DEF Resolve, HandlerInv
<1>2. UNCHANGED <<row, req, late, receipts>>
  BY DEF Resolve, runs
<1>3. \/ /\ def \in Startable /\ req[d].expected \in {None, def}
         /\ text' = [text EXCEPT ![d] = [def |-> def, tight |-> req[d].ceiling]]
         /\ pc' = [pc EXCEPT ![d] = "create"] /\ reply' = reply
      \/ /\ pc' = [pc EXCEPT ![d] = "idle"] /\ reply' = [reply EXCEPT ![d] = "rejected"]
         /\ text' = text
  BY DEF Resolve
<1>4. def \in Startable => [def |-> def, tight |-> req[d].ceiling] \in Manifest
  BY <1>1, StartAssumption DEF Manifest, Requests
<1> HIDE DEF def
<1>5. Typed' /\ AcceptedIsServed'
  BY <1>2, <1>3, <1>4 DEF HandlerPc, AcceptedIsServed, Serves
<1>6. ASSUME NEW e \in Delivery, e # d PROVE HandlerInv(e)'
  BY <1>2, <1>3, <1>6 DEF HandlerInv, Row, Serves, Carries
<1>7. pc'[d] = "create" => Carries(text[d], req[d])'
  BY <1>1, <1>2, <1>3, <1>4, StartAssumption DEF Carries, def, Requests
<1>8. ~(late[d] /\ req[d].expected # None)
  BY <1>1 DEF HandlerInv
<1>9. HandlerInv(d)'
  BY <1>1, <1>2, <1>3, <1>7, <1>8 DEF HandlerInv
<1> QED
  BY <1>5, <1>6, <1>9

(* The transaction inserts what was asked for, or finds it. *)
LEMMA CreateStep ==
    ASSUME StartInv, NEW d \in Delivery, Create(d)
    PROVE  StartInv'
<1> USE DEF StartInv, Typed, Goes, Answer
<1> DEFINE o == req[d].owner
           k == req[d].key
           new == [manifest |-> text[d], input |-> req[d].input]
<1>1. /\ req[d] \in Request /\ pc[d] = "create" /\ Carries(text[d], req[d])
      /\ o \in Owner /\ k \in Key /\ new \in Run
  BY StartAssumption DEF Create, HandlerInv, Requests, Carries, Run
<1>2. UNCHANGED <<req, text, late, receipts>>
  BY DEF Create
<1>3. \/ /\ row[o][k] = None /\ row' = [row EXCEPT ![o][k] = new]
         /\ pc' = [pc EXCEPT ![d] = "fresh"] /\ reply' = reply
      \/ /\ row[o][k] = new /\ row' = row
         /\ pc' = [pc EXCEPT ![d] = "fresh"] /\ reply' = reply
      \/ /\ row' = row
         /\ pc' = [pc EXCEPT ![d] = "idle"] /\ reply' = [reply EXCEPT ![d] = "rejected"]
  BY DEF Create, Row
<1>4. Serves(new, req[d])
  BY <1>1, StartAssumption DEF Serves, Carries
<1> HIDE DEF new
<1>5. \A p \in Owner, q \in Key : row[p][q] # None => row'[p][q] = row[p][q]
  BY <1>1, <1>3
<1>6. pc'[d] = "fresh" => row'[o][k] = new
  BY <1>1, <1>3
<1>7. Typed'
  BY <1>1, <1>2, <1>3 DEF HandlerPc
<1>8. AcceptedIsServed'
  BY <1>2, <1>5, StartAssumption DEF AcceptedIsServed, Serves, Requests
<1>9. ASSUME NEW e \in Delivery, e # d PROVE HandlerInv(e)'
  <2>1. pc'[e] = pc[e] /\ reply'[e] = reply[e] /\ UNCHANGED <<req, text, late, receipts>>
    BY <1>2, <1>3, <1>9
  <2>2. pc[e] \in {"fresh", "spawn"} => Serves(Row(e), req[e])'
    BY <1>5, <2>1, StartAssumption DEF HandlerInv, Row, Serves, Requests
  <2> QED
    BY <2>1, <2>2 DEF HandlerInv, Carries
<1>10. HandlerInv(d)'
  BY <1>1, <1>2, <1>3, <1>4, <1>6 DEF HandlerInv, Row
<1> QED
  BY <1>7, <1>8, <1>9, <1>10

(* The answer goes out. *)
LEMMA AnswerStep ==
    ASSUME StartInv, NEW d \in Delivery, Fresh(d) \/ Spawn(d) \/ StoreError(d)
    PROVE  StartInv'
<1> USE DEF StartInv, Typed, Goes, Answer, Started
<1>1. UNCHANGED <<row, req, text, late>>
  BY DEF Fresh, Spawn, StoreError, runs
<1>2. /\ pc' = [pc EXCEPT ![d] = pc'[d]] /\ reply' = [reply EXCEPT ![d] = reply'[d]]
      /\ \/ pc[d] = "fresh" /\ pc'[d] = "spawn" /\ reply'[d] = reply[d] /\ receipts' = receipts
         \/ /\ pc[d] \in {"fresh", "spawn"} /\ pc'[d] = "idle" /\ reply'[d] = "started"
            /\ receipts' = receipts \cup {req[d]}
         \/ /\ pc[d] \in {"lookup", "create"} /\ pc'[d] = "idle" /\ reply'[d] = "retry"
            /\ receipts' = receipts
  BY DEF Fresh, Spawn, StoreError
<1>3. pc[d] # "idle" /\ req[d] \in Request
  BY <1>2 DEF HandlerInv
<1>4. Typed'
  BY <1>1, <1>2, <1>3 DEF HandlerPc
<1>5. receipts' \subseteq receipts \cup {req[d]} /\ receipts \subseteq receipts'
  BY <1>2
<1>6. AcceptedIsServed'
  <2>1. CASE receipts' = receipts
    BY <1>1, <2>1 DEF AcceptedIsServed, Serves
  <2>2. CASE receipts' # receipts
    <3>1. Serves(row[req[d].owner][req[d].key], req[d])
      BY <1>2, <2>2 DEF HandlerInv, Row
    <3> QED
      BY <1>1, <1>5, <3>1 DEF AcceptedIsServed, Serves
  <2> QED
    BY <2>1, <2>2
<1>7. ASSUME NEW e \in Delivery, e # d PROVE HandlerInv(e)'
  BY <1>1, <1>2, <1>5, <1>7 DEF HandlerInv, Row, Serves, Carries
<1>8. HandlerInv(d)'
  BY <1>1, <1>2, <1>3, <1>5 DEF HandlerInv, Row, Serves
<1> QED
  BY <1>4, <1>6, <1>7, <1>8

(* Every step keeps the invariant. *)
LEMMA StartInvNext == StartInv /\ [Next]_vars => StartInv'
<1> SUFFICES ASSUME StartInv, [Next]_vars PROVE StartInv'
  OBVIOUS
<1>1. ASSUME NEW d \in Delivery, HandlerStep(d) \/ StoreError(d) PROVE StartInv'
  BY <1>1, LookupStep, ResolveStep, CreateStep, AnswerStep DEF HandlerStep
<1>2. ASSUME NEW d \in Delivery, NEW r \in Request, Deliver(d, r) PROVE StartInv'
  BY <1>2, DeliverStep
<1>3. CASE (\E o \in Owner, k \in Key : Drive(o, k)) \/ EditSource \/ CrashRestart \/ UNCHANGED vars
  BY <1>3, QuietStep DEF Drive, EditSource, CrashRestart, vars, handler, runs
<1> QED
  BY <1>1, <1>2, <1>3 DEF Next

(* The invariant holds throughout. *)
LEMMA StartSafe == SafetySpec => []StartInv
  BY StartInvInit, StartInvNext, PTL DEF SafetySpec

(* However many deliveries race, a client told that its workflow started   *)
(* has a run that does what it asked for (store.rs,                        *)
(* create_run_idempotent_inner).                                           *)
THEOREM StartIsIdempotent == SafetySpec => []AcceptedIsServed
<1>1. StartInv => AcceptedIsServed
  BY DEF StartInv
<1> QED
  BY <1>1, StartSafe, PTL

(* An accepted, definition-bound request is never rejected when it is      *)
(* delivered again, whatever happened to the workflow file since           *)
(* (workflows.rs, start).                                                  *)
THEOREM ReceiptIsRecovered == SafetySpec => []RetryRecoversReceipt
<1>1. StartInv => RetryRecoversReceipt
  BY DEF StartInv, HandlerInv, RetryRecoversReceipt
<1> QED
  BY <1>1, StartSafe, PTL
=============================================================================
