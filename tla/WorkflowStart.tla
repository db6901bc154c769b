---------------------------- MODULE WorkflowStart ----------------------------
(***************************************************************************)
(* Starting a workflow run (codypendentd/src/workflows.rs, start, and the  *)
(* idempotent creation in crates/workflow/src/store.rs).  A request may be *)
(* delivered any number of times, concurrently, and across restarts, while *)
(* the file a workflow name resolves to is edited; the owner and the       *)
(* idempotency key name the run it creates.                                *)
(*                                                                         *)
(* A definition stands for its digest: the code compares digests of parsed *)
(* definitions.  Inputs and repository are compared together everywhere    *)
(* and are one value here.  What a run does once a drive touched it is     *)
(* WorkflowEngine's subject.                                               *)
(***************************************************************************)
EXTENDS Naturals

CONSTANTS Delivery,    \* handlers of StartWorkflow in flight
          Owner, Key, Input, Definition,
          Startable,   \* definitions that compile and whose roles resolve
          Request,     \* the requests clients send
          None,
          MaxDeliveries, MaxEdits, MaxCrashes, MaxErrors   \* bounds

(* A request names a workflow or carries its manifest, may be bound to the *)
(* definition the client reviewed, or may carry an external budget         *)
(* ceiling; no caller sends both of the last two.                          *)
Requests == [owner : Owner, key : Key, input : Input, named : BOOLEAN, manifest : Definition,
             expected : Definition \cup {None}, ceiling : BOOLEAN]

(* A stored manifest: a definition, tightened by a ceiling that binds or   *)
(* not.                                                                    *)
Manifest == [def : Definition, tight : BOOLEAN]
Run == [manifest : Manifest, input : Input]

ASSUME StartAssumption ==
    /\ Startable \subseteq Definition
    /\ None \notin Definition \cup Run
    /\ Request \subseteq Requests
    /\ \A r \in Request : r.ceiling => r.expected = None
    /\ MaxDeliveries \in Nat /\ MaxEdits \in Nat /\ MaxCrashes \in Nat /\ MaxErrors \in Nat

VARIABLES
    source,   \* the definition the workflow name resolves to, or None
    row,      \* row[o][k]: the workflow run created under owner o and key k, or None
    phase,    \* phase[o][k]: "none", "pending" (no drive touched it), "driven"
    queued,   \* queued[o][k]: drives spawned and not yet started
    pc,       \* program counter of each handler
    req,      \* its request, or None
    text,     \* the manifest it resolved, or None
    reply,    \* its answer: "none", "started", "rejected", "retry"
    receipts, \* requests some client was told have started
    late,     \* the handler's request had been answered "started" when it arrived
    deliveries, edits, crashes, errors

handler == <<pc, req, text, reply, late>>
runs    == <<row, phase, queued>>
bounds  == <<deliveries, edits, crashes, errors>>
vars    == <<source, runs, handler, receipts, bounds>>

HandlerPc == {"idle", "lookup", "resolve", "create", "fresh", "spawn"}

Row(d) == row[req[d].owner][req[d].key]
Phase(d) == phase[req[d].owner][req[d].key]

Goes(d, p) == pc' = [pc EXCEPT ![d] = p]
Answer(d, a) == Goes(d, "idle") /\ reply' = [reply EXCEPT ![d] = a]

----------------------------------------------------------------------------
(* start *)

(* Fault: every request reads the sources first. *)
DeliverToSources(d, r) ==
    /\ pc[d] = "idle" /\ deliveries < MaxDeliveries
    /\ deliveries' = deliveries + 1
    /\ req' = [req EXCEPT ![d] = r]
    /\ late' = [late EXCEPT ![d] = r \in receipts]
    /\ reply' = [reply EXCEPT ![d] = "none"]
    /\ text' = [text EXCEPT ![d] = None]
    /\ Goes(d, "resolve")
    /\ UNCHANGED <<source, runs, receipts, edits, crashes, errors>>

(* A request arrives; one bound to a definition looks for its run first. *)
Deliver(d, r) ==
    /\ pc[d] = "idle" /\ deliveries < MaxDeliveries
    /\ deliveries' = deliveries + 1
    /\ req' = [req EXCEPT ![d] = r]
    /\ late' = [late EXCEPT ![d] = r \in receipts]
    /\ reply' = [reply EXCEPT ![d] = "none"]
    /\ text' = [text EXCEPT ![d] = None]
    /\ Goes(d, IF r.expected # None THEN "lookup" ELSE "resolve")
    /\ UNCHANGED <<source, runs, receipts, edits, crashes, errors>>

(* accepted_request_owned: the receipt of an accepted request is recovered *)
(* before the mutable sources are read.                                    *)
Lookup(d) ==
    /\ pc[d] = "lookup"
    /\ \/ Row(d) = None /\ Goes(d, "resolve") /\ UNCHANGED reply
       \/ /\ Row(d) # None
          /\ IF Row(d) = [manifest |-> [def |-> req[d].expected, tight |-> FALSE],
                          input |-> req[d].input]
               THEN Goes(d, "fresh") /\ UNCHANGED reply
               ELSE Answer(d, "rejected")
    /\ UNCHANGED <<source, runs, req, text, late, receipts, bounds>>

(* The manifest is resolved once, compared with the reviewed definition,   *)
(* tightened by the ceiling and compiled.                                  *)
Resolve(d) ==
    LET r == req[d]
        def == IF r.named THEN source ELSE r.manifest
    IN  /\ pc[d] = "resolve"
        /\ IF def \in Startable /\ r.expected \in {None, def}
             THEN /\ text' = [text EXCEPT ![d] = [def |-> def, tight |-> r.ceiling]]
                  /\ Goes(d, "create") /\ UNCHANGED reply
             ELSE Answer(d, "rejected") /\ UNCHANGED text
        /\ UNCHANGED <<source, runs, req, late, receipts, bounds>>

(* Fault: a duplicate is taken for the first application unseen. *)
CreateWithoutComparing(d) ==
    LET o == req[d].owner
        k == req[d].key
    IN  /\ pc[d] = "create"
        /\ Goes(d, "fresh")
        /\ IF Row(d) = None
             THEN /\ row' = [row EXCEPT ![o][k] = [manifest |-> text[d], input |-> req[d].input]]
                  /\ phase' = [phase EXCEPT ![o][k] = "pending"]
             ELSE UNCHANGED <<row, phase>>
        /\ UNCHANGED <<source, queued, req, text, reply, late, receipts, bounds>>

(* create_run_idempotent_inner: one transaction inserts the run, or        *)
(* compares the request with the run that is there.                        *)
Create(d) ==
    LET o == req[d].owner
        k == req[d].key
        new == [manifest |-> text[d], input |-> req[d].input]
    IN  /\ pc[d] = "create"
        /\ \/ /\ Row(d) = None
              /\ row' = [row EXCEPT ![o][k] = new]
              /\ phase' = [phase EXCEPT ![o][k] = "pending"]
              /\ Goes(d, "fresh") /\ UNCHANGED reply
           \/ /\ Row(d) = new
              /\ Goes(d, "fresh") /\ UNCHANGED <<row, phase, reply>>
           \/ /\ Row(d) \notin {None, new}
              /\ Answer(d, "rejected") /\ UNCHANGED <<row, phase>>
        /\ UNCHANGED <<source, queued, req, text, late, receipts, bounds>>

Started(d) == Answer(d, "started") /\ receipts' = receipts \cup {req[d]}

(* is_fresh: only a run no drive touched is driven ... *)
Fresh(d) ==
    /\ pc[d] = "fresh"
    /\ IF Phase(d) = "pending"
         THEN Goes(d, "spawn") /\ UNCHANGED <<reply, receipts>>
         ELSE Started(d)
    /\ UNCHANGED <<source, runs, req, text, late, bounds>>

(* ... by a drive spawned here. *)
Spawn(d) ==
    /\ pc[d] = "spawn"
    /\ queued' = [queued EXCEPT ![req[d].owner][req[d].key] = @ + 1]
    /\ Started(d)
    /\ UNCHANGED <<source, row, phase, req, text, late, bounds>>

(* The store fails: a lookup or a creation answers with a retryable error, *)
(* an unreadable run does not count as fresh.                              *)
StoreError(d) ==
    /\ errors < MaxErrors
    /\ errors' = errors + 1
    /\ \/ pc[d] \in {"lookup", "create"} /\ Answer(d, "retry") /\ UNCHANGED receipts
       \/ pc[d] = "fresh" /\ Started(d)
    /\ UNCHANGED <<source, runs, req, text, late, deliveries, edits, crashes>>

----------------------------------------------------------------------------
(* A drive starts on the run (run_observed makes it running), or finds it  *)
(* already touched.                                                        *)
Drive(o, k) ==
    /\ queued[o][k] > 0
    /\ queued' = [queued EXCEPT ![o][k] = @ - 1]
    /\ phase' = [phase EXCEPT ![o][k] = "driven"]
    /\ UNCHANGED <<source, row, handler, receipts, bounds>>

(* The workflow file is edited, removed or restored. *)
EditSource ==
    /\ edits < MaxEdits
    /\ edits' = edits + 1
    /\ source' \in (Definition \cup {None}) \ {source}
    /\ UNCHANGED <<runs, handler, receipts, deliveries, crashes, errors>>

(* Fault: recovery looks only at runs that were running. *)
RestartForgetsPending ==
    /\ crashes < MaxCrashes
    /\ crashes' = crashes + 1
    /\ pc' = [d \in Delivery |-> "idle"]
    /\ queued' = [o \in Owner |-> [k \in Key |-> 0]]
    /\ UNCHANGED <<source, row, phase, req, text, reply, late, receipts, deliveries, edits, errors>>

(* The daemon dies: handlers and drives are gone, clients may deliver      *)
(* again, and recover spawns a drive for every incomplete run.             *)
CrashRestart ==
    /\ crashes < MaxCrashes
    /\ crashes' = crashes + 1
    /\ pc' = [d \in Delivery |-> "idle"]
    /\ queued' = [o \in Owner |-> [k \in Key |-> IF phase[o][k] = "pending" THEN 1 ELSE 0]]
    /\ UNCHANGED <<source, row, phase, req, text, reply, late, receipts, deliveries, edits, errors>>

----------------------------------------------------------------------------
Init ==
    /\ source \in Definition
    /\ row = [o \in Owner |-> [k \in Key |-> None]]
    /\ phase = [o \in Owner |-> [k \in Key |-> "none"]]
    /\ queued = [o \in Owner |-> [k \in Key |-> 0]]
    /\ pc = [d \in Delivery |-> "idle"]
    /\ req = [d \in Delivery |-> None]
    /\ text = [d \in Delivery |-> None]
    /\ reply = [d \in Delivery |-> "none"]
    /\ late = [d \in Delivery |-> FALSE]
    /\ receipts = {}
    /\ deliveries = 0 /\ edits = 0 /\ crashes = 0 /\ errors = 0

HandlerStep(d) == Lookup(d) \/ Resolve(d) \/ Create(d) \/ Fresh(d) \/ Spawn(d)

Next ==
    \/ \E d \in Delivery : \/ HandlerStep(d) \/ StoreError(d)
                           \/ \E r \in Request : Deliver(d, r)
    \/ \E o \in Owner, k \in Key : Drive(o, k)
    \/ EditSource
    \/ CrashRestart

(* Handlers and drives are tokio tasks, polled while they can go on. *)
Fairness ==
    /\ \A d \in Delivery : WF_vars(HandlerStep(d))
    /\ \A o \in Owner, k \in Key : WF_vars(Drive(o, k))

SafetySpec == Init /\ [][Next]_vars
Spec == SafetySpec /\ Fairness

----------------------------------------------------------------------------
(* Run w is what request r asks for; the reviewed definition says what     *)
(* that is when the request is bound to one.                               *)
Serves(w, r) ==
    /\ w # None
    /\ w.input = r.input
    /\ w.manifest.tight = r.ceiling
    /\ r.expected # None => w.manifest.def = r.expected
    /\ (r.expected = None /\ ~r.named) => w.manifest.def = r.manifest

(* A client that is told its workflow started has a run of its own owner   *)
(* that does what it asked for, however many deliveries with the same key  *)
(* raced past the fast path.                                               *)
AcceptedIsServed == \A r \in receipts : Serves(row[r.owner][r.key], r)

(* A definition-bound request that was accepted once gets its receipt      *)
(* again: a retry is not rejected because the workflow file changed since. *)
RetryRecoversReceipt ==
    \A d \in Delivery : (late[d] /\ req[d].expected # None) => reply[d] # "rejected"

(* A run that was created is driven, also when the daemon dies between the *)
(* insertion and the drive; only an unreadable run may have to wait for    *)
(* the next restart.                                                       *)
CreatedIsDriven ==
    \A o \in Owner, k \in Key :
        phase[o][k] = "pending" ~> (phase[o][k] # "pending" \/ errors > 0)
=============================================================================
