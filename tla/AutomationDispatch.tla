------------------------- MODULE AutomationDispatch -------------------------
(***************************************************************************)
(* From a reserved receipt to a workflow run (daemon/src/                  *)
(* automation_scheduler.rs: tick, dispatch, close_interrupted_attempts,    *)
(* sweep_pending, dispatch_endpoint_event).  The receipts are those of one *)
(* binding.  A tick loop dispatches what it claimed and re-drives what is  *)
(* owed a retry or was left behind; the handler of a webhook delivery      *)
(* reserves and dispatches beside it; the daemon dies at any point.  How   *)
(* an occurrence comes to be claimed is AutomationSchedule's subject, and  *)
(* what start does with a request WorkflowStart's: here it creates the run *)
(* of the receipt's key, finds the same request there, or refuses another. *)
(*                                                                         *)
(* Instants are abstracted to what the statements ask of them: a receipt   *)
(* is old once it was not updated for the orphan period, an open attempt   *)
(* stale after the interruption period, a waiting one due.                 *)
(***************************************************************************)
EXTENDS Naturals, Sequences, FiniteSets

CONSTANTS
    Receipt,         \* dedup keys of the binding: deliveries and occurrences
    Event,           \* those of deliveries; the others are scheduled
    Sweeper,         \* tick loops
    Handler,         \* webhook deliveries being handled
    MaxAttempts,     \* retry.max_attempts
    SkipsOverlap,    \* concurrency is skip, not allow
    None,
    MaxFaults, MaxToggles   \* bounds

ASSUME DispatchAssumption ==
    /\ Event \subseteq Receipt
    /\ Sweeper \cap Handler = {}
    /\ SkipsOverlap \in BOOLEAN
    /\ MaxAttempts \in Nat /\ MaxFaults \in Nat /\ MaxToggles \in Nat

VARIABLES
    enabled,   \* of the binding row
    passes,    \* the deliveries its filters accept
    state,     \* state[r]: of the receipt, "none" before it is reserved
    linked,    \* linked[r]: workflow_run_id is written
    old,       \* old[r]: not updated for ORPHAN_RECEIPT_SECONDS
    attempts,  \* attempts[r]: its attempt rows, [st, out] by number
    run,       \* run[r]: the run of its key, [event, live], or None
    pc, cur,   \* each task's next step and the reservation it dispatches
    out,       \* the outcome it is about to record
    back,      \* where it goes on when the dispatch ends
    todo,      \* what a tick still has to dispatch or re-drive
    crashes, errors, stalls, toggles

Task == Sweeper \cup Handler
binding == <<enabled, passes>>
receipts == <<state, linked, old, attempts>>
task == <<pc, cur, out, back, todo>>
bounds == <<crashes, errors, stalls, toggles>>
vars == <<binding, receipts, run, task, bounds>>

Settled == {"dispatched", "skipped", "failed", "abandoned"}
Outcome == {"started", "skipped", "filtered", "denied", "error"}
AttemptState == {"open", "stale", "wait", "due", "closed"}
Attempt == [st : AttemptState, out : Outcome \cup {"none"}]
Reservation == [receipt : Receipt, attempt : Nat, event : BOOLEAN]

At(t, p) == pc[t] = p
Goes(t, p) == pc' = [pc EXCEPT ![t] = p]
MayFail == crashes + errors + stalls < MaxFaults
Fresh == [st |-> "open", out |-> "none"]

(* An attempt row is closed as interrupted; an outcome it has stays. *)
Interrupt(a) == [st |-> "closed", out |-> IF a.out = "none" THEN "error" ELSE a.out]

----------------------------------------------------------------------------
(* Claiming and reserving *)

(* Fault: only attempts that wait for a retry are found again. *)
TickStartOnly(s) ==
    /\ pc[s] \in {"idle", "sweep"} /\ todo[s] = {}
    /\ Goes(s, "claim")
    /\ UNCHANGED <<binding, receipts, run, cur, out, back, todo, bounds>>

(* close_interrupted_attempts, at the start of a tick *)
TickStart(s) ==
    /\ pc[s] \in {"idle", "sweep"} /\ todo[s] = {}
    /\ attempts' = [r \in Receipt |-> [n \in DOMAIN attempts[r] |->
           IF attempts[r][n].st = "stale" THEN Interrupt(attempts[r][n]) ELSE attempts[r][n]]]
    /\ Goes(s, "claim")
    /\ UNCHANGED <<binding, state, linked, old, run, cur, out, back, todo, bounds>>

(* insert_receipt: the reservation and its first attempt *)
Insert(r) ==
    /\ state' = [state EXCEPT ![r] = "reserved"]
    /\ old' = [old EXCEPT ![r] = FALSE]
    /\ attempts' = [attempts EXCEPT ![r] = <<Fresh>>]
    /\ UNCHANGED linked

(* claim_due reserved an occurrence for this tick. *)
Claim(s, r) ==
    /\ At(s, "claim") /\ r \notin Event
    /\ enabled /\ state[r] = "none"
    /\ Insert(r)
    /\ todo' = [todo EXCEPT ![s] = @ \cup {[receipt |-> r, attempt |-> 1]}]
    /\ UNCHANGED <<binding, run, pc, cur, out, back, bounds>>

Dispatches(t, c, b) ==
    /\ cur' = [cur EXCEPT ![t] = c]
    /\ back' = [back EXCEPT ![t] = b]
    /\ Goes(t, "gate")

(* The tick dispatches what it claimed, without an event, ... *)
DispatchClaimed(s) ==
    /\ pc[s] \in {"claim", "drain"}
    /\ \E c \in todo[s] :
         /\ Dispatches(s, [receipt |-> c.receipt, attempt |-> c.attempt, event |-> FALSE], "drain")
         /\ todo' = [todo EXCEPT ![s] = @ \ {c}]
    /\ UNCHANGED <<binding, receipts, run, out, bounds>>

(* Fault: receipts with an attempt in flight are re-driven too. *)
OwedInFlight(r) == state[r] = "reserved" /\ old[r]

(* A reservation is owed a re-drive: a retry has come due, or nothing is   *)
(* in flight and it was not touched for a while.                           *)
Owed(r) ==
    /\ state[r] = "reserved"
    /\ \/ \E n \in DOMAIN attempts[r] : attempts[r][n].st = "due"
       \/ old[r] /\ \A n \in DOMAIN attempts[r] : attempts[r][n].st = "closed"

(* ... and then reads what it owes (sweep_pending). *)
SweepRead(s) ==
    /\ pc[s] \in {"claim", "drain"} /\ todo[s] = {}
    /\ todo' = [todo EXCEPT ![s] = {[receipt |-> r, attempt |-> Len(attempts[r])] :
                                       r \in {x \in Receipt : Owed(x)}}]
    /\ Goes(s, "sweep")
    /\ UNCHANGED <<binding, receipts, run, cur, out, back, bounds>>

(* Whatever is still open on the receipt is closed ... *)
SweepClose(s) ==
    /\ At(s, "sweep")
    /\ \E c \in todo[s] :
         /\ cur' = [cur EXCEPT ![s] = [receipt |-> c.receipt, attempt |-> c.attempt + 1,
                                       event |-> FALSE]]
         /\ todo' = [todo EXCEPT ![s] = @ \ {c}]
         /\ attempts' = [attempts EXCEPT ![c.receipt] = [n \in DOMAIN @ |->
                           IF @[n].st = "closed" THEN @[n] ELSE Interrupt(@[n])]]
    /\ Goes(s, "open")
    /\ UNCHANGED <<binding, state, linked, old, run, out, back, bounds>>

(* ... before the next attempt is opened, or the receipt abandoned with    *)
(* its binding.  A number that is taken aborts the sweep.                  *)
SweepOpen(s) ==
    LET c == cur[s]
        r == c.receipt
    IN  /\ At(s, "open")
        /\ \/ /\ ~enabled
              /\ state' = [state EXCEPT ![r] = "abandoned"]
              /\ old' = [old EXCEPT ![r] = FALSE]
              /\ cur' = [cur EXCEPT ![s] = None]
              /\ Goes(s, "sweep")
              /\ UNCHANGED <<attempts, back, todo>>
           \/ /\ enabled
              /\ IF c.attempt = Len(attempts[r]) + 1
                   THEN /\ attempts' = [attempts EXCEPT ![r] = Append(@, Fresh)]
                        /\ Dispatches(s, c, "sweep")
                        /\ UNCHANGED todo
                   ELSE /\ cur' = [cur EXCEPT ![s] = None]
                        /\ todo' = [todo EXCEPT ![s] = {}]
                        /\ Goes(s, "idle")
                        /\ UNCHANGED <<attempts, back>>
              /\ UNCHANGED <<state, old>>
        /\ UNCHANGED <<binding, linked, run, out, bounds>>

(* dispatch_endpoint_event reads the endpoint's enabled bindings ... *)
Deliver(h, r) ==
    /\ At(h, "idle") /\ r \in Event /\ enabled
    /\ cur' = [cur EXCEPT ![h] = [receipt |-> r, attempt |-> 1, event |-> TRUE]]
    /\ Goes(h, "reserve")
    /\ UNCHANGED <<binding, receipts, run, out, back, todo, bounds>>

(* ... and reserves the delivery, or has seen it before. *)
ReserveEvent(h) ==
    LET r == cur[h].receipt
    IN  /\ At(h, "reserve")
        /\ \/ state[r] = "none" /\ Insert(r) /\ Dispatches(h, cur[h], "idle")
           \/ /\ state[r] # "none"
              /\ cur' = [cur EXCEPT ![h] = None]
              /\ Goes(h, "idle")
              /\ UNCHANGED <<receipts, back>>
        /\ UNCHANGED <<binding, run, out, todo, bounds>>

----------------------------------------------------------------------------
(* dispatch *)

Records(t, o) == out' = [out EXCEPT ![t] = o] /\ Goes(t, "finish")

HasLiveRun == \E r \in Receipt : linked[r] /\ run[r].live

(* The gates: owner, policies, budget, approval, checkout and workflow may *)
(* deny; filters are asked of an event only; skip asks for a linked live   *)
(* run.                                                                    *)
Gate(t) ==
    LET c == cur[t]
        filtered == c.event /\ c.receipt \notin passes
        overlaps == SkipsOverlap /\ HasLiveRun
    IN  /\ At(t, "gate")
        /\ \/ Records(t, "denied")
           \/ filtered /\ Records(t, "filtered")
           \/ ~filtered /\ overlaps /\ Records(t, "skipped")
           \/ ~filtered /\ ~overlaps /\ Goes(t, "start") /\ UNCHANGED out
        /\ UNCHANGED <<binding, receipts, run, cur, back, todo, bounds>>

(* starter.start with the receipt's key and the event's fields *)
StartRun(t) ==
    LET c == cur[t]
        r == c.receipt
    IN  /\ At(t, "start")
        /\ \/ /\ run[r] = None
              /\ run' = [run EXCEPT ![r] = [event |-> c.event, live |-> TRUE]]
              /\ Records(t, "started")
           \/ /\ run[r] # None
              /\ UNCHANGED run
              /\ Records(t, IF run[r].event = c.event THEN "started" ELSE "error")
           \/ UNCHANGED run /\ Records(t, "error")
        /\ UNCHANGED <<binding, receipts, cur, back, todo, bounds>>

(* Fault: the failed attempt is not counted. *)
RetriesOnceMore(c) == c.attempt <= MaxAttempts

MayRetry(c) == c.attempt + 1 <= MaxAttempts

(* start failed for a while: the attempt stays open and waits, ... *)
StartFails(t) ==
    /\ At(t, "start")
    /\ IF MayRetry(cur[t]) THEN Goes(t, "retry") /\ UNCHANGED out ELSE Records(t, "error")
    /\ UNCHANGED <<binding, receipts, run, cur, back, todo, bounds>>

MarkRetry(t) ==
    LET c == cur[t]
    IN  /\ At(t, "retry")
        /\ attempts' = [attempts EXCEPT ![c.receipt][c.attempt] =
              [st |-> IF @.st = "closed" THEN "closed" ELSE "wait", out |-> "error"]]
        /\ Goes(t, "touch")
        /\ UNCHANGED <<binding, state, linked, old, run, cur, out, back, todo, bounds>>

Return(t) ==
    /\ Goes(t, back[t])
    /\ cur' = [cur EXCEPT ![t] = None]
    /\ out' = [out EXCEPT ![t] = "error"]
    /\ back' = [back EXCEPT ![t] = "idle"]

(* ... and the receipt is written reserved again (touch_receipt). *)
Touch(t) ==
    LET r == cur[t].receipt
    IN  /\ At(t, "touch")
        /\ state' = [state EXCEPT ![r] = "reserved"]
        /\ old' = [old EXCEPT ![r] = FALSE]
        /\ Return(t)
        /\ UNCHANGED <<binding, linked, attempts, run, todo, bounds>>

StateFor(o) ==
    CASE o = "started" -> "dispatched"
      [] o \in {"skipped", "filtered"} -> "skipped"
      [] OTHER -> "failed"

(* Fault: the receipt is settled without its attempt. *)
SettleReceiptOnly(t, o) ==
    LET r == cur[t].receipt
    IN  /\ state' = [state EXCEPT ![r] = StateFor(o)]
        /\ linked' = [linked EXCEPT ![r] = @ \/ o = "started"]
        /\ old' = [old EXCEPT ![r] = FALSE]
        /\ UNCHANGED attempts

(* finish: the attempt and the receipt in one transaction, whatever they   *)
(* hold by then.  The run id is written once.                              *)
Settle(t, o) ==
    LET c == cur[t]
        r == c.receipt
    IN  /\ attempts' = [attempts EXCEPT ![r][c.attempt] = [st |-> "closed", out |-> o]]
        /\ state' = [state EXCEPT ![r] = StateFor(o)]
        /\ linked' = [linked EXCEPT ![r] = @ \/ o = "started"]
        /\ old' = [old EXCEPT ![r] = FALSE]

Finish(t) ==
    /\ At(t, "finish")
    /\ Settle(t, out[t])
    /\ Return(t)
    /\ UNCHANGED <<binding, run, todo, bounds>>

(* dispatch records a failure of dispatch_inner. *)
FinishFailed(t) ==
    /\ At(t, "failed")
    /\ Settle(t, "error")
    /\ Return(t)
    /\ UNCHANGED <<binding, run, todo, bounds>>

(* A statement fails: dispatch tries to record that, and ignores that the  *)
(* store fails it too.                                                     *)
StoreError(t) ==
    /\ MayFail
    /\ errors' = errors + 1
    /\ pc[t] \in {"retry", "touch", "finish"} \/ (At(t, "gate") /\ SkipsOverlap)
    /\ \/ Goes(t, "failed") /\ UNCHANGED <<cur, out, back>>
       \/ Return(t)
    /\ UNCHANGED <<binding, receipts, run, todo, crashes, stalls, toggles>>

(* A statement of the tick itself fails.  Each of its three parts is given *)
(* up alone: open attempts are not closed, the occurrences claimed so far  *)
(* are not dispatched, or the rest of the sweep is left.                   *)
TickError(s) ==
    /\ MayFail
    /\ errors' = errors + 1
    /\ todo' = [todo EXCEPT ![s] = {}]
    /\ cur' = [cur EXCEPT ![s] = None]
    /\ \/ pc[s] \in {"idle", "sweep"} /\ todo[s] = {} /\ Goes(s, "claim")
       \/ At(s, "claim") /\ Goes(s, "drain")
       \/ At(s, "drain") /\ todo[s] = {} /\ Goes(s, "idle")
       \/ At(s, "sweep") /\ todo[s] # {} /\ Goes(s, "idle")
       \/ At(s, "open") /\ Goes(s, "idle")
    /\ UNCHANGED <<binding, receipts, run, out, back, crashes, stalls, toggles>>

----------------------------------------------------------------------------
(* Time, clients and the daemon's life *)

Works(t, r, n) ==
    /\ pc[t] \in {"gate", "start", "retry", "touch", "finish", "failed"}
    /\ cur[t].receipt = r /\ cur[t].attempt = n

(* A period passes for attempt n of r although a task is still at it, or   *)
(* claimed it and has not come to it: the host slept, a start took very    *)
(* long, or a retry has no delay.                                          *)
Overtaken(r, n) ==
    \/ \E t \in Task : Works(t, r, n)
    \/ \E s \in Sweeper :
          /\ pc[s] \in {"claim", "drain"} \/ back[s] = "drain"
          /\ \E c \in todo[s] : c.receipt = r

Overtakes(r, n) ==
    IF Overtaken(r, n) THEN MayFail /\ stalls' = stalls + 1 ELSE UNCHANGED stalls

GrowStale(r, n) ==
    /\ n \in DOMAIN attempts[r] /\ attempts[r][n].st = "open"
    /\ Overtakes(r, n)
    /\ attempts' = [attempts EXCEPT ![r][n].st = "stale"]
    /\ UNCHANGED <<binding, state, linked, old, run, task, crashes, errors, toggles>>

GrowDue(r, n) ==
    /\ n \in DOMAIN attempts[r] /\ attempts[r][n].st = "wait"
    /\ Overtakes(r, n)
    /\ attempts' = [attempts EXCEPT ![r][n].st = "due"]
    /\ UNCHANGED <<binding, state, linked, old, run, task, crashes, errors, toggles>>

GrowOld(r) ==
    /\ state[r] = "reserved" /\ ~old[r]
    /\ old' = [old EXCEPT ![r] = TRUE]
    /\ UNCHANGED <<binding, state, linked, attempts, run, task, bounds>>

RunEnds(r) ==
    /\ run[r] # None /\ run[r].live
    /\ run' = [run EXCEPT ![r].live = FALSE]
    /\ UNCHANGED <<binding, receipts, task, bounds>>

Toggle ==
    /\ toggles < MaxToggles
    /\ toggles' = toggles + 1
    /\ enabled' = ~enabled
    /\ UNCHANGED <<passes, receipts, run, task, crashes, errors, stalls>>

Crash ==
    /\ MayFail
    /\ crashes' = crashes + 1
    /\ pc' = [t \in Task |-> "idle"]
    /\ cur' = [t \in Task |-> None]
    /\ out' = [t \in Task |-> "error"]
    /\ back' = [t \in Task |-> "idle"]
    /\ todo' = [t \in Task |-> {}]
    /\ UNCHANGED <<binding, receipts, run, errors, stalls, toggles>>

----------------------------------------------------------------------------
Init ==
    /\ enabled = TRUE
    /\ passes \in SUBSET Event
    /\ state = [r \in Receipt |-> "none"]
    /\ linked = [r \in Receipt |-> FALSE]
    /\ old = [r \in Receipt |-> FALSE]
    /\ attempts = [r \in Receipt |-> <<>>]
    /\ run = [r \in Receipt |-> None]
    /\ pc = [t \in Task |-> "idle"]
    /\ cur = [t \in Task |-> None]
    /\ out = [t \in Task |-> "error"]
    /\ back = [t \in Task |-> "idle"]
    /\ todo = [t \in Task |-> {}]
    /\ crashes = 0 /\ errors = 0 /\ stalls = 0 /\ toggles = 0

Dispatch(t) ==
    \/ Gate(t) \/ StartRun(t) \/ StartFails(t) \/ MarkRetry(t) \/ Touch(t)
    \/ Finish(t) \/ FinishFailed(t)

Tick(s) ==
    \/ TickStart(s) \/ DispatchClaimed(s) \/ SweepRead(s)
    \/ SweepClose(s) \/ SweepOpen(s)

Clock == \E r \in Receipt : GrowOld(r) \/ \E n \in DOMAIN attempts[r] : GrowStale(r, n) \/ GrowDue(r, n)

Next ==
    \/ \E s \in Sweeper : Tick(s) \/ TickError(s) \/ \E r \in Receipt : Claim(s, r)
    \/ \E h \in Handler : ReserveEvent(h) \/ \E r \in Receipt : Deliver(h, r)
    \/ \E t \in Task : Dispatch(t) \/ StoreError(t)
    \/ Clock
    \/ \E r \in Receipt : RunEnds(r)
    \/ Toggle
    \/ Crash

(* Ticks, handlers and dispatches are tokio tasks; the tick loop never     *)
(* ends; time passes for every row.                                        *)
Fairness ==
    /\ \A s \in Sweeper : WF_vars(Tick(s))
    /\ \A h \in Handler : WF_vars(ReserveEvent(h))
    /\ \A t \in Task : WF_vars(Dispatch(t))
    /\ \A r \in Receipt : WF_vars(GrowOld(r))
    /\ \A r \in Receipt : WF_vars(\E n \in DOMAIN attempts[r] : GrowStale(r, n))
    /\ \A r \in Receipt : WF_vars(\E n \in DOMAIN attempts[r] : GrowDue(r, n))

SafetySpec == Init /\ [][Next]_vars
Spec == SafetySpec /\ Fairness

----------------------------------------------------------------------------
(* What a receipt claims, one of its attempts records: however late an     *)
(* attempt that was given up for interrupted writes its result ("a receipt *)
(* can never claim an outcome its attempt does not record").               *)
OutcomeRecorded ==
    \A r \in Receipt : state[r] \in {"dispatched", "skipped", "failed"} =>
        \E n \in DOMAIN attempts[r] :
            attempts[r][n].st = "closed" /\ StateFor(attempts[r][n].out) = state[r]

(* With one tick loop, unless an attempt is given up while a task is at    *)
(* it, a receipt is settled once: no later write moves it to another       *)
(* outcome or back.                                                        *)
SettledOnce ==
    [][\A r \in Receipt : (stalls' = 0 /\ state[r] \in Settled) => state'[r] = state[r]]_vars

(* With one tick loop, a binding makes at most max_attempts attempts for a *)
(* receipt, plus one for each time an attempt was cut off.                 *)
AttemptsBounded ==
    \A r \in Receipt : stalls = 0 =>
        Len(attempts[r]) <= (IF MaxAttempts = 0 THEN 1 ELSE MaxAttempts) + crashes + errors

(* A reservation is settled, also when the daemon dies between reserving,  *)
(* dispatching and recording.                                              *)
ReservationSettles == \A r \in Receipt : state[r] = "reserved" ~> state[r] \in Settled

(* A delivery the binding's filters reject starts no run. *)
FilteredNeverRuns == \A r \in Event \ passes : run[r] = None
=============================================================================
