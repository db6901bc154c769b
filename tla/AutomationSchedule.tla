------------------------- MODULE AutomationSchedule -------------------------
(***************************************************************************)
(* Claiming due automation bindings (daemon/src/automation_scheduler.rs,   *)
(* claim_due, acquire_lease, claim_one and decide_schedule, and            *)
(* update_binding of automation.rs).  Several tick loops over one database *)
(* read what is due, take a binding's lease, and in one transaction        *)
(* re-check, decide, move next_fire_at by compare-and-swap and reserve the *)
(* occurrence.  A client patches bindings meanwhile, and not with a        *)
(* compare-and-swap.                                                       *)
(*                                                                         *)
(* Time is counted in ticks of the loops.  A schedule fires at the         *)
(* multiples of its period, which stand for the instants of a cron         *)
(* expression in its own zone.  A lease keeps the loop that acquired it    *)
(* last in place of the fence number, which is only compared for equality  *)
(* with the number that loop was given.  Two loops over one database are   *)
(* two daemons with the same data directory and different sockets.         *)
(***************************************************************************)
EXTENDS Naturals, FiniteSets, FiniteSetsExt

CONSTANTS
    Binding, Loop,
    InstanceId,    \* the id in the database's one daemon_instance row
    Period,        \* Period[b]: ticks between occurrences of a cron binding
    Once,          \* the instant of a one-time binding
    Keep,          \* max_occurrences of catch_up
    Grace, LeaseTtl, MaxScan, MaxClaims,
    None,
    MaxTime, MaxPatches, MaxCrashes    \* bounds

ASSUME ScheduleAssumption ==
    /\ Period \in [Binding -> Nat \ {0}]
    /\ Once \in Nat /\ Keep \in Nat \ {0}
    /\ Grace \in Nat /\ LeaseTtl \in Nat /\ MaxScan \in Nat /\ MaxClaims \in Nat
    /\ MaxTime \in Nat /\ MaxPatches \in Nat /\ MaxCrashes \in Nat
    /\ None \notin Nat \cup Binding \cup Loop
    /\ None \notin [holder : {InstanceId}, last : Loop, expires : Nat]

VARIABLES
    source,   \* source[b]: [cron, missed], the schedule and its missed_run policy
    row,      \* row[b]: [next, enabled] of automation_bindings
    lease,    \* lease[b]: [holder, last, expires] of automation_leases, or None
    reserved, \* reserved[b]: the occurrences with a receipt
    now,
    at,       \* at[l]: the instant the loop's tick started
    todo,     \* todo[l]: the due rows its tick read, [binding, next]
    leased,   \* leased[l]: the due row whose lease it just acquired, or None
    patch,    \* the client's patch between its read and its write, or None
    outage,   \* outage[b]: [missed, at, ordered], what a late claim found unfired,
              \* its instant, and whether no claim since then was by an older one
    moved,    \* moved[b]: a late claim or a new source moved the schedule
    patches, crashes

tick == <<at, todo, leased>>
vars == <<source, row, lease, reserved, now, tick, patch, outage, moved, patches, crashes>>

Instant == 0 .. MaxTime
MissedPolicy == {"skip", "run_once", "catch_up", "unknown"}
NoOutage == [missed |-> {}, at |-> 0, ordered |-> TRUE]

----------------------------------------------------------------------------
(* next_cron_occurrence_after *)
NextAfter(b, t) == (t \div Period[b] + 1) * Period[b]

(* The occurrences a late claim finds: due itself and those of the cron    *)
(* expression up to now.                                                   *)
Occurrences(b, due, t) == {o \in due .. t : o = due \/ (source[b].cron /\ o % Period[b] = 0)}

Missed(due, t) == t > due + Grace

Refuse == [fires |-> FALSE, refused |-> TRUE]
Fire(o, n) == [fires |-> TRUE, refused |-> FALSE, occurrence |-> o, next |-> n]
Advance(n) == [fires |-> FALSE, refused |-> FALSE, next |-> n]

DecideOnce(due, t, policy) ==
    IF Missed(due, t) /\ policy = "skip" THEN Advance(None) ELSE Fire(due, None)

(* Fault: one too many of the backlog are retained. *)
CatchUpOneMore(b, backlog) ==
    LET o == CHOOSE x \in backlog :
               Cardinality({y \in backlog : y >= x}) = Min({Keep + 1, Cardinality(backlog)})
    IN  Fire(o, NextAfter(b, o))

(* The most recent Keep of the backlog are retained and the oldest of them *)
(* is fired; the next tick fires the one after it.                         *)
CatchUp(b, backlog) ==
    LET o == CHOOSE x \in backlog :
               Cardinality({y \in backlog : y >= x}) = Min({Keep, Cardinality(backlog)})
    IN  Fire(o, NextAfter(b, o))

DecideCron(b, due, t, policy) ==
    LET backlog == Occurrences(b, due, t)
    IN  CASE ~Missed(due, t) -> Fire(due, NextAfter(b, due))
          [] Missed(due, t) /\ Cardinality(backlog) > MaxScan -> Refuse
          [] OTHER ->
               CASE policy = "skip" -> Advance(NextAfter(b, t))
                 [] policy = "run_once" -> Fire(Max(backlog), NextAfter(b, t))
                 [] policy = "catch_up" -> CatchUp(b, backlog)

(* Fault: a late tick re-arms from its own instant. *)
DecideFromNow(b, due, t) ==
    IF source[b].missed = "unknown" THEN Refuse
    ELSE IF source[b].cron /\ ~Missed(due, t) THEN Fire(due, NextAfter(b, t))
    ELSE IF source[b].cron THEN DecideCron(b, due, t, source[b].missed)
    ELSE DecideOnce(due, t, source[b].missed)

(* policies refuses a missed_run it does not know, late or not, before     *)
(* decide_schedule is asked.                                               *)
Decide(b, due, t) ==
    IF source[b].missed = "unknown" THEN Refuse
    ELSE IF source[b].cron THEN DecideCron(b, due, t, source[b].missed)
    ELSE DecideOnce(due, t, source[b].missed)

----------------------------------------------------------------------------
(* claim_due reads the due rows, the oldest first and at most MaxClaims. *)
ReadDue(l) ==
    LET due == {d \in [binding : Binding, next : Instant] :
                  /\ row[d.binding].enabled
                  /\ row[d.binding].next = d.next
                  /\ d.next <= now}
    IN  /\ todo[l] = {} /\ leased[l] = None
        /\ at[l] < now \/ now = MaxTime
        /\ at' = [at EXCEPT ![l] = now]
        /\ \E S \in SUBSET due :
              /\ Cardinality(S) = Min({MaxClaims, Cardinality(due)})
              /\ \A d \in S, e \in due \ S : d.next <= e.next
              /\ todo' = [todo EXCEPT ![l] = S]
        /\ UNCHANGED <<source, row, lease, reserved, now, leased, patch, outage, moved,
                       patches, crashes>>

(* The holder a loop writes is boot.instance_id, which record_boot reads   *)
(* from the database: every daemon that opens it has the same.             *)
Holder(l) == InstanceId

(* acquire_lease: an expired lease, or one of the same holder, is taken    *)
(* over; otherwise the binding is left to its holder.                      *)
AcquireLease(l) ==
    \E d \in todo[l] :
        LET b == d.binding
        IN  /\ leased[l] = None
            /\ \A e \in todo[l] : d.next <= e.next
            /\ todo' = [todo EXCEPT ![l] = @ \ {d}]
            /\ IF \/ lease[b] = None
                  \/ lease[b].expires < at[l]
                  \/ lease[b].holder = Holder(l)
                 THEN /\ lease' = [lease EXCEPT ![b] = [holder |-> Holder(l), last |-> l,
                                                       expires |-> at[l] + LeaseTtl]]
                      /\ leased' = [leased EXCEPT ![l] = d]
                 ELSE UNCHANGED <<lease, leased>>
            /\ UNCHANGED <<source, row, reserved, now, at, patch, outage, moved, patches, crashes>>

(* insert_receipt: a conflict on the occurrence is a normal outcome. *)
InsertReceipt(b, o) == reserved' = [reserved EXCEPT ![b] = @ \cup {o}]

(* Fault: a conflicting receipt rolls the claim back. *)
RearmUnlessReserved(b, decision) ==
    row' = IF decision.fires /\ decision.occurrence \in reserved[b] THEN row
           ELSE [row EXCEPT ![b].next = decision.next]

(* The compare-and-swap also moves past an occurrence reserved before. *)
Rearm(b, decision) == row' = [row EXCEPT ![b].next = decision.next]

(* The fence and the row, re-read under the write lock. *)
StillDue(l, d) ==
    /\ lease[d.binding].holder = Holder(l) /\ lease[d.binding].last = l
    /\ row[d.binding].enabled
    /\ row[d.binding].next = d.next

(* A late claim of an occurrence that no outage holds yet finds a new one. *)
OutageAfter(b, due, t) ==
    LET o == outage[b]
    IN  IF Missed(due, t) /\ due \notin o.missed
        THEN [missed |-> Occurrences(b, due, t) \ reserved[b], at |-> t, ordered |-> TRUE]
        ELSE [missed |-> o.missed, at |-> o.at, ordered |-> IF o.at <= t THEN o.ordered ELSE FALSE]

(* claim_one *)
ClaimOne(l) ==
    LET d == leased[l]
        b == d.binding
        decision == Decide(b, d.next, at[l])
    IN  /\ d # None
        /\ leased' = [leased EXCEPT ![l] = None]
        /\ IF StillDue(l, d) /\ ~decision.refused
             THEN /\ Rearm(b, decision)
                  /\ IF decision.fires THEN InsertReceipt(b, decision.occurrence)
                                       ELSE UNCHANGED reserved
                  /\ outage' = [outage EXCEPT ![b] = OutageAfter(b, d.next, at[l])]
                  /\ moved' = [moved EXCEPT ![b] = @ \/ Missed(d.next, at[l])]
             ELSE UNCHANGED <<row, reserved, outage, moved>>
        /\ UNCHANGED <<source, lease, now, at, todo, patch, patches, crashes>>

----------------------------------------------------------------------------
(* update_binding reads the row: a patch of anything but the source        *)
(* carries next_fire_at forward, a new source projects it afresh.          *)
PatchRead(b, enabled, resource) ==
    /\ patch = None /\ patches < MaxPatches
    /\ patches' = patches + 1
    /\ patch' = [binding |-> b, enabled |-> enabled, resource |-> resource,
                 next |-> IF ~resource THEN row[b].next
                          ELSE IF source[b].cron THEN NextAfter(b, now) ELSE Once]
    /\ UNCHANGED <<source, row, lease, reserved, now, tick, outage, moved, crashes>>

(* ... and writes every column back later. *)
PatchWrite ==
    /\ patch # None
    /\ row' = [row EXCEPT ![patch.binding] = [next |-> patch.next, enabled |-> patch.enabled]]
    /\ moved' = [moved EXCEPT ![patch.binding] = @ \/ patch.resource]
    /\ outage' = [outage EXCEPT ![patch.binding] = IF patch.resource THEN NoOutage ELSE @]
    /\ patch' = None
    /\ UNCHANGED <<source, lease, reserved, now, tick, patches, crashes>>

(* The daemon of a loop dies; its reservations are module                  *)
(* AutomationDispatch's to recover.                                        *)
Crash(l) ==
    /\ crashes < MaxCrashes /\ (todo[l] # {} \/ leased[l] # None)
    /\ crashes' = crashes + 1
    /\ todo' = [todo EXCEPT ![l] = {}]
    /\ leased' = [leased EXCEPT ![l] = None]
    /\ UNCHANGED <<source, row, lease, reserved, now, at, patch, outage, moved, patches>>

PassTime ==
    /\ now < MaxTime
    /\ now' = now + 1
    /\ UNCHANGED <<source, row, lease, reserved, tick, patch, outage, moved, patches, crashes>>

----------------------------------------------------------------------------
Init ==
    /\ source \in [Binding -> [cron : BOOLEAN, missed : MissedPolicy]]
    /\ row = [b \in Binding |-> [next |-> IF source[b].cron THEN Period[b] ELSE Once,
                                 enabled |-> TRUE]]
    /\ lease = [b \in Binding |-> None]
    /\ reserved = [b \in Binding |-> {}]
    /\ now = 0
    /\ at = [l \in Loop |-> 0]
    /\ todo = [l \in Loop |-> {}]
    /\ leased = [l \in Loop |-> None]
    /\ patch = None
    /\ outage = [b \in Binding |-> NoOutage]
    /\ moved = [b \in Binding |-> FALSE]
    /\ patches = 0 /\ crashes = 0

LoopStep(l) == ReadDue(l) \/ AcquireLease(l) \/ ClaimOne(l)

Next ==
    \/ \E l \in Loop : LoopStep(l) \/ Crash(l)
    \/ \E b \in Binding, e \in BOOLEAN : PatchRead(b, e, FALSE)
    \/ \E b \in Binding : PatchRead(b, TRUE, TRUE)
    \/ PatchWrite
    \/ PassTime

(* A loop sleeps for a tick and goes on; the clock advances to its bound,  *)
(* where the ticks go on.                                                  *)
Fairness ==
    /\ \A l \in Loop : WF_vars(LoopStep(l))
    /\ WF_vars(PatchWrite) /\ WF_vars(PassTime)

SafetySpec == Init /\ [][Next]_vars
Spec == SafetySpec /\ Fairness

----------------------------------------------------------------------------
(* How much of a backlog a policy may replay. *)
Replay(b) ==
    CASE source[b].missed = "skip" -> 0
      [] source[b].missed = "catch_up" /\ source[b].cron -> Keep
      [] OTHER -> 1

Replayed(b) == outage[b].missed \cap reserved[b]

(* Of the occurrences missed in one outage no more are replayed than the   *)
(* policy allows, however the ticks that replay them are spread, whichever *)
(* loop makes them and whatever old next_fire_at a patch restores, as long *)
(* as none of the claims was decided by an older clock than the one that   *)
(* found the outage.                                                       *)
BacklogBounded ==
    \A b \in Binding : outage[b].ordered => Cardinality(Replayed(b)) <= Replay(b)

(* While every claim comes within the grace window no occurrence is passed *)
(* over, although a window can hold several of them.                       *)
NothingLostOnTime ==
    \A b \in Binding : ~moved[b] =>
        LET first == IF source[b].cron THEN Period[b] ELSE Once
        IN  IF row[b].next = None THEN Once \in reserved[b]
            ELSE \A o \in Instant : (o >= first /\ o < row[b].next /\ o % Period[b] = 0)
                                      => o \in reserved[b]

(* The decision for b cannot be made at instant t. *)
Wedged(b, t) == row[b].next # None /\ row[b].next <= t /\ Decide(b, row[b].next, t).refused

(* Two loops have read b as due and are about to take its lease, or have  *)
(* taken it.                                                               *)
Contended(b) ==
    \E l, m \in Loop : l # m /\ \A k \in {l, m} :
        (\E d \in todo[k] : d.binding = b) \/ (leased[k] # None /\ leased[k].binding = b)

(* A due binding is fired or re-armed, whichever daemon dies holding its   *)
(* lease, unless it is disabled or its decision is refused for good, or    *)
(* two daemons contend for it for ever: each may take the lease, which is  *)
(* theirs both, before the other has claimed under it.                     *)
DueIsRearmed ==
    \A b \in Binding :
        \/ []<>Contended(b)
        \/ (row[b].next # None /\ row[b].next <= now) ~>
             \/ row[b].next = None \/ row[b].next > now
             \/ ~row[b].enabled \/ Wedged(b, now)
=============================================================================
