---------------------- MODULE AutomationScheduleProofs ----------------------
(***************************************************************************)
(* Facts of the claiming of due bindings, for any number of bindings,      *)
(* loops, patches and crashes and for every period: no occurrence is       *)
(* passed over while every claim is on time, and of a backlog no more is   *)
(* replayed than the policy allows unless a claim is decided by an older   *)
(* clock, which one loop cannot do.  The first needs that next_fire_at is  *)
(* an instant of the schedule with all earlier ones reserved, and that the *)
(* same holds of the value a patch has read and will write back.  The      *)
(* second needs a floor below which no later claim of the backlog fires.   *)
(***************************************************************************)
EXTENDS AutomationSchedule, FiniteSetTheorems, WellFoundedInduction, TLAPS

-----------------------------------------------------------------------------
(* Multiples of a period                                                   *)

LEMMA Division ==
    ASSUME NEW p \in Nat \ {0}, NEW o \in Nat
    PROVE  o = p * (o \div p) + (o % p) /\ o \div p \in Nat /\ o % p \in 0..(p - 1)
  BY SMTT(20)

LEMMA Multiples ==
    ASSUME NEW p \in Nat \ {0}, NEW k \in Nat, NEW m \in Nat, k < m
    PROVE  p * (k + 1) <= p * m
  BY SMTT(20)

(* The next occurrence is the next multiple: none lies between.            *)
LEMMA NothingBetween ==
    ASSUME NEW p \in Nat \ {0}, NEW x \in Nat, x % p = 0, NEW o \in Nat, o % p = 0, x < o
    PROVE  (x \div p + 1) * p <= o
  <1> DEFINE k == x \div p
             m == o \div p
  <1>1. x = p * k /\ k \in Nat /\ o = p * m /\ m \in Nat
    BY Division
  <1> HIDE DEF k, m
  <1>2. k < m
    BY <1>1, SMTT(20)
  <1>3. p * (k + 1) <= p * m
    BY <1>1, <1>2, Multiples
  <1> QED
    BY <1>1, <1>3 DEF k

LEMMA NextIsMultiple ==
    ASSUME NEW p \in Nat \ {0}, NEW x \in Nat
    PROVE  (x \div p + 1) * p \in Nat /\ ((x \div p + 1) * p) % p = 0
  <1> DEFINE k == x \div p
  <1>1. k \in Nat
    BY Division
  <1> HIDE DEF k
  <1>2. (k + 1) * p \in Nat
    BY <1>1
  <1>3. ((k + 1) * p) % p = 0
    BY <1>1, SMTT(20)
  <1> QED
    BY <1>2, <1>3 DEF k

-----------------------------------------------------------------------------
(* Nothing lost on time                                                    *)

(* x is a value next_fire_at may have with nothing passed over.            *)
Good(b, x) ==
    \/ /\ source[b].cron
       /\ x \in Nat /\ x % Period[b] = 0
       /\ \A o \in Instant : (o >= Period[b] /\ o < x /\ o % Period[b] = 0) => o \in reserved[b]
    \/ ~source[b].cron /\ x = Once
    \/ ~source[b].cron /\ x = None /\ Once \in reserved[b]

ScheduleTypeOK ==
    /\ source \in [Binding -> [cron : BOOLEAN, missed : MissedPolicy]]
    /\ moved \in [Binding -> BOOLEAN]
    /\ DOMAIN reserved = Binding
    /\ DOMAIN row = Binding /\ \A b \in Binding : DOMAIN row[b] = {"next", "enabled"}
    /\ now \in Nat /\ at \in [Loop -> Nat]
    /\ todo \in [Loop -> SUBSET [binding : Binding, next : Instant]]
    /\ DOMAIN leased = Loop
    /\ \A l \in Loop : leased[l] # None => leased[l] \in [binding : Binding, next : Instant]
    /\ patch # None => patch.binding \in Binding /\ patch.resource \in BOOLEAN

OnTime ==
    /\ \A b \in Binding : ~moved[b] => Good(b, row[b].next)
    /\ patch # None /\ ~patch.resource /\ ~moved[patch.binding] => Good(patch.binding, patch.next)

OnTimeInv == ScheduleTypeOK /\ OnTime

(* What is reserved stays so, and keeps a value good.                      *)
LEMMA GoodStays ==
    ASSUME NEW b \in Binding, NEW x, Good(b, x), source' = source, reserved[b] \subseteq reserved'[b]
    PROVE  Good(b, x)'
  BY DEF Good

LEMMA InsertReserves ==
    ASSUME ScheduleTypeOK, NEW b \in Binding, NEW o, InsertReceipt(b, o)
    PROVE  /\ DOMAIN reserved' = Binding
           /\ \A c \in Binding : reserved[c] \subseteq reserved'[c]
           /\ o \in reserved'[b]
  BY DEF InsertReceipt, ScheduleTypeOK

(* The decision of a claim within the grace window.                        *)
LEMMA DecideOnTime ==
    ASSUME ScheduleTypeOK, NEW b \in Binding, NEW due, NEW t, ~Missed(due, t),
           ~Decide(b, due, t).refused
    PROVE  Decide(b, due, t) = Fire(due, IF source[b].cron THEN NextAfter(b, due) ELSE None)
  <1>1. Refuse.refused
    BY DEF Refuse
  <1>2. source[b].missed # "unknown"
    BY <1>1 DEF Decide
  <1> QED
    BY <1>2 DEF Decide, DecideCron, DecideOnce, ScheduleTypeOK

(* It moves next_fire_at from an instant it reserves to the next one.      *)
LEMMA NextIsGood ==
    ASSUME ScheduleTypeOK, NEW b \in Binding, NEW x \in Instant, Good(b, x), source' = source,
           reserved[b] \subseteq reserved'[b], x \in reserved'[b]
    PROVE  Good(b, IF source[b].cron THEN NextAfter(b, x) ELSE None)'
  <1>1. Instant \subseteq Nat /\ Period[b] \in Nat \ {0} /\ None \notin Nat
    BY ScheduleAssumption DEF Instant
  <1>2. CASE source[b].cron
    <2> DEFINE y == (x \div Period[b] + 1) * Period[b]
    <2>1. x \in Nat /\ x % Period[b] = 0
          /\ \A o \in Instant : (o >= Period[b] /\ o < x /\ o % Period[b] = 0) => o \in reserved[b]
      BY <1>2 DEF Good
    <2>2. y \in Nat /\ y % Period[b] = 0
      BY <1>1, <2>1, NextIsMultiple
    <2>3. ASSUME NEW o \in Instant, o >= Period[b], o < y, o % Period[b] = 0 PROVE o \in reserved'[b]
      <3>1. CASE o < x
        BY <2>1, <2>3, <3>1
      <3>2. CASE o = x
        BY <3>2
      <3>3. CASE x < o
        <4>1. y <= o
          BY <1>1, <2>1, <2>3, <3>3, NothingBetween
        <4> QED
          BY <1>1, <2>2, <2>3, <4>1
      <3> QED
        BY <1>1, <2>1, <3>1, <3>2, <3>3
    <2>4. y = NextAfter(b, x)
      BY DEF NextAfter
    <2> HIDE DEF y
    <2> QED
      BY <1>2, <2>2, <2>3, <2>4 DEF Good
  <1>3. CASE ~source[b].cron
    <2>1. x = Once
      BY <1>1, <1>3 DEF Good
    <2> QED
      BY <1>3, <2>1 DEF Good
  <1> QED
    BY <1>2, <1>3

LEMMA ClaimOnTime ==
    ASSUME OnTimeInv, NEW l \in Loop, ClaimOne(l) PROVE OnTimeInv'
  <1> USE DEF OnTimeInv
  <1>1. PICK d \in [binding : Binding, next : Instant] : d = leased[l]
    BY DEF ClaimOne, ScheduleTypeOK
  <1>2. PICK b \in Binding : b = d.binding
    BY <1>1
  <1> DEFINE decision == Decide(b, d.next, at[l])
  <1>3. /\ leased' = [leased EXCEPT ![l] = None] /\ UNCHANGED <<source, now, at, todo, patch>>
    BY DEF ClaimOne
  <1>4. CASE UNCHANGED <<row, reserved, moved>>
    <2>1. ScheduleTypeOK'
      BY <1>3, <1>4 DEF ScheduleTypeOK
    <2>2. OnTime'
      BY <1>3, <1>4 DEF OnTime, Good
    <2> QED
      BY <2>1, <2>2
  <1>5. CASE /\ StillDue(l, d) /\ ~decision.refused /\ Rearm(b, decision)
             /\ IF decision.fires THEN InsertReceipt(b, decision.occurrence) ELSE UNCHANGED reserved
             /\ moved' = [moved EXCEPT ![b] = @ \/ Missed(d.next, at[l])]
    <2>1. /\ DOMAIN reserved' = Binding
          /\ \A c \in Binding : reserved[c] \subseteq reserved'[c]
      <3>1. CASE reserved' = reserved
        BY <3>1 DEF ScheduleTypeOK
      <3>2. CASE InsertReceipt(b, decision.occurrence)
        BY <3>2, InsertReserves
      <3> QED
        BY <1>5, <3>1, <3>2
    <2>2. Missed(d.next, at[l]) \in BOOLEAN
      BY DEF Missed
    <2>3. /\ moved' \in [Binding -> BOOLEAN]
          /\ \A c \in Binding : moved[c] => moved'[c]
          /\ ~moved'[b] => ~Missed(d.next, at[l])
          /\ \A c \in Binding \ {b} : moved'[c] = moved[c]
      BY <1>5, <2>2, Zenon DEF ScheduleTypeOK
    <2>4. /\ DOMAIN row' = Binding /\ \A c \in Binding : DOMAIN row'[c] = {"next", "enabled"}
          /\ row'[b].next = decision.next
          /\ \A c \in Binding \ {b} : row'[c] = row[c]
      BY <1>5 DEF Rearm, ScheduleTypeOK
    <2>5. ScheduleTypeOK'
      BY <1>3, <2>1, <2>3, <2>4 DEF ScheduleTypeOK
    <2>6. ASSUME NEW c \in Binding, ~moved'[c] PROVE Good(c, row[c].next)'
      <3>0. ~moved[c] /\ Good(c, row[c].next)
        BY <2>3, <2>6 DEF OnTime
      <3>1. CASE c # b
        <4>1. row'[c].next = row[c].next
          BY <2>4, <3>1
        <4>2. PICK x : x = row[c].next
          OBVIOUS
        <4>3. Good(c, x)
          BY <3>0, <4>2
        <4>4. Good(c, x)'
          BY <1>3, <2>1, <4>3, GoodStays
        <4> QED
          BY <4>1, <4>2, <4>4 DEF Good
      <3>2. CASE c = b
        <4>1. ~Missed(d.next, at[l]) /\ row[b].next = d.next /\ ~decision.refused
          BY <1>2, <1>5, <2>3, <2>6, <3>2 DEF StillDue
        <4>2. decision = Fire(d.next, IF source[b].cron THEN NextAfter(b, d.next) ELSE None)
          BY <4>1, DecideOnTime
        <4> HIDE DEF decision
        <4>3. /\ decision.fires /\ decision.occurrence = d.next
              /\ decision.next = IF source[b].cron THEN NextAfter(b, d.next) ELSE None
          BY <4>2 DEF Fire
        <4>4. d.next \in Instant /\ d.next \in reserved'[b]
          BY <1>5, <4>3, InsertReserves
        <4>5. Good(b, IF source[b].cron THEN NextAfter(b, d.next) ELSE None)'
          BY <1>3, <2>1, <3>0, <3>2, <4>1, <4>4, NextIsGood
        <4>6. row'[b].next = IF source'[b].cron THEN NextAfter(b, d.next) ELSE None
          BY <1>3, <2>4, <4>3 DEF decision
        <4> QED
          BY <3>2, <4>5, <4>6 DEF Good
      <3> QED
        BY <3>1, <3>2
    <2>7. ASSUME patch' # None, ~patch'.resource, ~moved'[patch'.binding]
          PROVE  Good(patch.binding, patch.next)'
      <3>1. patch' = patch /\ patch.binding \in Binding
        BY <1>3, <2>7 DEF ScheduleTypeOK
      <3>0. PICK c \in Binding : c = patch.binding
        BY <3>1
      <3>2. PICK x : x = patch.next
        OBVIOUS
      <3>3. Good(c, x)
        BY <2>3, <2>7, <3>0, <3>1, <3>2 DEF OnTime
      <3>4. Good(c, x)'
        BY <1>3, <2>1, <3>3, GoodStays
      <3> QED
        BY <3>0, <3>1, <3>2, <3>4 DEF Good
    <2>8. OnTime'
      BY <2>6, <2>7 DEF OnTime
    <2> QED
      BY <2>5, <2>8
  <1> QED
    BY <1>1, <1>2, <1>4, <1>5 DEF ClaimOne

(* A step that leaves the rows, the reservations and the patch alone.      *)
LEMMA RowsLeftAlone ==
    ASSUME OnTimeInv, UNCHANGED <<source, row, reserved, moved, patch>>, ScheduleTypeOK'
    PROVE  OnTimeInv'
  BY DEF OnTimeInv, OnTime, Good

LEMMA LoopOnTime ==
    ASSUME OnTimeInv, NEW l \in Loop, ReadDue(l) \/ AcquireLease(l) \/ Crash(l) PROVE OnTimeInv'
  <1> USE DEF OnTimeInv
  <1>1. CASE ReadDue(l)
    <2> DEFINE due == {d \in [binding : Binding, next : Instant] :
                         /\ row[d.binding].enabled
                         /\ row[d.binding].next = d.next
                         /\ d.next <= now}
    <2>1. PICK S \in SUBSET due : todo' = [todo EXCEPT ![l] = S]
      BY <1>1 DEF ReadDue
    <2>2. S \in SUBSET [binding : Binding, next : Instant]
      OBVIOUS
    <2> HIDE DEF due
    <2>3. /\ at' = [at EXCEPT ![l] = now]
          /\ UNCHANGED <<source, row, reserved, now, leased, patch, moved>>
      BY <1>1 DEF ReadDue
    <2>4. ScheduleTypeOK'
      BY <2>1, <2>2, <2>3 DEF ScheduleTypeOK
    <2> QED
      BY <2>3, <2>4, RowsLeftAlone
  <1>2. CASE AcquireLease(l)
    <2>1. PICK d \in todo[l] : /\ todo' = [todo EXCEPT ![l] = @ \ {d}]
                               /\ leased' = [leased EXCEPT ![l] = d] \/ leased' = leased
      BY <1>2, Zenon DEF AcquireLease
    <2>2. UNCHANGED <<source, row, reserved, now, at, patch, moved>>
      BY <1>2 DEF AcquireLease
    <2>3. d \in [binding : Binding, next : Instant]
      BY <2>1 DEF ScheduleTypeOK
    <2>4. /\ todo' \in [Loop -> SUBSET [binding : Binding, next : Instant]]
          /\ DOMAIN leased' = Loop
          /\ \A m \in Loop : leased'[m] # None => leased'[m] \in [binding : Binding, next : Instant]
      BY <2>1, <2>3 DEF ScheduleTypeOK
    <2>5. ScheduleTypeOK'
      BY <2>2, <2>4 DEF ScheduleTypeOK
    <2> QED
      BY <2>2, <2>5, RowsLeftAlone
  <1>3. CASE Crash(l)
    <2>1. ScheduleTypeOK' /\ UNCHANGED <<source, row, reserved, moved, patch>>
      BY <1>3 DEF Crash, ScheduleTypeOK
    <2> QED
      BY <2>1, RowsLeftAlone
  <1> QED
    BY <1>1, <1>2, <1>3

(* A patch that keeps the source carries the value it read.                *)
LEMMA PatchReadOnTime ==
    ASSUME OnTimeInv, NEW b \in Binding, NEW e \in BOOLEAN, NEW r \in BOOLEAN, PatchRead(b, e, r)
    PROVE  OnTimeInv'
  <1> USE DEF OnTimeInv
  <1>1. UNCHANGED <<source, row, reserved, moved, now, at, todo, leased>>
    BY DEF PatchRead, tick
  <1>2. patch'.binding = b /\ patch'.resource = r /\ (~r => patch'.next = row[b].next)
    BY DEF PatchRead
  <1>3. ScheduleTypeOK'
    BY <1>1, <1>2 DEF ScheduleTypeOK
  <1>4. PICK x : x = row[b].next
    OBVIOUS
  <1>5. ASSUME ~r, ~moved[b] PROVE Good(patch.binding, patch.next)'
    <2>1. Good(b, x)
      BY <1>4, <1>5 DEF OnTime
    <2> QED
      BY <1>1, <1>2, <1>4, <1>5, <2>1 DEF Good
  <1>6. \A c \in Binding : ~moved'[c] => Good(c, row[c].next)'
    BY <1>1 DEF OnTime, Good
  <1>7. OnTime'
    BY <1>1, <1>2, <1>5, <1>6 DEF OnTime
  <1> QED
    BY <1>3, <1>7

LEMMA PatchWriteOnTime ==
    ASSUME OnTimeInv, PatchWrite PROVE OnTimeInv'
  <1> USE DEF OnTimeInv
  <1>1. patch' = None /\ UNCHANGED <<source, reserved, now, at, todo, leased>>
    BY DEF PatchWrite, tick
  <1>2. PICK b \in Binding : b = patch.binding
    BY DEF PatchWrite, ScheduleTypeOK
  <1>0. PICK x : x = patch.next
    OBVIOUS
  <1>3. row' = [row EXCEPT ![b] = [next |-> x, enabled |-> patch.enabled]]
    BY <1>0, <1>2 DEF PatchWrite
  <1>4. /\ moved' = [moved EXCEPT ![b] = @ \/ patch.resource]
        /\ patch.resource \in BOOLEAN /\ patch # None
    BY <1>2 DEF PatchWrite, ScheduleTypeOK
  <1>5. /\ moved' \in [Binding -> BOOLEAN]
        /\ ~moved'[b] => ~moved[b] /\ ~patch.resource
        /\ \A c \in Binding \ {b} : moved'[c] = moved[c]
    BY <1>4, Zenon DEF ScheduleTypeOK
  <1>6. /\ DOMAIN row' = Binding /\ \A c \in Binding : DOMAIN row'[c] = {"next", "enabled"}
        /\ row'[b].next = x /\ \A c \in Binding \ {b} : row'[c] = row[c]
    BY <1>3 DEF ScheduleTypeOK
  <1>7. ScheduleTypeOK'
    BY <1>1, <1>5, <1>6 DEF ScheduleTypeOK
  <1>8. ASSUME NEW c \in Binding, ~moved'[c] PROVE Good(c, row[c].next)'
    <2>1. CASE c = b
      <3>1. Good(b, x)
        BY <1>0, <1>2, <1>4, <1>5, <1>8, <2>1 DEF OnTime
      <3> QED
        BY <1>1, <1>6, <2>1, <3>1 DEF Good
    <2>2. CASE c # b
      <3>1. PICK y : y = row[c].next
        OBVIOUS
      <3>2. Good(c, y) /\ row'[c].next = y
        BY <1>5, <1>6, <1>8, <2>2, <3>1 DEF OnTime
      <3> QED
        BY <1>1, <3>2 DEF Good
    <2> QED
      BY <2>1, <2>2
  <1>9. OnTime'
    BY <1>1, <1>8 DEF OnTime
  <1> QED
    BY <1>7, <1>9

LEMMA OnTimeAtFirst == Init => OnTimeInv
  <1> SUFFICES ASSUME Init PROVE OnTimeInv
    OBVIOUS
  <1>1. ScheduleTypeOK
    BY ScheduleAssumption DEF Init, ScheduleTypeOK
  <1>2. ASSUME NEW b \in Binding PROVE Good(b, row[b].next)
    <2>1. Instant \subseteq Nat /\ Period[b] \in Nat \ {0}
      BY ScheduleAssumption DEF Instant
    <2>2. row[b].next = IF source[b].cron THEN Period[b] ELSE Once
      BY DEF Init
    <2>3. Period[b] % Period[b] = 0
      BY <2>1, SMTT(20)
    <2>4. \A o \in Instant : ~(o >= Period[b] /\ o < Period[b])
      BY <2>1
    <2> QED
      BY <2>1, <2>2, <2>3, <2>4 DEF Good
  <1>3. OnTime
    BY <1>2 DEF OnTime, Init
  <1> QED
    BY <1>1, <1>3 DEF OnTimeInv

LEMMA GoodLosesNothing == OnTimeInv => NothingLostOnTime
  <1> SUFFICES ASSUME OnTimeInv, NEW b \in Binding, ~moved[b]
               PROVE  IF row[b].next = None THEN Once \in reserved[b]
                      ELSE \A o \in Instant :
                             (o >= (IF source[b].cron THEN Period[b] ELSE Once)
                                /\ o < row[b].next /\ o % Period[b] = 0) => o \in reserved[b]
    BY DEF NothingLostOnTime
  <1>1. PICK x : x = row[b].next
    OBVIOUS
  <1>2. Good(b, x)
    BY <1>1 DEF OnTimeInv, OnTime
  <1>3. Instant \subseteq Nat /\ None \notin Nat /\ Once \in Nat
    BY ScheduleAssumption DEF Instant
  <1>4. CASE source[b].cron
    BY <1>1, <1>2, <1>3, <1>4 DEF Good
  <1>5. CASE ~source[b].cron /\ x = Once
    <2>1. \A o \in Instant : ~(o >= Once /\ o < Once)
      BY <1>3
    <2> QED
      BY <1>1, <1>3, <1>5, <2>1
  <1>6. CASE ~source[b].cron /\ x = None /\ Once \in reserved[b]
    BY <1>1, <1>6
  <1> QED
    BY <1>2, <1>4, <1>5, <1>6 DEF Good

LEMMA OnTimeSafe == SafetySpec => []OnTimeInv
  <1>1. OnTimeInv /\ [Next]_vars => OnTimeInv'
    <2> SUFFICES ASSUME OnTimeInv, [Next]_vars PROVE OnTimeInv'
      OBVIOUS
    <2>1. CASE \E l \in Loop : LoopStep(l) \/ Crash(l)
      BY <2>1, LoopOnTime, ClaimOnTime DEF LoopStep
    <2>2. CASE \E b \in Binding, e \in BOOLEAN : PatchRead(b, e, FALSE)
      BY <2>2, PatchReadOnTime
    <2>3. CASE \E b \in Binding : PatchRead(b, TRUE, TRUE)
      BY <2>3, PatchReadOnTime
    <2>4. CASE PatchWrite
      BY <2>4, PatchWriteOnTime
    <2>5. CASE PassTime
      <3>1. ScheduleTypeOK' /\ UNCHANGED <<source, row, reserved, moved, patch>>
        BY <2>5 DEF PassTime, OnTimeInv, ScheduleTypeOK, tick
      <3> QED
        BY <3>1, RowsLeftAlone
    <2>6. CASE UNCHANGED vars
      <3>1. ScheduleTypeOK' /\ UNCHANGED <<source, row, reserved, moved, patch>>
        BY <2>6 DEF vars, tick, OnTimeInv, ScheduleTypeOK
      <3> QED
        BY <3>1, RowsLeftAlone
    <2> QED
      BY <2>1, <2>2, <2>3, <2>4, <2>5, <2>6 DEF Next
  <1> QED
    BY <1>1, OnTimeAtFirst, PTL DEF SafetySpec

(* While every claim of a binding comes within the grace window and its    *)
(* source is left alone, no occurrence is passed over, whatever other      *)
(* daemons claim, whatever stale next_fire_at a patch writes back and      *)
(* whenever a daemon dies (decide_schedule, claim_one, update_binding).    *)
THEOREM NoneLostOnTime == SafetySpec => []NothingLostOnTime
  BY OnTimeSafe, GoodLosesNothing, PTL

-----------------------------------------------------------------------------
(* Backlogs                                                                *)

From(B, m) == {y \in B : y >= m}

LEMMA LeastNumber ==
    ASSUME NEW T, T \subseteq Nat, T # {}
    PROVE  \E x \in T : \A y \in T : x <= y
  <1> DEFINE Less == OpToRel(<, Nat)
  <1>1. IsWellFoundedOn(Less, Nat) /\ \A x, y \in Nat : y < x => <<y, x>> \in Less
    BY NatLessThanWellFounded DEF OpToRel
  <1> HIDE DEF Less
  <1>2. PICK x \in T : \A y \in T : <<y, x>> \notin Less
    BY <1>1, WFMin
  <1>3. ASSUME NEW y \in T PROVE x <= y
    <2>1. x \in Nat /\ y \in Nat
      OBVIOUS
    <2>2. ~(y < x)
      BY <1>1, <1>2, <2>1
    <2> QED
      BY <2>1, <2>2
  <1> QED
    BY <1>3

(* Of a finite set of instants the k latest can be kept: some member has   *)
(* k members from it on.                                                   *)
LEMMA KthLatest ==
    ASSUME NEW B, B \subseteq Nat, NEW top \in Nat, \A y \in B : y <= top,
           NEW k \in Nat \ {0}, k <= Cardinality(B)
    PROVE  \E x \in B : Cardinality(From(B, x)) = k
  <1> DEFINE T == {m \in Nat : Cardinality(From(B, m)) < k}
  <1>1. IsFiniteSet(B) /\ Cardinality(B) \in Nat
    BY FS_BoundedSetOfNaturals, FS_CardinalityType
  <1>2. \A m \in Nat : IsFiniteSet(From(B, m)) /\ Cardinality(From(B, m)) \in Nat
    BY <1>1, FS_Subset, FS_CardinalityType DEF From
  <1>3. top + 1 \in T
    <2>1. \A y \in B : ~(y >= top + 1)
      OBVIOUS
    <2>2. From(B, top + 1) = {}
      BY <2>1 DEF From
    <2> QED
      BY <2>2, FS_EmptySet
  <1>4. PICK m \in T : \A j \in T : m <= j
    BY <1>3, LeastNumber
  <1>5. m \in Nat /\ Cardinality(From(B, m)) < k
    OBVIOUS
  <1>6. m # 0
    <2>1. \A y \in B : y >= 0
      OBVIOUS
    <2>2. From(B, 0) = B
      BY <2>1 DEF From
    <2> QED
      BY <1>1, <1>5, <2>2
  <1>7. PICK x \in Nat : m = x + 1
    BY <1>5, <1>6
  <1>8. x \notin T
    BY <1>4, <1>7
  <1>9. Cardinality(From(B, x)) >= k
    BY <1>2, <1>8
  <1> HIDE DEF T
  <1>10. x \in B
    <2> SUFFICES ASSUME x \notin B PROVE FALSE
      OBVIOUS
    <2>1. \A y \in B : y >= x <=> y >= m
      BY <1>7
    <2>2. From(B, x) = From(B, m)
      BY <2>1 DEF From
    <2> QED
      BY <1>2, <1>5, <1>9, <2>2
  <1>11. From(B, x) = From(B, m) \cup {x} /\ x \notin From(B, m)
    <2>1. (\A y \in B : y >= x <=> y >= m \/ y = x) /\ ~(x >= m)
      BY <1>7
    <2> QED
      BY <1>10, <2>1 DEF From
  <1>12. Cardinality(From(B, x)) = Cardinality(From(B, m)) + 1
    BY <1>2, <1>5, <1>11, FS_AddElement
  <1> QED
    BY <1>2, <1>5, <1>9, <1>10, <1>12

LEMMA LatestOf ==
    ASSUME NEW B, B \subseteq Nat, NEW top \in Nat, \A y \in B : y <= top, B # {}
    PROVE  Max(B) \in B /\ From(B, Max(B)) = {Max(B)}
  <1>1. IsFiniteSet(B) /\ Cardinality(B) \in Nat
    BY FS_BoundedSetOfNaturals, FS_CardinalityType
  <1>2. 1 <= Cardinality(B)
    BY <1>1, FS_EmptySet
  <1>3. PICK x \in B : Cardinality(From(B, x)) = 1
    <2>1. 1 \in Nat \ {0}
      OBVIOUS
    <2> QED
      BY <1>2, <2>1, KthLatest
  <1>4. IsFiniteSet(From(B, x)) /\ x \in From(B, x)
    BY <1>1, FS_Subset DEF From
  <1>5. From(B, x) = {x}
    BY <1>3, <1>4, FS_Singleton
  <1>6. \A y \in B : x >= y
    BY <1>5 DEF From
  <1>7. \E z \in B : \A y \in B : z >= y
    BY <1>6
  <1>8. Max(B) \in B /\ \A y \in B : Max(B) >= y
    BY <1>7 DEF Max
  <1>9. PICK z \in B : z = Max(B) /\ \A y \in B : z >= y
    BY <1>8
  <1>10. \A y \in B : y >= z <=> y = z
    BY <1>9
  <1> QED
    BY <1>9, <1>10 DEF From

LEMMA SmallerOf ==
    ASSUME NEW a \in Nat, NEW c \in Nat PROVE Min({a, c}) = IF a <= c THEN a ELSE c
  <1>1. \E x \in {a, c} : \A y \in {a, c} : x <= y
    OBVIOUS
  <1>2. Min({a, c}) \in {a, c} /\ \A y \in {a, c} : Min({a, c}) <= y
    BY <1>1 DEF Min
  <1> QED
    BY <1>2

LEMMA Backlogs ==
    ASSUME NEW b \in Binding, NEW n \in Instant, NEW t \in Instant, n <= t
    PROVE  /\ Occurrences(b, n, t) \subseteq Nat
           /\ \A o \in Occurrences(b, n, t) : o >= n /\ o <= t
           /\ n \in Occurrences(b, n, t)
           /\ IsFiniteSet(Occurrences(b, n, t)) /\ Cardinality(Occurrences(b, n, t)) \in Nat \ {0}
  <1>1. n \in Nat /\ t \in Nat
    BY ScheduleAssumption DEF Instant
  <1>2. /\ Occurrences(b, n, t) \subseteq Nat
        /\ \A o \in Occurrences(b, n, t) : o >= n /\ o <= t
        /\ n \in Occurrences(b, n, t)
    BY <1>1 DEF Occurrences
  <1>3. IsFiniteSet(Occurrences(b, n, t))
    BY <1>1, <1>2, FS_BoundedSetOfNaturals
  <1> QED
    BY <1>2, <1>3, FS_CardinalityType, FS_EmptySet

LEMMA NextIsLater ==
    ASSUME NEW b \in Binding, NEW x \in Nat PROVE NextAfter(b, x) \in Nat /\ x < NextAfter(b, x)
  <1> DEFINE p == Period[b]
             k == x \div p
  <1>1. p \in Nat \ {0}
    BY ScheduleAssumption
  <1>2. x = p * k + (x % p) /\ k \in Nat /\ x % p \in 0..(p - 1)
    BY <1>1, Division
  <1>3. NextAfter(b, x) = (k + 1) * p
    BY DEF NextAfter
  <1> HIDE DEF p, k
  <1>4. (k + 1) * p = p * k + p /\ p * k \in Nat
    BY <1>1, <1>2
  <1>5. PICK q \in Nat : q = p * k
    BY <1>4
  <1> QED
    BY <1>1, <1>2, <1>3, <1>4, <1>5

-----------------------------------------------------------------------------
(* Decisions                                                               *)

(* What a claim can decide unless it refuses. *)
LEMMA Decisions ==
    ASSUME ScheduleTypeOK, NEW b \in Binding, NEW n, NEW t, NEW dd, dd = Decide(b, n, t), ~dd.refused
    PROVE  \/ /\ ~Missed(n, t) \/ (~source[b].cron /\ source[b].missed # "skip")
              /\ dd = Fire(n, IF source[b].cron THEN NextAfter(b, n) ELSE None)
           \/ /\ Missed(n, t) /\ source[b].missed = "skip"
              /\ dd = Advance(IF source[b].cron THEN NextAfter(b, t) ELSE None)
           \/ /\ Missed(n, t) /\ source[b].cron /\ source[b].missed = "run_once"
              /\ dd = Fire(Max(Occurrences(b, n, t)), NextAfter(b, t))
           \/ /\ Missed(n, t) /\ source[b].cron /\ source[b].missed = "catch_up"
              /\ dd = CatchUp(b, Occurrences(b, n, t))
  <1>1. Refuse.refused
    BY DEF Refuse
  <1>2. /\ source[b].missed \in {"skip", "run_once", "catch_up"}
        /\ source[b].cron \in BOOLEAN
    BY <1>1 DEF Decide, ScheduleTypeOK, MissedPolicy
  <1>3. CASE ~source[b].cron
    BY <1>2, <1>3 DEF Decide, DecideOnce
  <1>4. CASE source[b].cron /\ ~Missed(n, t)
    BY <1>2, <1>4 DEF Decide, DecideCron
  <1>5. CASE source[b].cron /\ Missed(n, t)
    <2>1. ~(Cardinality(Occurrences(b, n, t)) > MaxScan)
      BY <1>1, <1>2, <1>5 DEF Decide, DecideCron
    <2> QED
      BY <1>2, <1>5, <2>1 DEF Decide, DecideCron
  <1> QED
    BY <1>2, <1>3, <1>4, <1>5

(* catch_up fires the oldest of the most recent Keep. *)
LEMMA CatchUpKeeps ==
    ASSUME NEW b \in Binding, NEW n \in Instant, NEW t \in Instant, n <= t
    PROVE  LET B == Occurrences(b, n, t)
               o == CatchUp(b, B).occurrence
           IN  /\ o \in B /\ CatchUp(b, B) = Fire(o, NextAfter(b, o))
               /\ Cardinality(From(B, o)) = Min({Keep, Cardinality(B)})
  <1> DEFINE B == Occurrences(b, n, t)
             k == Min({Keep, Cardinality(B)})
  <1>1. t \in Nat /\ Keep \in Nat \ {0}
    BY ScheduleAssumption DEF Instant
  <1>2. B \subseteq Nat /\ (\A o \in B : o <= t) /\ Cardinality(B) \in Nat \ {0}
    BY Backlogs
  <1> HIDE DEF B
  <1>3. k \in Nat \ {0} /\ k <= Cardinality(B)
    BY <1>1, <1>2, SmallerOf
  <1> HIDE DEF k
  <1>4. \E x \in B : Cardinality(From(B, x)) = k
    BY <1>1, <1>2, <1>3, KthLatest
  <1> DEFINE o == CHOOSE x \in B : Cardinality(From(B, x)) = k
  <1>5. o \in B /\ Cardinality(From(B, o)) = k
    BY <1>4
  <1>6. CatchUp(b, B) = Fire(o, NextAfter(b, o))
    BY DEF CatchUp, From, k
  <1> HIDE DEF o
  <1>7. CatchUp(b, B).occurrence = o
    BY <1>6 DEF Fire
  <1> QED
    BY <1>5, <1>6, <1>7 DEF B, k

(* It fires nothing before what was due, and never re-arms before what it  *)
(* fires.                                                                  *)
LEMMA DecisionBounds ==
    ASSUME ScheduleTypeOK, NEW b \in Binding, NEW n \in Instant, NEW t \in Instant,
           NEW dd, dd = Decide(b, n, t), ~dd.refused
    PROVE  /\ dd.fires \in BOOLEAN /\ dd.next \in Nat \cup {None}
           /\ dd.fires => /\ dd.occurrence \in Nat /\ n <= dd.occurrence
                          /\ dd.next = None \/ dd.occurrence <= dd.next
           /\ ~dd.fires => Missed(n, t) /\ (dd.next = None \/ t < dd.next)
  <1>1. n \in Nat /\ t \in Nat /\ Grace \in Nat /\ None \notin Nat
    BY ScheduleAssumption DEF Instant
  <1>2. Missed(n, t) => n <= t
    BY <1>1 DEF Missed
  <1>3. CASE dd = Fire(n, IF source[b].cron THEN NextAfter(b, n) ELSE None)
    <2>1. NextAfter(b, n) \in Nat /\ n < NextAfter(b, n)
      BY <1>1, NextIsLater
    <2> QED
      BY <1>1, <1>3, <2>1 DEF Fire
  <1>4. CASE Missed(n, t) /\ dd = Advance(IF source[b].cron THEN NextAfter(b, t) ELSE None)
    <2>1. NextAfter(b, t) \in Nat /\ t < NextAfter(b, t)
      BY <1>1, NextIsLater
    <2> QED
      BY <1>4, <2>1 DEF Advance
  <1>5. CASE Missed(n, t) /\ dd = Fire(Max(Occurrences(b, n, t)), NextAfter(b, t))
    <2>1. NextAfter(b, t) \in Nat /\ t < NextAfter(b, t)
      BY <1>1, NextIsLater
    <2>2. PICK x \in Occurrences(b, n, t) : x = Max(Occurrences(b, n, t))
      BY <1>1, <1>2, <1>5, Backlogs, LatestOf
    <2>3. x \in Nat /\ n <= x /\ x <= t
      BY <1>2, <1>5, <2>2, Backlogs
    <2>4. dd.fires /\ dd.occurrence = x /\ dd.next = NextAfter(b, t)
      BY <1>5, <2>2 DEF Fire
    <2>5. x <= NextAfter(b, t)
      BY <1>1, <2>1, <2>3
    <2> QED
      BY <2>1, <2>3, <2>4, <2>5
  <1>6. CASE Missed(n, t) /\ dd = CatchUp(b, Occurrences(b, n, t))
    <2>1. PICK x \in Occurrences(b, n, t) : dd = Fire(x, NextAfter(b, x))
      BY <1>2, <1>6, CatchUpKeeps
    <2>2. x \in Nat /\ n <= x
      BY <1>2, <1>6, <2>1, Backlogs
    <2>3. NextAfter(b, x) \in Nat /\ x < NextAfter(b, x)
      BY <2>2, NextIsLater
    <2> QED
      BY <2>1, <2>2, <2>3 DEF Fire
  <1> QED
    BY <1>3, <1>4, <1>5, <1>6, Decisions

(* A late claim fires so far into the backlog that no more of it is left   *)
(* than the policy replays.                                                *)
LEMMA LateLeavesFew ==
    ASSUME ScheduleTypeOK, NEW b \in Binding, NEW lo \in Instant, NEW hi \in Instant, Missed(lo, hi),
           NEW dd, dd = Decide(b, lo, hi), ~dd.refused, dd.fires
    PROVE  /\ dd.occurrence \in Occurrences(b, lo, hi)
           /\ Cardinality(From(Occurrences(b, lo, hi), dd.occurrence)) <= Replay(b)
  <1> DEFINE B == Occurrences(b, lo, hi)
  <1>1. lo \in Nat /\ hi \in Nat /\ Grace \in Nat /\ Keep \in Nat
    BY ScheduleAssumption DEF Instant
  <1>2. lo <= hi
    BY <1>1 DEF Missed
  <1>3. /\ B \subseteq Nat /\ (\A o \in B : o >= lo /\ o <= hi) /\ lo \in B
        /\ Cardinality(B) \in Nat
    BY <1>2, Backlogs
  <1>4. CASE ~source[b].cron /\ source[b].missed # "skip" /\ dd = Fire(lo, None)
    <2>1. B = {lo}
      BY <1>3, <1>4 DEF Occurrences
    <2>2. lo >= lo
      BY <1>1
    <2>3. From(B, lo) = {lo}
      BY <2>1, <2>2 DEF From
    <2>4. Replay(b) = 1
      BY <1>4 DEF Replay
    <2>5. dd.occurrence = lo
      BY <1>4 DEF Fire
    <2> HIDE DEF B
    <2>6. Cardinality(From(B, lo)) = 1
      BY <2>3, FS_Singleton
    <2> QED
      BY <1>3, <2>4, <2>5, <2>6 DEF B
  <1>5. CASE source[b].missed = "run_once" /\ dd = Fire(Max(B), NextAfter(b, hi))
    <2>1. Max(B) \in B /\ From(B, Max(B)) = {Max(B)}
      BY <1>1, <1>3, LatestOf
    <2>2. Replay(b) = 1
      BY <1>5 DEF Replay
    <2>3. dd.occurrence = Max(B)
      BY <1>5 DEF Fire
    <2> HIDE DEF B
    <2>4. Cardinality(From(B, Max(B))) = 1
      BY <2>1, FS_Singleton
    <2> QED
      BY <2>1, <2>2, <2>3, <2>4 DEF B
  <1>6. CASE source[b].cron /\ source[b].missed = "catch_up" /\ dd = CatchUp(b, B)
    <2>1. dd.occurrence \in B /\ Cardinality(From(B, dd.occurrence)) = Min({Keep, Cardinality(B)})
      BY <1>2, <1>6, CatchUpKeeps
    <2>2. Min({Keep, Cardinality(B)}) <= Keep
      BY <1>1, <1>3, SmallerOf
    <2>3. Replay(b) = Keep
      BY <1>6 DEF Replay
    <2> QED
      BY <2>1, <2>2, <2>3
  <1>7. CASE dd = Advance(IF source[b].cron THEN NextAfter(b, hi) ELSE None)
    BY <1>7 DEF Advance
  <1> QED
    BY <1>4, <1>5, <1>6, <1>7, Decisions

(* A later claim of the same backlog fires nothing earlier.                *)
LEMMA LaterFiresLater ==
    ASSUME ScheduleTypeOK, NEW b \in Binding, NEW lo \in Instant, NEW hi \in Instant, Missed(lo, hi),
           NEW t \in Instant, hi <= t,
           NEW dd, dd = Decide(b, lo, hi), ~dd.refused, dd.fires,
           NEW ee, ee = Decide(b, lo, t), ~ee.refused, ee.fires
    PROVE  ee.occurrence >= dd.occurrence
  <1> DEFINE B == Occurrences(b, lo, hi)
             C == Occurrences(b, lo, t)
  <1>1. lo \in Nat /\ hi \in Nat /\ t \in Nat /\ Grace \in Nat /\ Keep \in Nat
    BY ScheduleAssumption DEF Instant
  <1>2. lo <= hi /\ lo <= t /\ Missed(lo, t)
    BY <1>1 DEF Missed
  <1>3. /\ B \subseteq Nat /\ (\A o \in B : o >= lo /\ o <= hi) /\ lo \in B
        /\ IsFiniteSet(B) /\ Cardinality(B) \in Nat
        /\ C \subseteq Nat /\ (\A o \in C : o >= lo /\ o <= t) /\ lo \in C
        /\ IsFiniteSet(C) /\ Cardinality(C) \in Nat
    BY <1>2, Backlogs
  <1>4. B \subseteq C
    BY <1>1 DEF Occurrences
  <1>5. ASSUME NEW n, NEW d, d = Advance(n), d.fires PROVE FALSE
    BY <1>5 DEF Advance
  <1>6. CASE ~source[b].cron
    <2>1. dd = Fire(lo, None) /\ ee = Fire(lo, None)
      BY <1>2, <1>5, <1>6, Decisions
    <2> QED
      BY <1>1, <2>1 DEF Fire
  <1>7. CASE source[b].cron /\ source[b].missed = "run_once"
    <2>1. dd = Fire(Max(B), NextAfter(b, hi)) /\ ee = Fire(Max(C), NextAfter(b, t))
      BY <1>2, <1>5, <1>7, Decisions
    <2>2. dd.occurrence = Max(B) /\ ee.occurrence = Max(C)
      BY <2>1 DEF Fire
    <2> HIDE DEF B, C
    <2>3. PICK x \in B : x = Max(B)
      BY <1>1, <1>3, LatestOf
    <2>4. PICK y \in C : y = Max(C) /\ From(C, y) = {y}
      BY <1>1, <1>3, LatestOf
    <2>5. x >= y => x = y
      BY <1>4, <2>4 DEF From
    <2> QED
      BY <1>3, <2>2, <2>3, <2>4, <2>5
  <1>8. CASE source[b].cron /\ source[b].missed = "catch_up"
    <2>1. dd = CatchUp(b, B) /\ ee = CatchUp(b, C)
      BY <1>2, <1>5, <1>8, Decisions
    <2>2. PICK x \in B : x = dd.occurrence /\ Cardinality(From(B, x)) = Min({Keep, Cardinality(B)})
      BY <1>2, <2>1, CatchUpKeeps
    <2>3. PICK y \in C : y = ee.occurrence /\ Cardinality(From(C, y)) = Min({Keep, Cardinality(C)})
      BY <1>2, <2>1, CatchUpKeeps
    <2>4. x \in Nat /\ y \in Nat
      BY <1>3
    <2> HIDE DEF B, C
    <2> SUFFICES ASSUME y < x PROVE FALSE
      BY <2>2, <2>3, <2>4
    <2>5. IsFiniteSet(From(C, y)) /\ Cardinality(From(C, y)) \in Nat
      BY <1>3, FS_Subset, FS_CardinalityType DEF From
    <2>6. \A z \in B : z >= x => z \in C /\ z >= y
      BY <1>3, <1>4, <2>4
    <2>7. From(B, x) \subseteq From(C, y)
      BY <2>6 DEF From
    <2>8. y \notin From(B, x) /\ y \in From(C, y)
      BY <2>4 DEF From
    <2>9. Cardinality(From(B, x)) < Cardinality(From(C, y))
      <3>1. From(B, x) # From(C, y)
        BY <2>8
      <3> QED
        BY <2>5, <2>7, <3>1, FS_Subset, FS_CardinalityType
    <2>10. CASE Keep <= Cardinality(B)
      BY <1>1, <1>3, <2>2, <2>3, <2>9, <2>10, SmallerOf
    <2>11. CASE Cardinality(B) < Keep
      <3>1. Cardinality(From(B, x)) = Cardinality(B)
        BY <1>1, <1>3, <2>2, <2>11, SmallerOf
      <3>2. From(B, x) \in SUBSET B
        BY DEF From
      <3>3. From(B, x) = B
        BY <1>3, <3>1, <3>2, FS_Subset
      <3>4. lo >= x
        BY <1>3, <3>3 DEF From
      <3>5. y >= lo
        BY <1>3
      <3> QED
        BY <1>1, <2>4, <3>4, <3>5
    <2> QED
      BY <1>1, <1>3, <2>10, <2>11
  <1>9. source[b].cron => source[b].missed \in {"run_once", "catch_up"}
    BY <1>2, <1>5, Decisions
  <1> QED
    BY <1>6, <1>7, <1>8, <1>9

-----------------------------------------------------------------------------
(* The backlog is bounded                                                  *)
(*                                                                         *)
(* The claim that finds a backlog, of lo to hi, leaves a floor f: what     *)
(* lies from f on is no more than the policy replays, no claim at hi or    *)
(* later fires anything of that backlog before f, and next_fire_at stays   *)
(* clear of what lies between lo and f, also when a patch writes back what *)
(* it has read.                                                            *)

Clear(n, lo, f) == n = None \/ n <= lo \/ n >= f

FiresFrom(b, lo, hi, f) ==
    \A t \in hi .. MaxTime :
        LET d == Decide(b, lo, t) IN ~d.refused /\ d.fires => d.occurrence >= f

Floor(b, lo, hi, f) ==
    /\ lo + Grace < hi /\ f <= hi + 1
    /\ Cardinality(From(Occurrences(b, lo, hi), f)) <= Replay(b)
    /\ FiresFrom(b, lo, hi, f)

PatchClear(b, lo, f) ==
    patch # None => patch.binding # b \/ patch.resource \/ Clear(patch.next, lo, f)

Floored(b, lo, f) ==
    /\ Floor(b, lo, outage[b].at, f)
    /\ outage[b].missed \subseteq Occurrences(b, lo, outage[b].at)
    /\ \A o \in Replayed(b) : o >= f
    /\ Clear(row[b].next, lo, f)
    /\ PatchClear(b, lo, f)

Outage == [missed : SUBSET Nat, at : Instant, ordered : BOOLEAN]

InstantsOK ==
    /\ now \in Instant /\ at \in [Loop -> Instant] /\ \A l \in Loop : at[l] <= now
    /\ \A b \in Binding : row[b].next \in Nat \cup {None}
    /\ patch # None => patch.next \in Nat \cup {None}
    /\ outage \in [Binding -> Outage]

PatchBehind ==
    (patch # None /\ ~patch.resource /\ row[patch.binding].next # None) =>
        patch.next = None \/ patch.next <= row[patch.binding].next

OutageFloored(b) ==
    \/ outage[b].missed = {} \/ ~outage[b].ordered
    \/ \E lo \in Instant, f \in 0 .. MaxTime + 1 : Floored(b, lo, f)

OutageInv == InstantsOK /\ PatchBehind /\ \A b \in Binding : OutageFloored(b)

(* The first late claim of a backlog leaves a floor below what it fires    *)
(* and below what comes next.                                              *)
LEMMA FloorLeft ==
    ASSUME ScheduleTypeOK, NEW b \in Binding, NEW lo \in Instant, NEW hi \in Instant, Missed(lo, hi),
           NEW dd, dd = Decide(b, lo, hi), ~dd.refused
    PROVE  \E f \in 0 .. MaxTime + 1 : /\ Floor(b, lo, hi, f)
                                       /\ dd.fires => dd.occurrence >= f
                                       /\ Clear(dd.next, lo, f)
  <1>1. lo \in Nat /\ hi \in Nat /\ hi <= MaxTime /\ MaxTime \in Nat /\ Grace \in Nat
    BY ScheduleAssumption DEF Instant
  <1>2. lo + Grace < hi /\ lo <= hi
    BY <1>1 DEF Missed
  <1>3. /\ dd.fires \in BOOLEAN /\ dd.next \in Nat \cup {None}
        /\ dd.fires => /\ dd.occurrence \in Nat /\ lo <= dd.occurrence
                       /\ dd.next = None \/ dd.occurrence <= dd.next
        /\ ~dd.fires => dd.next = None \/ hi < dd.next
    BY DecisionBounds
  <1>4. \A o \in Occurrences(b, lo, hi) : o \in Nat /\ o <= hi
    BY <1>2, Backlogs
  <1>5. CASE dd.fires
    <2>1. PICK f \in Occurrences(b, lo, hi) :
            f = dd.occurrence /\ Cardinality(From(Occurrences(b, lo, hi), f)) <= Replay(b)
      BY <1>5, LateLeavesFew
    <2>2. f \in Nat /\ f <= hi
      BY <1>4
    <2>3. FiresFrom(b, lo, hi, f)
      <3> SUFFICES ASSUME NEW t \in hi .. MaxTime, NEW ee, ee = Decide(b, lo, t), ~ee.refused, ee.fires
                   PROVE  ee.occurrence >= f
        BY DEF FiresFrom
      <3>1. t \in Instant /\ hi <= t
        BY <1>1 DEF Instant
      <3> QED
        BY <1>5, <2>1, <3>1, LaterFiresLater
    <2>4. Floor(b, lo, hi, f)
      BY <1>1, <1>2, <2>1, <2>2, <2>3 DEF Floor
    <2>5. Clear(dd.next, lo, f) /\ dd.occurrence >= f
      BY <1>3, <1>5, <2>1, <2>2 DEF Clear
    <2>6. f \in 0 .. MaxTime + 1
      BY <1>1, <2>2
    <2> QED
      BY <2>4, <2>5, <2>6
  <1>6. CASE ~dd.fires
    <2> DEFINE f == hi + 1
    <2>1. source[b].missed = "skip"
      <3>1. ASSUME NEW o, NEW n, dd = Fire(o, n) PROVE FALSE
        BY <1>6, <3>1 DEF Fire
      <3>2. ASSUME dd = CatchUp(b, Occurrences(b, lo, hi)) PROVE FALSE
        BY <3>1, <3>2 DEF CatchUp
      <3> QED
        BY <3>1, <3>2, Decisions
    <2>2. Replay(b) = 0
      BY <2>1 DEF Replay
    <2>3. From(Occurrences(b, lo, hi), f) = {}
      <3>1. \A o \in Occurrences(b, lo, hi) : ~(o >= f)
        BY <1>1, <1>4
      <3> QED
        BY <3>1 DEF From
    <2>4. Cardinality(From(Occurrences(b, lo, hi), f)) <= Replay(b)
      BY <2>2, <2>3, FS_EmptySet
    <2>5. FiresFrom(b, lo, hi, f)
      <3> SUFFICES ASSUME NEW t \in hi .. MaxTime, NEW ee, ee = Decide(b, lo, t), ~ee.refused, ee.fires
                   PROVE  FALSE
        BY DEF FiresFrom
      <3>1. Missed(lo, t)
        BY <1>1, <1>2 DEF Missed
      <3>2. ASSUME NEW n, ee = Advance(n) PROVE FALSE
        BY <3>2 DEF Advance
      <3> QED
        BY <2>1, <3>1, <3>2, Decisions
    <2>6. Floor(b, lo, hi, f)
      BY <1>1, <1>2, <2>4, <2>5 DEF Floor
    <2>7. Clear(dd.next, lo, f)
      BY <1>1, <1>3, <1>6 DEF Clear
    <2>8. f \in 0 .. MaxTime + 1
      BY <1>1
    <2> HIDE DEF f
    <2> QED
      BY <1>6, <2>6, <2>7, <2>8
  <1> QED
    BY <1>3, <1>5, <1>6

(* What the invariant is for. *)
LEMMA FloorBounds == ScheduleTypeOK /\ OutageInv => BacklogBounded
  <1> SUFFICES ASSUME ScheduleTypeOK, OutageInv, NEW b \in Binding, outage[b].ordered
               PROVE  Cardinality(Replayed(b)) <= Replay(b)
    BY DEF BacklogBounded
  <1>1. CASE outage[b].missed = {}
    <2>1. Replay(b) \in Nat
      BY ScheduleAssumption DEF Replay
    <2>2. Replayed(b) = {}
      BY <1>1 DEF Replayed
    <2>3. Cardinality(Replayed(b)) = 0
      BY <2>2, FS_EmptySet
    <2> QED
      BY <2>1, <2>3
  <1>2. CASE \E lo \in Instant, f \in 0 .. MaxTime + 1 : Floored(b, lo, f)
    <2>1. PICK lo \in Instant, f \in 0 .. MaxTime + 1 : Floored(b, lo, f)
      BY <1>2
    <2>0. PICK hi \in Instant : hi = outage[b].at
      BY DEF OutageInv, InstantsOK, Outage
    <2>2. lo \in Nat /\ hi \in Nat /\ Grace \in Nat /\ lo + Grace < hi
      BY <2>0, <2>1, ScheduleAssumption DEF Instant, Floored, Floor
    <2>3. lo <= hi
      BY <2>2
    <2>4. IsFiniteSet(From(Occurrences(b, lo, hi), f))
      BY <2>3, Backlogs, FS_Subset DEF From
    <2>5. Replayed(b) \in SUBSET From(Occurrences(b, lo, hi), f)
      BY <2>0, <2>1 DEF Floored, Replayed, From
    <2>6. Cardinality(From(Occurrences(b, lo, hi), f)) <= Replay(b)
      BY <2>0, <2>1 DEF Floored, Floor
    <2>7. /\ Cardinality(Replayed(b)) <= Cardinality(From(Occurrences(b, lo, hi), f))
          /\ Cardinality(Replayed(b)) \in Nat
          /\ Cardinality(From(Occurrences(b, lo, hi), f)) \in Nat
      BY <2>4, <2>5, FS_Subset, FS_CardinalityType
    <2>8. Replay(b) \in Nat
      BY ScheduleAssumption DEF Replay
    <2> QED
      BY <2>6, <2>7, <2>8
  <1> QED
    BY <1>1, <1>2 DEF OutageInv, OutageFloored

LEMMA FloorKept ==
    ASSUME NEW b, NEW lo, NEW hi, NEW f, Floor(b, lo, hi, f), source' = source
    PROVE  Floor(b, lo, hi, f)' /\ Occurrences(b, lo, hi)' = Occurrences(b, lo, hi)
  BY DEF Floor, FiresFrom, Decide, DecideCron, DecideOnce, CatchUp, Occurrences, Replay

LEMMA LatestFloor ==
    ASSUME NEW b, NEW lo, NEW hi, NEW f, Floor(b, lo, hi, f)', hi = outage'[b].at,
           outage'[b].missed \subseteq Occurrences(b, lo, hi)'
    PROVE  Floor(b, lo, outage[b].at, f)' /\ (outage[b].missed \subseteq Occurrences(b, lo, outage[b].at))'
  BY DEF Floor, FiresFrom, Occurrences, Decide, DecideCron, DecideOnce, CatchUp

(* A step keeps a floor if what it fires of the outage and where it        *)
(* re-arms are not below it.                                               *)
LEMMA FloorStays ==
    ASSUME NEW b \in Binding, NEW lo \in Instant, NEW f \in 0 .. MaxTime + 1,
           Floored(b, lo, f), source' = source,
           outage'[b].missed = outage[b].missed, outage'[b].at = outage[b].at,
           \A o \in reserved'[b] : o \in reserved[b] \/ o >= f,
           Clear(row'[b].next, lo, f), PatchClear(b, lo, f)'
    PROVE  Floored(b, lo, f)'
  <1>0. PICK hi : hi = outage[b].at
    OBVIOUS
  <1>1. Floor(b, lo, hi, f)' /\ Occurrences(b, lo, hi)' = Occurrences(b, lo, hi)
    BY <1>0, FloorKept DEF Floored
  <1>2. outage'[b].missed \subseteq Occurrences(b, lo, hi)'
    BY <1>0, <1>1 DEF Floored
  <1>3. \A o \in Replayed(b)' : o >= f
    BY DEF Floored, Replayed
  <1>4. Clear(row[b].next, lo, f)'
    BY DEF Clear
  <1>5. Floor(b, lo, outage[b].at, f)' /\ (outage[b].missed \subseteq Occurrences(b, lo, outage[b].at))'
    BY <1>0, <1>1, <1>2, LatestFloor
  <1> QED
    BY <1>3, <1>4, <1>5 DEF Floored

LEMMA OutagesStay ==
    ASSUME OutageInv, UNCHANGED <<source, row, reserved, patch, outage>>,
           now' \in Instant, at' \in [Loop -> Instant], \A l \in Loop : at'[l] <= now'
    PROVE  OutageInv'
  <1>1. InstantsOK' /\ PatchBehind'
    BY DEF OutageInv, InstantsOK, PatchBehind
  <1>2. ASSUME NEW b \in Binding PROVE OutageFloored(b)'
    <2>1. CASE outage[b].missed = {} \/ ~outage[b].ordered
      BY <2>1 DEF OutageFloored
    <2>2. CASE \E lo \in Instant, f \in 0 .. MaxTime + 1 : Floored(b, lo, f)
      <3>1. PICK lo \in Instant, f \in 0 .. MaxTime + 1 : Floored(b, lo, f)
        BY <2>2
      <3>2. Clear(row'[b].next, lo, f) /\ PatchClear(b, lo, f)'
        BY <3>1 DEF Floored, PatchClear, Clear
      <3>3. Floored(b, lo, f)'
        BY <3>1, <3>2, FloorStays
      <3> QED
        BY <3>3 DEF OutageFloored
    <2> QED
      BY <2>1, <2>2 DEF OutageInv, OutageFloored
  <1> QED
    BY <1>1, <1>2 DEF OutageInv

LEMMA ReadKeepsOutages ==
    ASSUME ScheduleTypeOK, OutageInv, NEW l \in Loop, ReadDue(l) PROVE OutageInv'
  <1>1. /\ at' = [at EXCEPT ![l] = now]
        /\ UNCHANGED <<source, row, reserved, now, patch, outage>>
    BY DEF ReadDue
  <1>2. Instant \subseteq Nat
    BY ScheduleAssumption DEF Instant
  <1>3. at \in [Loop -> Instant] /\ now \in Instant /\ \A m \in Loop : at[m] <= now
    BY DEF OutageInv, InstantsOK
  <1>4. at' \in [Loop -> Instant]
    BY <1>1, <1>3
  <1>5. ASSUME NEW m \in Loop PROVE at'[m] <= now'
    <2>1. now \in Nat /\ at[m] <= now
      BY <1>2, <1>3
    <2>2. at'[m] = now \/ at'[m] = at[m]
      BY <1>1, <1>3
    <2> QED
      BY <1>1, <2>1, <2>2
  <1> QED
    BY <1>1, <1>3, <1>4, <1>5, OutagesStay

LEMMA IdleKeepsOutages ==
    ASSUME OutageInv, UNCHANGED <<source, row, reserved, at, patch, outage>>,
           now' \in Instant, now <= now'
    PROVE  OutageInv'
  <1>1. at' \in [Loop -> Instant]
    BY DEF OutageInv, InstantsOK
  <1>2. ASSUME NEW l \in Loop PROVE at'[l] <= now'
    <2>1. at[l] \in Nat /\ now \in Nat /\ now' \in Nat /\ at[l] <= now
      BY ScheduleAssumption DEF Instant, OutageInv, InstantsOK
    <2> QED
      BY <2>1
  <1> QED
    BY <1>1, <1>2, OutagesStay

(* A claim of an outage that is known fires from its floor on, unless it   *)
(* is decided by an older clock than the claim that found it.              *)
LEMMA ClaimFromFloor ==
    ASSUME ScheduleTypeOK, OutageInv, NEW b \in Binding, NEW n \in Instant, NEW t \in Instant,
           NEW lo \in Instant, NEW f \in 0 .. MaxTime + 1, Floored(b, lo, f),
           row[b].next = n, outage[b].at <= t, Missed(n, t) => n \in outage[b].missed,
           NEW dd, dd = Decide(b, n, t), ~dd.refused
    PROVE  (dd.fires => dd.occurrence >= f) /\ Clear(dd.next, lo, f)
  <1>0. PICK hi \in Instant : hi = outage[b].at
    BY DEF OutageInv, InstantsOK, Outage
  <1>1. /\ n \in Nat /\ t \in Nat /\ t <= MaxTime /\ lo \in Nat /\ hi \in Nat /\ f \in Nat
        /\ Grace \in Nat /\ MaxTime \in Nat /\ None \notin Nat
    BY ScheduleAssumption DEF Instant
  <1>2. hi <= t
    BY <1>0
  <1>3. lo + Grace < hi /\ f <= hi + 1 /\ FiresFrom(b, lo, hi, f) /\ (n <= lo \/ n >= f)
        /\ outage[b].missed \subseteq Occurrences(b, lo, hi)
    BY <1>0, <1>1 DEF Floored, Floor, Clear
  <1>4. /\ dd.fires \in BOOLEAN /\ dd.next \in Nat \cup {None}
        /\ dd.fires => /\ dd.occurrence \in Nat /\ n <= dd.occurrence
                       /\ dd.next = None \/ dd.occurrence <= dd.next
        /\ ~dd.fires => dd.next = None \/ t < dd.next
    BY DecisionBounds
  <1>5. CASE n >= f
    BY <1>1, <1>2, <1>3, <1>4, <1>5 DEF Clear
  <1>6. CASE n <= lo
    <2>1. Missed(n, t)
      BY <1>1, <1>2, <1>3, <1>6 DEF Missed
    <2>2. n \in Occurrences(b, lo, hi) /\ lo <= hi
      BY <1>1, <1>3, <2>1
    <2>3. n = lo
      BY <1>1, <1>6, <2>2, Backlogs
    <2>4. t \in hi .. MaxTime
      BY <1>1, <1>2
    <2>5. dd.fires => dd.occurrence >= f
      BY <1>3, <2>3, <2>4 DEF FiresFrom
    <2> QED
      BY <1>1, <1>2, <1>3, <1>4, <2>5 DEF Clear
  <1> QED
    BY <1>3, <1>5, <1>6

(* A claim leaves the reservations of other bindings alone and adds what   *)
(* it fires to its own.                                                    *)
LEMMA InsertAdds ==
    ASSUME ScheduleTypeOK, NEW b \in Binding, NEW o, InsertReceipt(b, o)
    PROVE  /\ \A c \in Binding \ {b} : reserved'[c] = reserved[c]
           /\ \A x \in reserved'[b] : x \in reserved[b] \/ x = o
  BY DEF InsertReceipt, ScheduleTypeOK

LEMMA ClaimKeepsOutages ==
    ASSUME ScheduleTypeOK, OutageInv, NEW l \in Loop, ClaimOne(l) PROVE OutageInv'
  <1>1. PICK d \in [binding : Binding, next : Instant] : d = leased[l] /\ leased[l] # None
    BY DEF ClaimOne, ScheduleTypeOK
  <1>2. PICK b \in Binding, n \in Instant, t \in Instant : b = d.binding /\ n = d.next /\ t = at[l]
    BY <1>1 DEF OutageInv, InstantsOK
  <1>3. PICK dd : dd = Decide(b, n, t)
    OBVIOUS
  <1>4. UNCHANGED <<source, now, at, patch>>
    BY DEF ClaimOne
  <1>5. CASE UNCHANGED <<row, reserved, outage>>
    <2>1. now \in Instant /\ now <= now
      BY ScheduleAssumption DEF Instant, OutageInv, InstantsOK
    <2> QED
      BY <1>4, <1>5, <2>1, IdleKeepsOutages
  <1>6. CASE /\ StillDue(l, d) /\ ~dd.refused /\ Rearm(b, dd)
             /\ IF dd.fires THEN InsertReceipt(b, dd.occurrence) ELSE UNCHANGED reserved
             /\ outage' = [outage EXCEPT ![b] = OutageAfter(b, n, t)]
    <2>1. row[b].next = n
      BY <1>2, <1>6 DEF StillDue
    <2>2. /\ row'[b].next = dd.next /\ \A c \in Binding \ {b} : row'[c] = row[c]
      BY <1>6 DEF Rearm, ScheduleTypeOK
    <2>3. /\ dd.fires \in BOOLEAN /\ dd.next \in Nat \cup {None}
          /\ dd.fires => /\ dd.occurrence \in Nat /\ n <= dd.occurrence
                         /\ dd.next = None \/ dd.occurrence <= dd.next
          /\ ~dd.fires => Missed(n, t) /\ (dd.next = None \/ t < dd.next)
      BY <1>3, <1>6, DecisionBounds
    <2>4. n \in Nat /\ t \in Nat /\ Grace \in Nat /\ None \notin Nat
      BY ScheduleAssumption DEF Instant
    <2>5. dd.next = None \/ n <= dd.next
      BY <2>3, <2>4 DEF Missed
    <2>6. /\ DOMAIN outage' = Binding /\ \A c \in Binding \ {b} : outage'[c] = outage[c]
          /\ \/ /\ Missed(n, t)
                /\ outage'[b] = [missed |-> Occurrences(b, n, t) \ reserved[b], at |-> t, ordered |-> TRUE]
             \/ /\ Missed(n, t) => n \in outage[b].missed
                /\ outage'[b] = [missed |-> outage[b].missed, at |-> outage[b].at,
                                ordered |-> IF outage[b].at <= t THEN outage[b].ordered ELSE FALSE]
      BY <1>6 DEF OutageInv, InstantsOK, OutageAfter
    <2>7. /\ \A c \in Binding \ {b} : reserved'[c] = reserved[c]
          /\ \A x \in reserved'[b] : x \in reserved[b] \/ (dd.fires /\ x = dd.occurrence)
      <3>1. CASE dd.fires
        BY <1>6, <3>1, InsertAdds
      <3>2. CASE ~dd.fires
        BY <1>6, <3>2
      <3> QED
        BY <3>1, <3>2
    <2>8. InstantsOK'
      <3>1. outage'[b] \in Outage
        <4>1. CASE outage'[b] = [missed |-> Occurrences(b, n, t) \ reserved[b], at |-> t, ordered |-> TRUE]
          <5>1. Occurrences(b, n, t) \subseteq Nat
            BY <2>4 DEF Occurrences
          <5> QED
            BY <4>1, <5>1 DEF Outage
        <4>2. CASE outage'[b] = [missed |-> outage[b].missed, at |-> outage[b].at,
                                 ordered |-> IF outage[b].at <= t THEN outage[b].ordered ELSE FALSE]
          <5>1. outage[b] \in Outage
            BY DEF OutageInv, InstantsOK
          <5>2. CASE outage[b].at <= t
            BY <4>2, <5>1, <5>2 DEF Outage
          <5>3. CASE ~(outage[b].at <= t)
            BY <4>2, <5>1, <5>3 DEF Outage
          <5> QED
            BY <5>2, <5>3
        <4> QED
          BY <2>6, <4>1, <4>2
      <3>2. outage' \in [Binding -> Outage]
        BY <1>6, <2>6, <3>1 DEF OutageInv, InstantsOK
      <3> QED
        BY <1>4, <2>2, <2>3, <3>2 DEF OutageInv, InstantsOK
    <2>10. PatchBehind'
      <3> SUFFICES ASSUME patch # None, ~patch.resource, row'[patch.binding].next # None
                   PROVE  patch.next = None \/ patch.next <= row'[patch.binding].next
        BY <1>4 DEF PatchBehind
      <3>1. patch.binding \in Binding /\ patch.next \in Nat \cup {None}
        BY DEF ScheduleTypeOK, OutageInv, InstantsOK
      <3>2. CASE patch.binding = b
        <4>1. patch.next = None \/ patch.next <= n
          BY <2>1, <2>4, <3>2 DEF OutageInv, PatchBehind
        <4> QED
          BY <2>2, <2>3, <2>4, <2>5, <3>1, <3>2, <4>1
      <3>3. CASE patch.binding # b
        BY <2>2, <3>1, <3>3 DEF OutageInv, PatchBehind
      <3> QED
        BY <3>2, <3>3
    <2>11. ASSUME NEW c \in Binding, c # b PROVE OutageFloored(c)'
      <3>1. CASE outage[c].missed = {} \/ ~outage[c].ordered
        BY <2>6, <2>11, <3>1 DEF OutageFloored
      <3>2. CASE \E lo \in Instant, f \in 0 .. MaxTime + 1 : Floored(c, lo, f)
        <4>1. PICK lo \in Instant, f \in 0 .. MaxTime + 1 : Floored(c, lo, f)
          BY <3>2
        <4>2. Clear(row'[c].next, lo, f) /\ PatchClear(c, lo, f)'
          BY <1>4, <2>2, <2>11, <4>1 DEF Floored, PatchClear, Clear
        <4>3. Floored(c, lo, f)'
          BY <1>4, <2>6, <2>7, <2>11, <4>1, <4>2, FloorStays
        <4> QED
          BY <4>3 DEF OutageFloored
      <3> QED
        BY <3>1, <3>2 DEF OutageInv, OutageFloored
    <2>12. ASSUME Missed(n, t) => n \in outage[b].missed,
                  outage'[b] = [missed |-> outage[b].missed, at |-> outage[b].at,
                                ordered |-> IF outage[b].at <= t THEN outage[b].ordered ELSE FALSE]
           PROVE  OutageFloored(b)'
      <3>1. /\ outage'[b].missed = outage[b].missed /\ outage'[b].at = outage[b].at
            /\ outage'[b].ordered => outage[b].ordered /\ outage[b].at <= t
        <4>1. CASE outage[b].at <= t
          BY <2>12, <4>1
        <4>2. CASE ~(outage[b].at <= t)
          BY <2>12, <4>2
        <4> QED
          BY <4>1, <4>2
      <3> SUFFICES ASSUME outage'[b].missed # {}, outage'[b].ordered
                   PROVE  \E lo \in Instant, f \in 0 .. MaxTime + 1 : Floored(b, lo, f)'
        BY DEF OutageFloored
      <3>2. PICK lo \in Instant, f \in 0 .. MaxTime + 1 : Floored(b, lo, f)
        BY <3>1 DEF OutageInv, OutageFloored
      <3>3. (dd.fires => dd.occurrence >= f) /\ Clear(dd.next, lo, f)
        BY <1>3, <1>6, <2>1, <2>12, <3>1, <3>2, ClaimFromFloor
      <3>4. PatchClear(b, lo, f)'
        BY <1>4, <3>2 DEF Floored, PatchClear, Clear
      <3>5. Floored(b, lo, f)'
        BY <1>4, <2>2, <2>7, <3>1, <3>2, <3>3, <3>4, FloorStays
      <3> QED
        BY <3>5
    <2>13. ASSUME Missed(n, t),
                  outage'[b] = [missed |-> Occurrences(b, n, t) \ reserved[b], at |-> t, ordered |-> TRUE]
           PROVE  OutageFloored(b)'
      <3>0. outage'[b].missed = Occurrences(b, n, t) \ reserved[b] /\ outage'[b].at = t
        BY <2>13
      <3>1. PICK f \in 0 .. MaxTime + 1 :
              /\ Floor(b, n, t, f) /\ Clear(dd.next, n, f)
              /\ dd.fires => dd.occurrence >= f
        BY <1>3, <1>6, <2>13, FloorLeft
      <3>2. Floor(b, n, t, f)' /\ Occurrences(b, n, t)' = Occurrences(b, n, t)
        BY <1>4, <3>1, FloorKept
      <3>3. outage'[b].missed \subseteq Occurrences(b, n, t)'
        BY <3>0, <3>2
      <3>4. \A o \in Replayed(b)' : o >= f
        BY <2>7, <3>0, <3>1 DEF Replayed
      <3>5. Clear(row[b].next, n, f)'
        BY <2>2, <3>1 DEF Clear
      <3>6. PatchClear(b, n, f)'
        <4> SUFFICES ASSUME patch # None, patch.binding = b, ~patch.resource
                     PROVE  patch.next = None \/ patch.next <= n
          BY <1>4 DEF PatchClear, Clear
        <4> QED
          BY <2>1, <2>4 DEF OutageInv, PatchBehind
      <3>7. Floor(b, n, outage[b].at, f)' /\ (outage[b].missed \subseteq Occurrences(b, n, outage[b].at))'
        BY <3>0, <3>2, <3>3, LatestFloor
      <3>8. Floored(b, n, f)'
        BY <3>4, <3>5, <3>6, <3>7 DEF Floored
      <3> QED
        BY <3>8 DEF OutageFloored
    <2> QED
      BY <2>6, <2>8, <2>10, <2>11, <2>12, <2>13 DEF OutageInv
  <1> QED
    BY <1>1, <1>2, <1>3, <1>5, <1>6 DEF ClaimOne

(* What a patch reads is clear of the backlog, and still so when it is     *)
(* written back.                                                           *)
LEMMA PatchReadKeepsOutages ==
    ASSUME ScheduleTypeOK, OutageInv, NEW b \in Binding, NEW e \in BOOLEAN, NEW r \in BOOLEAN,
           PatchRead(b, e, r)
    PROVE  OutageInv'
  <1>1. UNCHANGED <<source, row, reserved, now, at, outage>>
    BY DEF PatchRead, tick
  <1>2. patch'.binding = b /\ patch'.resource = r /\ (~r => patch'.next = row[b].next)
    BY DEF PatchRead
  <1>3. patch'.next \in Nat \cup {None}
    <2>1. now \in Nat /\ Once \in Nat
      BY ScheduleAssumption DEF OutageInv, InstantsOK, Instant
    <2>2. patch'.next \in {row[b].next, NextAfter(b, now), Once}
      BY DEF PatchRead
    <2> QED
      BY <2>1, <2>2, NextIsLater DEF OutageInv, InstantsOK
  <1>4. InstantsOK'
    BY <1>1, <1>3 DEF OutageInv, InstantsOK
  <1>5. PatchBehind'
    <2> SUFFICES ASSUME ~r, row[b].next # None PROVE row[b].next <= row[b].next
      BY <1>1, <1>2 DEF PatchBehind
    <2>1. row[b].next \in Nat
      BY DEF OutageInv, InstantsOK
    <2> QED
      BY <2>1
  <1>6. ASSUME NEW c \in Binding PROVE OutageFloored(c)'
    <2>1. CASE outage[c].missed = {} \/ ~outage[c].ordered
      BY <1>1, <2>1 DEF OutageFloored
    <2>2. CASE \E lo \in Instant, f \in 0 .. MaxTime + 1 : Floored(c, lo, f)
      <3>1. PICK lo \in Instant, f \in 0 .. MaxTime + 1 : Floored(c, lo, f)
        BY <2>2
      <3>2. Clear(row[c].next, lo, f)
        BY <3>1 DEF Floored
      <3>3. PatchClear(c, lo, f)'
        BY <1>2, <3>2 DEF PatchClear, Clear
      <3>4. Clear(row'[c].next, lo, f)
        BY <1>1, <3>2 DEF Clear
      <3>5. Floored(c, lo, f)'
        BY <1>1, <3>1, <3>3, <3>4, FloorStays
      <3> QED
        BY <3>5 DEF OutageFloored
    <2> QED
      BY <2>1, <2>2 DEF OutageInv, OutageFloored
  <1> QED
    BY <1>4, <1>5, <1>6 DEF OutageInv

LEMMA PatchWriteKeepsOutages ==
    ASSUME ScheduleTypeOK, OutageInv, PatchWrite PROVE OutageInv'
  <1>1. patch' = None /\ patch # None /\ UNCHANGED <<source, reserved, now, at>>
    BY DEF PatchWrite, tick
  <1>2. PICK b \in Binding, x \in Nat \cup {None} : b = patch.binding /\ x = patch.next
    BY <1>1 DEF ScheduleTypeOK, OutageInv, InstantsOK
  <1>3. /\ row'[b].next = x /\ \A c \in Binding \ {b} : row'[c] = row[c]
    BY <1>2 DEF PatchWrite, ScheduleTypeOK
  <1>4. /\ DOMAIN outage' = Binding /\ \A c \in Binding \ {b} : outage'[c] = outage[c]
        /\ outage'[b] = IF patch.resource THEN NoOutage ELSE outage[b]
    BY <1>2 DEF PatchWrite, OutageInv, InstantsOK
  <1>5. InstantsOK' /\ PatchBehind'
    <2>1. NoOutage \in Outage
      BY ScheduleAssumption DEF NoOutage, Outage, Instant
    <2>2. outage' \in [Binding -> Outage]
      BY <1>2, <2>1 DEF PatchWrite, OutageInv, InstantsOK
    <2> QED
      BY <1>1, <1>2, <1>3, <2>2 DEF OutageInv, InstantsOK, PatchBehind
  <1>6. ASSUME NEW c \in Binding PROVE OutageFloored(c)'
    <2>1. CASE c = b /\ patch.resource
      BY <1>4, <2>1 DEF OutageFloored, NoOutage
    <2>2. CASE outage[c].missed = {} \/ ~outage[c].ordered
      BY <1>4, <2>1, <2>2 DEF OutageFloored
    <2>3. CASE /\ ~(c = b /\ patch.resource)
               /\ \E lo \in Instant, f \in 0 .. MaxTime + 1 : Floored(c, lo, f)
      <3>1. outage'[c] = outage[c] /\ (c = b => ~patch.resource)
        BY <1>4, <2>3
      <3>2. PICK lo \in Instant, f \in 0 .. MaxTime + 1 : Floored(c, lo, f)
        BY <2>3
      <3>3. Clear(row[c].next, lo, f) /\ PatchClear(c, lo, f)
        BY <3>2 DEF Floored
      <3>4. Clear(row'[c].next, lo, f)
        <4>1. CASE c = b
          BY <1>1, <1>2, <1>3, <3>1, <3>3, <4>1 DEF PatchClear
        <4>2. CASE c # b
          BY <1>3, <3>3, <4>2
        <4> QED
          BY <4>1, <4>2
      <3>5. PatchClear(c, lo, f)'
        BY <1>1 DEF PatchClear
      <3>6. Floored(c, lo, f)'
        BY <1>1, <3>1, <3>2, <3>4, <3>5, FloorStays
      <3> QED
        BY <3>6 DEF OutageFloored
    <2> QED
      BY <2>1, <2>2, <2>3 DEF OutageInv, OutageFloored
  <1> QED
    BY <1>5, <1>6 DEF OutageInv

LEMMA NoOutageAtFirst == Init => OutageInv
  <1> SUFFICES ASSUME Init PROVE OutageInv
    OBVIOUS
  <1>1. 0 \in Instant /\ 0 <= 0
    BY ScheduleAssumption DEF Instant
  <1>2. InstantsOK
    BY <1>1, ScheduleAssumption DEF Init, InstantsOK, NoOutage, Outage
  <1>3. PatchBehind /\ \A b \in Binding : OutageFloored(b)
    BY DEF Init, PatchBehind, OutageFloored, NoOutage
  <1> QED
    BY <1>2, <1>3 DEF OutageInv

LEMMA OutagesSafe == SafetySpec => [](ScheduleTypeOK /\ OutageInv)
  <1>1. ScheduleTypeOK /\ OutageInv /\ [Next]_vars => OutageInv'
    <2> SUFFICES ASSUME ScheduleTypeOK, OutageInv, [Next]_vars PROVE OutageInv'
      OBVIOUS
    <2>0. now \in Instant /\ now \in Nat /\ now <= now
      BY ScheduleAssumption DEF OutageInv, InstantsOK, Instant
    <2>1. ASSUME NEW l \in Loop, AcquireLease(l) \/ Crash(l) PROVE OutageInv'
      <3>1. UNCHANGED <<source, row, reserved, at, patch, outage, now>>
        BY <2>1 DEF Crash, AcquireLease
      <3> QED
        BY <2>0, <3>1, IdleKeepsOutages
    <2>2. ASSUME NEW l \in Loop, LoopStep(l) PROVE OutageInv'
      BY <2>1, <2>2, ReadKeepsOutages, ClaimKeepsOutages DEF LoopStep
    <2>3. CASE \E b \in Binding, e \in BOOLEAN : PatchRead(b, e, FALSE)
      BY <2>3, PatchReadKeepsOutages
    <2>4. CASE \E b \in Binding : PatchRead(b, TRUE, TRUE)
      BY <2>4, PatchReadKeepsOutages
    <2>5. CASE PatchWrite
      BY <2>5, PatchWriteKeepsOutages
    <2>6. CASE PassTime
      <3>1. UNCHANGED <<source, row, reserved, at, patch, outage>>
        BY <2>6 DEF PassTime, tick
      <3>2. now' \in Instant /\ now <= now'
        BY <2>0, <2>6, ScheduleAssumption DEF PassTime, Instant
      <3> QED
        BY <3>1, <3>2, IdleKeepsOutages
    <2>7. CASE UNCHANGED vars
      <3>1. UNCHANGED <<source, row, reserved, at, patch, outage, now>>
        BY <2>7 DEF vars, tick
      <3> QED
        BY <2>0, <3>1, IdleKeepsOutages
    <2> QED
      BY <2>1, <2>2, <2>3, <2>4, <2>5, <2>6, <2>7 DEF Next
  <1>2. OnTimeInv => ScheduleTypeOK
    BY DEF OnTimeInv
  <1> QED
    BY <1>1, <1>2, OnTimeSafe, NoOutageAtFirst, PTL DEF SafetySpec

(* However the ticks that replay an outage are spread, whichever loops     *)
(* make them and whatever stale next_fire_at a patch writes back, no more  *)
(* of its occurrences are fired than the missed_run policy allows, as long *)
(* as none of these claims was decided by an older clock than the one that *)
(* found the outage (decide_schedule, claim_one, update_binding).          *)
THEOREM ReplayIsBounded == SafetySpec => []BacklogBounded
  BY OutagesSafe, FloorBounds, PTL

-----------------------------------------------------------------------------
(* One loop                                                                *)
(*                                                                         *)
(* The instants of one loop's ticks never go back, so with one daemon over *)
(* the database every claim is in order.                                   *)

InOrder ==
    \A b \in Binding : outage[b].ordered /\ \A l \in Loop : outage[b].at <= at[l]

LEMMA OneLoopInOrder ==
    ASSUME \A l, m \in Loop : l = m, ScheduleTypeOK, OutageInv, InOrder, [Next]_vars
    PROVE  InOrder'
  <1>0. Instant \subseteq Nat
    BY ScheduleAssumption DEF Instant
  <1>1. CASE UNCHANGED <<outage, at>>
    BY <1>1 DEF InOrder
  <1>2. ASSUME NEW l \in Loop, ReadDue(l) PROVE InOrder'
    <2>1. at' = [at EXCEPT ![l] = now] /\ outage' = outage
      BY <1>2 DEF ReadDue
    <2> SUFFICES ASSUME NEW b \in Binding, NEW m \in Loop PROVE outage[b].at <= at'[m]
      BY <2>1 DEF InOrder
    <2>2. /\ outage[b].at \in Nat /\ at[m] \in Nat /\ now \in Nat /\ at[m] <= now
          /\ outage[b].at <= at[m]
      BY <1>0 DEF OutageInv, InstantsOK, Outage, InOrder
    <2>3. at'[m] = now \/ at'[m] = at[m]
      BY <2>1 DEF OutageInv, InstantsOK
    <2> QED
      BY <2>2, <2>3
  <1>3. ASSUME NEW l \in Loop, ClaimOne(l) PROVE InOrder'
    <2>0. at' = at /\ at[l] \in Nat
      BY <1>0, <1>3 DEF ClaimOne, OutageInv, InstantsOK
    <2>1. at' = at /\ at[l] <= at[l]
      BY <2>0
    <2>2. ASSUME NEW b \in Binding PROVE outage'[b].ordered /\ outage'[b].at <= at[l]
      <3>1. outage[b].ordered /\ outage[b].at <= at[l]
        BY DEF InOrder
      <3>2. \/ outage'[b] = outage[b]
            \/ \E B : outage'[b] = [missed |-> B, at |-> at[l], ordered |-> TRUE]
            \/ outage'[b] = [missed |-> outage[b].missed, at |-> outage[b].at,
                            ordered |-> IF outage[b].at <= at[l] THEN outage[b].ordered ELSE FALSE]
        BY <1>3 DEF ClaimOne, OutageAfter, OutageInv, InstantsOK
      <3>3. CASE outage'[b] = [missed |-> outage[b].missed, at |-> outage[b].at,
                               ordered |-> IF outage[b].at <= at[l] THEN outage[b].ordered ELSE FALSE]
        BY <3>1, <3>3
      <3>4. ASSUME NEW B, outage'[b] = [missed |-> B, at |-> at[l], ordered |-> TRUE]
            PROVE  outage'[b].ordered /\ outage'[b].at <= at[l]
        BY <2>1, <3>4
      <3> QED
        BY <3>1, <3>2, <3>3, <3>4
    <2>3. \A m \in Loop : m = l
      OBVIOUS
    <2> QED
      BY <2>1, <2>2, <2>3 DEF InOrder
  <1>4. CASE PatchWrite
    <2>0. PICK c \in Binding : outage' = [outage EXCEPT ![c] = IF patch.resource THEN NoOutage ELSE outage[c]]
      BY <1>4 DEF PatchWrite, ScheduleTypeOK
    <2>1. at' = at /\ \A b \in Binding : outage'[b] = NoOutage \/ outage'[b] = outage[b]
      BY <1>4, <2>0 DEF PatchWrite, OutageInv, InstantsOK, tick
    <2>2. ASSUME NEW l \in Loop PROVE 0 <= at[l]
      <3>1. at[l] \in Nat
        BY <1>0 DEF OutageInv, InstantsOK
      <3> QED
        BY <3>1
    <2>3. NoOutage.ordered /\ NoOutage.at = 0
      BY DEF NoOutage
    <2> QED
      BY <2>1, <2>2, <2>3 DEF InOrder
  <1> QED
    BY <1>1, <1>2, <1>3, <1>4 DEF Next, LoopStep, AcquireLease, Crash, PatchRead, PassTime, vars, tick

(* The bound as decide_schedule states it for catch_up: "the backlog       *)
(* replayed is bounded by max_occurrences in total", by whatever clock.    *)
ReplayBounded ==
    \A b \in Binding :
        source[b].cron /\ source[b].missed = "catch_up" => Cardinality(Replayed(b)) <= Keep

(* With one daemon over the database, what decide_schedule says of         *)
(* catch_up holds: at most max_occurrences of an outage are replayed, in   *)
(* total, whatever old next_fire_at a patch restores and whenever the      *)
(* daemon dies.                                                            *)
THEOREM OneDaemonReplays ==
    ASSUME \A l, m \in Loop : l = m PROVE SafetySpec => []ReplayBounded
  <1>1. Init => InOrder
    <2> SUFFICES ASSUME Init PROVE InOrder
      OBVIOUS
    <2>1. 0 <= 0
      OBVIOUS
    <2> QED
      BY <2>1 DEF Init, InOrder, NoOutage
  <1>2. ScheduleTypeOK /\ OutageInv /\ InOrder /\ [Next]_vars => InOrder'
    BY OneLoopInOrder
  <1>3. ScheduleTypeOK /\ OutageInv /\ InOrder => ReplayBounded
    BY FloorBounds DEF BacklogBounded, ReplayBounded, InOrder, Replay
  <1> QED
    BY <1>1, <1>2, <1>3, OutagesSafe, PTL DEF SafetySpec
=============================================================================
