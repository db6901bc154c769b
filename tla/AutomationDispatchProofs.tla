---------------------- MODULE AutomationDispatchProofs ----------------------
(***************************************************************************)
(* A receipt never claims an outcome that none of its attempts records,    *)
(* for any number of tick loops, handlers and receipts.  The invariant     *)
(* adds who owns an attempt: an attempt a task works at, or has claimed    *)
(* and not dispatched yet, has no other owner, and until its owner settles *)
(* it records nothing or an error.  Otherwise a loop that marks an attempt *)
(* for a retry could take away the outcome a receipt rests on.             *)
(***************************************************************************)
EXTENDS AutomationDispatch, TLAPS

Busy(t) == pc[t] \in {"gate", "start", "retry", "touch", "finish", "failed"}
Draining(t) == pc[t] \in {"claim", "drain"} \/ (Busy(t) /\ back[t] = "drain")

Item(r, n) == [receipt |-> r, attempt |-> n]
Working(t, r, n) == Busy(t) /\ cur[t].receipt = r /\ cur[t].attempt = n
Claimed(t, r, n) == Draining(t) /\ Item(r, n) \in todo[t]

PCs == {"idle", "sweep", "claim", "drain", "open", "reserve", "gate", "start", "retry",
        "touch", "finish", "failed"}

(* A task at work on a reservation has one; a new delivery's is its first attempt. *)
Placed(t) ==
    \/ cur[t] \in Reservation /\ (pc[t] = "reserve" => cur[t].attempt = 1)
    \/ pc[t] \in {"idle", "sweep", "claim", "drain"}

DispatchTypeOK ==
    /\ state \in [Receipt -> {"none", "reserved"} \cup Settled]
    /\ attempts \in [Receipt -> Seq(Attempt)]
    /\ pc \in [Task -> PCs]
    /\ out \in [Task -> Outcome]
    /\ back \in [Task -> {"idle", "drain", "sweep"}]
    /\ todo \in [Task -> SUBSET [receipt : Receipt, attempt : Nat]]
    /\ \A t \in Task : Placed(t)
    /\ DOMAIN cur = Task

(* What is known of a receipt before it is reserved. *)
NoneUntouched ==
    /\ \A r \in Receipt : state[r] = "none" => attempts[r] = <<>>
    /\ \A t \in Task : \A c \in todo[t] : state[c.receipt] # "none"
    /\ \A t \in Task : At(t, "open") => state[cur[t].receipt] # "none"

OwnsAlone ==
    \A t, u \in Task, r \in Receipt, n \in Nat :
        /\ Working(t, r, n) /\ Working(u, r, n) => t = u
        /\ Claimed(t, r, n) /\ Claimed(u, r, n) => t = u
        /\ ~(Working(t, r, n) /\ Claimed(u, r, n))

OwnedUnsettled ==
    \A t \in Task, r \in Receipt, n \in Nat :
        Working(t, r, n) \/ Claimed(t, r, n) =>
            n \in DOMAIN attempts[r] /\ attempts[r][n].out \in {"none", "error"}

OutcomeInv == DispatchTypeOK /\ NoneUntouched /\ OwnsAlone /\ OwnedUnsettled /\ OutcomeRecorded

-----------------------------------------------------------------------------
(* Types                                                                   *)

LEMMA SeqUpdate ==
    ASSUME NEW s \in Seq(Attempt), NEW n, NEW a \in Attempt
    PROVE  /\ [s EXCEPT ![n] = a] \in Seq(Attempt)
           /\ DOMAIN [s EXCEPT ![n] = a] = DOMAIN s
  <1>1. DOMAIN s = 1..Len(s) /\ Len(s) \in Nat /\ s \in [1..Len(s) -> Attempt]
    OBVIOUS
  <1>2. [s EXCEPT ![n] = a] \in [1..Len(s) -> Attempt]
    BY <1>1
  <1> QED
    BY <1>1, <1>2

LEMMA EmptyRow ==
    ASSUME NEW q \in Seq(Attempt), DOMAIN q = {} PROVE q = <<>>
  <1>1. Len(q) \in Nat /\ DOMAIN q = 1..Len(q)
    OBVIOUS
  <1>2. Len(q) = 0
    BY <1>1
  <1> QED
    BY <1>2

LEMMA RowsUpdate ==
    ASSUME NEW f \in [Receipt -> Seq(Attempt)], NEW r \in Receipt, NEW q \in Seq(Attempt),
           NEW g, g = [f EXCEPT ![r] = q]
    PROVE  /\ g \in [Receipt -> Seq(Attempt)] /\ g[r] = q
           /\ \A x \in Receipt \ {r} : g[x] = f[x]
  OBVIOUS

LEMMA SeqMap ==
    ASSUME NEW s \in Seq(Attempt), NEW q, DOMAIN q = DOMAIN s, q = [n \in DOMAIN q |-> q[n]],
           \A n \in DOMAIN s : q[n] \in Attempt
    PROVE  q \in Seq(Attempt)
  <1>1. DOMAIN s = 1..Len(s) /\ Len(s) \in Nat
    OBVIOUS
  <1>2. q \in [1..Len(s) -> Attempt]
    BY <1>1
  <1> QED
    BY <1>1, <1>2

LEMMA InterruptFacts ==
    ASSUME NEW a \in Attempt
    PROVE  /\ Interrupt(a) \in Attempt /\ Interrupt(a).st = "closed"
           /\ a.out \in {"none", "error"} => Interrupt(a).out \in {"none", "error"}
           /\ StateFor(Interrupt(a).out) = StateFor(a.out)
  BY DEF Interrupt, Attempt, AttemptState, Outcome, StateFor

LEMMA FreshFacts == Fresh \in Attempt /\ Fresh.out = "none" /\ <<Fresh>> \in Seq(Attempt)
  BY DEF Fresh, Attempt, AttemptState, Outcome

(* What a task does to its own fields.                                     *)
LEMMA GoesFacts ==
    ASSUME DispatchTypeOK, NEW t \in Task, NEW p \in PCs, Goes(t, p)
    PROVE  /\ pc' \in [Task -> PCs] /\ pc'[t] = p
           /\ \A u \in Task \ {t} : pc'[u] = pc[u]
  BY DEF Goes, DispatchTypeOK, Placed

(* An end of a dispatch.                                                   *)
LEMMA ReturnFacts ==
    ASSUME DispatchTypeOK, NEW t \in Task, Return(t)
    PROVE  /\ pc' \in [Task -> PCs] /\ pc'[t] \in {"idle", "drain", "sweep"}
           /\ out' \in [Task -> Outcome] /\ back' \in [Task -> {"idle", "drain", "sweep"}]
           /\ DOMAIN cur' = Task
           /\ \A u \in Task \ {t} : pc'[u] = pc[u] /\ cur'[u] = cur[u] /\ back'[u] = back[u]
           /\ pc'[t] = back[t]
  <1>1. back[t] \in PCs
    BY DEF DispatchTypeOK, PCs, Placed
  <1> QED
    BY <1>1 DEF Return, Goes, DispatchTypeOK, Outcome, Placed

LEMMA RowTypes ==
    ASSUME DispatchTypeOK, NEW r \in Receipt
    PROVE  attempts[r] \in Seq(Attempt) /\ \A n \in DOMAIN attempts[r] : attempts[r][n] \in Attempt
  BY DEF DispatchTypeOK, Placed

(* One attempt row is rewritten.                                           *)
LEMMA RewriteTypes ==
    ASSUME DispatchTypeOK, NEW r \in Receipt, NEW n \in DOMAIN attempts[r], NEW a \in Attempt,
           attempts' = [attempts EXCEPT ![r][n] = a]
    PROVE  /\ attempts' \in [Receipt -> Seq(Attempt)]
           /\ \A x \in Receipt : DOMAIN attempts'[x] = DOMAIN attempts[x]
           /\ attempts'[r][n] = a
           /\ \A x \in Receipt : \A m \in DOMAIN attempts[x] :
                 x # r \/ m # n => attempts'[x][m] = attempts[x][m]
  <1> DEFINE s == [attempts[r] EXCEPT ![n] = a]
  <1>1. s \in Seq(Attempt) /\ DOMAIN s = DOMAIN attempts[r]
    BY RowTypes, SeqUpdate
  <1>2. attempts' = [attempts EXCEPT ![r] = s]
    OBVIOUS
  <1>3. s[n] = a /\ \A m \in DOMAIN attempts[r] : m # n => s[m] = attempts[r][m]
    BY RowTypes
  <1> HIDE DEF s
  <1> QED
    BY <1>1, <1>2, <1>3 DEF DispatchTypeOK, Placed

(* Attempt rows of a receipt are closed as interrupted.                    *)
Interrupts(r) ==
    /\ DOMAIN attempts'[r] = DOMAIN attempts[r]
    /\ attempts'[r] = [n \in DOMAIN attempts'[r] |-> attempts'[r][n]]
    /\ \A n \in DOMAIN attempts[r] :
          \/ attempts'[r][n] = attempts[r][n]
          \/ attempts[r][n].st # "closed" /\ attempts'[r][n] = Interrupt(attempts[r][n])

LEMMA InterruptTypes ==
    ASSUME DispatchTypeOK, attempts' = [r \in Receipt |-> attempts'[r]],
           \A r \in Receipt : Interrupts(r)
    PROVE  attempts' \in [Receipt -> Seq(Attempt)]
  <1>1. ASSUME NEW r \in Receipt PROVE attempts'[r] \in Seq(Attempt)
    <2>1. \A n \in DOMAIN attempts[r] : attempts'[r][n] \in Attempt
      BY RowTypes, InterruptFacts DEF Interrupts
    <2> QED
      BY <2>1, RowTypes, SeqMap DEF Interrupts
  <1> QED
    BY <1>1

-----------------------------------------------------------------------------
(* Steps that settle nothing                                               *)

(* Rows keep what a settled receipt rests on, ...                          *)
MildRows ==
    \A r \in Receipt :
        /\ DOMAIN attempts[r] \subseteq DOMAIN attempts'[r]
        /\ state'[r] \in {state[r], "reserved", "abandoned"}
        /\ state'[r] = "none" <=> state[r] = "none"
        /\ state[r] = "none" => attempts'[r] = attempts[r]
        /\ \A n \in DOMAIN attempts[r] :
              /\ attempts[r][n].out \in {"none", "error"} => attempts'[r][n].out \in {"none", "error"}
              /\ attempts[r][n].st = "closed" =>
                    attempts'[r][n].st = "closed"
                    /\ StateFor(attempts'[r][n].out) = StateFor(attempts[r][n].out)

(* ... nobody comes to own an attempt, ...                                 *)
Shrinks ==
    \A t \in Task, r \in Receipt, n \in Nat :
        /\ Working(t, r, n)' => Working(t, r, n)
        /\ Claimed(t, r, n)' => Claimed(t, r, n)

(* ... and what a sweep has to do is reserved.                             *)
TodoReserved ==
    \A t \in Task :
        /\ \A c \in todo'[t] : state[c.receipt] # "none"
        /\ At(t, "open")' => state[cur'[t].receipt] # "none"

LEMMA NoneStays ==
    ASSUME OutcomeInv, DispatchTypeOK', MildRows, TodoReserved
    PROVE  NoneUntouched'
  <1>1. \A r \in Receipt : state'[r] = "none" => attempts'[r] = <<>>
    BY DEF OutcomeInv, NoneUntouched, MildRows
  <1>2. ASSUME NEW t \in Task, NEW c \in todo'[t] PROVE state'[c.receipt] # "none"
    BY <1>2 DEF TodoReserved, MildRows, DispatchTypeOK, Placed
  <1>3. ASSUME NEW t \in Task, At(t, "open")' PROVE state'[cur'[t].receipt] # "none"
    <2>1. cur'[t].receipt \in Receipt
      BY <1>3 DEF DispatchTypeOK, Reservation, At, Placed
    <2> QED
      BY <1>3, <2>1 DEF TodoReserved, MildRows
  <1> QED
    BY <1>1, <1>2, <1>3 DEF NoneUntouched

LEMMA OutcomeStays ==
    ASSUME OutcomeRecorded, MildRows PROVE OutcomeRecorded'
  <1> SUFFICES ASSUME NEW r \in Receipt, state'[r] \in {"dispatched", "skipped", "failed"}
               PROVE  \E n \in DOMAIN attempts'[r] :
                         attempts'[r][n].st = "closed" /\ StateFor(attempts'[r][n].out) = state'[r]
    BY DEF OutcomeRecorded, StateFor
  <1>1. state'[r] = state[r]
    BY DEF MildRows
  <1>2. PICK n \in DOMAIN attempts[r] :
           attempts[r][n].st = "closed" /\ StateFor(attempts[r][n].out) = state[r]
    BY <1>1 DEF OutcomeRecorded
  <1> QED
    BY <1>1, <1>2 DEF MildRows

LEMMA MildStep ==
    ASSUME OutcomeInv, DispatchTypeOK', MildRows, Shrinks, TodoReserved
    PROVE  OutcomeInv'
  <1>1. OwnsAlone'
    BY DEF OutcomeInv, OwnsAlone, Shrinks
  <1>2. OwnedUnsettled'
    BY DEF OutcomeInv, OwnedUnsettled, Shrinks, MildRows
  <1> QED
    BY <1>1, <1>2, NoneStays, OutcomeStays DEF OutcomeInv

(* A task that works moves on.                                             *)
LEMMA BusyMove ==
    ASSUME OutcomeInv, NEW t \in Task, NEW p \in {"start", "retry", "touch", "finish", "failed"},
           Goes(t, p), Busy(t), out' \in [Task -> Outcome],
           attempts' \in [Receipt -> Seq(Attempt)], MildRows, UNCHANGED <<state, cur, back, todo>>
    PROVE  OutcomeInv'
  <1>1. /\ pc' \in [Task -> PCs] /\ pc'[t] = p
        /\ \A u \in Task \ {t} : pc'[u] = pc[u]
    BY GoesFacts DEF PCs, OutcomeInv
  <1>2. \A u \in Task : (Busy(u)' => Busy(u)) /\ (Draining(u)' => Draining(u))
    BY <1>1 DEF Busy, Draining
  <1>3. DispatchTypeOK'
    BY <1>1 DEF OutcomeInv, DispatchTypeOK, Busy, Placed
  <1>5. Shrinks
    BY <1>2 DEF Shrinks, Working, Claimed
  <1>6. TodoReserved
    BY <1>1 DEF TodoReserved, OutcomeInv, NoneUntouched, At
  <1> QED
    BY <1>3, <1>5, <1>6, MildStep

LEMMA SameRows == ASSUME OutcomeInv, UNCHANGED <<state, attempts>>
                  PROVE  MildRows /\ attempts' \in [Receipt -> Seq(Attempt)]
  BY DEF MildRows, OutcomeInv, DispatchTypeOK

(* Time passes over the rows.                                              *)
LEMMA RowStep ==
    ASSUME OutcomeInv, UNCHANGED <<state, task>>, attempts' \in [Receipt -> Seq(Attempt)], MildRows
    PROVE  OutcomeInv'
  <1>1. DispatchTypeOK'
    BY DEF OutcomeInv, DispatchTypeOK, task, Placed
  <1>2. Shrinks
    BY DEF Shrinks, Working, Claimed, Busy, Draining, task
  <1>3. TodoReserved
    BY DEF TodoReserved, OutcomeInv, NoneUntouched, At, task
  <1> QED
    BY <1>1, <1>2, <1>3, MildStep

(* A dispatch ends and lets go of its attempt.                             *)
LEMMA ReturnOwns ==
    ASSUME OutcomeInv, NEW t \in Task, Busy(t), Return(t), todo' = todo
    PROVE  /\ Shrinks /\ ~Busy(t)' /\ TodoReserved
           /\ \A u \in Task : Placed(u)'
  <1>1. /\ pc'[t] = back[t] /\ pc'[t] \in {"idle", "drain", "sweep"}
        /\ \A u \in Task \ {t} : pc'[u] = pc[u] /\ cur'[u] = cur[u] /\ back'[u] = back[u]
    BY ReturnFacts DEF OutcomeInv
  <1>2. ~Busy(t)'
    BY <1>1 DEF Busy
  <1>3. \A u \in Task : /\ Busy(u)' => Busy(u) /\ cur'[u] = cur[u]
                        /\ Draining(u)' => Draining(u)
    BY <1>1, <1>2 DEF Busy, Draining
  <1>4. Shrinks
    BY <1>3 DEF Shrinks, Working, Claimed
  <1>5. TodoReserved
    BY <1>1 DEF TodoReserved, OutcomeInv, NoneUntouched, At
  <1> QED
    BY <1>1, <1>2, <1>4, <1>5 DEF OutcomeInv, DispatchTypeOK, Placed

LEMMA ReturnStep ==
    ASSUME OutcomeInv, NEW t \in Task, Busy(t), Return(t), todo' = todo,
           state' \in [Receipt -> {"none", "reserved"} \cup Settled],
           UNCHANGED attempts, MildRows
    PROVE  OutcomeInv'
  <1>1. DispatchTypeOK'
    BY ReturnFacts, ReturnOwns DEF OutcomeInv, DispatchTypeOK, Placed
  <1> QED
    BY <1>1, ReturnOwns, MildStep

-----------------------------------------------------------------------------
(* The settling step                                                       *)

LEMMA BusyReservation ==
    ASSUME OutcomeInv, NEW t \in Task, Busy(t)
    PROVE  /\ cur[t] \in Reservation /\ cur[t].receipt \in Receipt /\ cur[t].attempt \in Nat
           /\ cur[t].attempt \in DOMAIN attempts[cur[t].receipt]
           /\ attempts[cur[t].receipt][cur[t].attempt].out \in {"none", "error"}
           /\ state[cur[t].receipt] # "none"
           /\ Working(t, cur[t].receipt, cur[t].attempt)
  <1>1. cur[t] \in Reservation
    BY DEF OutcomeInv, DispatchTypeOK, Busy, Placed
  <1>2. cur[t].receipt \in Receipt /\ cur[t].attempt \in Nat
    BY <1>1 DEF Reservation
  <1>3. Working(t, cur[t].receipt, cur[t].attempt)
    BY DEF Working
  <1>4. /\ cur[t].attempt \in DOMAIN attempts[cur[t].receipt]
        /\ attempts[cur[t].receipt][cur[t].attempt].out \in {"none", "error"}
    BY <1>2, <1>3 DEF OutcomeInv, OwnedUnsettled
  <1>5. state[cur[t].receipt] # "none"
    <2>1. SUFFICES ASSUME attempts[cur[t].receipt] = <<>> PROVE FALSE
      BY <1>2 DEF OutcomeInv, NoneUntouched
    <2> QED
      BY <1>4, <2>1
  <1> QED
    BY <1>1, <1>2, <1>3, <1>4, <1>5

LEMMA SettleStep ==
    ASSUME OutcomeInv, NEW t \in Task, NEW o \in Outcome, Busy(t), Settle(t, o), Return(t),
           todo' = todo
    PROVE  OutcomeInv'
  <1> DEFINE r == cur[t].receipt
             n == cur[t].attempt
             a == [st |-> "closed", out |-> o]
  <1>1. r \in Receipt /\ n \in Nat /\ n \in DOMAIN attempts[r] /\ Working(t, r, n)
    BY BusyReservation
  <1>2. a \in Attempt
    BY DEF Attempt, AttemptState
  <1>3. attempts' = [attempts EXCEPT ![r][n] = a] /\ state' = [state EXCEPT ![r] = StateFor(o)]
    BY DEF Settle
  <1>4. a.st = "closed" /\ a.out = o
    OBVIOUS
  <1> HIDE DEF r, n, a
  <1>5. /\ attempts' \in [Receipt -> Seq(Attempt)]
        /\ \A x \in Receipt : DOMAIN attempts'[x] = DOMAIN attempts[x]
        /\ attempts'[r][n] = a
        /\ \A x \in Receipt : \A m \in DOMAIN attempts[x] :
              x # r \/ m # n => attempts'[x][m] = attempts[x][m]
    BY <1>1, <1>2, <1>3, RewriteTypes DEF OutcomeInv
  <1>6. StateFor(o) \in Settled
    BY DEF StateFor, Settled
  <1>7. /\ state' \in [Receipt -> {"none", "reserved"} \cup Settled]
        /\ state'[r] = StateFor(o) /\ \A x \in Receipt \ {r} : state'[x] = state[x]
    BY <1>1, <1>3, <1>6 DEF OutcomeInv, DispatchTypeOK, Placed
  <1>8. DispatchTypeOK'
    BY <1>5, <1>7, ReturnFacts, ReturnOwns DEF OutcomeInv, DispatchTypeOK, Placed
  <1>9. OwnsAlone'
    BY ReturnOwns DEF OutcomeInv, OwnsAlone, Shrinks
  <1>10. OwnedUnsettled'
    <2> SUFFICES ASSUME NEW u \in Task, NEW x \in Receipt, NEW m \in Nat,
                        Working(u, x, m)' \/ Claimed(u, x, m)'
                 PROVE  m \in DOMAIN attempts'[x] /\ attempts'[x][m].out \in {"none", "error"}
      BY DEF OwnedUnsettled
    <2>1. Working(u, x, m) \/ Claimed(u, x, m)
      BY ReturnOwns DEF Shrinks
    <2>2. x # r \/ m # n
      <3>1. CASE Working(u, x, m)'
        <4>1. Busy(u)'
          BY <3>1 DEF Working
        <4>2. u # t
          BY <4>1, ReturnOwns
        <4>3. Working(u, x, m)
          BY <3>1, ReturnOwns DEF Shrinks
        <4> QED
          BY <1>1, <4>2, <4>3 DEF OutcomeInv, OwnsAlone
      <3>2. CASE Claimed(u, x, m)'
        <4>1. Claimed(u, x, m)
          BY <3>2, ReturnOwns DEF Shrinks
        <4> QED
          BY <1>1, <4>1 DEF OutcomeInv, OwnsAlone
      <3> QED
        BY <3>1, <3>2
    <2>3. m \in DOMAIN attempts[x] /\ attempts[x][m].out \in {"none", "error"}
      BY <2>1 DEF OutcomeInv, OwnedUnsettled
    <2> QED
      BY <1>5, <2>2, <2>3
  <1>11. NoneUntouched'
    <2>1. \A x \in Receipt : state'[x] = "none" => attempts'[x] = <<>>
      <3> SUFFICES ASSUME NEW x \in Receipt, state'[x] = "none" PROVE attempts'[x] = <<>>
        OBVIOUS
      <3>1. x # r
        BY <1>6, <1>7 DEF Settled
      <3>2. attempts'[x] = attempts[x]
        BY <1>1, <1>3, <3>1 DEF OutcomeInv, DispatchTypeOK, Placed
      <3> QED
        BY <1>7, <3>1, <3>2 DEF OutcomeInv, NoneUntouched
    <2>2. \A x \in Receipt : state[x] # "none" => state'[x] # "none"
      BY <1>6, <1>7 DEF Settled
    <2>3. ASSUME NEW u \in Task, NEW c \in todo'[u] PROVE state'[c.receipt] # "none"
      <3>1. c.receipt \in Receipt
        BY <1>8, <2>3 DEF DispatchTypeOK, Placed
      <3> QED
        BY <2>2, <2>3, <3>1, ReturnOwns DEF TodoReserved
    <2>4. ASSUME NEW u \in Task, At(u, "open")' PROVE state'[cur'[u].receipt] # "none"
      <3>1. cur'[u].receipt \in Receipt
        BY <1>8, <2>4 DEF DispatchTypeOK, Reservation, At, Placed
      <3> QED
        BY <2>2, <2>4, <3>1, ReturnOwns DEF TodoReserved
    <2> QED
      BY <2>1, <2>3, <2>4 DEF NoneUntouched
  <1>12. OutcomeRecorded'
    <2> SUFFICES ASSUME NEW x \in Receipt, state'[x] \in {"dispatched", "skipped", "failed"}
                 PROVE  \E m \in DOMAIN attempts'[x] :
                           attempts'[x][m].st = "closed" /\ StateFor(attempts'[x][m].out) = state'[x]
      BY DEF OutcomeRecorded, StateFor
    <2>1. CASE x = r
      BY <1>1, <1>4, <1>5, <1>7, <2>1
    <2>2. CASE x # r
      BY <1>5, <1>7, <2>2 DEF OutcomeInv, OutcomeRecorded
    <2> QED
      BY <2>1, <2>2
  <1> QED
    BY <1>8, <1>9, <1>10, <1>11, <1>12 DEF OutcomeInv

-----------------------------------------------------------------------------
(* Steps that come to own an attempt                                       *)

(* insert_receipt: nobody owns an attempt of a receipt not reserved yet.   *)
LEMMA InsertRows ==
    ASSUME OutcomeInv, NEW r \in Receipt, state[r] = "none", Insert(r)
    PROVE  /\ state' \in [Receipt -> {"none", "reserved"} \cup Settled]
           /\ attempts' \in [Receipt -> Seq(Attempt)]
           /\ state'[r] = "reserved" /\ attempts'[r] = <<Fresh>>
           /\ \A x \in Receipt \ {r} : state'[x] = state[x] /\ attempts'[x] = attempts[x]
           /\ \A t \in Task, n \in Nat : ~Working(t, r, n) /\ ~Claimed(t, r, n)
  <1>1. attempts[r] = <<>>
    BY DEF OutcomeInv, NoneUntouched
  <1>2. \A t \in Task, n \in Nat : ~Working(t, r, n) /\ ~Claimed(t, r, n)
    BY <1>1 DEF OutcomeInv, OwnedUnsettled
  <1> QED
    BY <1>2, FreshFacts DEF Insert, OutcomeInv, DispatchTypeOK, Placed

LEMMA InsertStep ==
    ASSUME OutcomeInv, NEW r \in Receipt, state[r] = "none", Insert(r), DispatchTypeOK',
           NEW t \in Task,
           \A u \in Task, x \in Receipt, n \in Nat :
              /\ Working(u, x, n)' => Working(u, x, n) \/ (u = t /\ x = r /\ n = 1)
              /\ Claimed(u, x, n)' => Claimed(u, x, n) \/ (u = t /\ x = r /\ n = 1)
              /\ ~(Working(t, r, 1)' /\ Claimed(t, r, 1)'),
           \A u \in Task :
              /\ \A c \in todo'[u] : state[c.receipt] # "none" \/ c.receipt = r
              /\ At(u, "open")' => state[cur'[u].receipt] # "none"
    PROVE  OutcomeInv'
  <1>1. OwnsAlone'
    <2> SUFFICES ASSUME NEW u \in Task, NEW v \in Task, NEW x \in Receipt, NEW n \in Nat
                 PROVE  /\ Working(u, x, n)' /\ Working(v, x, n)' => u = v
                        /\ Claimed(u, x, n)' /\ Claimed(v, x, n)' => u = v
                        /\ ~(Working(u, x, n)' /\ Claimed(v, x, n)')
      BY DEF OwnsAlone
    <2> QED
      BY InsertRows DEF OutcomeInv, OwnsAlone
  <1>2. OwnedUnsettled'
    <2> SUFFICES ASSUME NEW u \in Task, NEW x \in Receipt, NEW n \in Nat,
                        Working(u, x, n)' \/ Claimed(u, x, n)'
                 PROVE  n \in DOMAIN attempts'[x] /\ attempts'[x][n].out \in {"none", "error"}
      BY DEF OwnedUnsettled
    <2>1. CASE x = r
      <3>1. n = 1
        BY <2>1, InsertRows
      <3>2. attempts'[x] = <<Fresh>>
        BY <2>1, InsertRows
      <3> QED
        BY <3>1, <3>2, FreshFacts
    <2>2. CASE x # r
      <3>1. Working(u, x, n) \/ Claimed(u, x, n)
        BY <2>2
      <3> QED
        BY <2>2, <3>1, InsertRows DEF OutcomeInv, OwnedUnsettled
    <2> QED
      BY <2>1, <2>2
  <1>3. NoneUntouched'
    <2>1. \A x \in Receipt : state'[x] = "none" => attempts'[x] = <<>>
      BY InsertRows DEF OutcomeInv, NoneUntouched
    <2>2. ASSUME NEW u \in Task, NEW c \in todo'[u] PROVE state'[c.receipt] # "none"
      <3>1. c.receipt \in Receipt
        BY <2>2 DEF DispatchTypeOK, Placed
      <3> QED
        BY <2>2, <3>1, InsertRows
    <2>3. ASSUME NEW u \in Task, At(u, "open")' PROVE state'[cur'[u].receipt] # "none"
      <3>1. cur'[u].receipt \in Receipt
        BY <2>3 DEF DispatchTypeOK, Reservation, At, Placed
      <3> QED
        BY <2>3, <3>1, InsertRows
    <2> QED
      BY <2>1, <2>2, <2>3 DEF NoneUntouched
  <1>4. OutcomeRecorded'
    <2> SUFFICES ASSUME NEW x \in Receipt, state'[x] \in {"dispatched", "skipped", "failed"}
                 PROVE  \E n \in DOMAIN attempts'[x] :
                           attempts'[x][n].st = "closed" /\ StateFor(attempts'[x][n].out) = state'[x]
      BY DEF OutcomeRecorded, StateFor
    <2>1. x # r
      BY InsertRows
    <2> QED
      BY <2>1, InsertRows DEF OutcomeInv, OutcomeRecorded
  <1> QED
    BY <1>1, <1>2, <1>3, <1>4 DEF OutcomeInv

LEMMA ClaimStep ==
    ASSUME OutcomeInv, NEW s \in Sweeper, NEW r \in Receipt, Claim(s, r) PROVE OutcomeInv'
  <1>1. s \in Task /\ state[r] = "none" /\ Insert(r) /\ UNCHANGED <<pc, cur, out, back>>
    BY DEF Claim, Task
  <1>2. todo' = [todo EXCEPT ![s] = @ \cup {Item(r, 1)}]
    BY DEF Claim, Item
  <1>3. /\ todo' \in [Task -> SUBSET [receipt : Receipt, attempt : Nat]]
        /\ \A u \in Task : \A c \in todo'[u] : c \in todo[u] \/ (u = s /\ c = Item(r, 1))
    BY <1>1, <1>2 DEF Item, OutcomeInv, DispatchTypeOK, Placed
  <1>4. DispatchTypeOK'
    BY <1>1, <1>3, InsertRows DEF OutcomeInv, DispatchTypeOK, Placed
  <1>5. \A u \in Task : (Busy(u)' <=> Busy(u)) /\ (Draining(u)' <=> Draining(u))
    BY <1>1 DEF Busy, Draining
  <1>6. ~Busy(s)
    BY DEF Claim, At, Busy
  <1>7. \A u \in Task, x \in Receipt, n \in Nat :
          /\ Working(u, x, n)' => Working(u, x, n)
          /\ Claimed(u, x, n)' => Claimed(u, x, n) \/ (u = s /\ x = r /\ n = 1)
    <2> SUFFICES ASSUME NEW u \in Task, NEW x \in Receipt, NEW n \in Nat
                 PROVE  /\ Working(u, x, n)' => Working(u, x, n)
                        /\ Claimed(u, x, n)' => Claimed(u, x, n) \/ (u = s /\ x = r /\ n = 1)
      OBVIOUS
    <2>1. Item(x, n) = Item(r, 1) => x = r /\ n = 1
      BY DEF Item
    <2> QED
      BY <1>1, <1>3, <1>5, <2>1 DEF Working, Claimed
  <1>8. ~Working(s, r, 1)'
    BY <1>1, <1>5, <1>6 DEF Working
  <1>9. \A u \in Task :
          /\ \A c \in todo'[u] : state[c.receipt] # "none" \/ c.receipt = r
          /\ At(u, "open")' => state[cur'[u].receipt] # "none"
    BY <1>1, <1>3 DEF OutcomeInv, NoneUntouched, At, Item
  <1> QED
    BY <1>1, <1>4, <1>7, <1>8, <1>9, InsertStep

(* A task begins to dispatch.                                              *)
LEMMA DispatchesFacts ==
    ASSUME OutcomeInv, NEW t \in Task, NEW c \in Reservation, NEW b \in {"idle", "drain", "sweep"},
           Dispatches(t, c, b)
    PROVE  /\ pc' \in [Task -> PCs] /\ back' \in [Task -> {"idle", "drain", "sweep"}]
           /\ DOMAIN cur' = Task
           /\ pc'[t] = "gate" /\ cur'[t] = c /\ back'[t] = b
           /\ \A u \in Task \ {t} : pc'[u] = pc[u] /\ cur'[u] = cur[u] /\ back'[u] = back[u]
           /\ \A u \in Task : Placed(u)'
           /\ Busy(t)' /\ (Draining(t)' <=> b = "drain")
           /\ \A u \in Task \ {t} : (Busy(u)' <=> Busy(u)) /\ (Draining(u)' <=> Draining(u))
  BY DEF Dispatches, Goes, OutcomeInv, DispatchTypeOK, PCs, Busy, Draining, Placed

LEMMA ReserveStep ==
    ASSUME OutcomeInv, NEW h \in Task, ReserveEvent(h) PROVE OutcomeInv'
  <1>0. cur[h] \in Reservation /\ cur[h].receipt \in Receipt
    BY DEF ReserveEvent, At, OutcomeInv, DispatchTypeOK, Placed, Reservation
  <1>r. PICK r \in Receipt : r = cur[h].receipt
    BY <1>0
  <1>1. cur[h] \in Reservation /\ r = cur[h].receipt /\ ~Busy(h) /\ ~Draining(h)
    BY <1>r DEF ReserveEvent, At, OutcomeInv, DispatchTypeOK, Reservation, Busy, Draining, Placed
  <1>2. CASE state[r] = "none" /\ Insert(r) /\ Dispatches(h, cur[h], "idle")
    <2>1. UNCHANGED <<todo, out>>
      BY DEF ReserveEvent
    <2>2. DispatchTypeOK'
      BY <1>1, <1>2, <2>1, InsertRows, DispatchesFacts DEF OutcomeInv, DispatchTypeOK, Placed
    <2>4. ASSUME NEW u \in Task, NEW x \in Receipt, NEW n \in Nat
          PROVE  /\ Working(u, x, n)' => Working(u, x, n) \/ (u = h /\ x = r /\ n = cur[h].attempt)
                 /\ Claimed(u, x, n)' => Claimed(u, x, n)
      BY <1>1, <1>2, <2>1, DispatchesFacts DEF Working, Claimed
    <2>5. ~Draining(h)'
      BY <1>1, <1>2, DispatchesFacts
    <2>6. ~Claimed(h, r, 1)'
      BY <2>5 DEF Claimed
    <2>7. cur[h].attempt = 1
      BY DEF ReserveEvent, At, OutcomeInv, DispatchTypeOK, Placed
    <2>8. \A u \in Task :
            /\ \A c \in todo'[u] : state[c.receipt] # "none" \/ c.receipt = r
            /\ At(u, "open")' => state[cur'[u].receipt] # "none"
      BY <1>1, <1>2, <2>1, DispatchesFacts DEF OutcomeInv, NoneUntouched, At
    <2> QED
      <3>1. \A u \in Task, x \in Receipt, n \in Nat :
              /\ Working(u, x, n)' => Working(u, x, n) \/ (u = h /\ x = r /\ n = 1)
              /\ Claimed(u, x, n)' => Claimed(u, x, n) \/ (u = h /\ x = r /\ n = 1)
              /\ ~(Working(h, r, 1)' /\ Claimed(h, r, 1)')
        BY <2>4, <2>6, <2>7
      <3> QED
        BY <1>1, <1>2, <2>2, <2>8, <3>1, InsertStep
  <1>3. CASE cur' = [cur EXCEPT ![h] = None] /\ Goes(h, "idle") /\ UNCHANGED <<receipts, back>>
    <2>1. UNCHANGED <<state, attempts, back, todo, out>>
      BY <1>3 DEF ReserveEvent, receipts
    <2>2. /\ pc' \in [Task -> PCs] /\ pc'[h] = "idle"
          /\ \A u \in Task \ {h} : pc'[u] = pc[u] /\ cur'[u] = cur[u]
          /\ DOMAIN cur' = Task
      BY <1>3 DEF Goes, OutcomeInv, DispatchTypeOK, PCs, Placed
    <2>3. DispatchTypeOK'
      BY <2>1, <2>2 DEF OutcomeInv, DispatchTypeOK, Placed
    <2>4. MildRows
      BY <2>1 DEF MildRows
    <2>5. Shrinks
      BY <2>1, <2>2 DEF Shrinks, Working, Claimed, Busy, Draining
    <2>6. TodoReserved
      BY <2>1, <2>2 DEF TodoReserved, OutcomeInv, NoneUntouched, At
    <2> QED
      BY <2>3, <2>4, <2>5, <2>6, MildStep
  <1> QED
    BY <1>1, <1>2, <1>3 DEF ReserveEvent

LEMMA DispatchClaimedStep ==
    ASSUME OutcomeInv, NEW s \in Task, DispatchClaimed(s) PROVE OutcomeInv'
  <1>1. PICK c \in todo[s] :
          /\ Dispatches(s, [receipt |-> c.receipt, attempt |-> c.attempt, event |-> FALSE], "drain")
          /\ todo' = [todo EXCEPT ![s] = @ \ {c}]
    BY DEF DispatchClaimed
  <1> DEFINE d == [receipt |-> c.receipt, attempt |-> c.attempt, event |-> FALSE]
             r == c.receipt
             n == c.attempt
  <1>2. c \in [receipt : Receipt, attempt : Nat] /\ c = Item(r, n)
    BY DEF OutcomeInv, DispatchTypeOK, Item, Placed
  <1>3. d \in Reservation /\ d.receipt = r /\ d.attempt = n /\ r \in Receipt /\ n \in Nat
    BY <1>2 DEF Reservation
  <1>4. UNCHANGED <<state, attempts, out>> /\ pc[s] \in {"claim", "drain"}
    BY DEF DispatchClaimed, receipts
  <1>5. Claimed(s, r, n) /\ ~Busy(s) /\ Draining(s)
    BY <1>2, <1>4 DEF Claimed, Draining, Busy
  <1> HIDE DEF d, r, n
  <1>6. Dispatches(s, d, "drain")
    BY <1>1 DEF d
  <1>7. /\ todo' \in [Task -> SUBSET [receipt : Receipt, attempt : Nat]]
        /\ \A u \in Task : todo'[u] \subseteq todo[u]
        /\ c \notin todo'[s]
    BY <1>1 DEF OutcomeInv, DispatchTypeOK, Placed
  <1>8. DispatchTypeOK'
    BY <1>3, <1>4, <1>6, <1>7, DispatchesFacts DEF OutcomeInv, DispatchTypeOK, Placed
  <1>9. ASSUME NEW u \in Task, NEW x \in Receipt, NEW m \in Nat
        PROVE  /\ Working(u, x, m)' => Working(u, x, m) \/ (u = s /\ x = r /\ m = n)
               /\ Claimed(u, x, m)' => Claimed(u, x, m) /\ ~(u = s /\ x = r /\ m = n)
    <2>1. Working(u, x, m)' => Working(u, x, m) \/ (u = s /\ x = r /\ m = n)
      BY <1>3, <1>6, DispatchesFacts DEF Working
    <2>2. Draining(u)' => Draining(u)
      BY <1>3, <1>5, <1>6, DispatchesFacts
    <2>3. Claimed(u, x, m)' => Claimed(u, x, m)
      BY <1>7, <2>2 DEF Claimed
    <2>4. u = s /\ x = r /\ m = n => ~Claimed(u, x, m)'
      BY <1>2, <1>7 DEF Claimed, r, n, Item
    <2> QED
      BY <2>1, <2>3, <2>4
  <1>10. OwnsAlone'
    <2> SUFFICES ASSUME NEW u \in Task, NEW v \in Task, NEW x \in Receipt, NEW m \in Nat
                 PROVE  /\ Working(u, x, m)' /\ Working(v, x, m)' => u = v
                        /\ Claimed(u, x, m)' /\ Claimed(v, x, m)' => u = v
                        /\ ~(Working(u, x, m)' /\ Claimed(v, x, m)')
      BY DEF OwnsAlone
    <2> QED
      BY <1>5, <1>9 DEF OutcomeInv, OwnsAlone
  <1>11. OwnedUnsettled'
    BY <1>4, <1>5, <1>9 DEF OutcomeInv, OwnedUnsettled
  <1>12. MildRows
    BY <1>4 DEF MildRows
  <1>13. TodoReserved
    BY <1>3, <1>6, <1>7, DispatchesFacts DEF TodoReserved, OutcomeInv, NoneUntouched, At
  <1> QED
    BY <1>8, <1>10, <1>11, <1>12, <1>13, NoneStays, OutcomeStays DEF OutcomeInv

(* The next attempt is a new one, which nobody owns.                       *)
LEMMA OpenStep ==
    ASSUME OutcomeInv, NEW s \in Task, At(s, "open"), NEW r \in Receipt, NEW c \in Reservation,
           c = cur[s], r = c.receipt, c.attempt = Len(attempts[r]) + 1,
           attempts' = [attempts EXCEPT ![r] = Append(@, Fresh)], Dispatches(s, c, "sweep"),
           UNCHANGED <<state, out, todo>>
    PROVE  OutcomeInv'
  <1> DEFINE q == Append(attempts[r], Fresh)
  <1>1. /\ q \in Seq(Attempt) /\ Len(attempts[r]) \in Nat
        /\ DOMAIN q = 1..(Len(attempts[r]) + 1) /\ DOMAIN attempts[r] = 1..Len(attempts[r])
        /\ q[Len(attempts[r]) + 1] = Fresh
        /\ \A m \in DOMAIN attempts[r] : q[m] = attempts[r][m]
    BY RowTypes, FreshFacts DEF OutcomeInv
  <1>2. attempts' = [attempts EXCEPT ![r] = q]
    OBVIOUS
  <1> HIDE DEF q
  <1>3. /\ attempts' \in [Receipt -> Seq(Attempt)] /\ attempts'[r] = q
        /\ \A x \in Receipt \ {r} : attempts'[x] = attempts[x]
    <2>1. attempts \in [Receipt -> Seq(Attempt)]
      BY DEF OutcomeInv, DispatchTypeOK
    <2> QED
      BY <1>1, <1>2, <2>1, RowsUpdate
  <1>4. state[r] # "none"
    BY DEF OutcomeInv, NoneUntouched
  <1>5. MildRows
    BY <1>1, <1>3, <1>4 DEF MildRows
  <1>6. DispatchTypeOK'
    BY <1>3, DispatchesFacts DEF OutcomeInv, DispatchTypeOK, Placed
  <1>7. \A u \in Task : ~Working(u, r, c.attempt) /\ ~Claimed(u, r, c.attempt)
    <2>1. c.attempt \in Nat /\ c.attempt \notin DOMAIN attempts[r]
      BY <1>1
    <2> QED
      BY <2>1 DEF OutcomeInv, OwnedUnsettled
  <1>8. ASSUME NEW u \in Task, NEW x \in Receipt, NEW m \in Nat
        PROVE  /\ Working(u, x, m)' => Working(u, x, m) \/ (u = s /\ x = r /\ m = c.attempt)
               /\ Claimed(u, x, m)' => Claimed(u, x, m)
    BY DispatchesFacts DEF Working, Claimed
  <1>9. OwnsAlone'
    <2> SUFFICES ASSUME NEW u \in Task, NEW v \in Task, NEW x \in Receipt, NEW m \in Nat
                 PROVE  /\ Working(u, x, m)' /\ Working(v, x, m)' => u = v
                        /\ Claimed(u, x, m)' /\ Claimed(v, x, m)' => u = v
                        /\ ~(Working(u, x, m)' /\ Claimed(v, x, m)')
      BY DEF OwnsAlone
    <2> QED
      BY <1>7, <1>8 DEF OutcomeInv, OwnsAlone
  <1>10. OwnedUnsettled'
    <2> SUFFICES ASSUME NEW u \in Task, NEW x \in Receipt, NEW m \in Nat,
                        Working(u, x, m)' \/ Claimed(u, x, m)'
                 PROVE  m \in DOMAIN attempts'[x] /\ attempts'[x][m].out \in {"none", "error"}
      BY DEF OwnedUnsettled
    <2>1. CASE x = r /\ m = c.attempt
      BY <1>1, <1>3, <2>1, FreshFacts
    <2>2. CASE ~(x = r /\ m = c.attempt)
      <3>1. Working(u, x, m) \/ Claimed(u, x, m)
        BY <1>8, <2>2
      <3> QED
        BY <1>5, <3>1 DEF OutcomeInv, OwnedUnsettled, MildRows
    <2> QED
      BY <2>1, <2>2
  <1>11. TodoReserved
    BY DispatchesFacts DEF TodoReserved, OutcomeInv, NoneUntouched, At
  <1> QED
    BY <1>5, <1>6, <1>9, <1>10, <1>11, NoneStays, OutcomeStays DEF OutcomeInv

-----------------------------------------------------------------------------
(* Steps of the tick loop that own nothing afterwards                      *)

(* A loop moves between the parts of its tick.                             *)
LEMMA LoopMove ==
    ASSUME OutcomeInv, NEW s \in Task, NEW p \in {"idle", "sweep", "claim", "drain", "open", "reserve"},
           Goes(s, p), UNCHANGED <<out, back>>, MildRows,
           state' \in [Receipt -> {"none", "reserved"} \cup Settled],
           attempts' \in [Receipt -> Seq(Attempt)],
           todo' \in [Task -> SUBSET [receipt : Receipt, attempt : Nat]],
           DOMAIN cur' = Task, \A u \in Task \ {s} : cur'[u] = cur[u] /\ todo'[u] = todo[u],
           p \in {"claim", "drain"} => todo'[s] = {},
           p \in {"open", "reserve"} => cur'[s] \in Reservation,
           p = "reserve" => cur'[s].attempt = 1,
           p = "open" => state[cur'[s].receipt] # "none",
           \A c \in todo'[s] : state[c.receipt] # "none"
    PROVE  OutcomeInv'
  <1>1. /\ pc' \in [Task -> PCs] /\ pc'[s] = p
        /\ \A u \in Task \ {s} : pc'[u] = pc[u]
    BY GoesFacts DEF PCs, OutcomeInv
  <1>2. DispatchTypeOK'
    BY <1>1 DEF OutcomeInv, DispatchTypeOK, Placed
  <1>3. ~Busy(s)' /\ (Draining(s)' => todo'[s] = {})
    BY <1>1 DEF Busy, Draining
  <1>4. \A u \in Task \ {s} : (Busy(u)' <=> Busy(u)) /\ (Draining(u)' <=> Draining(u))
    BY <1>1 DEF Busy, Draining
  <1>5. Shrinks
    BY <1>3, <1>4 DEF Shrinks, Working, Claimed
  <1>6. TodoReserved
    BY <1>1 DEF TodoReserved, OutcomeInv, NoneUntouched, At
  <1> QED
    BY <1>2, <1>5, <1>6, MildStep

(* Rows of attempts are closed as interrupted.                             *)
LEMMA InterruptsMild ==
    ASSUME OutcomeInv, state' = state, attempts' \in [Receipt -> Seq(Attempt)],
           \A r \in Receipt : Interrupts(r)
    PROVE  MildRows
  <1>1. ASSUME NEW r \in Receipt, state[r] = "none" PROVE attempts'[r] = attempts[r]
    <2>1. attempts[r] = <<>>
      BY <1>1 DEF OutcomeInv, NoneUntouched
    <2>2. attempts'[r] \in Seq(Attempt) /\ DOMAIN attempts'[r] = {}
      BY <2>1 DEF Interrupts
    <2> QED
      BY <2>1, <2>2, EmptyRow
  <1> SUFFICES ASSUME NEW r \in Receipt
               PROVE  \A n \in DOMAIN attempts[r] :
                  /\ attempts[r][n].out \in {"none", "error"} => attempts'[r][n].out \in {"none", "error"}
                  /\ attempts[r][n].st = "closed" =>
                        attempts'[r][n].st = "closed"
                        /\ StateFor(attempts'[r][n].out) = StateFor(attempts[r][n].out)
    BY <1>1 DEF MildRows, Interrupts
  <1> QED
    BY RowTypes, InterruptFacts DEF OutcomeInv, Interrupts

LEMMA TickSteps ==
    ASSUME OutcomeInv, NEW s \in Task, TickStart(s) \/ SweepRead(s) \/ SweepClose(s) PROVE OutcomeInv'
  <1>1. CASE TickStart(s)
    <2>1. \A r \in Receipt :
            /\ attempts'[r] = [n \in DOMAIN attempts[r] |->
                 IF attempts[r][n].st = "stale" THEN Interrupt(attempts[r][n]) ELSE attempts[r][n]]
      BY <1>1 DEF TickStart
    <2>2. \A r \in Receipt : Interrupts(r)
      BY <2>1 DEF Interrupts
    <2>3. attempts' = [r \in Receipt |-> attempts'[r]]
      BY <1>1 DEF TickStart
    <2>4. attempts' \in [Receipt -> Seq(Attempt)]
      BY <2>2, <2>3, InterruptTypes DEF OutcomeInv
    <2>6. MildRows
      BY <1>1, <2>2, <2>4, InterruptsMild DEF TickStart
    <2>7. Goes(s, "claim") /\ UNCHANGED <<state, cur, out, back, todo>> /\ todo[s] = {}
      BY <1>1 DEF TickStart
    <2> QED
      BY <2>4, <2>6, <2>7, LoopMove DEF OutcomeInv, DispatchTypeOK
  <1>2. CASE SweepRead(s)
    <2>1. Goes(s, "sweep") /\ UNCHANGED <<state, attempts, cur, out, back>>
      BY <1>2 DEF SweepRead, receipts
    <2>2. todo' = [todo EXCEPT ![s] = {[receipt |-> r, attempt |-> Len(attempts[r])] :
                                         r \in {x \in Receipt : Owed(x)}}]
      BY <1>2 DEF SweepRead
    <2>3. \A r \in Receipt : Len(attempts[r]) \in Nat
      BY RowTypes DEF OutcomeInv
    <2>4. /\ todo' \in [Task -> SUBSET [receipt : Receipt, attempt : Nat]]
          /\ \A u \in Task \ {s} : todo'[u] = todo[u]
          /\ \A c \in todo'[s] : state[c.receipt] = "reserved"
      BY <2>2, <2>3 DEF OutcomeInv, DispatchTypeOK, Owed
    <2> QED
      BY <2>1, <2>4, SameRows, LoopMove DEF OutcomeInv, DispatchTypeOK
  <1>3. CASE SweepClose(s)
    <2>1. PICK c \in todo[s] :
            /\ cur' = [cur EXCEPT ![s] = [receipt |-> c.receipt, attempt |-> c.attempt + 1,
                                          event |-> FALSE]]
            /\ todo' = [todo EXCEPT ![s] = @ \ {c}]
            /\ attempts' = [attempts EXCEPT ![c.receipt] = [n \in DOMAIN @ |->
                              IF @[n].st = "closed" THEN @[n] ELSE Interrupt(@[n])]]
      BY <1>3 DEF SweepClose
    <2>2. c.receipt \in Receipt /\ c.attempt \in Nat /\ state[c.receipt] # "none"
      BY DEF OutcomeInv, DispatchTypeOK, NoneUntouched
    <2>3. ASSUME NEW r \in Receipt PROVE Interrupts(r)
      <3>1. CASE r = c.receipt
        <4>1. attempts'[r] = [n \in DOMAIN attempts[r] |->
                 IF attempts[r][n].st = "closed" THEN attempts[r][n] ELSE Interrupt(attempts[r][n])]
          BY <2>1, <2>2, <3>1 DEF OutcomeInv, DispatchTypeOK
        <4> QED
          BY <4>1 DEF Interrupts
      <3>2. CASE r # c.receipt
        <4>1. attempts'[r] = attempts[r]
          BY <2>1, <2>2, <3>2 DEF OutcomeInv, DispatchTypeOK
        <4>2. attempts[r] = [n \in DOMAIN attempts[r] |-> attempts[r][n]]
          BY RowTypes DEF OutcomeInv
        <4> QED
          BY <4>1, <4>2 DEF Interrupts
      <3> QED
        BY <3>1, <3>2
    <2>4. attempts' \in [Receipt -> Seq(Attempt)]
      <3>1. attempts' = [r \in Receipt |-> attempts'[r]]
        BY <2>1 DEF OutcomeInv, DispatchTypeOK
      <3> QED
        BY <2>3, <3>1, InterruptTypes DEF OutcomeInv
    <2>5. Goes(s, "open") /\ UNCHANGED <<state, out, back>>
      BY <1>3 DEF SweepClose
    <2>6. MildRows
      BY <2>3, <2>4, <2>5, InterruptsMild
    <2>7. /\ DOMAIN cur' = Task /\ cur'[s] = [receipt |-> c.receipt, attempt |-> c.attempt + 1, event |-> FALSE]
          /\ \A u \in Task \ {s} : cur'[u] = cur[u] /\ todo'[u] = todo[u]
          /\ todo' \in [Task -> SUBSET [receipt : Receipt, attempt : Nat]]
          /\ todo'[s] \subseteq todo[s]
      BY <2>1 DEF OutcomeInv, DispatchTypeOK
    <2>8. cur'[s] \in Reservation /\ cur'[s].receipt = c.receipt
      BY <2>2, <2>7 DEF Reservation
    <2>9. \A d \in todo'[s] : state[d.receipt] # "none"
      BY <2>7 DEF OutcomeInv, NoneUntouched
    <2>10. state' \in [Receipt -> {"none", "reserved"} \cup Settled]
      BY <2>5 DEF OutcomeInv, DispatchTypeOK
    <2> QED
      BY <2>2, <2>4, <2>5, <2>6, <2>7, <2>8, <2>9, <2>10, LoopMove
  <1> QED
    BY <1>1, <1>2, <1>3

LEMMA SweepOpenStep ==
    ASSUME OutcomeInv, NEW s \in Task, SweepOpen(s) PROVE OutcomeInv'
  <1>1. cur[s] \in Reservation /\ cur[s].receipt \in Receipt /\ At(s, "open")
    BY DEF SweepOpen, At, OutcomeInv, DispatchTypeOK, Placed, Reservation
  <1>2. PICK c \in Reservation : c = cur[s]
    BY <1>1
  <1>3. PICK r \in Receipt : r = c.receipt
    BY <1>1, <1>2
  <1>4. state[r] # "none"
    BY <1>1, <1>2, <1>3 DEF OutcomeInv, NoneUntouched
  <1>5. CASE /\ state' = [state EXCEPT ![r] = "abandoned"] /\ cur' = [cur EXCEPT ![s] = None]
             /\ Goes(s, "sweep") /\ UNCHANGED <<attempts, back, todo>>
    <2>1. MildRows
      BY <1>4, <1>5 DEF MildRows, OutcomeInv, DispatchTypeOK
    <2>2. /\ state' \in [Receipt -> {"none", "reserved"} \cup Settled] /\ UNCHANGED out
          /\ DOMAIN cur' = Task /\ \A u \in Task \ {s} : cur'[u] = cur[u]
      BY <1>5 DEF OutcomeInv, DispatchTypeOK, Settled, SweepOpen
    <2>3. \A c2 \in todo'[s] : state[c2.receipt] # "none"
      BY <1>5 DEF OutcomeInv, NoneUntouched
    <2> QED
      BY <1>5, <2>1, <2>2, <2>3, LoopMove DEF OutcomeInv, DispatchTypeOK
  <1>6. CASE /\ c.attempt = Len(attempts[r]) + 1
             /\ attempts' = [attempts EXCEPT ![r] = Append(@, Fresh)]
             /\ Dispatches(s, c, "sweep") /\ UNCHANGED <<todo, state>>
    BY <1>1, <1>2, <1>3, <1>6, OpenStep DEF SweepOpen
  <1>7. CASE /\ cur' = [cur EXCEPT ![s] = None] /\ todo' = [todo EXCEPT ![s] = {}]
             /\ Goes(s, "idle") /\ UNCHANGED <<attempts, back, state>>
    <2>1. UNCHANGED out
      BY DEF SweepOpen
    <2>2. /\ DOMAIN cur' = Task /\ todo'[s] = {}
          /\ \A u \in Task \ {s} : cur'[u] = cur[u] /\ todo'[u] = todo[u]
          /\ todo' \in [Task -> SUBSET [receipt : Receipt, attempt : Nat]]
          /\ state' \in [Receipt -> {"none", "reserved"} \cup Settled]
      BY <1>7 DEF OutcomeInv, DispatchTypeOK
    <2> QED
      BY <1>7, <2>1, <2>2, SameRows, LoopMove
  <1> QED
    BY <1>2, <1>3, <1>5, <1>6, <1>7 DEF SweepOpen

LEMMA OtherTickSteps ==
    ASSUME OutcomeInv, NEW t \in Task, TickError(t) \/ \E r \in Receipt : Deliver(t, r) PROVE OutcomeInv'
  <1>1. CASE TickError(t)
    <2>1. /\ UNCHANGED <<state, attempts, out, back>> /\ todo' = [todo EXCEPT ![t] = {}]
          /\ cur' = [cur EXCEPT ![t] = None]
      BY <1>1 DEF TickError, receipts
    <2>2. PICK p \in {"claim", "drain", "idle"} : Goes(t, p)
      BY <1>1 DEF TickError
    <2>3. /\ DOMAIN cur' = Task /\ todo'[t] = {}
          /\ \A u \in Task \ {t} : cur'[u] = cur[u] /\ todo'[u] = todo[u]
          /\ todo' \in [Task -> SUBSET [receipt : Receipt, attempt : Nat]]
          /\ state' \in [Receipt -> {"none", "reserved"} \cup Settled]
      BY <2>1 DEF OutcomeInv, DispatchTypeOK
    <2> QED
      BY <2>1, <2>2, <2>3, SameRows, LoopMove
  <1>2. ASSUME NEW r \in Receipt, Deliver(t, r) PROVE OutcomeInv'
    <2> DEFINE c == [receipt |-> r, attempt |-> 1, event |-> TRUE]
    <2>1. /\ UNCHANGED <<state, attempts, out, back, todo>> /\ Goes(t, "reserve")
          /\ cur' = [cur EXCEPT ![t] = c]
      BY <1>2 DEF Deliver, receipts
    <2>2. c \in Reservation /\ c.attempt = 1
      BY DEF Reservation
    <2> HIDE DEF c
    <2>3. /\ DOMAIN cur' = Task /\ cur'[t] = c /\ \A u \in Task \ {t} : cur'[u] = cur[u]
          /\ todo' \in [Task -> SUBSET [receipt : Receipt, attempt : Nat]]
          /\ state' \in [Receipt -> {"none", "reserved"} \cup Settled]
          /\ \A d \in todo'[t] : state[d.receipt] # "none"
      BY <2>1 DEF OutcomeInv, DispatchTypeOK, NoneUntouched
    <2> QED
      BY <2>1, <2>2, <2>3, SameRows, LoopMove
  <1> QED
    BY <1>1, <1>2

-----------------------------------------------------------------------------
(* The other steps                                                         *)

LEMMA RecordsTypes ==
    ASSUME OutcomeInv, NEW t \in Task, NEW o \in Outcome, Records(t, o)
    PROVE  out' \in [Task -> Outcome] /\ Goes(t, "finish")
  BY DEF Records, OutcomeInv, DispatchTypeOK

LEMMA DispatchSteps ==
    ASSUME OutcomeInv, NEW t \in Task, Dispatch(t) PROVE OutcomeInv'
  <1>1. CASE Gate(t) \/ StartRun(t) \/ StartFails(t)
    <2>1. Busy(t) /\ UNCHANGED <<state, attempts, cur, back, todo>>
      BY <1>1 DEF Gate, StartRun, StartFails, At, Busy, receipts
    <2>2. \/ \E o \in Outcome : Records(t, o)
          \/ \E p \in {"start", "retry"} : Goes(t, p) /\ UNCHANGED out
      BY <1>1 DEF Gate, StartRun, StartFails, Outcome
    <2>3. out' \in [Task -> Outcome] /\ \E p \in {"start", "retry", "finish"} : Goes(t, p)
      BY <2>2, RecordsTypes DEF OutcomeInv, DispatchTypeOK
    <2> QED
      BY <2>1, <2>3, SameRows, BusyMove
  <1>2. CASE MarkRetry(t)
    <2> DEFINE r == cur[t].receipt
               n == cur[t].attempt
               a == [st |-> IF attempts[r][n].st = "closed" THEN "closed" ELSE "wait", out |-> "error"]
    <2>1. Busy(t) /\ Goes(t, "touch") /\ UNCHANGED <<state, cur, out, back, todo>>
      BY <1>2 DEF MarkRetry, At, Busy
    <2>2. /\ r \in Receipt /\ n \in DOMAIN attempts[r] /\ attempts[r][n].out \in {"none", "error"}
          /\ state[r] # "none"
      BY <2>1, BusyReservation
    <2>3. attempts' = [attempts EXCEPT ![r][n] = a]
      BY <1>2 DEF MarkRetry
    <2>4. a \in Attempt /\ a.out = "error" /\ (attempts[r][n].st = "closed" => a.st = "closed")
      BY DEF Attempt, AttemptState, Outcome
    <2> HIDE DEF r, n, a
    <2>5. /\ attempts' \in [Receipt -> Seq(Attempt)]
          /\ \A x \in Receipt : DOMAIN attempts'[x] = DOMAIN attempts[x]
          /\ attempts'[r][n] = a
          /\ \A x \in Receipt : \A m \in DOMAIN attempts[x] :
                x # r \/ m # n => attempts'[x][m] = attempts[x][m]
      BY <2>2, <2>3, <2>4, RewriteTypes DEF OutcomeInv
    <2>6. StateFor(a.out) = StateFor(attempts[r][n].out)
      BY <2>2, <2>4 DEF StateFor
    <2>7. \A x \in Receipt : state[x] = "none" => attempts'[x] = attempts[x]
      BY <2>2, <2>3 DEF OutcomeInv, DispatchTypeOK
    <2>8. MildRows
      <3> SUFFICES ASSUME NEW x \in Receipt, NEW m \in DOMAIN attempts[x]
                   PROVE  /\ attempts[x][m].out \in {"none", "error"} =>
                               attempts'[x][m].out \in {"none", "error"}
                          /\ attempts[x][m].st = "closed" =>
                               attempts'[x][m].st = "closed"
                               /\ StateFor(attempts'[x][m].out) = StateFor(attempts[x][m].out)
        BY <2>1, <2>5, <2>7 DEF MildRows
      <3>1. CASE x = r /\ m = n
        BY <2>4, <2>5, <2>6, <3>1
      <3>2. CASE ~(x = r /\ m = n)
        BY <2>5, <3>2
      <3> QED
        BY <3>1, <3>2
    <2>9. out' \in [Task -> Outcome]
      BY <2>1 DEF OutcomeInv, DispatchTypeOK
    <2> QED
      BY <2>1, <2>5, <2>8, <2>9, BusyMove
  <1>3. CASE Touch(t)
    <2>1. Busy(t) /\ Return(t) /\ UNCHANGED <<attempts, todo>>
          /\ state' = [state EXCEPT ![cur[t].receipt] = "reserved"]
      BY <1>3 DEF Touch, At, Busy
    <2>2. cur[t].receipt \in Receipt /\ state[cur[t].receipt] # "none"
      BY <2>1, BusyReservation
    <2>3. state' \in [Receipt -> {"none", "reserved"} \cup Settled] /\ MildRows
      BY <2>1, <2>2 DEF OutcomeInv, DispatchTypeOK, MildRows
    <2> QED
      BY <2>1, <2>3, ReturnStep
  <1>4. CASE Finish(t)
    <2>1. Busy(t) /\ Settle(t, out[t]) /\ Return(t) /\ todo' = todo
      BY <1>4 DEF Finish, At, Busy
    <2>2. PICK o \in Outcome : o = out[t]
      BY DEF OutcomeInv, DispatchTypeOK
    <2> QED
      BY <2>1, <2>2, SettleStep
  <1>5. CASE FinishFailed(t)
    <2>1. Busy(t) /\ Settle(t, "error") /\ Return(t) /\ todo' = todo /\ "error" \in Outcome
      BY <1>5 DEF FinishFailed, At, Busy, Outcome
    <2> QED
      BY <2>1, SettleStep
  <1> QED
    BY <1>1, <1>2, <1>3, <1>4, <1>5 DEF Dispatch

LEMMA StoreErrorStep ==
    ASSUME OutcomeInv, NEW t \in Task, StoreError(t) PROVE OutcomeInv'
  <1>1. Busy(t) /\ UNCHANGED <<state, attempts, todo>>
    BY DEF StoreError, At, Busy, receipts
  <1>2. CASE Goes(t, "failed") /\ UNCHANGED <<cur, out, back>>
    <2>1. out' \in [Task -> Outcome]
      BY <1>2 DEF OutcomeInv, DispatchTypeOK
    <2> QED
      BY <1>1, <1>2, <2>1, SameRows, BusyMove
  <1>3. CASE Return(t)
    <2>1. state' \in [Receipt -> {"none", "reserved"} \cup Settled]
      BY <1>1 DEF OutcomeInv, DispatchTypeOK
    <2> QED
      BY <1>1, <1>3, <2>1, SameRows, ReturnStep
  <1> QED
    BY <1>2, <1>3 DEF StoreError

LEMMA ClockSteps ==
    ASSUME OutcomeInv, NEW r \in Receipt,
           GrowOld(r) \/ \E n \in DOMAIN attempts[r] : GrowStale(r, n) \/ GrowDue(r, n)
    PROVE  OutcomeInv'
  <1>1. CASE GrowOld(r)
    BY <1>1, SameRows, RowStep DEF GrowOld
  <1>2. ASSUME NEW n \in DOMAIN attempts[r], GrowStale(r, n) \/ GrowDue(r, n) PROVE OutcomeInv'
    <2>1. PICK st \in AttemptState : attempts' = [attempts EXCEPT ![r][n].st = st]
      BY <1>2 DEF GrowStale, GrowDue, AttemptState
    <2> DEFINE a == [attempts[r][n] EXCEPT !.st = st]
    <2>2. attempts[r][n] \in Attempt /\ attempts[r][n].st # "closed" /\ UNCHANGED <<state, task>>
      BY <1>2, RowTypes DEF GrowStale, GrowDue, OutcomeInv
    <2>3. a \in Attempt /\ a.out = attempts[r][n].out
      BY <2>2 DEF Attempt
    <2>4. attempts' = [attempts EXCEPT ![r][n] = a]
      BY <2>1
    <2> HIDE DEF a
    <2>5. /\ attempts' \in [Receipt -> Seq(Attempt)]
          /\ \A x \in Receipt : DOMAIN attempts'[x] = DOMAIN attempts[x]
          /\ attempts'[r][n] = a
          /\ \A x \in Receipt : \A m \in DOMAIN attempts[x] :
                x # r \/ m # n => attempts'[x][m] = attempts[x][m]
      BY <2>3, <2>4, RewriteTypes DEF OutcomeInv
    <2>6. state[r] # "none"
      <3>1. SUFFICES ASSUME attempts[r] = <<>> PROVE FALSE
        BY DEF OutcomeInv, NoneUntouched
      <3> QED
        BY <1>2, <3>1
    <2>7. \A x \in Receipt : state[x] = "none" => attempts'[x] = attempts[x]
      BY <2>4, <2>6 DEF OutcomeInv, DispatchTypeOK
    <2>8. MildRows
      <3> SUFFICES ASSUME NEW x \in Receipt, NEW m \in DOMAIN attempts[x]
                   PROVE  /\ attempts[x][m].out \in {"none", "error"} =>
                               attempts'[x][m].out \in {"none", "error"}
                          /\ attempts[x][m].st = "closed" =>
                               attempts'[x][m].st = "closed"
                               /\ StateFor(attempts'[x][m].out) = StateFor(attempts[x][m].out)
        BY <2>2, <2>5, <2>7 DEF MildRows
      <3>1. CASE x = r /\ m = n
        BY <2>2, <2>3, <2>5, <3>1
      <3>2. CASE ~(x = r /\ m = n)
        BY <2>5, <3>2
      <3> QED
        BY <3>1, <3>2
    <2> QED
      BY <2>2, <2>5, <2>8, RowStep
  <1> QED
    BY <1>1, <1>2

LEMMA CrashStep ==
    ASSUME OutcomeInv, Crash PROVE OutcomeInv'
  <1>1. /\ \A t \in Task : pc'[t] = "idle" /\ todo'[t] = {}
        /\ pc' \in [Task -> PCs] /\ out' \in [Task -> Outcome]
        /\ back' \in [Task -> {"idle", "drain", "sweep"}] /\ DOMAIN cur' = Task
        /\ todo' \in [Task -> SUBSET [receipt : Receipt, attempt : Nat]]
        /\ UNCHANGED <<state, attempts>>
    BY DEF Crash, PCs, Outcome, receipts
  <1>2. DispatchTypeOK'
    BY <1>1 DEF OutcomeInv, DispatchTypeOK, Placed
  <1>3. Shrinks
    BY <1>1 DEF Shrinks, Working, Claimed, Busy
  <1>4. TodoReserved
    BY <1>1 DEF TodoReserved, At
  <1> QED
    BY <1>1, <1>2, <1>3, <1>4, SameRows, MildStep

LEMMA OutcomeInitially == ASSUME Init PROVE OutcomeInv
  <1>1. DispatchTypeOK
    BY DEF Init, DispatchTypeOK, Placed, PCs, Outcome, Settled
  <1>2. NoneUntouched
    BY DEF Init, NoneUntouched, At
  <1>3. OwnsAlone /\ OwnedUnsettled
    BY DEF Init, OwnsAlone, OwnedUnsettled, Working, Claimed, Busy
  <1>4. OutcomeRecorded
    BY DEF Init, OutcomeRecorded
  <1> QED
    BY <1>1, <1>2, <1>3, <1>4 DEF OutcomeInv

LEMMA OutcomeKept == ASSUME OutcomeInv, [Next]_vars PROVE OutcomeInv'
  <1>1. ASSUME NEW s \in Sweeper, Tick(s) \/ TickError(s) \/ \E r \in Receipt : Claim(s, r)
        PROVE  OutcomeInv'
    <2>1. s \in Task
      BY DEF Task
    <2> QED
      BY <1>1, <2>1, TickSteps, DispatchClaimedStep, SweepOpenStep, OtherTickSteps, ClaimStep DEF Tick
  <1>2. ASSUME NEW h \in Handler, ReserveEvent(h) \/ \E r \in Receipt : Deliver(h, r) PROVE OutcomeInv'
    <2>1. h \in Task
      BY DEF Task
    <2> QED
      BY <1>2, <2>1, ReserveStep, OtherTickSteps
  <1>3. ASSUME NEW t \in Task, Dispatch(t) \/ StoreError(t) PROVE OutcomeInv'
    BY <1>3, DispatchSteps, StoreErrorStep
  <1>4. CASE Clock
    BY <1>4, ClockSteps DEF Clock
  <1>5. CASE (\E r \in Receipt : RunEnds(r)) \/ Toggle \/ UNCHANGED vars
    <2>1. UNCHANGED <<state, attempts, task>>
      BY <1>5 DEF RunEnds, Toggle, vars, receipts
    <2> QED
      BY <2>1, SameRows, RowStep
  <1>6. CASE Crash
    BY <1>6, CrashStep
  <1> QED
    BY <1>1, <1>2, <1>3, <1>4, <1>5, <1>6 DEF Next

(* A settled receipt always has a closed attempt that records the outcome  *)
(* it claims, however many loops and deliveries race, stall, fail or die   *)
(* (finish: "a receipt can never claim an outcome its attempt does not     *)
(* record").                                                               *)
THEOREM ReceiptsTellTheTruth == SafetySpec => []OutcomeRecorded
  <1>1. OutcomeInv => OutcomeRecorded
    BY DEF OutcomeInv
  <1> QED
    BY <1>1, OutcomeInitially, OutcomeKept, PTL DEF SafetySpec

-----------------------------------------------------------------------------
(* One tick loop                                                           *)
(*                                                                         *)
(* With one tick loop and no attempt given up under a task, a receipt is   *)
(* settled once and its attempts are bounded.  (Two loops over one store   *)
(* read the same owed receipt; the second then closes, or abandons, what   *)
(* the first has opened anew.)  The invariant says what each of the four   *)
(* ways to be at a receipt knows of it: to work at its last attempt, to    *)
(* have claimed it, to have read it as owed, to be about to reopen it.     *)
(* Who works at an attempt or claimed it keeps the others off, and a       *)
(* reservation nobody is at has an attempt to spare.                       *)

OneTickLoop == \A s, u \in Sweeper : s = u

Swept(t, r, n) == ~Draining(t) /\ Item(r, n) \in todo[t]
Reopening(t, r, n) == At(t, "open") /\ cur[t].receipt = r /\ cur[t].attempt = n
Owned(r) == \E t \in Task, n \in Nat : Working(t, r, n) \/ Claimed(t, r, n)

Cap == (IF MaxAttempts = 0 THEN 1 ELSE MaxAttempts) + crashes + errors

(* Only the last attempt is not closed, and it waits only for a retry that *)
(* is left.                                                                *)
LastOpen(r) ==
    \A n \in DOMAIN attempts[r] :
        /\ n < Len(attempts[r]) => attempts[r][n].st = "closed"
        /\ attempts[r][n].st \in {"wait", "due"} => n < MaxAttempts

HasSpare(r) ==
    /\ Len(attempts[r]) <= Cap
    /\ state[r] = "reserved" /\ ~Owned(r) => Len(attempts[r]) < Cap

AtLast(r, n) == state[r] = "reserved" /\ n = Len(attempts[r]) /\ n \in DOMAIN attempts[r]

OwnersKnow(r) ==
    \A t \in Task, n \in Nat :
        /\ Working(t, r, n) =>
              /\ AtLast(r, n) /\ attempts[r][n].st \in {"open", "wait"}
              /\ At(t, "touch") => attempts[r][n].st = "wait"
              /\ At(t, "retry") => n < MaxAttempts
        /\ Claimed(t, r, n) => AtLast(r, n) /\ attempts[r][n].st = "open"

SweepKnows(r) ==
    \A t \in Task, n \in Nat :
        /\ Swept(t, r, n) => state[r] = "reserved" /\ n = Len(attempts[r]) /\ ~Owned(r)
        /\ Reopening(t, r, n) =>
              /\ state[r] = "reserved" /\ n = Len(attempts[r]) + 1 /\ ~Owned(r)
              /\ \A m \in DOMAIN attempts[r] : attempts[r][m].st = "closed"
              /\ \A m \in Nat : ~Swept(t, r, m)

ReceiptInv(r) == LastOpen(r) /\ HasSpare(r) /\ OwnersKnow(r) /\ SweepKnows(r)

(* Handlers never sweep. *)
HandlersHandle == \A h \in Handler : todo[h] = {} /\ pc[h] # "open"

Counters == crashes \in Nat /\ errors \in Nat /\ stalls \in Nat

SettleInv == Counters /\ HandlersHandle /\ (stalls = 0 => \A r \in Receipt : ReceiptInv(r))

LEMMA RowLength ==
    ASSUME DispatchTypeOK, NEW r \in Receipt
    PROVE  Len(attempts[r]) \in Nat /\ DOMAIN attempts[r] = 1..Len(attempts[r])
  BY RowTypes

LEMMA CapFacts ==
    ASSUME Counters
    PROVE  Cap \in Nat /\ 1 <= Cap /\ MaxAttempts <= Cap
  BY DispatchAssumption DEF Counters, Cap

LEMMA CapSum ==
    ASSUME NEW a \in Nat, NEW b \in Nat
    PROVE  (IF MaxAttempts = 0 THEN 1 ELSE MaxAttempts) + a + b \in Nat
  BY DispatchAssumption

LEMMA NextCap == ASSUME Counters' PROVE Cap' \in Nat
  <1>1. crashes' \in Nat /\ errors' \in Nat
    BY DEF Counters
  <1> QED
    BY <1>1, CapSum DEF Cap

(* Where the tasks other than t are.                                       *)
OthersSame(t) ==
    \A u \in Task \ {t} :
        pc'[u] = pc[u] /\ cur'[u] = cur[u] /\ back'[u] = back[u] /\ todo'[u] = todo[u]

SameAt(u, x, n) ==
    /\ Working(u, x, n)' <=> Working(u, x, n)
    /\ Claimed(u, x, n)' <=> Claimed(u, x, n)
    /\ Swept(u, x, n)' <=> Swept(u, x, n)
    /\ Reopening(u, x, n)' <=> Reopening(u, x, n)

LEMMA OthersAt ==
    ASSUME NEW t, OthersSame(t), NEW u \in Task, u # t, NEW x, NEW n
    PROVE  SameAt(u, x, n)
  BY DEF OthersSame, SameAt, Working, Claimed, Swept, Reopening, Busy, Draining, At

(* A receipt the step leaves alone: nobody comes to it, and who leaves it  *)
(* has failed.                                                             *)
Fades(x) ==
    /\ state'[x] = state[x] /\ attempts'[x] = attempts[x]
    /\ \A u \in Task, n \in Nat :
          /\ Working(u, x, n)' => Working(u, x, n) /\ pc'[u] = pc[u]
          /\ Claimed(u, x, n)' => Claimed(u, x, n)
          /\ Swept(u, x, n)' => Swept(u, x, n)
          /\ Reopening(u, x, n)' => Reopening(u, x, n)
    /\ Cap' \in Nat /\ Cap <= Cap'
    /\ Owned(x) => Owned(x)' \/ Cap < Cap'

LEMMA FadesStep ==
    ASSUME OutcomeInv, Counters, NEW x \in Receipt, Fades(x), ReceiptInv(x) PROVE ReceiptInv(x)'
  <1>0. Len(attempts[x]) \in Nat /\ DOMAIN attempts[x] = 1..Len(attempts[x])
    BY RowLength DEF OutcomeInv
  <1>1. Owned(x)' => Owned(x)
    BY DEF Owned, Fades
  <1>2. LastOpen(x)'
    BY DEF LastOpen, Fades, ReceiptInv
  <1>3. HasSpare(x)'
    BY <1>0, <1>1, CapFacts DEF HasSpare, Fades, ReceiptInv
  <1>4. OwnersKnow(x)'
    BY DEF OwnersKnow, Fades, ReceiptInv, AtLast, At
  <1>5. SweepKnows(x)'
    <2> SUFFICES ASSUME NEW t \in Task, NEW n \in Nat
                 PROVE  /\ Swept(t, x, n)' => state'[x] = "reserved" /\ n = Len(attempts'[x]) /\ ~Owned(x)'
                        /\ Reopening(t, x, n)' =>
                              /\ state'[x] = "reserved" /\ n = Len(attempts'[x]) + 1 /\ ~Owned(x)'
                              /\ \A m \in DOMAIN attempts'[x] : attempts'[x][m].st = "closed"
                              /\ \A m \in Nat : ~Swept(t, x, m)'
      BY DEF SweepKnows
    <2> QED
      BY <1>1 DEF SweepKnows, Fades, ReceiptInv
  <1> QED
    BY <1>2, <1>3, <1>4, <1>5 DEF ReceiptInv

(* ... in particular one the step's own task has nothing to do with.       *)
LEMMA AloofStep ==
    ASSUME OutcomeInv, Counters, Counters', Cap <= Cap', NEW t \in Task, OthersSame(t), NEW x \in Receipt,
           state'[x] = state[x], attempts'[x] = attempts[x],
           \A n \in Nat : SameAt(t, x, n) /\ ~Working(t, x, n), ReceiptInv(x)
    PROVE  ReceiptInv(x)'
  <1>1. \A u \in Task, n \in Nat : SameAt(u, x, n) /\ (Working(u, x, n) => pc'[u] = pc[u])
    BY OthersAt DEF OthersSame
  <1>2. Owned(x)' <=> Owned(x)
    BY <1>1 DEF Owned, SameAt
  <1>3. Cap' \in Nat
    BY NextCap
  <1>4. Fades(x)
    BY <1>1, <1>2, <1>3 DEF Fades, SameAt
  <1> QED
    BY <1>4, FadesStep

-----------------------------------------------------------------------------
(* A dispatch keeps what is known                                          *)

Known == \A r \in Receipt : ReceiptInv(r)

LEMMA BusyAt ==
    ASSUME NEW t, Busy(t), Busy(t)', cur'[t] = cur[t], back'[t] = back[t], todo'[t] = todo[t],
           NEW x, NEW n
    PROVE  SameAt(t, x, n)
  BY DEF SameAt, Working, Claimed, Swept, Reopening, Busy, Draining, At

(* A task moves on with its attempt.                                       *)
LEMMA BusyKnown ==
    ASSUME OutcomeInv, Counters, Counters', Cap <= Cap', Known, NEW t \in Task, OthersSame(t), Busy(t),
           pc'[t] \in {"start", "retry", "finish", "failed"},
           pc'[t] = "retry" => MayRetry(cur[t]), UNCHANGED <<state, attempts, cur, back, todo>>
    PROVE  Known'
  <1> SUFFICES ASSUME NEW x \in Receipt PROVE ReceiptInv(x)'
    BY DEF Known
  <1>0. ReceiptInv(x) /\ Len(attempts[x]) \in Nat
    BY RowLength DEF OutcomeInv, Known
  <1>1. \A u \in Task, n \in Nat : SameAt(u, x, n)
    <2>1. Busy(t)'
      BY DEF Busy
    <2> QED
      BY <2>1, OthersAt, BusyAt
  <1>2. Owned(x)' <=> Owned(x)
    BY <1>1 DEF Owned, SameAt
  <1>3. LastOpen(x)'
    BY <1>0 DEF LastOpen, ReceiptInv
  <1>4. HasSpare(x)'
    <2>1. Cap \in Nat /\ Cap' \in Nat
      BY CapFacts, NextCap
    <2> QED
      BY <1>0, <1>2, <2>1 DEF HasSpare, ReceiptInv
  <1>5. OwnersKnow(x)'
    <2> SUFFICES ASSUME NEW u \in Task, NEW n \in Nat
                 PROVE  /\ Working(u, x, n)' =>
                             /\ AtLast(x, n)' /\ attempts'[x][n].st \in {"open", "wait"}
                             /\ At(u, "touch")' => attempts'[x][n].st = "wait"
                             /\ At(u, "retry")' => n < MaxAttempts
                        /\ Claimed(u, x, n)' => AtLast(x, n)' /\ attempts'[x][n].st = "open"
      BY DEF OwnersKnow
    <2>1. At(u, "touch")' => At(u, "touch")
      BY DEF At, OthersSame
    <2>2. At(u, "retry")' /\ Working(u, x, n) => n < MaxAttempts
      <3>1. CASE u = t
        BY <3>1, DispatchAssumption DEF At, MayRetry, Working
      <3>2. CASE u # t
        BY <1>0, <3>2 DEF At, OthersSame, OwnersKnow, ReceiptInv
      <3> QED
        BY <3>1, <3>2
    <2> QED
      BY <1>0, <1>1, <2>1, <2>2 DEF OwnersKnow, ReceiptInv, SameAt, AtLast
  <1>6. SweepKnows(x)'
    BY <1>0, <1>1, <1>2 DEF SweepKnows, ReceiptInv, SameAt
  <1> QED
    BY <1>3, <1>4, <1>5, <1>6 DEF ReceiptInv

(* Who works at a receipt is alone with it.                                *)
LEMMA SoleOwner ==
    ASSUME OutcomeInv, NEW r \in Receipt, ReceiptInv(r), NEW t \in Task, NEW n \in Nat, Working(t, r, n)
    PROVE  /\ Owned(r) /\ AtLast(r, n)
           /\ \A u \in Task, m \in Nat : /\ Working(u, r, m) => u = t /\ m = n
                                         /\ ~Claimed(u, r, m) /\ ~Swept(u, r, m) /\ ~Reopening(u, r, m)
  <1>1. Owned(r)
    BY DEF Owned
  <1>2. AtLast(r, n)
    BY DEF ReceiptInv, OwnersKnow
  <1>3. ASSUME NEW u \in Task, NEW m \in Nat, Working(u, r, m) \/ Claimed(u, r, m)
        PROVE  m = n /\ Working(u, r, n) /\ u = t
    <2>1. m = n
      BY <1>2, <1>3 DEF ReceiptInv, OwnersKnow, AtLast
    <2> QED
      BY <1>3, <2>1 DEF OutcomeInv, OwnsAlone
  <1>4. \A u \in Task, m \in Nat : ~Claimed(u, r, m)
    BY <1>3 DEF OutcomeInv, OwnsAlone
  <1> QED
    BY <1>1, <1>2, <1>3, <1>4 DEF ReceiptInv, SweepKnows

(* start failed and a retry is left: the attempt waits.                    *)
LEMMA MarkRetryKnown ==
    ASSUME OutcomeInv, Counters, Counters', Known, NEW t \in Task, MarkRetry(t) PROVE Known'
  <1>1. Busy(t) /\ Goes(t, "touch") /\ UNCHANGED <<state, cur, out, back, todo, bounds>> /\ At(t, "retry")
    BY DEF MarkRetry, At, Busy
  <1>r. PICK r \in Receipt : r = cur[t].receipt
    BY <1>1, BusyReservation
  <1>n. PICK n \in Nat : n = cur[t].attempt
    BY <1>1, BusyReservation
  <1>2. r \in Receipt /\ n \in Nat /\ n \in DOMAIN attempts[r] /\ Working(t, r, n)
    BY <1>1, <1>r, <1>n, BusyReservation
  <1> DEFINE a == [st |-> IF attempts[r][n].st = "closed" THEN "closed" ELSE "wait", out |-> "error"]
  <1>3. attempts' = [attempts EXCEPT ![r][n] = a]
    BY <1>r, <1>n DEF MarkRetry
  <1>4. a \in Attempt /\ (attempts[r][n].st # "closed" => a.st = "wait")
    BY DEF Attempt, AttemptState, Outcome
  <1> HIDE DEF a
  <1>5. /\ attempts' \in [Receipt -> Seq(Attempt)]
        /\ \A x \in Receipt : DOMAIN attempts'[x] = DOMAIN attempts[x]
        /\ attempts'[r][n] = a
        /\ \A x \in Receipt : \A m \in DOMAIN attempts[x] :
              x # r \/ m # n => attempts'[x][m] = attempts[x][m]
    BY <1>2, <1>3, <1>4, RewriteTypes DEF OutcomeInv
  <1>6. pc'[t] = "touch" /\ OthersSame(t)
    BY <1>1, GoesFacts DEF OutcomeInv, PCs, OthersSame
  <1>7. Cap' = Cap /\ Cap \in Nat
    BY <1>1, CapFacts DEF Cap, bounds
  <1>8. \A u \in Task, x \in Receipt, m \in Nat : SameAt(u, x, m)
    <2>1. Busy(t)'
      BY <1>6 DEF Busy
    <2> QED
      BY <1>1, <1>6, <2>1, OthersAt, BusyAt
  <1>9. ASSUME NEW x \in Receipt, x # r PROVE ReceiptInv(x)'
    <2>1. \A m \in Nat : ~Working(t, x, m)
      BY <1>r, <1>9 DEF Working
    <2>2. attempts'[x] = attempts[x] /\ state'[x] = state[x] /\ ReceiptInv(x)
      BY <1>1, <1>2, <1>3, <1>9 DEF OutcomeInv, DispatchTypeOK, Known
    <2> QED
      BY <1>6, <1>7, <1>8, <2>1, <2>2, AloofStep
  <1>10. ReceiptInv(r)'
    <2>1. ReceiptInv(r) /\ AtLast(r, n) /\ attempts[r][n].st \in {"open", "wait"} /\ n < MaxAttempts
      BY <1>1, <1>2 DEF Known, ReceiptInv, OwnersKnow
    <2>2. Len(attempts'[r]) = Len(attempts[r]) /\ Len(attempts[r]) \in Nat /\ a.st = "wait"
      <3>1. attempts'[r] \in Seq(Attempt) /\ attempts[r] \in Seq(Attempt)
        BY <1>2, <1>5 DEF OutcomeInv, DispatchTypeOK
      <3> QED
        BY <1>2, <1>4, <1>5, <2>1, <3>1
    <2>3. Owned(r)' /\ Owned(r)
      BY <1>2, <1>8 DEF Owned, SameAt
    <2>4. LastOpen(r)'
      <3> SUFFICES ASSUME NEW m \in DOMAIN attempts'[r]
                   PROVE  /\ m < Len(attempts'[r]) => attempts'[r][m].st = "closed"
                          /\ attempts'[r][m].st \in {"wait", "due"} => m < MaxAttempts
        BY DEF LastOpen
      <3>1. CASE m = n
        BY <1>5, <2>1, <2>2, <3>1 DEF AtLast
      <3>2. CASE m # n
        BY <1>2, <1>5, <2>1, <2>2, <3>2 DEF ReceiptInv, LastOpen
      <3> QED
        BY <3>1, <3>2
    <2>5. HasSpare(r)'
      BY <1>1, <1>2, <1>7, <2>1, <2>2, <2>3 DEF HasSpare, ReceiptInv
    <2>6. OwnersKnow(r)'
      <3> SUFFICES ASSUME NEW u \in Task, NEW m \in Nat
                   PROVE  /\ Working(u, r, m)' =>
                               /\ AtLast(r, m)' /\ attempts'[r][m].st \in {"open", "wait"}
                               /\ At(u, "touch")' => attempts'[r][m].st = "wait"
                               /\ At(u, "retry")' => m < MaxAttempts
                          /\ Claimed(u, r, m)' => AtLast(r, m)' /\ attempts'[r][m].st = "open"
        BY DEF OwnersKnow
      <3>1. Working(u, r, m)' => u = t /\ m = n
        BY <1>2, <1>8, <2>1, SoleOwner DEF SameAt
      <3>2. ~Claimed(u, r, m)'
        BY <1>2, <1>8, <2>1, SoleOwner DEF SameAt
      <3> QED
        BY <1>1, <1>2, <1>5, <2>1, <2>2, <3>1, <3>2 DEF AtLast
    <2>7. SweepKnows(r)'
      BY <1>2, <1>8, <2>1, SoleOwner DEF SweepKnows, SameAt
    <2> QED
      BY <2>4, <2>5, <2>6, <2>7 DEF ReceiptInv
  <1> QED
    BY <1>9, <1>10 DEF Known

(* A dispatch ends.                                                        *)
LEMMA ReturnAt ==
    ASSUME OutcomeInv, NEW t \in Task, Busy(t), Return(t), UNCHANGED todo
    PROVE  /\ OthersSame(t)
           /\ \A x \in Receipt, n \in Nat :
                 /\ ~Working(t, x, n)' /\ (Claimed(t, x, n)' <=> Claimed(t, x, n))
                 /\ (Swept(t, x, n)' <=> Swept(t, x, n))
                 /\ ~Reopening(t, x, n)' /\ ~Reopening(t, x, n)
  <1>1. /\ pc'[t] = back[t] /\ pc'[t] \in {"idle", "drain", "sweep"}
        /\ \A u \in Task \ {t} : pc'[u] = pc[u] /\ cur'[u] = cur[u] /\ back'[u] = back[u]
    BY ReturnFacts DEF OutcomeInv
  <1>2. ~Busy(t)' /\ (Draining(t)' <=> Draining(t))
    BY <1>1 DEF Busy, Draining
  <1>3. ~At(t, "open") /\ ~At(t, "open")'
    BY <1>1 DEF At, Busy
  <1> QED
    BY <1>1, <1>2, <1>3 DEF OthersSame, Working, Claimed, Swept, Reopening

LEMMA ReturnKnown ==
    ASSUME OutcomeInv, OutcomeInv', Counters, UNCHANGED bounds, Known, NEW t \in Task, Busy(t), Return(t),
           UNCHANGED todo, NEW r \in Receipt, r = cur[t].receipt,
           \A x \in Receipt \ {r} : state'[x] = state[x] /\ attempts'[x] = attempts[x],
           Len(attempts'[r]) = Len(attempts[r]), LastOpen(r)',
           state'[r] = "reserved" => Len(attempts[r]) < Cap
    PROVE  Known'
  <1> DEFINE n == cur[t].attempt
  <1>1. n \in Nat /\ Working(t, r, n) /\ ReceiptInv(r)
    BY BusyReservation DEF Known
  <1> HIDE DEF n
  <1>2. Cap' = Cap /\ Cap \in Nat /\ Counters'
    BY CapFacts DEF Cap, bounds, Counters
  <1>3. ASSUME NEW x \in Receipt, x # r PROVE ReceiptInv(x)'
    <2>1. \A m \in Nat : ~Working(t, x, m)
      BY <1>3 DEF Working
    <2>2. \A m \in Nat : SameAt(t, x, m)
      BY <2>1, ReturnAt DEF SameAt
    <2> QED
      BY <1>2, <1>3, <2>1, <2>2, ReturnAt, AloofStep DEF Known
  <1>4. ASSUME NEW u \in Task, NEW m \in Nat
        PROVE  ~Working(u, r, m)' /\ ~Claimed(u, r, m)' /\ ~Swept(u, r, m)' /\ ~Reopening(u, r, m)'
    <2>1. /\ Working(u, r, m) => u = t
          /\ ~Claimed(u, r, m) /\ ~Swept(u, r, m) /\ ~Reopening(u, r, m)
      BY <1>1, SoleOwner
    <2>2. CASE u = t
      BY <2>1, <2>2, ReturnAt
    <2>3. CASE u # t
      BY <2>1, <2>3, ReturnAt, OthersAt DEF SameAt
    <2> QED
      BY <2>2, <2>3
  <1>5. HasSpare(r)'
    BY <1>1, <1>2 DEF HasSpare, ReceiptInv
  <1>6. OwnersKnow(r)' /\ SweepKnows(r)'
    BY <1>4 DEF OwnersKnow, SweepKnows
  <1> QED
    BY <1>3, <1>5, <1>6 DEF Known, ReceiptInv

LEMMA TouchKnown ==
    ASSUME OutcomeInv, OutcomeInv', Counters, Known, NEW t \in Task, Touch(t) PROVE Known'
  <1>1. PICK r \in Receipt : r = cur[t].receipt
    BY BusyReservation DEF Touch, At, Busy
  <1>2. Busy(t) /\ Return(t) /\ UNCHANGED <<attempts, todo, bounds>> /\ At(t, "touch")
        /\ state' = [state EXCEPT ![r] = "reserved"]
    BY <1>1 DEF Touch, At, Busy
  <1>3. \A x \in Receipt \ {r} : state'[x] = state[x] /\ attempts'[x] = attempts[x]
    BY <1>2 DEF OutcomeInv, DispatchTypeOK
  <1>4. Working(t, r, cur[t].attempt) /\ cur[t].attempt \in Nat /\ ReceiptInv(r)
    BY <1>1, <1>2, BusyReservation DEF Known
  <1>5. AtLast(r, cur[t].attempt) /\ attempts[r][cur[t].attempt].st = "wait"
    BY <1>2, <1>4 DEF ReceiptInv, OwnersKnow
  <1>6. Len(attempts[r]) < MaxAttempts /\ Len(attempts[r]) \in Nat
    BY <1>4, <1>5, RowLength DEF ReceiptInv, LastOpen, AtLast, OutcomeInv
  <1>7. Len(attempts[r]) < Cap
    BY <1>6, CapFacts, DispatchAssumption
  <1>8. LastOpen(r)'
    BY <1>2, <1>4 DEF ReceiptInv, LastOpen
  <1> QED
    BY <1>1, <1>2, <1>3, <1>7, <1>8, ReturnKnown

LEMMA SettleKnown ==
    ASSUME OutcomeInv, OutcomeInv', Counters, UNCHANGED bounds, Known, NEW t \in Task, NEW o \in Outcome,
           Busy(t), Settle(t, o), Return(t), UNCHANGED todo
    PROVE  Known'
  <1> DEFINE a == [st |-> "closed", out |-> o]
  <1>1. PICK r \in Receipt : r = cur[t].receipt
    BY BusyReservation
  <1>2. PICK n \in DOMAIN attempts[r] : n = cur[t].attempt
    BY <1>1, BusyReservation
  <1>3. attempts' = [attempts EXCEPT ![r][n] = a] /\ state' = [state EXCEPT ![r] = StateFor(o)]
    BY <1>1, <1>2 DEF Settle
  <1>4. a \in Attempt /\ a.st = "closed"
    BY DEF Attempt, AttemptState
  <1> HIDE DEF a
  <1>5. /\ attempts' \in [Receipt -> Seq(Attempt)]
        /\ \A x \in Receipt : DOMAIN attempts'[x] = DOMAIN attempts[x]
        /\ attempts'[r][n] = a
        /\ \A x \in Receipt : \A m \in DOMAIN attempts[x] :
              x # r \/ m # n => attempts'[x][m] = attempts[x][m]
    BY <1>3, <1>4, RewriteTypes DEF OutcomeInv
  <1>6. \A x \in Receipt \ {r} : state'[x] = state[x] /\ attempts'[x] = attempts[x]
    BY <1>3 DEF OutcomeInv, DispatchTypeOK
  <1>7. Len(attempts'[r]) = Len(attempts[r])
    <2>1. attempts'[r] \in Seq(Attempt) /\ attempts[r] \in Seq(Attempt)
      BY <1>5 DEF OutcomeInv, DispatchTypeOK
    <2> QED
      BY <1>5, <2>1
  <1>8. LastOpen(r)'
    <2>1. LastOpen(r)
      BY DEF Known, ReceiptInv
    <2> QED
      BY <1>4, <1>5, <1>7, <2>1 DEF LastOpen
  <1>9. state'[r] # "reserved"
    BY <1>3 DEF StateFor, OutcomeInv, DispatchTypeOK
  <1> QED
    BY <1>1, <1>6, <1>7, <1>8, <1>9, ReturnKnown

-----------------------------------------------------------------------------
(* Failures and deliveries keep what is known                              *)

(* Who lets go of a receipt by a failure leaves it an attempt to spare.    *)
LEMMA FailKnown ==
    ASSUME OutcomeInv, Counters, Counters', Cap < Cap', Known, UNCHANGED <<state, attempts>>,
           \A u \in Task, x \in Receipt, n \in Nat :
              /\ Working(u, x, n)' => Working(u, x, n) /\ pc'[u] = pc[u]
              /\ Claimed(u, x, n)' => Claimed(u, x, n)
              /\ Swept(u, x, n)' => Swept(u, x, n)
              /\ Reopening(u, x, n)' => Reopening(u, x, n)
    PROVE  Known'
  <1>1. Cap \in Nat /\ Cap' \in Nat
    BY CapFacts, NextCap
  <1>2. \A x \in Receipt : Fades(x)
    BY <1>1 DEF Fades
  <1> QED
    BY <1>2, FadesStep DEF Known

LEMMA StoreErrorKnown ==
    ASSUME OutcomeInv, Counters, Counters', Known, NEW t \in Task, StoreError(t) PROVE Known'
  <1>1. Busy(t) /\ UNCHANGED <<state, attempts, todo, crashes>> /\ errors' = errors + 1
    BY DEF StoreError, At, Busy, receipts
  <1>2. Cap < Cap' /\ Cap <= Cap'
    BY <1>1, DispatchAssumption DEF Cap, Counters
  <1>3. CASE Goes(t, "failed") /\ UNCHANGED <<cur, out, back>>
    <2>1. pc'[t] = "failed" /\ OthersSame(t)
      BY <1>1, <1>3, GoesFacts DEF OutcomeInv, PCs, OthersSame
    <2> QED
      BY <1>1, <1>2, <1>3, <2>1, BusyKnown
  <1>4. CASE Return(t)
    <2> SUFFICES ASSUME NEW u \in Task, NEW x \in Receipt, NEW n \in Nat
                 PROVE  /\ Working(u, x, n)' => Working(u, x, n) /\ pc'[u] = pc[u]
                        /\ Claimed(u, x, n)' => Claimed(u, x, n)
                        /\ Swept(u, x, n)' => Swept(u, x, n)
                        /\ Reopening(u, x, n)' => Reopening(u, x, n)
      BY <1>1, <1>2, FailKnown
    <2>1. CASE u = t
      BY <1>1, <1>4, <2>1, ReturnAt
    <2>2. CASE u # t
      BY <1>1, <1>4, <2>2, ReturnAt, OthersAt DEF SameAt, OthersSame
    <2> QED
      BY <2>1, <2>2
  <1> QED
    BY <1>3, <1>4 DEF StoreError

LEMMA TickErrorKnown ==
    ASSUME OutcomeInv, Counters, Counters', Known, NEW s \in Task, TickError(s) PROVE Known'
  <1>1. /\ UNCHANGED <<state, attempts, out, back, crashes>> /\ todo' = [todo EXCEPT ![s] = {}]
        /\ cur' = [cur EXCEPT ![s] = None] /\ errors' = errors + 1
    BY DEF TickError, receipts
  <1>2. PICK p \in {"claim", "drain", "idle"} : Goes(s, p)
    BY DEF TickError
  <1>3. Cap < Cap'
    BY <1>1, DispatchAssumption DEF Cap, Counters
  <1>4. pc'[s] = p /\ todo'[s] = {} /\ OthersSame(s)
    BY <1>1, <1>2, GoesFacts DEF OutcomeInv, DispatchTypeOK, PCs, OthersSame
  <1> SUFFICES ASSUME NEW u \in Task, NEW x \in Receipt, NEW n \in Nat
               PROVE  /\ Working(u, x, n)' => Working(u, x, n) /\ pc'[u] = pc[u]
                      /\ Claimed(u, x, n)' => Claimed(u, x, n)
                      /\ Swept(u, x, n)' => Swept(u, x, n)
                      /\ Reopening(u, x, n)' => Reopening(u, x, n)
    BY <1>1, <1>3, FailKnown
  <1>5. CASE u = s
    BY <1>4, <1>5 DEF Working, Claimed, Swept, Reopening, Busy, At
  <1>6. CASE u # s
    BY <1>4, <1>6, OthersAt DEF SameAt, OthersSame
  <1> QED
    BY <1>5, <1>6

LEMMA CrashKnown ==
    ASSUME OutcomeInv, Counters, Counters', Known, Crash PROVE Known'
  <1>1. /\ UNCHANGED <<state, attempts, errors>> /\ crashes' = crashes + 1
        /\ \A u \in Task : pc'[u] = "idle" /\ todo'[u] = {}
    BY DEF Crash, receipts
  <1>2. Cap < Cap'
    BY <1>1, DispatchAssumption DEF Cap, Counters
  <1>3. \A u \in Task, x \in Receipt, n \in Nat :
          ~Working(u, x, n)' /\ ~Claimed(u, x, n)' /\ ~Swept(u, x, n)' /\ ~Reopening(u, x, n)'
    BY <1>1 DEF Working, Claimed, Swept, Reopening, Busy, At
  <1> QED
    BY <1>1, <1>2, <1>3, FailKnown

(* A step after which a task has nothing to do with any receipt that it    *)
(* had nothing to do with before.                                          *)
LEMMA AloofKnown ==
    ASSUME OutcomeInv, Counters, UNCHANGED bounds, Known, NEW t \in Task, OthersSame(t),
           UNCHANGED <<state, attempts>>,
           \A x \in Receipt, n \in Nat : SameAt(t, x, n) /\ ~Working(t, x, n)
    PROVE  Known'
  <1>1. Counters' /\ Cap' = Cap /\ Cap \in Nat
    BY CapFacts DEF Counters, Cap, bounds
  <1> QED
    BY <1>1, AloofStep DEF Known

LEMMA QuietKnown ==
    ASSUME OutcomeInv, Counters, Known, UNCHANGED <<state, attempts, task, crashes, errors>>
    PROVE  Known'
  <1>1. \A r \in Receipt : ReceiptInv(r)' <=> ReceiptInv(r)
    BY DEF task, ReceiptInv, LastOpen, HasSpare, OwnersKnow, SweepKnows, AtLast, Owned, Cap,
           Working, Claimed, Swept, Reopening, Busy, Draining, At
  <1> QED
    BY <1>1 DEF Known

LEMMA DeliverKnown ==
    ASSUME OutcomeInv, Counters, Known, NEW h \in Task, NEW r \in Receipt, Deliver(h, r) PROVE Known'
  <1>1. /\ UNCHANGED <<state, attempts, out, back, todo, bounds>> /\ Goes(h, "reserve") /\ At(h, "idle")
        /\ cur' = [cur EXCEPT ![h] = [receipt |-> r, attempt |-> 1, event |-> TRUE]]
    BY DEF Deliver, receipts
  <1>2. pc'[h] = "reserve" /\ OthersSame(h)
    BY <1>1, GoesFacts DEF OutcomeInv, DispatchTypeOK, PCs, OthersSame
  <1>3. \A x \in Receipt, n \in Nat : SameAt(h, x, n) /\ ~Working(h, x, n)
    BY <1>1, <1>2 DEF SameAt, Working, Claimed, Swept, Reopening, Busy, Draining, At
  <1> QED
    BY <1>1, <1>2, <1>3, AloofKnown

(* A new reservation, which its task owns.                                 *)
LEMMA InsertKnown ==
    ASSUME OutcomeInv, OutcomeInv', Counters, UNCHANGED bounds, Known, NEW r \in Receipt,
           state[r] = "none", Insert(r), NEW t \in Task, OthersSame(t),
           \A x \in Receipt \ {r}, n \in Nat : SameAt(t, x, n) /\ ~Working(t, x, n),
           \A n \in Nat : /\ Working(t, r, n)' => n = 1 /\ At(t, "gate")'
                          /\ Claimed(t, r, n)' => n = 1
                          /\ ~Swept(t, r, n)' /\ ~Reopening(t, r, n)',
           Owned(r)'
    PROVE  Known'
  <1>1. Counters' /\ Cap' = Cap /\ Cap \in Nat /\ 1 <= Cap
    BY CapFacts DEF Counters, Cap, bounds
  <1>2. ASSUME NEW x \in Receipt, x # r PROVE ReceiptInv(x)'
    <2>1. state'[x] = state[x] /\ attempts'[x] = attempts[x] /\ ReceiptInv(x)
      BY <1>2, InsertRows DEF Known
    <2> QED
      BY <1>1, <1>2, <2>1, AloofStep
  <1>3. ASSUME NEW u \in Task, u # t, NEW n \in Nat
        PROVE  ~Working(u, r, n)' /\ ~Claimed(u, r, n)' /\ ~Swept(u, r, n)' /\ ~Reopening(u, r, n)'
    <2>1. ~Working(u, r, n) /\ ~Claimed(u, r, n)
      BY InsertRows
    <2>2. ~Swept(u, r, n)
      <3>1. Item(r, n).receipt = r
        BY DEF Item
      <3> QED
        BY <3>1 DEF Swept, OutcomeInv, NoneUntouched
    <2>3. ~Reopening(u, r, n)
      BY DEF Reopening, OutcomeInv, NoneUntouched
    <2> QED
      BY <1>3, <2>1, <2>2, <2>3, OthersAt DEF SameAt
  <1>4. /\ state'[r] = "reserved" /\ attempts'[r] = <<Fresh>> /\ Len(attempts'[r]) = 1
        /\ DOMAIN attempts'[r] = {1} /\ attempts'[r][1].st = "open"
    <2>1. state'[r] = "reserved" /\ attempts'[r] = <<Fresh>> /\ Fresh.st = "open"
      BY InsertRows DEF Fresh
    <2>2. Len(<<Fresh>>) = 1 /\ DOMAIN <<Fresh>> = {1} /\ <<Fresh>>[1] = Fresh
      BY FreshFacts
    <2> QED
      BY <2>1, <2>2
  <1>5. LastOpen(r)' /\ HasSpare(r)'
    BY <1>1, <1>4 DEF LastOpen, HasSpare
  <1>6. OwnersKnow(r)'
    <2> SUFFICES ASSUME NEW u \in Task, NEW n \in Nat
                 PROVE  /\ Working(u, r, n)' => n = 1 /\ At(u, "gate")'
                        /\ Claimed(u, r, n)' => n = 1
      BY <1>4 DEF OwnersKnow, AtLast, At
    <2> QED
      BY <1>3
  <1>7. SweepKnows(r)'
    BY <1>3 DEF SweepKnows
  <1> QED
    BY <1>2, <1>5, <1>6, <1>7 DEF Known, ReceiptInv

LEMMA ClaimKnown ==
    ASSUME OutcomeInv, OutcomeInv', Counters, Known, NEW s \in Task, NEW r \in Receipt, Claim(s, r)
    PROVE  Known'
  <1>1. /\ At(s, "claim") /\ state[r] = "none" /\ Insert(r) /\ UNCHANGED <<pc, cur, out, back, bounds>>
        /\ todo' = [todo EXCEPT ![s] = @ \cup {Item(r, 1)}]
    BY DEF Claim, Item
  <1>2. OthersSame(s) /\ todo'[s] = todo[s] \cup {Item(r, 1)}
    BY <1>1 DEF OthersSame, OutcomeInv, DispatchTypeOK
  <1>3. Draining(s) /\ Draining(s)' /\ ~Busy(s) /\ ~Busy(s)' /\ ~At(s, "open") /\ ~At(s, "open")'
    BY <1>1 DEF Draining, Busy, At
  <1>4. ASSUME NEW x \in Receipt, NEW n \in Nat
        PROVE  /\ x # r => SameAt(s, x, n) /\ ~Working(s, x, n)
               /\ ~Working(s, x, n)' /\ ~Swept(s, x, n)' /\ ~Reopening(s, x, n)'
    <2>1. x # r => Item(x, n) # Item(r, 1)
      BY DEF Item
    <2> QED
      BY <1>2, <1>3, <2>1 DEF SameAt, Working, Claimed, Swept, Reopening
  <1>5. Claimed(s, r, 1)'
    BY <1>2, <1>3 DEF Claimed
  <1>6. ASSUME NEW n \in Nat, Claimed(s, r, n)' PROVE n = 1
    <2>1. ~Claimed(s, r, n)
      BY <1>1, InsertRows
    <2>2. Item(r, n) = Item(r, 1)
      BY <1>2, <1>3, <1>6, <2>1 DEF Claimed
    <2> QED
      BY <2>2 DEF Item
  <1>7. Owned(r)'
    BY <1>5 DEF Owned
  <1> QED
    BY <1>1, <1>2, <1>4, <1>6, <1>7, InsertKnown

LEMMA ReserveKnown ==
    ASSUME OutcomeInv, OutcomeInv', Counters, HandlersHandle, Known, NEW h \in Handler, ReserveEvent(h)
    PROVE  Known'
  <1>0. h \in Task /\ At(h, "reserve") /\ UNCHANGED <<out, todo, bounds>> /\ todo[h] = {}
    BY DEF Task, ReserveEvent, HandlersHandle
  <1>1. cur[h] \in Reservation /\ cur[h].receipt \in Receipt /\ cur[h].attempt = 1
    BY <1>0 DEF At, OutcomeInv, DispatchTypeOK, Placed, Reservation
  <1>2. PICK r \in Receipt : r = cur[h].receipt
    BY <1>1
  <1>3. CASE state[r] = "none" /\ Insert(r) /\ Dispatches(h, cur[h], "idle")
    <2>1. pc'[h] = "gate" /\ cur'[h] = cur[h] /\ back'[h] = "idle" /\ OthersSame(h) /\ Busy(h)'
      BY <1>0, <1>1, <1>3, DispatchesFacts DEF OthersSame
    <2>2. ASSUME NEW x \in Receipt, NEW n \in Nat
          PROVE  /\ ~Working(h, x, n) /\ ~Claimed(h, x, n) /\ ~Swept(h, x, n) /\ ~Reopening(h, x, n)
                 /\ ~Claimed(h, x, n)' /\ ~Swept(h, x, n)' /\ ~Reopening(h, x, n)'
                 /\ Working(h, x, n)' <=> (x = r /\ n = 1)
      BY <1>0, <1>1, <1>2, <2>1 DEF Working, Claimed, Swept, Reopening, Busy, At
    <2>3. Owned(r)'
      BY <1>0, <2>2 DEF Owned
    <2>4. \A x \in Receipt \ {r}, n \in Nat : SameAt(h, x, n) /\ ~Working(h, x, n)
      BY <2>2 DEF SameAt
    <2> QED
      BY <1>0, <1>3, <2>1, <2>2, <2>3, <2>4, InsertKnown DEF At
  <1>4. CASE cur' = [cur EXCEPT ![h] = None] /\ Goes(h, "idle") /\ UNCHANGED <<receipts, back>>
    <2>1. pc'[h] = "idle" /\ OthersSame(h)
      BY <1>0, <1>4, GoesFacts DEF OutcomeInv, DispatchTypeOK, PCs, OthersSame
    <2>2. \A x \in Receipt, n \in Nat : SameAt(h, x, n) /\ ~Working(h, x, n)
      BY <1>0, <2>1 DEF SameAt, Working, Claimed, Swept, Reopening, Busy, Draining, At
    <2> QED
      BY <1>0, <1>4, <2>1, <2>2, AloofKnown DEF receipts
  <1> QED
    BY <1>2, <1>3, <1>4 DEF ReserveEvent

-----------------------------------------------------------------------------
(* The tick loop keeps what is known                                       *)

(* A claimed attempt is dispatched.                                        *)
LEMMA DispatchClaimedKnown ==
    ASSUME OutcomeInv, OutcomeInv', Counters, Known, NEW s \in Task, DispatchClaimed(s) PROVE Known'
  <1>1. PICK c \in todo[s] :
          /\ Dispatches(s, [receipt |-> c.receipt, attempt |-> c.attempt, event |-> FALSE], "drain")
          /\ todo' = [todo EXCEPT ![s] = @ \ {c}]
    BY DEF DispatchClaimed
  <1>2. PICK r \in Receipt, n \in Nat : r = c.receipt /\ n = c.attempt /\ c = Item(r, n)
    BY DEF OutcomeInv, DispatchTypeOK, Item
  <1> DEFINE d == [receipt |-> r, attempt |-> n, event |-> FALSE]
  <1>3. d \in Reservation /\ d.receipt = r /\ d.attempt = n
    BY DEF Reservation
  <1>4. UNCHANGED <<state, attempts, out, bounds>> /\ pc[s] \in {"claim", "drain"} /\ Dispatches(s, d, "drain")
    BY <1>1, <1>2 DEF DispatchClaimed, receipts
  <1> HIDE DEF d
  <1>5. /\ pc'[s] = "gate" /\ cur'[s] = d /\ back'[s] = "drain" /\ Busy(s)' /\ Draining(s)'
        /\ todo'[s] = todo[s] \ {Item(r, n)} /\ OthersSame(s)
    BY <1>1, <1>2, <1>3, <1>4, DispatchesFacts DEF OthersSame, OutcomeInv, DispatchTypeOK
  <1>6. Draining(s) /\ ~Busy(s) /\ ~At(s, "open") /\ ~At(s, "open")' /\ Item(r, n) \in todo[s]
    BY <1>2, <1>4, <1>5 DEF Draining, Busy, At
  <1>7. Counters' /\ Cap' = Cap /\ Cap \in Nat
    BY <1>4, CapFacts DEF Counters, Cap, bounds
  <1>8. ASSUME NEW x \in Receipt, NEW m \in Nat
        PROVE  /\ ~Working(s, x, m) /\ ~Swept(s, x, m) /\ ~Reopening(s, x, m)
               /\ ~Swept(s, x, m)' /\ ~Reopening(s, x, m)'
               /\ Working(s, x, m)' <=> (x = r /\ m = n)
               /\ Claimed(s, x, m)' <=> (Claimed(s, x, m) /\ ~(x = r /\ m = n))
    <2>1. Item(x, m) = Item(r, n) <=> (x = r /\ m = n)
      BY DEF Item
    <2> QED
      BY <1>3, <1>5, <1>6, <2>1 DEF Working, Claimed, Swept, Reopening
  <1>9. ASSUME NEW x \in Receipt, x # r PROVE ReceiptInv(x)'
    <2>1. \A m \in Nat : SameAt(s, x, m) /\ ~Working(s, x, m)
      BY <1>8, <1>9 DEF SameAt
    <2> QED
      BY <1>4, <1>5, <1>7, <1>9, <2>1, AloofStep DEF Known
  <1>10. ReceiptInv(r)'
    <2>1. Claimed(s, r, n) /\ ReceiptInv(r)
      BY <1>6 DEF Claimed, Known
    <2>2. AtLast(r, n) /\ attempts[r][n].st = "open" /\ Owned(r)
      BY <2>1 DEF ReceiptInv, OwnersKnow, Owned
    <2>3. ASSUME NEW u \in Task, NEW m \in Nat, Working(u, r, m) \/ Claimed(u, r, m) PROVE m = n /\ u = s
      <3>1. m = n
        BY <2>1, <2>2, <2>3 DEF ReceiptInv, OwnersKnow, AtLast
      <3> QED
        BY <2>1, <2>3, <3>1 DEF OutcomeInv, OwnsAlone
    <2>4. ASSUME NEW u \in Task, NEW m \in Nat
          PROVE  /\ Working(u, r, m)' => u = s /\ m = n
                 /\ ~Claimed(u, r, m)' /\ ~Swept(u, r, m)' /\ ~Reopening(u, r, m)'
      <3>1. CASE u = s
        BY <1>8, <2>3, <3>1
      <3>2. CASE u # s
        <4>1. ~Swept(u, r, m) /\ ~Reopening(u, r, m)
          BY <2>1, <2>2 DEF ReceiptInv, SweepKnows
        <4> QED
          BY <1>5, <2>3, <3>2, <4>1, OthersAt DEF SameAt
      <3> QED
        BY <3>1, <3>2
    <2>5. LastOpen(r)'
      BY <1>4, <2>1 DEF ReceiptInv, LastOpen
    <2>6. HasSpare(r)'
      <3>1. Working(s, r, n)'
        BY <1>8
      <3>2. Owned(r)'
        BY <3>1 DEF Owned
      <3> QED
        BY <1>4, <1>7, <2>1, <3>2 DEF ReceiptInv, HasSpare
    <2>7. OwnersKnow(r)'
      BY <1>4, <1>5, <2>2, <2>4 DEF OwnersKnow, AtLast, At
    <2>8. SweepKnows(r)'
      BY <2>4 DEF SweepKnows
    <2> QED
      BY <2>5, <2>6, <2>7, <2>8 DEF ReceiptInv
  <1> QED
    BY <1>9, <1>10 DEF Known

(* Attempts nobody is at are closed as interrupted.                        *)
LEMMA ClosedKnown ==
    ASSUME OutcomeInv, OutcomeInv', Counters, Counters', Cap' = Cap, NEW x \in Receipt, ReceiptInv(x),
           state'[x] = state[x], DOMAIN attempts'[x] = DOMAIN attempts[x],
           \A n \in DOMAIN attempts[x] :
              \/ attempts'[x][n] = attempts[x][n]
              \/ attempts'[x][n].st = "closed" /\ (Owned(x) => attempts[x][n].st = "stale"),
           \A u \in Task, n \in Nat : SameAt(u, x, n) /\ (Working(u, x, n) => pc'[u] = pc[u])
    PROVE  ReceiptInv(x)'
  <1>1. Len(attempts'[x]) = Len(attempts[x]) /\ Len(attempts[x]) \in Nat
    <2>1. attempts'[x] \in Seq(Attempt) /\ attempts[x] \in Seq(Attempt)
      BY DEF OutcomeInv, DispatchTypeOK
    <2> QED
      BY <2>1
  <1>2. Owned(x)' <=> Owned(x)
    BY DEF Owned, SameAt
  <1>3. LastOpen(x)'
    BY <1>1 DEF ReceiptInv, LastOpen
  <1>4. HasSpare(x)'
    BY <1>1, <1>2 DEF ReceiptInv, HasSpare
  <1>5. OwnersKnow(x)'
    <2> SUFFICES ASSUME NEW u \in Task, NEW n \in Nat
                 PROVE  /\ Working(u, x, n)' =>
                             /\ AtLast(x, n)' /\ attempts'[x][n].st \in {"open", "wait"}
                             /\ At(u, "touch")' => attempts'[x][n].st = "wait"
                             /\ At(u, "retry")' => n < MaxAttempts
                        /\ Claimed(u, x, n)' => AtLast(x, n)' /\ attempts'[x][n].st = "open"
      BY DEF OwnersKnow
    <2>1. CASE Working(u, x, n) \/ Claimed(u, x, n)
      <3>1. Owned(x) /\ AtLast(x, n) /\ attempts[x][n].st \in {"open", "wait"}
        BY <2>1 DEF Owned, ReceiptInv, OwnersKnow
      <3>2. attempts'[x][n] = attempts[x][n] /\ AtLast(x, n)'
        BY <1>1, <3>1 DEF AtLast
      <3> QED
        BY <2>1, <3>2 DEF SameAt, ReceiptInv, OwnersKnow, At
    <2>2. CASE ~Working(u, x, n) /\ ~Claimed(u, x, n)
      BY <2>2 DEF SameAt
    <2> QED
      BY <2>1, <2>2
  <1>6. SweepKnows(x)'
    <2> SUFFICES ASSUME NEW u \in Task, NEW n \in Nat
                 PROVE  /\ Swept(u, x, n)' => state'[x] = "reserved" /\ n = Len(attempts'[x]) /\ ~Owned(x)'
                        /\ Reopening(u, x, n)' =>
                              /\ state'[x] = "reserved" /\ n = Len(attempts'[x]) + 1 /\ ~Owned(x)'
                              /\ \A m \in DOMAIN attempts'[x] : attempts'[x][m].st = "closed"
                              /\ \A m \in Nat : ~Swept(u, x, m)'
      BY DEF SweepKnows
    <2> QED
      BY <1>1, <1>2 DEF ReceiptInv, SweepKnows, SameAt
  <1> QED
    BY <1>3, <1>4, <1>5, <1>6 DEF ReceiptInv

LEMMA TickStartKnown ==
    ASSUME OutcomeInv, OutcomeInv', Counters, Known, NEW s \in Task, TickStart(s) PROVE Known'
  <1>1. /\ \A r \in Receipt : attempts'[r] = [n \in DOMAIN attempts[r] |->
             IF attempts[r][n].st = "stale" THEN Interrupt(attempts[r][n]) ELSE attempts[r][n]]
        /\ Goes(s, "claim") /\ UNCHANGED <<state, cur, out, back, todo, bounds>>
        /\ todo[s] = {} /\ pc[s] \in {"idle", "sweep"}
    BY DEF TickStart
  <1>2. pc'[s] = "claim" /\ OthersSame(s)
    BY <1>1, GoesFacts DEF OutcomeInv, PCs, OthersSame
  <1>3. Counters' /\ Cap' = Cap
    BY <1>1 DEF Counters, Cap, bounds
  <1> SUFFICES ASSUME NEW x \in Receipt PROVE ReceiptInv(x)'
    BY DEF Known
  <1>4. \A u \in Task, n \in Nat : SameAt(u, x, n) /\ (Working(u, x, n) => pc'[u] = pc[u])
    <2>1. \A n \in Nat : SameAt(s, x, n) /\ ~Working(s, x, n)
      BY <1>1, <1>2 DEF SameAt, Working, Claimed, Swept, Reopening, Busy, At
    <2> QED
      BY <1>2, <2>1, OthersAt DEF OthersSame
  <1>5. /\ DOMAIN attempts'[x] = DOMAIN attempts[x]
        /\ \A n \in DOMAIN attempts[x] :
              \/ attempts'[x][n] = attempts[x][n]
              \/ attempts'[x][n].st = "closed" /\ attempts[x][n].st = "stale"
    <2>1. attempts'[x] = [n \in DOMAIN attempts[x] |->
             IF attempts[x][n].st = "stale" THEN Interrupt(attempts[x][n]) ELSE attempts[x][n]]
      BY <1>1
    <2>2. \A n \in DOMAIN attempts[x] : Interrupt(attempts[x][n]).st = "closed"
      BY RowTypes, InterruptFacts DEF OutcomeInv
    <2> QED
      BY <2>1, <2>2
  <1> QED
    BY <1>1, <1>3, <1>4, <1>5, ClosedKnown DEF Known

(* What is owed, nobody is at.                                             *)
LEMMA OwedUnowned ==
    ASSUME OutcomeInv, NEW x \in Receipt, ReceiptInv(x), Owed(x) PROVE state[x] = "reserved" /\ ~Owned(x)
  <1>1. state[x] = "reserved"
    BY DEF Owed
  <1>2. ASSUME NEW t \in Task, NEW n \in Nat, Working(t, x, n) \/ Claimed(t, x, n) PROVE FALSE
    <2>1. AtLast(x, n) /\ attempts[x][n].st \in {"open", "wait"}
      BY <1>2 DEF ReceiptInv, OwnersKnow
    <2>2. PICK m \in DOMAIN attempts[x] : attempts[x][m].st = "due"
      BY <2>1 DEF Owed, AtLast
    <2>3. m = n
      BY <2>1, <2>2, RowLength DEF ReceiptInv, LastOpen, AtLast, OutcomeInv
    <2> QED
      BY <2>1, <2>2, <2>3
  <1> QED
    BY <1>1, <1>2 DEF Owned

LEMMA SweepReadKnown ==
    ASSUME OutcomeInv, Counters, Known, NEW s \in Task, SweepRead(s) PROVE Known'
  <1>1. /\ UNCHANGED <<state, attempts, cur, out, back, bounds>> /\ Goes(s, "sweep")
        /\ pc[s] \in {"claim", "drain"} /\ todo[s] = {}
        /\ todo' = [todo EXCEPT ![s] = {[receipt |-> r, attempt |-> Len(attempts[r])] :
                                           r \in {x \in Receipt : Owed(x)}}]
    BY DEF SweepRead, receipts
  <1>2. /\ pc'[s] = "sweep" /\ OthersSame(s)
        /\ todo'[s] = {Item(r, Len(attempts[r])) : r \in {x \in Receipt : Owed(x)}}
    BY <1>1, GoesFacts DEF OutcomeInv, DispatchTypeOK, PCs, OthersSame, Item
  <1>3. Cap' = Cap /\ Cap \in Nat
    BY <1>1, CapFacts DEF Cap, bounds
  <1> SUFFICES ASSUME NEW x \in Receipt PROVE ReceiptInv(x)'
    BY DEF Known
  <1>4. ReceiptInv(x)
    BY DEF Known
  <1>5. ASSUME NEW n \in Nat
        PROVE  /\ ~Working(s, x, n) /\ ~Claimed(s, x, n) /\ ~Working(s, x, n)' /\ ~Claimed(s, x, n)'
               /\ ~Reopening(s, x, n)'
               /\ Swept(s, x, n)' => Owed(x) /\ n = Len(attempts[x])
    <2>1. \A r : Item(x, n) = Item(r, Len(attempts[r])) => r = x /\ n = Len(attempts[x])
      BY DEF Item
    <2> QED
      BY <1>1, <1>2, <2>1 DEF Working, Claimed, Swept, Reopening, Busy, Draining, At
  <1>6. \A u \in Task, n \in Nat : /\ (Working(u, x, n)' <=> Working(u, x, n))
                                   /\ (Working(u, x, n) => pc'[u] = pc[u])
                                   /\ (Claimed(u, x, n)' <=> Claimed(u, x, n))
    BY <1>2, <1>5, OthersAt DEF SameAt, OthersSame
  <1>7. Owned(x)' <=> Owned(x)
    BY <1>6 DEF Owned
  <1>8. LastOpen(x)'
    BY <1>1, <1>4 DEF ReceiptInv, LastOpen
  <1>9. HasSpare(x)'
    BY <1>1, <1>3, <1>4, <1>7 DEF ReceiptInv, HasSpare
  <1>10. OwnersKnow(x)'
    BY <1>1, <1>4, <1>6 DEF ReceiptInv, OwnersKnow, AtLast, At
  <1>11. SweepKnows(x)'
    <2> SUFFICES ASSUME NEW u \in Task, NEW n \in Nat
                 PROVE  /\ Swept(u, x, n)' => state'[x] = "reserved" /\ n = Len(attempts'[x]) /\ ~Owned(x)'
                        /\ Reopening(u, x, n)' =>
                              /\ state'[x] = "reserved" /\ n = Len(attempts'[x]) + 1 /\ ~Owned(x)'
                              /\ \A m \in DOMAIN attempts'[x] : attempts'[x][m].st = "closed"
                              /\ \A m \in Nat : ~Swept(u, x, m)'
      BY DEF SweepKnows
    <2>1. CASE u = s
      BY <1>1, <1>4, <1>5, <1>7, <2>1, OwedUnowned
    <2>2. CASE u # s
      <3>1. \A m \in Nat : SameAt(u, x, m)
        BY <1>2, <2>2, OthersAt
      <3> QED
        BY <1>1, <1>4, <1>7, <3>1 DEF ReceiptInv, SweepKnows, SameAt
    <2> QED
      BY <2>1, <2>2
  <1> QED
    BY <1>8, <1>9, <1>10, <1>11 DEF ReceiptInv

(* What is left open on an owed receipt is closed.                         *)
LEMMA SweepCloseKnown ==
    ASSUME OutcomeInv, OutcomeInv', Counters, Known, NEW s \in Task, SweepClose(s) PROVE Known'
  <1>1. PICK c \in todo[s] :
          /\ cur' = [cur EXCEPT ![s] = [receipt |-> c.receipt, attempt |-> c.attempt + 1,
                                        event |-> FALSE]]
          /\ todo' = [todo EXCEPT ![s] = @ \ {c}]
          /\ attempts' = [attempts EXCEPT ![c.receipt] = [n \in DOMAIN @ |->
                            IF @[n].st = "closed" THEN @[n] ELSE Interrupt(@[n])]]
    BY DEF SweepClose
  <1>2. PICK r \in Receipt, n \in Nat : r = c.receipt /\ n = c.attempt /\ c = Item(r, n)
    BY DEF OutcomeInv, DispatchTypeOK, Item
  <1>3. At(s, "sweep") /\ Goes(s, "open") /\ UNCHANGED <<state, out, back, bounds>>
    BY DEF SweepClose
  <1>4. /\ pc'[s] = "open" /\ cur'[s].receipt = r /\ cur'[s].attempt = n + 1
        /\ todo'[s] = todo[s] \ {Item(r, n)} /\ OthersSame(s)
    BY <1>1, <1>2, <1>3, GoesFacts DEF OthersSame, OutcomeInv, DispatchTypeOK, PCs
  <1>5. /\ attempts'[r] = [m \in DOMAIN attempts[r] |->
             IF attempts[r][m].st = "closed" THEN attempts[r][m] ELSE Interrupt(attempts[r][m])]
        /\ \A x \in Receipt \ {r} : attempts'[x] = attempts[x]
    BY <1>1, <1>2 DEF OutcomeInv, DispatchTypeOK
  <1>6. /\ DOMAIN attempts'[r] = DOMAIN attempts[r] /\ Len(attempts'[r]) = Len(attempts[r])
        /\ Len(attempts[r]) \in Nat /\ \A m \in DOMAIN attempts'[r] : attempts'[r][m].st = "closed"
    <2>1. attempts'[r] \in Seq(Attempt) /\ attempts[r] \in Seq(Attempt)
      BY DEF OutcomeInv, DispatchTypeOK
    <2>2. \A m \in DOMAIN attempts[r] : Interrupt(attempts[r][m]).st = "closed"
      BY RowTypes, InterruptFacts DEF OutcomeInv
    <2>3. DOMAIN attempts'[r] = DOMAIN attempts[r]
      BY <1>5
    <2> QED
      BY <1>5, <2>1, <2>2, <2>3
  <1>7. ~Busy(s) /\ ~Busy(s)' /\ ~Draining(s) /\ ~Draining(s)' /\ Item(r, n) \in todo[s]
        /\ ~At(s, "open")
    BY <1>2, <1>3, <1>4 DEF Busy, Draining, At
  <1>8. ASSUME NEW x \in Receipt, NEW m \in Nat
        PROVE  /\ ~Working(s, x, m) /\ ~Claimed(s, x, m) /\ ~Reopening(s, x, m)
               /\ ~Working(s, x, m)' /\ ~Claimed(s, x, m)'
               /\ Reopening(s, x, m)' <=> (x = r /\ m = n + 1)
               /\ Swept(s, x, m)' <=> (Swept(s, x, m) /\ ~(x = r /\ m = n))
    <2>1. Item(x, m) = Item(r, n) <=> (x = r /\ m = n)
      BY DEF Item
    <2> QED
      BY <1>4, <1>7, <2>1 DEF Working, Claimed, Swept, Reopening, At
  <1>9. Counters' /\ Cap' = Cap /\ Cap \in Nat
    BY <1>3, CapFacts DEF Counters, Cap, bounds
  <1>10. ASSUME NEW x \in Receipt, x # r PROVE ReceiptInv(x)'
    <2>1. \A m \in Nat : SameAt(s, x, m) /\ ~Working(s, x, m)
      BY <1>8, <1>10 DEF SameAt
    <2> QED
      BY <1>3, <1>4, <1>5, <1>9, <1>10, <2>1, AloofStep DEF Known
  <1>11. ReceiptInv(r)'
    <2>1. Swept(s, r, n) /\ ReceiptInv(r)
      BY <1>7 DEF Swept, Known
    <2>2. state[r] = "reserved" /\ n = Len(attempts[r]) /\ ~Owned(r)
      BY <2>1 DEF ReceiptInv, SweepKnows
    <2>3. \A u \in Task, m \in Nat : ~Working(u, r, m)' /\ ~Claimed(u, r, m)'
      BY <1>4, <1>8, <2>2, OthersAt DEF Owned, SameAt
    <2>4. ~Owned(r)'
      BY <2>3 DEF Owned
    <2>5. LastOpen(r)'
      BY <1>6 DEF LastOpen
    <2>6. HasSpare(r)'
      BY <1>3, <1>6, <1>9, <2>1, <2>2 DEF ReceiptInv, HasSpare
    <2>7. OwnersKnow(r)'
      BY <2>3 DEF OwnersKnow
    <2>8. SweepKnows(r)'
      <3> SUFFICES ASSUME NEW u \in Task, NEW m \in Nat
                   PROVE  /\ Swept(u, r, m)' => state'[r] = "reserved" /\ m = Len(attempts'[r]) /\ ~Owned(r)'
                          /\ Reopening(u, r, m)' =>
                                /\ state'[r] = "reserved" /\ m = Len(attempts'[r]) + 1 /\ ~Owned(r)'
                                /\ \A k \in DOMAIN attempts'[r] : attempts'[r][k].st = "closed"
                                /\ \A k \in Nat : ~Swept(u, r, k)'
        BY DEF SweepKnows
      <3>1. CASE u = s
        <4>1. \A k \in Nat : ~Swept(s, r, k)'
          BY <1>8, <2>1, <2>2 DEF ReceiptInv, SweepKnows
        <4> QED
          BY <1>3, <1>6, <1>8, <2>2, <2>4, <3>1, <4>1
      <3>2. CASE u # s
        <4>1. \A k \in Nat : SameAt(u, r, k)
          BY <1>4, <3>2, OthersAt
        <4> QED
          BY <1>3, <1>6, <2>1, <2>2, <2>4, <4>1 DEF ReceiptInv, SweepKnows, SameAt
      <3> QED
        BY <3>1, <3>2
    <2> QED
      BY <2>5, <2>6, <2>7, <2>8 DEF ReceiptInv
  <1> QED
    BY <1>10, <1>11 DEF Known

(* The only tick loop reopens a receipt: nobody else is at it.             *)
LEMMA OnlyLoop ==
    ASSUME OneTickLoop, OutcomeInv, HandlersHandle, Known, NEW s \in Sweeper, At(s, "open"),
           NEW r \in Receipt, r = cur[s].receipt
    PROVE  /\ state[r] = "reserved" /\ cur[s].attempt = Len(attempts[r]) + 1 /\ ~Owned(r)
           /\ Len(attempts[r]) \in Nat
           /\ \A m \in DOMAIN attempts[r] : attempts[r][m].st = "closed"
           /\ \A u \in Task, m \in Nat : ~Swept(u, r, m) /\ (Reopening(u, r, m) => u = s)
  <1>1. s \in Task /\ cur[s].attempt \in Nat /\ Reopening(s, r, cur[s].attempt) /\ ReceiptInv(r)
    BY DEF Task, At, OutcomeInv, DispatchTypeOK, Placed, Reservation, Reopening, Known
  <1>2. /\ state[r] = "reserved" /\ cur[s].attempt = Len(attempts[r]) + 1 /\ ~Owned(r)
        /\ \A m \in DOMAIN attempts[r] : attempts[r][m].st = "closed"
        /\ \A m \in Nat : ~Swept(s, r, m)
    BY <1>1 DEF ReceiptInv, SweepKnows
  <1>3. ASSUME NEW u \in Task, u # s, NEW m \in Nat PROVE ~Swept(u, r, m) /\ ~Reopening(u, r, m)
    <2>1. u \in Handler
      BY <1>3 DEF OneTickLoop, Task
    <2> QED
      BY <2>1 DEF HandlersHandle, Swept, Reopening, At
  <1> QED
    BY <1>1, <1>2, <1>3, RowLength DEF OutcomeInv

LEMMA SweepOpenKnown ==
    ASSUME OneTickLoop, OutcomeInv, OutcomeInv', Counters, HandlersHandle, Known, NEW s \in Sweeper,
           SweepOpen(s)
    PROVE  Known'
  <1>1. s \in Task /\ At(s, "open") /\ cur[s] \in Reservation /\ UNCHANGED <<out, bounds>>
    BY DEF Task, SweepOpen, At, OutcomeInv, DispatchTypeOK, Placed
  <1>2. PICK c \in Reservation : c = cur[s]
    BY <1>1
  <1>3. PICK r \in Receipt : r = c.receipt
    BY DEF Reservation
  <1>4. /\ state[r] = "reserved" /\ c.attempt = Len(attempts[r]) + 1 /\ ~Owned(r)
        /\ Len(attempts[r]) \in Nat
        /\ \A m \in DOMAIN attempts[r] : attempts[r][m].st = "closed"
        /\ \A u \in Task, m \in Nat : ~Swept(u, r, m) /\ (Reopening(u, r, m) => u = s)
    BY <1>1, <1>2, <1>3, OnlyLoop
  <1>5. Counters' /\ Cap' = Cap /\ Cap \in Nat
    BY <1>1, CapFacts DEF Counters, Cap, bounds
  <1>6. ~Busy(s) /\ ~Draining(s) /\ ReceiptInv(r)
    BY <1>1 DEF At, Busy, Draining, Known
  <1>7. \A u \in Task, m \in Nat : ~Working(u, r, m) /\ ~Claimed(u, r, m)
    BY <1>4 DEF Owned
  <1>8. \A x \in Receipt, m \in Nat : x # r => ~Reopening(s, x, m)
    BY <1>2, <1>3 DEF Reopening
  <1>9. CASE /\ state' = [state EXCEPT ![r] = "abandoned"] /\ cur' = [cur EXCEPT ![s] = None]
             /\ Goes(s, "sweep") /\ UNCHANGED <<attempts, back, todo>>
    <2>1. pc'[s] = "sweep" /\ OthersSame(s)
      BY <1>1, <1>9, GoesFacts DEF OthersSame, OutcomeInv, DispatchTypeOK, PCs
    <2>2. \A x \in Receipt, m \in Nat :
             /\ ~Working(s, x, m)' /\ ~Working(s, x, m) /\ ~Claimed(s, x, m)' /\ ~Claimed(s, x, m)
             /\ ~Reopening(s, x, m)' /\ (Swept(s, x, m)' <=> Swept(s, x, m))
      BY <1>6, <1>9, <2>1 DEF Working, Claimed, Swept, Reopening, Busy, Draining, At
    <2>3. ASSUME NEW x \in Receipt, x # r PROVE ReceiptInv(x)'
      <3>1. state'[x] = state[x] /\ attempts'[x] = attempts[x]
        BY <1>9, <2>3 DEF OutcomeInv, DispatchTypeOK
      <3>2. \A m \in Nat : SameAt(s, x, m) /\ ~Working(s, x, m)
        BY <1>8, <2>2, <2>3 DEF SameAt
      <3> QED
        BY <1>1, <1>5, <2>1, <2>3, <3>1, <3>2, AloofStep DEF Known
    <2>4. \A u \in Task, m \in Nat :
             ~Working(u, r, m)' /\ ~Claimed(u, r, m)' /\ ~Swept(u, r, m)' /\ ~Reopening(u, r, m)'
      BY <1>4, <1>7, <2>1, <2>2, OthersAt DEF SameAt
    <2>5. state'[r] = "abandoned"
      BY <1>9 DEF OutcomeInv, DispatchTypeOK
    <2>6. LastOpen(r)' /\ HasSpare(r)'
      BY <1>5, <1>6, <1>9, <2>5 DEF ReceiptInv, LastOpen, HasSpare
    <2>7. OwnersKnow(r)' /\ SweepKnows(r)'
      BY <2>4 DEF OwnersKnow, SweepKnows
    <2> QED
      BY <2>3, <2>6, <2>7 DEF Known, ReceiptInv
  <1>10. CASE /\ attempts' = [attempts EXCEPT ![r] = Append(@, Fresh)]
              /\ Dispatches(s, c, "sweep") /\ UNCHANGED <<todo, state>>
    <2>1. pc'[s] = "gate" /\ cur'[s] = c /\ OthersSame(s) /\ Busy(s)' /\ ~Draining(s)'
      BY <1>1, <1>10, DispatchesFacts DEF OthersSame
    <2>2. ASSUME NEW x \in Receipt, NEW m \in Nat
          PROVE  /\ ~Working(s, x, m) /\ ~Claimed(s, x, m)' /\ ~Claimed(s, x, m)
                 /\ ~Reopening(s, x, m)' /\ (Swept(s, x, m)' <=> Swept(s, x, m))
                 /\ Working(s, x, m)' <=> (x = r /\ m = c.attempt)
      BY <1>3, <1>6, <1>10, <2>1 DEF Working, Claimed, Swept, Reopening, At
    <2>3. ASSUME NEW x \in Receipt, x # r PROVE ReceiptInv(x)'
      <3>1. state'[x] = state[x] /\ attempts'[x] = attempts[x]
        BY <1>10, <2>3 DEF OutcomeInv, DispatchTypeOK
      <3>2. \A m \in Nat : SameAt(s, x, m) /\ ~Working(s, x, m)
        BY <1>8, <2>2, <2>3 DEF SameAt
      <3> QED
        BY <1>1, <1>5, <2>1, <2>3, <3>1, <3>2, AloofStep DEF Known
    <2>4. \A u \in Task, m \in Nat :
             /\ Working(u, r, m)' => u = s /\ m = c.attempt
             /\ ~Claimed(u, r, m)' /\ ~Swept(u, r, m)' /\ ~Reopening(u, r, m)'
      BY <1>4, <1>7, <2>1, <2>2, OthersAt DEF SameAt
    <2>5. /\ Len(attempts'[r]) = Len(attempts[r]) + 1 /\ attempts'[r][c.attempt].st = "open"
          /\ DOMAIN attempts'[r] = 1..(Len(attempts[r]) + 1) /\ DOMAIN attempts[r] = 1..Len(attempts[r])
          /\ \A m \in DOMAIN attempts[r] : attempts'[r][m] = attempts[r][m]
      <3>1. attempts'[r] = Append(attempts[r], Fresh) /\ attempts[r] \in Seq(Attempt)
        BY <1>10 DEF OutcomeInv, DispatchTypeOK
      <3>2. Fresh.st = "open" /\ Fresh \in Attempt
        BY FreshFacts DEF Fresh
      <3> QED
        BY <1>4, <3>1, <3>2
    <2>6. LastOpen(r)'
      <3> SUFFICES ASSUME NEW m \in DOMAIN attempts'[r]
                   PROVE  /\ m < Len(attempts'[r]) => attempts'[r][m].st = "closed"
                          /\ attempts'[r][m].st \in {"wait", "due"} => m < MaxAttempts
        BY DEF LastOpen
      <3>1. CASE m = c.attempt
        BY <1>4, <2>5, <3>1
      <3>2. CASE m # c.attempt
        BY <1>4, <2>5, <3>2
      <3> QED
        BY <3>1, <3>2
    <2>7. HasSpare(r)'
      <3>1. Len(attempts[r]) < Cap
        BY <1>4, <1>6 DEF ReceiptInv, HasSpare
      <3>2. c.attempt \in Nat
        BY DEF Reservation
      <3>3. Owned(r)'
        BY <1>1, <2>2, <3>2 DEF Owned
      <3> QED
        BY <1>4, <1>5, <2>5, <3>1, <3>3 DEF HasSpare
    <2>8. OwnersKnow(r)'
      BY <1>4, <1>10, <2>1, <2>4, <2>5 DEF OwnersKnow, AtLast, At
    <2>9. SweepKnows(r)'
      BY <2>4 DEF SweepKnows
    <2> QED
      BY <2>3, <2>6, <2>7, <2>8, <2>9 DEF Known, ReceiptInv
  <1> QED
    BY <1>2, <1>3, <1>4, <1>9, <1>10 DEF SweepOpen

-----------------------------------------------------------------------------
(* Time keeps what is known as long as it overtakes no task                *)

LEMMA GrowKnown ==
    ASSUME OutcomeInv, OutcomeInv', Counters, HandlersHandle, Known, NEW r \in Receipt,
           NEW n \in DOMAIN attempts[r], GrowStale(r, n) \/ GrowDue(r, n), stalls' = stalls
    PROVE  Known'
  <1>1. PICK st \in AttemptState :
          /\ attempts' = [attempts EXCEPT ![r][n].st = st]
          /\ \/ attempts[r][n].st = "open" /\ st = "stale"
             \/ attempts[r][n].st = "wait" /\ st = "due"
    BY DEF GrowStale, GrowDue, AttemptState
  <1>2. UNCHANGED <<state, task, crashes, errors>> /\ ~Overtaken(r, n)
    BY DEF GrowStale, GrowDue, Overtakes, Counters
  <1> DEFINE a == [attempts[r][n] EXCEPT !.st = st]
  <1>3. a \in Attempt /\ a.st = st
    BY RowTypes DEF OutcomeInv, Attempt
  <1>4. attempts' = [attempts EXCEPT ![r][n] = a]
    BY <1>1
  <1> HIDE DEF a
  <1>5. /\ attempts' \in [Receipt -> Seq(Attempt)]
        /\ \A x \in Receipt : DOMAIN attempts'[x] = DOMAIN attempts[x]
        /\ attempts'[r][n] = a
        /\ \A x \in Receipt : \A m \in DOMAIN attempts[x] :
              x # r \/ m # n => attempts'[x][m] = attempts[x][m]
    BY <1>3, <1>4, RewriteTypes DEF OutcomeInv
  <1>6. \A x \in Receipt \ {r} : attempts'[x] = attempts[x]
    BY <1>4 DEF OutcomeInv, DispatchTypeOK
  <1>7. Cap' = Cap
    BY <1>2 DEF Cap
  <1>8. \A u \in Task, x \in Receipt, m \in Nat : SameAt(u, x, m)
    BY <1>2 DEF task, SameAt, Working, Claimed, Swept, Reopening, Busy, Draining, At
  <1>9. \A x \in Receipt : Owned(x)' <=> Owned(x)
    BY <1>8 DEF Owned, SameAt
  <1>10. ASSUME NEW x \in Receipt, x # r PROVE ReceiptInv(x)'
    <2>1. ReceiptInv(x) /\ state'[x] = state[x] /\ attempts'[x] = attempts[x]
      BY <1>2, <1>6, <1>10 DEF Known
    <2>2. LastOpen(x)' /\ HasSpare(x)'
      BY <1>7, <1>9, <2>1 DEF ReceiptInv, LastOpen, HasSpare
    <2>3. OwnersKnow(x)'
      BY <1>2, <1>8, <2>1 DEF ReceiptInv, OwnersKnow, SameAt, AtLast, At, task
    <2>4. SweepKnows(x)'
      BY <1>8, <1>9, <2>1 DEF ReceiptInv, SweepKnows, SameAt
    <2> QED
      BY <2>2, <2>3, <2>4 DEF ReceiptInv
  <1>11. ReceiptInv(r)'
    <2>1. ReceiptInv(r) /\ Len(attempts[r]) \in Nat /\ DOMAIN attempts[r] = 1..Len(attempts[r])
      BY RowLength DEF Known, OutcomeInv
    <2>2. n = Len(attempts[r])
      BY <1>1, <2>1 DEF ReceiptInv, LastOpen
    <2>3. ~Owned(r)
      <3>1. ASSUME NEW t \in Task, NEW m \in Nat, Working(t, r, m) PROVE FALSE
        <4>1. m = n
          BY <2>1, <2>2, <3>1 DEF ReceiptInv, OwnersKnow, AtLast
        <4> QED
          BY <1>2, <3>1, <4>1 DEF Overtaken, Works, Working, Busy
      <3>2. ASSUME NEW t \in Task, NEW m \in Nat, Claimed(t, r, m) PROVE FALSE
        <4>1. Item(r, m) \in todo[t] /\ Item(r, m).receipt = r
          BY <3>2 DEF Claimed, Item
        <4>2. t \in Sweeper
          BY <4>1 DEF HandlersHandle, Task
        <4>3. pc[t] \in {"claim", "drain"} \/ back[t] = "drain"
          BY <3>2 DEF Claimed, Draining
        <4> QED
          BY <1>2, <4>1, <4>2, <4>3 DEF Overtaken
      <3> QED
        BY <3>1, <3>2 DEF Owned
    <2>4. Len(attempts'[r]) = Len(attempts[r])
      <3>1. attempts'[r] \in Seq(Attempt) /\ attempts[r] \in Seq(Attempt)
        BY <1>5 DEF OutcomeInv, DispatchTypeOK
      <3> QED
        BY <1>5, <3>1
    <2>5. LastOpen(r)'
      <3> SUFFICES ASSUME NEW m \in DOMAIN attempts'[r]
                   PROVE  /\ m < Len(attempts'[r]) => attempts'[r][m].st = "closed"
                          /\ attempts'[r][m].st \in {"wait", "due"} => m < MaxAttempts
        BY DEF LastOpen
      <3>1. CASE m = n
        <4>1. attempts'[r][m].st = st
          BY <1>3, <1>5, <3>1
        <4>2. attempts[r][n].st = "wait" => n < MaxAttempts
          BY <2>1 DEF ReceiptInv, LastOpen
        <4> QED
          BY <1>1, <2>1, <2>2, <2>4, <3>1, <4>1, <4>2
      <3>2. CASE m # n
        BY <1>5, <2>1, <2>4, <3>2 DEF ReceiptInv, LastOpen
      <3> QED
        BY <3>1, <3>2
    <2>6. HasSpare(r)'
      BY <1>2, <1>7, <1>9, <2>1, <2>4 DEF ReceiptInv, HasSpare
    <2>7. OwnersKnow(r)'
      BY <1>8, <2>3 DEF OwnersKnow, SameAt, Owned
    <2>8. SweepKnows(r)'
      <3> SUFFICES ASSUME NEW u \in Task, NEW m \in Nat
                   PROVE  /\ Swept(u, r, m)' => state'[r] = "reserved" /\ m = Len(attempts'[r]) /\ ~Owned(r)'
                          /\ ~Reopening(u, r, m)'
        BY DEF SweepKnows
      <3>1. ~Reopening(u, r, m)
        BY <1>1, <2>1 DEF ReceiptInv, SweepKnows
      <3> QED
        BY <1>2, <1>8, <1>9, <2>1, <2>3, <2>4, <3>1 DEF ReceiptInv, SweepKnows, SameAt
    <2> QED
      BY <2>5, <2>6, <2>7, <2>8 DEF ReceiptInv
  <1> QED
    BY <1>10, <1>11 DEF Known

-----------------------------------------------------------------------------
(* The invariant                                                           *)

LEMMA DispatchKnown ==
    ASSUME OutcomeInv, OutcomeInv', Counters, Known, NEW t \in Task, Dispatch(t) PROVE Known'
  <1>0. Counters' /\ Cap' = Cap /\ UNCHANGED bounds /\ Cap \in Nat
    BY CapFacts DEF Dispatch, Gate, StartRun, StartFails, MarkRetry, Touch, Finish, FinishFailed,
                    bounds, Counters, Cap
  <1>1. CASE Gate(t) \/ StartRun(t) \/ StartFails(t)
    <2>1. Busy(t) /\ UNCHANGED <<state, attempts, cur, back, todo>>
      BY <1>1 DEF Gate, StartRun, StartFails, At, Busy, receipts
    <2>2. \/ Goes(t, "finish") \/ Goes(t, "start")
          \/ Goes(t, "retry") /\ MayRetry(cur[t])
      BY <1>1 DEF Gate, StartRun, StartFails, Records
    <2>3. /\ OthersSame(t) /\ pc'[t] \in {"start", "retry", "finish"}
          /\ pc'[t] = "retry" => MayRetry(cur[t])
      BY <2>1, <2>2, GoesFacts DEF OutcomeInv, PCs, OthersSame
    <2> QED
      BY <1>0, <2>1, <2>3, BusyKnown
  <1>2. CASE MarkRetry(t)
    BY <1>0, <1>2, MarkRetryKnown
  <1>3. CASE Touch(t)
    BY <1>3, TouchKnown
  <1>4. CASE Finish(t)
    <2>1. Busy(t) /\ Settle(t, out[t]) /\ Return(t) /\ UNCHANGED todo
      BY <1>4 DEF Finish, At, Busy
    <2>2. PICK o \in Outcome : o = out[t]
      BY DEF OutcomeInv, DispatchTypeOK
    <2> QED
      BY <1>0, <2>1, <2>2, SettleKnown
  <1>5. CASE FinishFailed(t)
    <2>1. Busy(t) /\ Settle(t, "error") /\ Return(t) /\ UNCHANGED todo /\ "error" \in Outcome
      BY <1>5 DEF FinishFailed, At, Busy, Outcome
    <2> QED
      BY <1>0, <2>1, SettleKnown
  <1> QED
    BY <1>1, <1>2, <1>3, <1>4, <1>5 DEF Dispatch

LEMMA TickKnown ==
    ASSUME OneTickLoop, OutcomeInv, OutcomeInv', Counters, Counters', HandlersHandle, Known,
           NEW s \in Sweeper, Tick(s) \/ TickError(s) \/ \E r \in Receipt : Claim(s, r)
    PROVE  Known'
  <1>1. s \in Task
    BY DEF Task
  <1> QED
    BY <1>1, TickStartKnown, DispatchClaimedKnown, SweepReadKnown, SweepCloseKnown, SweepOpenKnown,
       TickErrorKnown, ClaimKnown DEF Tick

LEMMA CountersStep ==
    ASSUME Counters, [Next]_vars
    PROVE  Counters' /\ (stalls' = 0 => stalls = 0)
  <1>1. CASE UNCHANGED bounds
    BY <1>1 DEF Counters, bounds
  <1>2. CASE (\E t \in Task : StoreError(t)) \/ (\E s \in Sweeper : TickError(s)) \/ Crash
    BY <1>2 DEF StoreError, TickError, Crash, Counters
  <1>3. CASE Clock
    BY <1>3 DEF Clock, GrowOld, GrowStale, GrowDue, Overtakes, Counters, bounds
  <1>4. \/ UNCHANGED bounds \/ Clock \/ Crash \/ Toggle
        \/ \E t \in Task : StoreError(t)
        \/ \E s \in Sweeper : TickError(s)
    <2>1. ASSUME NEW s \in Sweeper, Tick(s) \/ \E r \in Receipt : Claim(s, r) PROVE UNCHANGED bounds
      BY <2>1 DEF Tick, TickStart, DispatchClaimed, SweepRead, SweepClose, SweepOpen, Claim
    <2>2. ASSUME NEW h \in Handler, ReserveEvent(h) \/ \E r \in Receipt : Deliver(h, r)
          PROVE  UNCHANGED bounds
      BY <2>2 DEF ReserveEvent, Deliver
    <2>3. ASSUME NEW t \in Task, Dispatch(t) PROVE UNCHANGED bounds
      BY <2>3 DEF Dispatch, Gate, StartRun, StartFails, MarkRetry, Touch, Finish, FinishFailed
    <2>4. ASSUME (\E r \in Receipt : RunEnds(r)) \/ UNCHANGED vars PROVE UNCHANGED bounds
      BY <2>4 DEF RunEnds, vars
    <2> QED
      BY <2>1, <2>2, <2>3, <2>4 DEF Next
  <1>5. CASE Toggle
    BY <1>5 DEF Toggle, Counters
  <1> QED
    BY <1>1, <1>2, <1>3, <1>4, <1>5

LEMMA HandlersStep ==
    ASSUME OutcomeInv, HandlersHandle, [Next]_vars PROVE HandlersHandle'
  <1> SUFFICES ASSUME NEW h \in Handler PROVE todo'[h] = {} /\ pc'[h] # "open"
    BY DEF HandlersHandle
  <1>0. h \in Task /\ todo[h] = {} /\ pc[h] # "open" /\ h \notin Sweeper
    BY DispatchAssumption DEF HandlersHandle, Task
  <1>1. ASSUME NEW s \in Sweeper, Tick(s) \/ TickError(s) \/ \E r \in Receipt : Claim(s, r)
        PROVE  todo'[h] = todo[h] /\ pc'[h] = pc[h]
    <2>1. s # h
      BY <1>0
    <2> QED
      BY <1>0, <1>1, <2>1 DEF Tick, TickStart, DispatchClaimed, SweepRead, SweepClose, SweepOpen, Claim,
         TickError, Goes, Dispatches, OutcomeInv, DispatchTypeOK
  <1>2. ASSUME NEW g \in Handler, ReserveEvent(g) \/ \E r \in Receipt : Deliver(g, r)
        PROVE  todo'[h] = {} /\ pc'[h] # "open"
    BY <1>0, <1>2 DEF ReserveEvent, Deliver, Dispatches, Goes, OutcomeInv, DispatchTypeOK
  <1>3. ASSUME NEW t \in Task, Dispatch(t) \/ StoreError(t) PROVE todo'[h] = {} /\ pc'[h] # "open"
    <2>1. back[t] # "open"
      BY DEF OutcomeInv, DispatchTypeOK
    <2>2. todo' = todo /\ \E p \in PCs \ {"open"} : Goes(t, p)
      BY <1>3, <2>1 DEF Dispatch, Gate, StartRun, StartFails, MarkRetry, Touch, Finish, FinishFailed,
         StoreError, Records, Return, PCs, OutcomeInv, DispatchTypeOK
    <2> QED
      BY <1>0, <2>2 DEF Goes, OutcomeInv, DispatchTypeOK
  <1>4. CASE Clock \/ (\E r \in Receipt : RunEnds(r)) \/ Toggle \/ UNCHANGED vars
    <2>1. UNCHANGED <<pc, todo>>
      BY <1>4 DEF Clock, GrowOld, GrowStale, GrowDue, RunEnds, Toggle, vars, task
    <2> QED
      BY <1>0, <2>1
  <1>5. CASE Crash
    BY <1>0, <1>5 DEF Crash
  <1> QED
    BY <1>0, <1>1, <1>2, <1>3, <1>4, <1>5 DEF Next

LEMMA KnownStep ==
    ASSUME OneTickLoop, OutcomeInv, OutcomeInv', SettleInv, [Next]_vars, stalls' = 0 PROVE Known'
  <1>1. Counters /\ Counters' /\ HandlersHandle /\ stalls = 0 /\ Known
    BY CountersStep DEF SettleInv, Known
  <1>2. ASSUME NEW s \in Sweeper, Tick(s) \/ TickError(s) \/ \E r \in Receipt : Claim(s, r)
        PROVE  Known'
    BY <1>1, <1>2, TickKnown
  <1>3. ASSUME NEW h \in Handler, ReserveEvent(h) \/ \E r \in Receipt : Deliver(h, r) PROVE Known'
    <2>1. h \in Task
      BY DEF Task
    <2> QED
      BY <1>1, <1>3, <2>1, ReserveKnown, DeliverKnown
  <1>4. ASSUME NEW t \in Task, Dispatch(t) \/ StoreError(t) PROVE Known'
    BY <1>1, <1>4, DispatchKnown, StoreErrorKnown
  <1>5. ASSUME NEW r \in Receipt, GrowOld(r) PROVE Known'
    <2>1. UNCHANGED <<state, attempts, task, crashes, errors>>
      BY <1>5 DEF GrowOld, bounds
    <2> QED
      BY <1>1, <2>1, QuietKnown
  <1>6. ASSUME NEW r \in Receipt, NEW n \in DOMAIN attempts[r], GrowStale(r, n) \/ GrowDue(r, n)
        PROVE  Known'
    BY <1>1, <1>6, GrowKnown
  <1>7. CASE (\E r \in Receipt : RunEnds(r)) \/ Toggle \/ UNCHANGED vars
    <2>1. UNCHANGED <<state, attempts, task, crashes, errors>>
      BY <1>7 DEF RunEnds, Toggle, vars, receipts, bounds
    <2> QED
      BY <1>1, <2>1, QuietKnown
  <1>8. CASE Crash
    BY <1>1, <1>8, CrashKnown
  <1> QED
    BY <1>2, <1>3, <1>4, <1>5, <1>6, <1>7, <1>8 DEF Next, Clock

LEMMA SettleInitially == ASSUME Init PROVE SettleInv
  <1>1. Counters /\ HandlersHandle
    BY DEF Init, Counters, HandlersHandle, Task
  <1>2. \A t \in Task, r \in Receipt, n \in Nat :
           ~Working(t, r, n) /\ ~Claimed(t, r, n) /\ ~Swept(t, r, n) /\ ~Reopening(t, r, n)
    BY DEF Init, Working, Claimed, Swept, Reopening, Busy, At
  <1>3. ASSUME NEW r \in Receipt PROVE ReceiptInv(r)
    <2>1. attempts[r] = <<>> /\ state[r] = "none" /\ Len(attempts[r]) = 0
      BY DEF Init
    <2>2. LastOpen(r) /\ HasSpare(r)
      BY <1>1, <2>1, CapFacts DEF LastOpen, HasSpare
    <2>3. OwnersKnow(r) /\ SweepKnows(r)
      BY <1>2 DEF OwnersKnow, SweepKnows
    <2> QED
      BY <2>2, <2>3 DEF ReceiptInv
  <1> QED
    BY <1>1, <1>3 DEF SettleInv

LEMMA SettleKept ==
    ASSUME OneTickLoop, OutcomeInv, OutcomeInv', SettleInv, [Next]_vars PROVE SettleInv'
  <1>1. Counters' /\ HandlersHandle'
    BY CountersStep, HandlersStep DEF SettleInv
  <1>2. stalls' = 0 => Known'
    BY KnownStep
  <1> QED
    BY <1>1, <1>2 DEF SettleInv, Known

(* A settled receipt is only ever rewritten by a task that holds it.       *)
LEMMA SettledStays ==
    ASSUME OneTickLoop, OutcomeInv, SettleInv, Next, stalls' = 0, NEW r \in Receipt, state[r] \in Settled
    PROVE  state'[r] = state[r]
  <1>1. Counters /\ HandlersHandle /\ Known
    BY CountersStep DEF SettleInv, Known
  <1>2. state[r] # "reserved" /\ state[r] # "none"
    BY DEF Settled
  <1>3. ASSUME NEW t \in Task, Busy(t) PROVE cur[t].receipt # r
    <2>1. cur[t].receipt \in Receipt /\ cur[t].attempt \in Nat
          /\ Working(t, cur[t].receipt, cur[t].attempt)
      BY <1>3, BusyReservation
    <2>2. AtLast(cur[t].receipt, cur[t].attempt)
      BY <1>1, <2>1 DEF Known, ReceiptInv, OwnersKnow
    <2> QED
      BY <1>2, <2>2 DEF AtLast
  <1>4. ASSUME NEW s \in Sweeper, SweepOpen(s) PROVE state'[r] = state[r]
    <2>1. At(s, "open") /\ cur[s].receipt \in Receipt
      BY <1>4 DEF SweepOpen, At, OutcomeInv, DispatchTypeOK, Placed, Reservation, Task
    <2>2. state[cur[s].receipt] = "reserved"
      BY <1>1, <2>1, OnlyLoop
    <2> QED
      BY <1>2, <1>4, <2>1, <2>2 DEF SweepOpen, OutcomeInv, DispatchTypeOK
  <1>5. ASSUME NEW x \in Receipt, state[x] = "none", Insert(x) PROVE state'[r] = state[r]
    BY <1>2, <1>5, InsertRows
  <1>6. ASSUME NEW t \in Task, Touch(t) \/ Finish(t) \/ FinishFailed(t) PROVE state'[r] = state[r]
    <2>1. Busy(t)
      BY <1>6 DEF Touch, Finish, FinishFailed, At, Busy
    <2> QED
      BY <1>3, <1>6, <2>1 DEF Touch, Finish, FinishFailed, Settle, OutcomeInv, DispatchTypeOK
  <1>7. ASSUME NEW h \in Handler, ReserveEvent(h) PROVE state'[r] = state[r]
    <2>1. cur[h].receipt \in Receipt
      BY <1>7 DEF ReserveEvent, At, OutcomeInv, DispatchTypeOK, Placed, Reservation, Task
    <2> QED
      BY <1>5, <1>7, <2>1 DEF ReserveEvent, receipts
  <1>8. ASSUME NEW s \in Sweeper, Tick(s) \/ TickError(s) \/ \E x \in Receipt : Claim(s, x)
        PROVE  state'[r] = state[r]
    BY <1>4, <1>5, <1>8 DEF Tick, TickStart, DispatchClaimed, SweepRead, SweepClose, TickError, Claim, receipts
  <1>9. ASSUME NEW t \in Task, Dispatch(t) \/ StoreError(t) PROVE state'[r] = state[r]
    BY <1>6, <1>9 DEF Dispatch, Gate, StartRun, StartFails, MarkRetry, StoreError, receipts
  <1>10. CASE Clock \/ (\E x \in Receipt : RunEnds(x)) \/ Toggle \/ Crash
              \/ \E h \in Handler, x \in Receipt : Deliver(h, x)
    BY <1>10 DEF Clock, GrowOld, GrowStale, GrowDue, RunEnds, Toggle, Crash, Deliver, receipts
  <1> QED
    BY <1>7, <1>8, <1>9, <1>10 DEF Next

(* With one tick loop, a receipt has at most max_attempts attempts, and    *)
(* one more for each crash and each failed statement, for any number of    *)
(* receipts and deliveries, as long as no attempt was given up under the   *)
(* task that works at it (dispatch: next_attempt <= max_attempts;          *)
(* sweep_pending: one attempt more for what was left behind).              *)
THEOREM AttemptsAreBounded ==
    ASSUME OneTickLoop PROVE SafetySpec => []AttemptsBounded
  <1>1. SettleInv => AttemptsBounded
    BY DEF SettleInv, AttemptsBounded, ReceiptInv, HasSpare, Cap
  <1>2. Init => OutcomeInv /\ SettleInv
    BY OutcomeInitially, SettleInitially
  <1>3. OutcomeInv /\ SettleInv /\ [Next]_vars => (OutcomeInv /\ SettleInv)'
    BY OutcomeKept, SettleKept
  <1> QED
    BY <1>1, <1>2, <1>3, PTL DEF SafetySpec

(* With one tick loop, a receipt is settled once: after finish or an       *)
(* abandoning sweep no dispatch, sweep, delivery, error or crash moves it, *)
(* as long as no attempt was given up under the task that works at it.     *)
THEOREM ReceiptsSettleOnce ==
    ASSUME OneTickLoop PROVE SafetySpec => SettledOnce
  <1>1. Init => OutcomeInv /\ SettleInv
    BY OutcomeInitially, SettleInitially
  <1>2. OutcomeInv /\ SettleInv /\ [Next]_vars => (OutcomeInv /\ SettleInv)'
    BY OutcomeKept, SettleKept
  <1>3. OutcomeInv /\ SettleInv /\ [Next]_vars =>
          [\A r \in Receipt : (stalls' = 0 /\ state[r] \in Settled) => state'[r] = state[r]]_vars
    BY SettledStays
  <1> QED
    BY <1>1, <1>2, <1>3, PTL DEF SafetySpec, SettledOnce

=============================================================================
