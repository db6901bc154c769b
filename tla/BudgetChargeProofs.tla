------------------------- MODULE BudgetChargeProofs -------------------------
(* Proofs about the budget accounting: sums that saturate, the verdicts    *)
(* drawn from them, and sums over sets of nodes.                           *)
EXTENDS BudgetCharge, FiniteSets, FiniteSetTheorems, WellFoundedInduction, TLAPS

----------------------------------------------------------------------------
(* Saturating sums stay in range, never exceed the exact sum, and grow     *)
(* with their operands.                                                    *)
LEMMA SaturatingAddFacts ==
    ASSUME NEW x \in U64, NEW y \in U64, NEW v \in U64, NEW w \in U64
    PROVE  /\ SaturatingAdd(x, y) \in U64
           /\ SaturatingAdd(x, y) <= x + y
           /\ x <= v /\ y <= w => SaturatingAdd(x, y) <= SaturatingAdd(v, w)
  BY NumberAssumption DEF U64, SaturatingAdd

(* The same for spends that may be unmeasured. *)
LEMMA AddMeasuredFacts ==
    ASSUME NEW x \in Optional, NEW y \in Optional, NEW v \in Optional, NEW w \in Optional
    PROVE  /\ AddMeasured(x, y) \in Optional
           /\ AtMost(x, v) /\ AtMost(y, w) => AtMost(AddMeasured(x, y), AddMeasured(v, w))
<1>1. AddMeasured(x, y) \in Optional
  BY SaturatingAddFacts, NumberAssumption DEF AddMeasured, Optional
<1>2. ASSUME AtMost(x, v), AtMost(y, w) PROVE AtMost(AddMeasured(x, y), AddMeasured(v, w))
  <2>1. None \notin U64
    BY NumberAssumption DEF U64
  <2>2. CASE x = None /\ y = None
    BY <2>2 DEF AtMost, AddMeasured
  <2>3. CASE x # None /\ y # None
    <3>1. x \in U64 /\ y \in U64 /\ v \in U64 /\ w \in U64 /\ x <= v /\ y <= w
      BY <1>2, <2>3 DEF AtMost, Optional
    <3> QED
      BY <2>1, <2>3, <3>1, SaturatingAddFacts DEF AtMost, AddMeasured
  <2>4. CASE x # None /\ y = None
    <3>1. x \in U64 /\ v \in U64 /\ x <= v
      BY <1>2, <2>4 DEF AtMost, Optional
    <3>2. CASE w = None
      BY <2>1, <2>4, <3>1, <3>2 DEF AtMost, AddMeasured
    <3>3. CASE w # None
      <4>1. w \in U64 /\ x <= SaturatingAdd(v, w)
        BY <3>1, <3>3, NumberAssumption DEF Optional, U64, SaturatingAdd
      <4> QED
        BY <2>1, <2>4, <3>1, <3>3, <4>1, SaturatingAddFacts DEF AtMost, AddMeasured
    <3> QED
      BY <3>2, <3>3
  <2>5. CASE x = None /\ y # None
    <3>1. y \in U64 /\ w \in U64 /\ y <= w
      BY <1>2, <2>5 DEF AtMost, Optional
    <3>2. CASE v = None
      BY <2>1, <2>5, <3>1, <3>2 DEF AtMost, AddMeasured
    <3>3. CASE v # None
      <4>1. v \in U64 /\ y <= SaturatingAdd(v, w)
        BY <3>1, <3>3, NumberAssumption DEF Optional, U64, SaturatingAdd
      <4> QED
        BY <2>1, <2>5, <3>1, <3>3, <4>1, SaturatingAddFacts DEF AtMost, AddMeasured
    <3> QED
      BY <3>2, <3>3
  <2> QED
    BY <2>2, <2>3, <2>4, <2>5
<1> QED
  BY <1>1, <1>2

(* Costs add up to costs, and bigger costs to bigger ones. *)
LEMMA AddCostFacts ==
    ASSUME NEW a1 \in NodeCost, NEW b1 \in NodeCost, NEW a2 \in NodeCost, NEW b2 \in NodeCost
    PROVE  /\ AddCost(a1, b1) \in NodeCost
           /\ CostAtMost(a1, a2) /\ CostAtMost(b1, b2)
                => CostAtMost(AddCost(a1, b1), AddCost(a2, b2))
<1>1. /\ a1.wall \in U64 /\ a1.calls \in U64 /\ a1.micros \in Optional
      /\ b1.wall \in U64 /\ b1.calls \in U64 /\ b1.micros \in Optional
      /\ a2.wall \in U64 /\ a2.calls \in U64 /\ a2.micros \in Optional
      /\ b2.wall \in U64 /\ b2.calls \in U64 /\ b2.micros \in Optional
  BY DEF NodeCost
<1>2. /\ SaturatingAdd(a1.wall, b1.wall) \in U64
      /\ a1.wall <= a2.wall /\ b1.wall <= b2.wall
           => SaturatingAdd(a1.wall, b1.wall) <= SaturatingAdd(a2.wall, b2.wall)
  BY <1>1, SaturatingAddFacts
<1>3. /\ SaturatingAdd(a1.calls, b1.calls) \in U64
      /\ a1.calls <= a2.calls /\ b1.calls <= b2.calls
           => SaturatingAdd(a1.calls, b1.calls) <= SaturatingAdd(a2.calls, b2.calls)
  BY <1>1, SaturatingAddFacts
<1>4. /\ AddMeasured(a1.micros, b1.micros) \in Optional
      /\ AtMost(a1.micros, a2.micros) /\ AtMost(b1.micros, b2.micros)
           => AtMost(AddMeasured(a1.micros, b1.micros), AddMeasured(a2.micros, b2.micros))
  BY <1>1, AddMeasuredFacts
<1> QED
  BY <1>2, <1>3, <1>4 DEF AddCost, NodeCost, CostAtMost

(* An exhausted budget stays exhausted however much more is spent: the     *)
(* verdict that re-blocks a node on resume can only be withdrawn by a      *)
(* ledger that forgets, never by other nodes' progress.                    *)
THEOREM ExceededIsMonotone ==
    ASSUME NEW limits \in BudgetLimits,
           NEW o1 \in NodeCost, NEW o2 \in NodeCost, CostAtMost(o1, o2),
           NEW c1 \in NodeCost, NEW c2 \in NodeCost, CostAtMost(c1, c2),
           Exceeded(limits, o1, c1)
    PROVE  Exceeded(limits, o2, c2)
<1>1. PICK i \in DOMAIN ChargeOrder :
          Over(Used(ChargeOrder[i], o1, c1), limits[ChargeOrder[i]])
  BY DEF Exceeded, Breaches
<1> DEFINE x == ChargeOrder[i]
<1>2. x \in Ceiling
  BY DEF ChargeOrder, Ceiling
<1>3. CostAtMost(AddCost(o1, c1), AddCost(o2, c2)) /\ AddCost(o1, c1) \in NodeCost
      /\ AddCost(o2, c2) \in NodeCost
  BY AddCostFacts
<1>4. AtMost(Used(x, o1, c1), Used(x, o2, c2)) /\ Used(x, o1, c1) \in Optional
      /\ Used(x, o2, c2) \in Optional
  <2>1. CASE x = "nodeWall"
    BY <2>1, NumberAssumption DEF Used, AtMost, CostAtMost, NodeCost, Optional, U64
  <2>2. CASE x = "nodeCalls"
    BY <2>2, NumberAssumption DEF Used, AtMost, CostAtMost, NodeCost, Optional, U64
  <2>3. CASE x = "nodeMicros"
    BY <2>3 DEF Used, CostAtMost, NodeCost
  <2>4. CASE x = "flowWall"
    BY <1>3, <2>4, NumberAssumption DEF Used, AtMost, CostAtMost, NodeCost, Optional, U64
  <2>5. CASE x = "flowMicros"
    BY <1>3, <2>5 DEF Used, CostAtMost, NodeCost
  <2> QED
    BY <1>2, <2>1, <2>2, <2>3, <2>4, <2>5 DEF Ceiling
<1>5. limits[x] \in Optional
  BY <1>2 DEF BudgetLimits
<1>6. Over(Used(x, o2, c2), limits[x])
  BY <1>1, <1>4, <1>5, NumberAssumption DEF Over, AtMost, Optional, U64
<1> QED
  BY <1>6 DEF Exceeded, Breaches

(* A saturated sum hides no breach of a ceiling below the largest u64. *)
THEOREM SaturationHidesNothing ==
    ASSUME NEW x \in U64, NEW y \in U64, NEW limit \in U64, limit # MaxU
    PROVE  Over(SaturatingAdd(x, y), limit) <=> x + y > limit
  BY NumberAssumption DEF Over, SaturatingAdd, U64

(* What a ceiling is charged and what was really used are the same up to   *)
(* saturation.                                                             *)
LEMMA UsedFacts ==
    ASSUME NEW x \in Ceiling, NEW o \in NodeCost, NEW c \in NodeCost
    PROVE  /\ Exact(x, o, c) \in Nat
           /\ Used(x, o, c) = None => Exact(x, o, c) = 0
           /\ Used(x, o, c) # None =>
                /\ Used(x, o, c) \in U64
                /\ Used(x, o, c) = IF Exact(x, o, c) > MaxU THEN MaxU ELSE Exact(x, o, c)
<1>1. /\ o.wall \in U64 /\ o.micros \in Optional
      /\ c.wall \in U64 /\ c.calls \in U64 /\ c.micros \in Optional
  BY DEF NodeCost
<1> USE NumberAssumption DEF U64, Optional, OrZero
<1>2. CASE x = "nodeWall"
  BY <1>1, <1>2 DEF Used, Exact
<1>3. CASE x = "nodeCalls"
  BY <1>1, <1>3 DEF Used, Exact
<1>4. CASE x = "nodeMicros"
  BY <1>1, <1>4 DEF Used, Exact
<1>5. CASE x = "flowWall"
  BY <1>1, <1>5 DEF Used, Exact, AddCost, SaturatingAdd
<1>6. CASE x = "flowMicros"
  BY <1>1, <1>6 DEF Used, Exact, AddCost, AddMeasured, SaturatingAdd
<1> QED
  BY <1>2, <1>3, <1>4, <1>5, <1>6 DEF Ceiling

(* charge compares saturating sums, and decides as exact sums would: the   *)
(* ceiling it names is the first one exceeded, and it names one whenever   *)
(* one below the largest u64 is (budget.rs: charge, check).                *)
THEOREM BreachNamedExactly ==
    ASSUME NEW limits \in BudgetLimits, \A x \in Ceiling : limits[x] # MaxU,
           NEW o \in NodeCost, NEW c \in NodeCost
    PROVE  BreachIsExact(limits, o, c)
<1> DEFINE B == Breaches(limits, o, c)
<1>1. \A x \in Ceiling : Over(Used(x, o, c), limits[x]) <=> ExactlyOver(x, limits, o, c)
  <2> TAKE x \in Ceiling
  <2>1. limits[x] = None \/ (limits[x] \in 0..MaxU /\ limits[x] # MaxU)
    BY DEF BudgetLimits, Optional, U64
  <2> QED
    BY <2>1, UsedFacts, NumberAssumption DEF Over, ExactlyOver, U64
<1>2. DOMAIN ChargeOrder = 1..5 /\ \A i \in 1..5 : ChargeOrder[i] \in Ceiling
  BY DEF ChargeOrder, Ceiling
<1>3. \A x \in Ceiling : \E i \in 1..5 : x = ChargeOrder[i]
  <2>1. ChargeOrder[1] = "nodeWall" /\ ChargeOrder[2] = "nodeCalls" /\ ChargeOrder[3] = "nodeMicros"
        /\ ChargeOrder[4] = "flowWall" /\ ChargeOrder[5] = "flowMicros"
    BY DEF ChargeOrder
  <2> QED
    BY <2>1 DEF Ceiling
<1>4. B = {i \in 1..5 : ExactlyOver(ChargeOrder[i], limits, o, c)}
  BY <1>1, <1>2 DEF Breaches
<1>5. CASE B = {}
  <2>1. Charge(limits, o, c).exceeded = None
    BY <1>5 DEF Charge, Exceeded
  <2>2. \A x \in Ceiling : ~ExactlyOver(x, limits, o, c)
    BY <1>3, <1>4, <1>5
  <2> QED
    BY <2>1, <2>2 DEF BreachIsExact
<1>6. CASE B # {}
  <2>1. \E i \in B : \A j \in B : i <= j
    <3>1. \A i \in B : i \in 1..5
      BY <1>4
    <3>2. CASE 1 \in B
      BY <3>1, <3>2
    <3>3. CASE 1 \notin B /\ 2 \in B
      BY <3>1, <3>3
    <3>4. CASE 1 \notin B /\ 2 \notin B /\ 3 \in B
      BY <3>1, <3>4
    <3>5. CASE 1 \notin B /\ 2 \notin B /\ 3 \notin B /\ 4 \in B
      BY <3>1, <3>5
    <3>6. CASE 1 \notin B /\ 2 \notin B /\ 3 \notin B /\ 4 \notin B
      BY <1>6, <3>1, <3>6
    <3> QED
      BY <3>2, <3>3, <3>4, <3>5, <3>6
  <2> DEFINE i == CHOOSE k \in B : \A j \in B : k <= j
  <2>2. i \in B /\ \A j \in B : i <= j
    BY <2>1
  <2>3. Charge(limits, o, c).exceeded = ChargeOrder[i]
    BY <1>6 DEF Charge, Exceeded
  <2> HIDE DEF i
  <2>4. i \in 1..5 /\ ExactlyOver(ChargeOrder[i], limits, o, c)
    BY <1>4, <2>2
  <2>5. \A j \in 1..(i - 1) : ~ExactlyOver(ChargeOrder[j], limits, o, c)
    BY <1>4, <2>2, <2>4
  <2>6. ChargeOrder[i] # None
    BY <1>2, <2>4, NoneAssumption
  <2> QED
    BY <1>2, <2>3, <2>4, <2>5, <2>6 DEF BreachIsExact
<1> QED
  BY <1>5, <1>6

(* Short of ceilings whose four-fold outgrows the word, a verdict within   *)
(* budget warns of a ceiling exactly when four fifths of it are used       *)
(* (budget.rs: check).                                                     *)
THEOREM WarnsExactly ==
    ASSUME NEW limits \in BudgetLimits, NEW o \in NodeCost, NEW c \in NodeCost,
           \A x \in Ceiling : limits[x] # None => 4 * limits[x] <= MaxU
    PROVE  Exceeded(limits, o, c) \/ WarningIsExact(limits, o, c)
<1> SUFFICES ASSUME ~Exceeded(limits, o, c) PROVE WarningIsExact(limits, o, c)
  OBVIOUS
<1>1. Charge(limits, o, c).warnings = {x \in Ceiling : Warns(Used(x, o, c), limits[x])}
  BY DEF Charge
<1>2. ASSUME NEW x \in Ceiling
      PROVE  Warns(Used(x, o, c), limits[x]) <=>
                 /\ limits[x] # None
                 /\ Exact(x, o, c) > 0
                 /\ 5 * Exact(x, o, c) >= 4 * limits[x]
  <2> DEFINE u == Used(x, o, c)
             e == Exact(x, o, c)
             l == limits[x]
  <2>1. /\ e \in Nat
        /\ u = None => e = 0
        /\ u # None => u \in U64 /\ u = (IF e > MaxU THEN MaxU ELSE e)
    BY UsedFacts
  <2>2. l = None \/ l \in 0..MaxU
    BY DEF BudgetLimits, Optional, U64
  <2>3. l # None => 4 * l <= MaxU
    OBVIOUS
  <2> HIDE DEF u, e, l
  <2>4. Warns(u, l) <=> l # None /\ e > 0 /\ 5 * e >= 4 * l
    BY <2>1, <2>2, <2>3, NumberAssumption DEF Warns, SaturatingMul, U64
  <2> QED
    BY <2>4 DEF u, e, l
<1> QED
  BY <1>1, <1>2 DEF WarningIsExact

----------------------------------------------------------------------------
(* Sums over sets of nodes                                                 *)
(*                                                                         *)
(* budget_consumption folds the costs of the other rows in the order the   *)
(* store returns them.  The facts below are proved by induction; a set of  *)
(* counterexamples takes the place of a predicate in each, because it is   *)
(* a value the provers can instantiate.                                    *)

(* Every non-empty set of naturals has a least element. *)
LEMMA LeastNumber ==
    ASSUME NEW T, T \subseteq Nat, T # {}
    PROVE  \E x \in T : \A y \in T : x <= y
<1> DEFINE R == OpToRel(<, Nat)
<1>1. IsWellFoundedOn(R, Nat)
  BY NatLessThanWellFounded
<1>2. \A x \in Nat, y \in Nat : y < x => <<y, x>> \in R
  BY DEF OpToRel
<1> HIDE DEF R
<1>3. PICK x \in T : \A y \in T : ~(<<y, x>> \in R)
  BY <1>1, WFMin
<1>4. ASSUME NEW y \in T PROVE x <= y
  <2>1. x \in Nat /\ y \in Nat
    OBVIOUS
  <2>2. ~(y < x)
    BY <1>2, <1>3, <2>1
  <2> QED
    BY <2>1, <2>2
<1> QED
  BY <1>4

(* A set of subsets of S that contains every subset whose proper subsets   *)
(* it contains, contains them all.                                         *)
LEMMA SubsetInduction ==
    ASSUME NEW S, IsFiniteSet(S), NEW P,
           \A s \in SUBSET S : (\A t \in SUBSET s : t # s => t \in P) => s \in P
    PROVE  \A s \in SUBSET S : s \in P
<1> SUFFICES ASSUME NEW bad \in SUBSET S, bad \notin P PROVE FALSE
  OBVIOUS
<1> DEFINE T == {k \in Nat : \E s \in SUBSET S : s \notin P /\ Cardinality(s) = k}
<1>1. \A s \in SUBSET S : IsFiniteSet(s) /\ Cardinality(s) \in Nat
  BY FS_Subset, FS_CardinalityType
<1>2. T # {} /\ T \subseteq Nat
  BY <1>1
<1>3. PICK k \in T : \A j \in T : k <= j
  BY <1>2, LeastNumber
<1>4. PICK s \in SUBSET S : s \notin P /\ Cardinality(s) = k
  BY <1>3
<1>5. ASSUME NEW t \in SUBSET s, t # s PROVE t \in P
  <2>1. Cardinality(t) < Cardinality(s)
    <3>1. Cardinality(t) <= Cardinality(s) /\ Cardinality(t) # Cardinality(s)
      BY <1>1, <1>5, FS_Subset
    <3>2. Cardinality(t) \in Nat /\ Cardinality(s) \in Nat
      BY <1>1
    <3> QED
      BY <3>1, <3>2
  <2>2. SUFFICES ASSUME t \notin P PROVE FALSE
    OBVIOUS
  <2>3. Cardinality(t) \in T
    BY <1>1, <2>2
  <2> QED
    BY <1>1, <1>3, <1>4, <2>1, <2>3
<1> QED
  BY <1>4, <1>5

(* G sums the costs f over the subsets of S. *)
Pick(s) == CHOOSE n \in s : TRUE

Sums(G, f, S) ==
    G = [s \in SUBSET S |-> IF s = {} THEN ZeroCost ELSE AddCost(f[Pick(s)], G[s \ {Pick(s)}])]

SumOf(f, S) == (CHOOSE G : Sums(G, f, S))[S]

(* Such a G exists: it is built up by the size of the subsets. *)
LEMMA SumExists ==
    ASSUME NEW S, IsFiniteSet(S), NEW f
    PROVE  \E G : Sums(G, f, S)
<1> DEFINE D(k) == {s \in SUBSET S : Cardinality(s) <= k}
           Good(G, k) == G = [s \in D(k) |-> IF s = {} THEN ZeroCost
                                             ELSE AddCost(f[Pick(s)], G[s \ {Pick(s)}])]
           T == {k \in Nat : ~\E G : Good(G, k)}
<1>1. \A s \in SUBSET S : IsFiniteSet(s) /\ Cardinality(s) \in Nat /\ (Cardinality(s) = 0 => s = {})
  BY FS_Subset, FS_CardinalityType, FS_EmptySet
<1>2. T = {}
  <2> SUFFICES ASSUME T # {} PROVE FALSE
    OBVIOUS
  <2>1. PICK k \in T : \A j \in T : k <= j
    BY LeastNumber
  <2>2. k \in Nat /\ ~\E G : Good(G, k)
    OBVIOUS
  <2>3. CASE k = 0
    <3> DEFINE G == [s \in D(k) |-> ZeroCost]
    <3>1. \A s \in D(k) : s = {}
      BY <1>1, <2>3
    <3>2. Good(G, k)
      BY <3>1
    <3> QED
      BY <2>2, <3>2
  <2>4. CASE k # 0
    <3>1. k - 1 \in Nat /\ k - 1 \notin T
      <4> HIDE DEF T
      <4>1. k \in Nat /\ k - 1 \in Nat /\ k - 1 < k
        BY <2>2, <2>4
      <4> QED
        BY <2>1, <4>1
    <3>2. PICK G : Good(G, k - 1)
      BY <3>1
    <3> DEFINE H == [s \in D(k) |-> IF s = {} THEN ZeroCost
                                    ELSE AddCost(f[Pick(s)], G[s \ {Pick(s)}])]
    <3>3. ASSUME NEW s \in D(k), s # {}
          PROVE  s \ {Pick(s)} \in D(k - 1)
      <4>1. Pick(s) \in s
        BY <3>3 DEF Pick
      <4>2. Cardinality(s \ {Pick(s)}) = Cardinality(s) - 1
        BY <1>1, <4>1, FS_RemoveElement
      <4> QED
        BY <1>1, <2>2, <4>2
    <3>4. D(k - 1) \subseteq D(k)
      BY <1>1, <2>2
    <3>5. \A s \in D(k - 1) : H[s] = G[s]
      BY <3>2, <3>4
    <3>6. Good(H, k)
      BY <3>3, <3>5
    <3> QED
      BY <2>2, <3>6
  <2> QED
    BY <2>3, <2>4
<1>3. Cardinality(S) \in Nat /\ D(Cardinality(S)) = SUBSET S
  BY FS_CardinalityType, FS_Subset
<1>4. \E G : Good(G, Cardinality(S))
  BY <1>2, <1>3
<1> QED
  BY <1>3, <1>4 DEF Sums

(* SumOf is what it is meant to be. *)
LEMMA SumOfIsSum ==
    ASSUME NEW S, IsFiniteSet(S), NEW f
    PROVE  \E G : Sums(G, f, S) /\ SumOf(f, S) = G[S]
  BY SumExists DEF SumOf

(* The sum over a subset does not depend on the set it is a subset of. *)
LEMMA SumsAgree ==
    ASSUME NEW S, IsFiniteSet(S), NEW R \in SUBSET S, NEW f, NEW G, NEW H,
           Sums(G, f, S), Sums(H, f, R)
    PROVE  \A s \in SUBSET R : G[s] = H[s]
<1> DEFINE P == {s \in SUBSET R : G[s] = H[s]}
<1>1. IsFiniteSet(R)
  BY FS_Subset
<1>2. ASSUME NEW s \in SUBSET R, \A t \in SUBSET s : t # s => t \in P PROVE s \in P
  <2>1. G[s] = IF s = {} THEN ZeroCost ELSE AddCost(f[Pick(s)], G[s \ {Pick(s)}])
    BY DEF Sums
  <2>2. H[s] = IF s = {} THEN ZeroCost ELSE AddCost(f[Pick(s)], H[s \ {Pick(s)}])
    BY DEF Sums
  <2>3. s # {} => s \ {Pick(s)} \in P
    BY <1>2 DEF Pick
  <2> QED
    BY <2>1, <2>2, <2>3
<1> HIDE DEF P
<1>3. \A s \in SUBSET R : s \in P
  BY <1>1, <1>2, SubsetInduction
<1> QED
  BY <1>3 DEF P

(* A sum of costs is a cost. *)
LEMMA SumType ==
    ASSUME NEW S, IsFiniteSet(S), NEW f, \A n \in S : f[n] \in NodeCost, NEW G, Sums(G, f, S)
    PROVE  \A s \in SUBSET S : G[s] \in NodeCost
<1> DEFINE P == {s \in SUBSET S : G[s] \in NodeCost}
<1>1. ASSUME NEW s \in SUBSET S, \A t \in SUBSET s : t # s => t \in P PROVE s \in P
  <2>1. G[s] = IF s = {} THEN ZeroCost ELSE AddCost(f[Pick(s)], G[s \ {Pick(s)}])
    BY DEF Sums
  <2>2. CASE s = {}
    BY <2>1, <2>2, NumberAssumption DEF ZeroCost, NodeCost, Optional, U64
  <2>3. CASE s # {}
    <3>1. Pick(s) \in s /\ s \ {Pick(s)} \in P
      BY <1>1, <2>3 DEF Pick
    <3>2. f[Pick(s)] \in NodeCost /\ G[s \ {Pick(s)}] \in NodeCost
      BY <3>1
    <3> QED
      BY <2>1, <2>3, <3>2, AddCostFacts
  <2> QED
    BY <2>2, <2>3
<1> HIDE DEF P
<1>2. \A s \in SUBSET S : s \in P
  BY <1>1, SubsetInduction
<1> QED
  BY <1>2 DEF P

(* Saturating sums can be reordered. *)
LEMMA AddCostReorders ==
    ASSUME NEW x \in NodeCost, NEW y \in NodeCost, NEW z \in NodeCost
    PROVE  /\ AddCost(x, y) = AddCost(y, x)
           /\ AddCost(x, AddCost(y, z)) = AddCost(y, AddCost(x, z))
<1>1. /\ x.wall \in U64 /\ x.calls \in U64 /\ x.micros \in Optional
      /\ y.wall \in U64 /\ y.calls \in U64 /\ y.micros \in Optional
      /\ z.wall \in U64 /\ z.calls \in U64 /\ z.micros \in Optional
  BY DEF NodeCost
<1>2. \A p, q, r \in U64 : /\ SaturatingAdd(p, q) = SaturatingAdd(q, p)
                           /\ SaturatingAdd(p, SaturatingAdd(q, r)) = SaturatingAdd(q, SaturatingAdd(p, r))
                           /\ SaturatingAdd(p, q) \in U64
  BY NumberAssumption DEF SaturatingAdd, U64
<1>3. \A p, q, r \in Optional :
         /\ AddMeasured(p, q) = AddMeasured(q, p)
         /\ AddMeasured(p, AddMeasured(q, r)) = AddMeasured(q, AddMeasured(p, r))
  <2> TAKE p, q, r \in Optional
  <2>1. \A v, w \in U64 : SaturatingAdd(v, w) # None
    BY <1>2, NumberAssumption DEF U64
  <2>2. (p = None \/ p \in U64) /\ (q = None \/ q \in U64) /\ (r = None \/ r \in U64)
    BY DEF Optional
  <2>3. CASE p = None \/ q = None \/ r = None
    BY <1>2, <2>1, <2>2, <2>3 DEF AddMeasured
  <2>4. CASE p # None /\ q # None /\ r # None
    <3>1. /\ SaturatingAdd(p, q) = SaturatingAdd(q, p)
          /\ SaturatingAdd(p, SaturatingAdd(q, r)) = SaturatingAdd(q, SaturatingAdd(p, r))
          /\ SaturatingAdd(q, r) # None /\ SaturatingAdd(p, r) # None
      BY <1>2, <2>1, <2>2, <2>4
    <3> QED
      BY <2>4, <3>1 DEF AddMeasured
  <2> QED
    BY <2>3, <2>4
<1>4. /\ SaturatingAdd(x.wall, y.wall) = SaturatingAdd(y.wall, x.wall)
      /\ SaturatingAdd(x.wall, SaturatingAdd(y.wall, z.wall))
           = SaturatingAdd(y.wall, SaturatingAdd(x.wall, z.wall))
  BY <1>1, NumberAssumption DEF SaturatingAdd, U64
<1>5. /\ SaturatingAdd(x.calls, y.calls) = SaturatingAdd(y.calls, x.calls)
      /\ SaturatingAdd(x.calls, SaturatingAdd(y.calls, z.calls))
           = SaturatingAdd(y.calls, SaturatingAdd(x.calls, z.calls))
  BY <1>1, NumberAssumption DEF SaturatingAdd, U64
<1>6. /\ AddMeasured(x.micros, y.micros) = AddMeasured(y.micros, x.micros)
      /\ AddMeasured(x.micros, AddMeasured(y.micros, z.micros))
           = AddMeasured(y.micros, AddMeasured(x.micros, z.micros))
  BY <1>1, <1>3
<1> QED
  BY <1>4, <1>5, <1>6 DEF AddCost

(* Any element of a set may be added last. *)
LEMMA SumInAnyOrder ==
    ASSUME NEW S, IsFiniteSet(S), NEW f, \A n \in S : f[n] \in NodeCost, NEW G, Sums(G, f, S)
    PROVE  \A s \in SUBSET S : \A n \in s : G[s] = AddCost(f[n], G[s \ {n}])
<1> DEFINE P == {s \in SUBSET S : \A n \in s : G[s] = AddCost(f[n], G[s \ {n}])}
<1>1. \A s \in SUBSET S : G[s] \in NodeCost
  BY SumType
<1>2. ASSUME NEW s \in SUBSET S, \A t \in SUBSET s : t # s => t \in P PROVE s \in P
  <2> SUFFICES ASSUME NEW n \in s PROVE G[s] = AddCost(f[n], G[s \ {n}])
    OBVIOUS
  <2> DEFINE m == Pick(s)
             r == s \ {m, n}
  <2>1. m \in s
    BY DEF Pick
  <2>2. G[s] = AddCost(f[m], G[s \ {m}])
    BY DEF Sums
  <2>3. CASE m = n
    BY <2>2, <2>3
  <2>4. CASE m # n
    <3> HIDE DEF m
    <3>1. s \ {m} \in P /\ n \in s \ {m} /\ (s \ {m}) \ {n} = r
      BY <1>2, <2>1, <2>4
    <3>2. s \ {n} \in P /\ m \in s \ {n} /\ (s \ {n}) \ {m} = r
      BY <1>2, <2>1, <2>4
    <3>3. G[s \ {m}] = AddCost(f[n], G[r]) /\ G[s \ {n}] = AddCost(f[m], G[r])
      BY <3>1, <3>2
    <3>4. f[m] \in NodeCost /\ f[n] \in NodeCost /\ G[r] \in NodeCost
      BY <1>1, <2>1
    <3> QED
      BY <2>2, <3>3, <3>4, AddCostReorders
  <2> QED
    BY <2>3, <2>4
<1> HIDE DEF P
<1>3. \A s \in SUBSET S : s \in P
  BY <1>2, SubsetInduction
<1> QED
  BY <1>3 DEF P

(* Larger costs have a larger sum. *)
LEMMA SumMonotone ==
    ASSUME NEW S, IsFiniteSet(S), NEW f, NEW g, NEW G, NEW H, Sums(G, f, S), Sums(H, g, S),
           \A n \in S : f[n] \in NodeCost /\ g[n] \in NodeCost /\ CostAtMost(f[n], g[n])
    PROVE  \A s \in SUBSET S : CostAtMost(G[s], H[s])
<1> DEFINE P == {s \in SUBSET S : CostAtMost(G[s], H[s])}
<1>1. \A s \in SUBSET S : G[s] \in NodeCost /\ H[s] \in NodeCost
  BY SumType
<1>2. ASSUME NEW s \in SUBSET S, \A t \in SUBSET s : t # s => t \in P PROVE s \in P
  <2>1. G[s] = IF s = {} THEN ZeroCost ELSE AddCost(f[Pick(s)], G[s \ {Pick(s)}])
    BY DEF Sums
  <2>2. H[s] = IF s = {} THEN ZeroCost ELSE AddCost(g[Pick(s)], H[s \ {Pick(s)}])
    BY DEF Sums
  <2>3. CASE s = {}
    BY <2>1, <2>2, <2>3 DEF ZeroCost, CostAtMost, AtMost
  <2>4. CASE s # {}
    <3>1. Pick(s) \in S /\ s \ {Pick(s)} \in P
      BY <1>2, <2>4 DEF Pick
    <3>2. CostAtMost(G[s \ {Pick(s)}], H[s \ {Pick(s)}]) /\ CostAtMost(f[Pick(s)], g[Pick(s)])
      BY <3>1
    <3>3. /\ G[s \ {Pick(s)}] \in NodeCost /\ H[s \ {Pick(s)}] \in NodeCost
          /\ f[Pick(s)] \in NodeCost /\ g[Pick(s)] \in NodeCost
      BY <1>1, <3>1
    <3> QED
      BY <2>1, <2>2, <2>4, <3>2, <3>3, AddCostFacts
  <2> QED
    BY <2>3, <2>4
<1> HIDE DEF P
<1>3. \A s \in SUBSET S : s \in P
  BY <1>2, SubsetInduction
<1> QED
  BY <1>3 DEF P

(* What the ledger's totals satisfy, whatever order the rows come in. *)
LEMMA SumOfFacts ==
    ASSUME NEW S, IsFiniteSet(S), NEW f, \A n \in S : f[n] \in NodeCost
    PROVE  /\ SumOf(f, {}) = ZeroCost
           /\ SumOf(f, S) \in NodeCost
           /\ \A n \in S : SumOf(f, S) = AddCost(f[n], SumOf(f, S \ {n}))
           /\ \A g : (\A n \in S : g[n] \in NodeCost /\ CostAtMost(f[n], g[n]))
                        => CostAtMost(SumOf(f, S), SumOf(g, S))
<1>1. SumOf(f, {}) = ZeroCost
  BY SumOfIsSum, FS_EmptySet DEF Sums
<1>2. PICK G : Sums(G, f, S) /\ SumOf(f, S) = G[S]
  BY SumOfIsSum
<1>3. SumOf(f, S) \in NodeCost
  BY <1>2, SumType
<1>4. ASSUME NEW n \in S PROVE SumOf(f, S) = AddCost(f[n], SumOf(f, S \ {n}))
  <2>1. IsFiniteSet(S \ {n})
    BY FS_RemoveElement
  <2>2. PICK H : Sums(H, f, S \ {n}) /\ SumOf(f, S \ {n}) = H[S \ {n}]
    BY <2>1, SumOfIsSum
  <2>3. G[S \ {n}] = H[S \ {n}]
    BY <1>2, <2>2, SumsAgree
  <2>4. G[S] = AddCost(f[n], G[S \ {n}])
    BY <1>2, SumInAnyOrder
  <2> QED
    BY <1>2, <2>2, <2>3, <2>4
<1>5. ASSUME NEW g, \A n \in S : g[n] \in NodeCost /\ CostAtMost(f[n], g[n])
      PROVE  CostAtMost(SumOf(f, S), SumOf(g, S))
  <2>1. PICK H : Sums(H, g, S) /\ SumOf(g, S) = H[S]
    BY SumOfIsSum
  <2>2. CostAtMost(G[S], H[S])
    BY <1>2, <1>5, <2>1, SumMonotone
  <2> QED
    BY <1>2, <2>1, <2>2
<1> QED
  BY <1>1, <1>3, <1>4, <1>5
=============================================================================
