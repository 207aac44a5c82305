-------------------------- MODULE CompactionProofs --------------------------
(***************************************************************************)
(* Theorems about Compaction and the charts of Query, for any number of    *)
(* tiers, any widths that divide one another, and retentions that are      *)
(* WellConfigured.                                                         *)
(*                                                                         *)
(* A reading climbs from tier to tier.  Carried says that no tier is ahead *)
(* of the one below but for what was swept there whole, and Kept that the  *)
(* coarsest tier has what was rolled up to it: so what a roll-up derives   *)
(* anew has every reading that the row had.                                *)
(***************************************************************************)
EXTENDS Query, FiniteSetTheorems, TLAPS

---------------------------------------------------------------------------
(* Buckets *)

\* Division, as the buckets need it.
LEMMA Division ==
  ASSUME NEW x \in Nat, NEW w \in Nat \ {0}
  PROVE  \E q \in Nat : FloorTo(x, w) = w * q /\ w * q <= x /\ x < w * q + w
<1>1. ASSUME NEW q \in Int, NEW r \in Int, q = x \div w, r = x % w
      PROVE  x = w * q + r /\ r >= 0 /\ r < w
  BY <1>1
<1> DEFINE q == x \div w
           r == x % w
<1>2. q \in Int /\ r \in Int
  OBVIOUS
<1>3. x = w * q + r /\ r >= 0 /\ r < w
  BY <1>1, <1>2
<1>4. FloorTo(x, w) = x - r
  BY DEF FloorTo
<1> HIDE DEF q, r
<1>5. w * q > -w
  BY <1>2, <1>3
<1>6. q \in Nat
  BY <1>2, <1>5
<1>7. w * q \in Nat
  BY <1>6
<1> QED
  BY <1>2, <1>3, <1>4, <1>6, <1>7

\* Of two multiples one is a whole width below the other, or they are the same.
LEMMA Apart ==
  ASSUME NEW w \in Nat \ {0}, NEW a \in Nat, NEW b \in Nat, w * a < w * b
  PROVE  w * a + w <= w * b
<1>1. a < b
  OBVIOUS
<1> QED
  BY <1>1

\* A multiple that reaches x is the floor of x.
LEMMA TheFloor ==
  ASSUME NEW x \in Nat, NEW w \in Nat \ {0}, NEW q \in Nat, w * q <= x, x < w * q + w
  PROVE  FloorTo(x, w) = w * q
<1>1. PICK p \in Nat : FloorTo(x, w) = w * p /\ w * p <= x /\ x < w * p + w
  BY Division
<1>2. w * p \in Nat /\ w * q \in Nat
  OBVIOUS
<1>3. ~(w * p < w * q) /\ ~(w * q < w * p)
  BY <1>1, <1>2, Apart
<1> QED
  BY <1>1, <1>2, <1>3

\* A floor is within a width of what it is the floor of.
LEMMA FloorRange ==
  ASSUME NEW x \in Nat, NEW w \in Nat \ {0}
  PROVE  FloorTo(x, w) \in Nat /\ FloorTo(x, w) <= x /\ x < FloorTo(x, w) + w
<1>1. PICK q \in Nat : FloorTo(x, w) = w * q /\ w * q <= x /\ x < w * q + w
  BY Division
<1>2. w * q \in Nat
  OBVIOUS
<1> QED
  BY <1>1, <1>2

\* Floors keep the order.
LEMMA FloorMonotone ==
  ASSUME NEW x \in Nat, NEW y \in Nat, NEW w \in Nat \ {0}, x <= y
  PROVE  FloorTo(x, w) <= FloorTo(y, w)
<1>1. PICK p \in Nat : FloorTo(x, w) = w * p /\ w * p <= x /\ x < w * p + w
  BY Division
<1>2. PICK q \in Nat : FloorTo(y, w) = w * q /\ w * q <= y /\ y < w * q + w
  BY Division
<1>3. w * p \in Nat /\ w * q \in Nat
  OBVIOUS
<1>4. ~(w * q < w * p)
  BY <1>1, <1>2, <1>3, Apart
<1> QED
  BY <1>1, <1>2, <1>3, <1>4

\* Nothing falls between two buckets: what is below a floor is in a bucket that
\* ends there or before.
LEMMA BelowFloor ==
  ASSUME NEW x \in Nat, NEW y \in Nat, NEW w \in Nat \ {0}, x < FloorTo(y, w)
  PROVE  FloorTo(x, w) + w <= FloorTo(y, w)
<1>1. PICK p \in Nat : FloorTo(x, w) = w * p /\ w * p <= x /\ x < w * p + w
  BY Division
<1>2. PICK q \in Nat : FloorTo(y, w) = w * q /\ w * q <= y /\ y < w * q + w
  BY Division
<1>3. w * p \in Nat /\ w * q \in Nat
  OBVIOUS
<1>4. w * p < w * q
  BY <1>1, <1>2, <1>3
<1> QED
  BY <1>1, <1>2, <1>4, Apart

\* Buckets of a width that divides another nest: the bucket of a reading lies
\* within its coarser one.
LEMMA Nested ==
  ASSUME NEW x \in Nat, NEW w \in Nat \ {0}, NEW v \in Nat \ {0}, v % w = 0
  PROVE  /\ FloorTo(FloorTo(x, w), v) = FloorTo(x, v)
         /\ FloorTo(x, v) <= FloorTo(x, w)
         /\ FloorTo(x, w) + w <= FloorTo(x, v) + v
<1>1. PICK p \in Nat : FloorTo(x, w) = w * p /\ w * p <= x /\ x < w * p + w
  BY Division
<1>2. PICK q \in Nat : FloorTo(x, v) = v * q /\ v * q <= x /\ x < v * q + v
  BY Division
<1>3. PICK m \in Nat : v = w * m
  <2>1. PICK m \in Nat : FloorTo(v, w) = w * m
    BY Division
  <2>2. FloorTo(v, w) = v
    BY DEF FloorTo
  <2> QED
    BY <2>1, <2>2
<1>4. v * q = w * (m * q) /\ v * q + v = w * (m * q + m) /\ m * q \in Nat /\ m * q + m \in Nat
  BY <1>3
<1>5. w * p \in Nat /\ v * q \in Nat
  OBVIOUS
<1>6. ~(w * p < w * (m * q))
  BY <1>1, <1>2, <1>4, <1>5, Apart
<1>7. w * p < w * (m * q + m)
  BY <1>1, <1>2, <1>4, <1>5
<1>8. w * p + w <= w * (m * q + m)
  BY <1>4, <1>7, Apart
<1>9. v * q <= w * p /\ w * p + w <= v * q + v
  BY <1>4, <1>5, <1>6, <1>8
<1>10. FloorTo(w * p, v) = v * q
  BY <1>5, <1>9, TheFloor
<1> QED
  BY <1>1, <1>2, <1>9, <1>10
\* A number without remainder is a multiple.
LEMMA Multiple ==
  ASSUME NEW x \in Nat, NEW w \in Nat \ {0}, x % w = 0
  PROVE  FloorTo(x, w) = x /\ \E q \in Nat : x = w * q
<1>1. FloorTo(x, w) = x
  BY DEF FloorTo
<1>2. PICK q \in Nat : FloorTo(x, w) = w * q
  BY Division
<1> QED
  BY <1>1, <1>2

\* A width that divides a second one divides whatever that one divides.
LEMMA DividesOn ==
  ASSUME NEW a \in Nat \ {0}, NEW b \in Nat \ {0}, NEW c \in Nat \ {0}, b % a = 0, c % b = 0
  PROVE  c % a = 0
<1>1. PICK m \in Nat : b = a * m
  BY Multiple
<1>2. PICK n \in Nat : c = b * n
  BY Multiple
<1>3. c = a * (m * n) /\ m * n \in Nat
  BY <1>1, <1>2
<1>4. ASSUME NEW k \in Nat PROVE (a * k) % a = 0
  OBVIOUS
<1> QED
  BY <1>3, <1>4

\* A set of naturals has a least element: a claim about every tier holds if it
\* has no first counterexample.
LEMMA LeastNat ==
  ASSUME NEW T \in SUBSET Nat, T # {}
  PROVE  \E x \in T : \A y \in T : x <= y
<1> DEFINE R == OpToRel(<, Nat)
<1>1. IsWellFoundedOn(R, Nat)
  BY NatLessThanWellFounded
<1>2. \A x, y \in Nat : y < x => <<y, x>> \in R
  BY DEF OpToRel
<1> HIDE DEF R
<1>3. PICK x \in T : \A y \in T : ~ (<<y, x>> \in R)
  BY <1>1, WFMin
<1>4. ASSUME NEW y \in T PROVE x <= y
  <2>1. x \in Nat /\ y \in Nat
    OBVIOUS
  <2>2. ~(y < x)
    BY <1>2, <1>3, <2>1
  <2> QED
    BY <2>1, <2>2
<1> QED
  BY <1>4

\* The width of each tier divides those of all the coarser ones.
LEMMA WidthsDivide ==
  ASSUME NEW u \in Tiers, NEW t \in Tiers, u <= t
  PROVE  Width[t] % Width[u] = 0
<1>0. Last \in Nat /\ Width \in [Tiers -> Nat \ {0}] /\ Tiers = 0 .. Last
  BY LastAssumption, WidthAssumption DEF LastAssumption, WidthAssumption, Tiers
<1> DEFINE Wrong == {v \in u .. Last : Width[v] % Width[u] # 0}
<1> SUFFICES ASSUME Wrong # {} PROVE FALSE
  <2>1. t \in u .. Last
    BY <1>0
  <2> QED
    BY <2>1
<1>1. Wrong \subseteq Nat
  BY <1>0
<1>2. PICK v \in Wrong : \A y \in Wrong : v <= y
  <2> HIDE DEF Wrong
  <2> QED
    BY <1>1, LeastNat
<1>3. \A w \in Nat \ {0} : w % w = 0
  OBVIOUS
<1>4. v \in u .. Last /\ Width[v] % Width[u] # 0 /\ Width[u] \in Nat \ {0}
  BY <1>0, <1>2
<1>5. v - 1 \in u .. Last /\ v - 1 < v /\ v \in 1 .. Last
  BY <1>0, <1>3, <1>4
<1>6. Width[v - 1] % Width[u] = 0
  <2>1. v - 1 \notin Wrong
    <3> HIDE DEF Wrong
    <3> QED
      BY <1>1, <1>2, <1>5
  <2> QED
    BY <1>5, <2>1
<1>7. Width[v] % Width[v - 1] = 0
  BY <1>5, WidthAssumption DEF WidthAssumption
<1>8. Width[v - 1] \in Nat \ {0} /\ Width[v] \in Nat \ {0}
  BY <1>0, <1>5
<1>9. Width[v] % Width[u] = 0
  BY <1>4, <1>6, <1>7, <1>8, DividesOn
<1> QED
  BY <1>4, <1>9

\* An instant's bucket, in any tier.
LEMMA BucketOfAnInstant ==
  ASSUME NEW x \in Instants, NEW t \in Tiers
  PROVE  /\ FloorTo(x, Width[t]) \in Instants
         /\ FloorTo(x, Width[t]) <= x /\ x < FloorTo(x, Width[t]) + Width[t]
         /\ Width[t] \in Nat \ {0}
<1>1. x \in Nat /\ x <= MaxAt /\ MaxAt \in Nat /\ Width[t] \in Nat \ {0}
  BY WidthAssumption, BoundsAssumption DEF WidthAssumption, BoundsAssumption, Instants
<1>2. FloorTo(x, Width[t]) \in Nat /\ FloorTo(x, Width[t]) <= x /\ x < FloorTo(x, Width[t]) + Width[t]
  BY <1>1, FloorRange
<1> QED
  BY <1>1, <1>2 DEF Instants

\* The raw tier's buckets are the instants.
LEMMA RawBucket ==
  ASSUME NEW x \in Instants
  PROVE  0 \in Tiers /\ FloorTo(x, Width[0]) = x
<1>1. 0 \in Tiers /\ Width[0] = 1
  BY LastAssumption, WidthAssumption DEF LastAssumption, WidthAssumption, Tiers
<1>2. FloorTo(x, 1) \in Nat /\ FloorTo(x, 1) <= x /\ x < FloorTo(x, 1) + 1 /\ x \in Nat
  BY FloorRange, BoundsAssumption DEF BoundsAssumption, Instants
<1> QED
  BY <1>1, <1>2

\* A bucket of a finer tier lies within one of a coarser tier.
LEMMA BucketsNest ==
  ASSUME NEW x \in Instants, NEW u \in Tiers, NEW t \in Tiers, u <= t
  PROVE  /\ FloorTo(FloorTo(x, Width[u]), Width[t]) = FloorTo(x, Width[t])
         /\ FloorTo(x, Width[t]) <= FloorTo(x, Width[u])
         /\ FloorTo(x, Width[u]) + Width[u] <= FloorTo(x, Width[t]) + Width[t]
<1>1. x \in Nat
  BY BoundsAssumption DEF BoundsAssumption, Instants
<1>2. Width[t] % Width[u] = 0
  BY WidthsDivide
<1>3. Width[t] \in Nat \ {0} /\ Width[u] \in Nat \ {0}
  BY BucketOfAnInstant
<1> QED
  BY <1>1, <1>2, <1>3, Nested
\* The end of a bucket that is over is not beyond the newest floor.
LEMMA CompleteBucket ==
  ASSUME NEW x \in Nat, NEW y \in Nat, NEW w \in Nat \ {0}, FloorTo(x, w) + w <= y
  PROVE  FloorTo(x, w) + w <= FloorTo(y, w)
<1>1. PICK p \in Nat : FloorTo(x, w) = w * p /\ w * p <= x /\ x < w * p + w
  BY Division
<1>2. PICK q \in Nat : FloorTo(y, w) = w * q /\ w * q <= y /\ y < w * q + w
  BY Division
<1>3. w * p \in Nat /\ w * q \in Nat /\ w * (p + 1) = w * p + w /\ p + 1 \in Nat
  OBVIOUS
<1>4. ~(w * q < w * (p + 1))
  BY <1>1, <1>2, <1>3, Apart
<1> QED
  BY <1>1, <1>2, <1>3, <1>4

\* What a retention reaches back to.
LEMMA BeforeRange ==
  ASSUME NEW x \in Nat, NEW k \in Nat
  PROVE  Before(x, k) \in Nat /\ Before(x, k) <= x /\ (Before(x, k) > 0 => Before(x, k) + k = x)
BY DEF Before

\* Where tier t is swept, buckets of the next tier are swept whole, and none that
\* ended within the retention.
LEMMA RollupFloorRange ==
  ASSUME TypeOK, NEW t \in 0 .. Last - 1
  PROVE  /\ RollupFloor(t) \in Nat
         /\ \A s \in Instants : s < RollupFloor(t) =>
              /\ keep[t] # 0
              /\ FloorTo(s, Width[t + 1]) + Width[t + 1] <= RollupFloor(t)
              /\ RollupFloor(t) + keep[t] <= now
         /\ \A s \in Instants : RollupFloor(t) <= s => RollupFloor(t) <= FloorTo(s, Width[t + 1])
<1>1. t \in Tiers /\ t + 1 \in Tiers
  BY LastAssumption DEF LastAssumption, Tiers
<1>2. keep[t] \in Nat /\ now \in Nat
  BY <1>1, RetentionsAssumption, BoundsAssumption DEF RetentionsAssumption, BoundsAssumption, TypeOK, Instants
<1>3. Width[t + 1] \in Nat \ {0}
  BY <1>1, WidthAssumption DEF WidthAssumption
<1> DEFINE past == Before(now, keep[t])
           w    == Width[t + 1]
<1>4. past \in Nat /\ past <= now /\ (past > 0 => past + keep[t] = now)
  BY <1>2, BeforeRange
<1>5. FloorTo(past, w) \in Nat /\ FloorTo(past, w) <= past
  BY <1>3, <1>4, FloorRange
<1>6. CASE keep[t] = 0
  <2>1. RollupFloor(t) = 0
    BY <1>6 DEF RollupFloor
  <2>2. ASSUME NEW s \in Instants PROVE s \in Nat /\ FloorTo(s, w) \in Nat
    <3> HIDE DEF w
    <3>1. s \in Nat /\ w \in Nat \ {0}
      BY <1>3, BoundsAssumption DEF BoundsAssumption, Instants, w
    <3> QED
      BY <3>1, FloorRange
  <2> HIDE DEF w
  <2> QED
    BY <2>1, <2>2 DEF w
<1>7. CASE keep[t] # 0
  <2>1. RollupFloor(t) = FloorTo(past, w)
    BY <1>7 DEF RollupFloor
  <2> HIDE DEF past, w
  <2>2. ASSUME NEW s \in Instants
        PROVE  /\ s < FloorTo(past, w) => FloorTo(s, w) + w <= FloorTo(past, w) /\ FloorTo(past, w) + keep[t] <= now
               /\ FloorTo(past, w) <= s => FloorTo(past, w) <= FloorTo(s, w)
    <3>1. s \in Nat /\ w \in Nat \ {0}
      BY <1>3, BoundsAssumption DEF BoundsAssumption, Instants, w
    <3>2. s < FloorTo(past, w) => FloorTo(s, w) + w <= FloorTo(past, w)
      BY <1>4, <3>1, BelowFloor
    <3>3. s < FloorTo(past, w) => FloorTo(past, w) + keep[t] <= now
      BY <1>2, <1>4, <1>5, <3>1
    <3>4. ASSUME FloorTo(past, w) <= s PROVE FloorTo(past, w) <= FloorTo(s, w)
      <4>1. FloorTo(FloorTo(past, w), w) <= FloorTo(s, w)
        BY <1>5, <3>1, <3>4, FloorMonotone
      <4>2. \A v \in Nat \ {0} : v % v = 0
        OBVIOUS
      <4>3. FloorTo(FloorTo(past, w), w) = FloorTo(past, w)
        BY <1>4, <3>1, <4>2, Nested
      <4> QED
        BY <4>1, <4>3
    <3> QED
      BY <3>2, <3>3, <3>4
  <2> QED
    BY <1>5, <1>7, <2>1, <2>2 DEF w
<1> QED
  BY <1>6, <1>7

---------------------------------------------------------------------------
(* Types *)

\* Types; every reading stays within the instants.
THEOREM CompactionTypeCorrect == Spec => []TypeOK
<1> USE LastAssumption, RetentionsAssumption, BoundsAssumption
    DEF LastAssumption, RetentionsAssumption, BoundsAssumption, Tiers, Instants
<1>1. Init => TypeOK
  BY DEF Init, TypeOK
<1>2. TypeOK /\ [Next]_vars => TypeOK'
  <2> SUFFICES ASSUME TypeOK, [Next]_vars
               PROVE  TypeOK'
    OBVIOUS
  <2> USE DEF TypeOK
  <2>1. CASE Tick
    BY <2>1 DEF Tick
  <2>2. ASSUME NEW at \in Instants, Record(at)
        PROVE  TypeOK'
    BY <2>2 DEF Record
  <2>3. CASE Begin
    BY <2>3 DEF Begin
  <2>4. ASSUME NEW t \in 0 .. Last - 1, Rollup(t)
        PROVE  TypeOK'
    <3> DEFINE sources(b) == {s \in Bucket(t, b) : RollupFloor(t) <= s /\ s < UpTo(t + 1)}
               new == [b \in Instants |-> IF sources(b) = {} THEN rows[t + 1][b]
                                           ELSE UNION {rows[t][s] : s \in sources(b)}]
    <3>1. rows' = [rows EXCEPT ![t + 1] = new]
      BY <2>4 DEF Rollup
    <3>2. t \in Tiers /\ t + 1 \in Tiers
      OBVIOUS
    <3>3. \A b : sources(b) \subseteq Instants
      BY DEF Bucket
    <3>4. new \in [Instants -> SUBSET Instants]
      <4> HIDE DEF sources
      <4>1. \A b \in Instants : UNION {rows[t][s] : s \in sources(b)} \subseteq Instants
        BY <3>2, <3>3
      <4> QED
        BY <3>2, <4>1
    <3> HIDE DEF new
    <3>5. rows' \in [Tiers -> [Instants -> SUBSET Instants]]
      BY <3>1, <3>4
    <3>6. step' \in 0 .. 2 * Last + 1
      BY <2>4 DEF Rollup
    <3> QED
      BY <2>4, <3>5, <3>6 DEF Rollup
  <2>5. ASSUME NEW t \in Tiers, Sweep(t)
        PROVE  TypeOK'
    <3>1. rows' \in [Tiers -> [Instants -> SUBSET Instants]]
      BY <2>5 DEF Sweep
    <3>2. step' \in 0 .. 2 * Last + 1
      BY <2>5 DEF Sweep
    <3> QED
      BY <2>5, <3>1, <3>2 DEF Sweep
  <2>6. CASE Fail \/ Restart
    <3>1. step' \in 0 .. 2 * Last + 1
      BY <2>6 DEF Fail, Restart
    <3> QED
      BY <2>6, <3>1 DEF Fail, Restart
  <2>7. CASE UNCHANGED vars
    BY <2>7 DEF vars
  <2> QED
    BY <2>1, <2>2, <2>3, <2>4, <2>5, <2>6, <2>7 DEF Next
<1> QED
  BY <1>1, <1>2, PTL DEF Spec

---------------------------------------------------------------------------
(* What the statements of a run do to the rows *)

\* What the sums below are made of are numbers.
LEMMA Numbers ==
  ASSUME TypeOK
  PROVE  /\ clock \in Nat /\ now \in Nat /\ rolled \in Nat /\ newest \in Nat /\ step \in Nat
         /\ MaxLag \in Nat /\ MaxPause \in Nat /\ Last \in Nat
         /\ \A t \in Tiers : keep[t] \in Nat
         /\ \A s \in Instants : s \in Nat
<1>1. clock \in Nat /\ now \in Nat /\ rolled \in Nat /\ newest \in Nat
  BY BoundsAssumption DEF BoundsAssumption, TypeOK, Instants
<1>2. step \in Nat /\ Last \in Nat
  BY LastAssumption DEF LastAssumption, TypeOK
<1>3. \A t \in Tiers : keep[t] \in Nat
  BY RetentionsAssumption DEF RetentionsAssumption, TypeOK
<1> QED
  BY <1>1, <1>2, <1>3, BoundsAssumption DEF BoundsAssumption, Instants

\* A roll-up derives a row anew from every row of its bucket or not at all, and
\* not at all only when the bucket is not over, reaches below the retention of its
\* sources, or has none.
LEMMA RollupRow ==
  ASSUME TypeOK, NEW t \in 0 .. Last - 1, Rollup(t)
  PROVE  /\ \A u \in Tiers \ {t + 1} : rows'[u] = rows[u]
         /\ \A b \in Instants :
              \/ /\ rows'[t + 1][b] = rows[t + 1][b]
                 /\ RollupFloor(t) <= b /\ b + Width[t + 1] <= now =>
                      \A s \in Instants : FloorTo(s, Width[t + 1]) = b => rows[t][s] = {}
              \/ /\ \E s \in Instants : FloorTo(s, Width[t + 1]) = b /\ rows[t][s] # {}
                 /\ rows'[t + 1][b] = UNION {rows[t][s] : s \in Bucket(t, b)}
<1> DEFINE sources(b) == {s \in Bucket(t, b) : RollupFloor(t) <= s /\ s < UpTo(t + 1)}
           new == [b \in Instants |-> IF sources(b) = {} THEN rows[t + 1][b]
                                       ELSE UNION {rows[t][s] : s \in sources(b)}]
           w   == Width[t + 1]
<1>1. rows' = [rows EXCEPT ![t + 1] = new]
  BY DEF Rollup
<1>2. t \in Tiers /\ t + 1 \in Tiers
  BY LastAssumption DEF LastAssumption, Tiers
<1>3. DOMAIN rows = Tiers
  BY DEF TypeOK
<1>4. rows'[t + 1] = new /\ \A u \in Tiers \ {t + 1} : rows'[u] = rows[u]
  <2> HIDE DEF new
  <2> QED
    BY <1>1, <1>2, <1>3
<1>5. UpTo(t + 1) = FloorTo(now, w)
  BY DEF UpTo
<1>6. \A s \in Instants : s \in Nat /\ FloorTo(s, w) <= s /\ s < FloorTo(s, w) + w /\ FloorTo(s, w) \in Nat
  BY <1>2, BucketOfAnInstant, Numbers
<1>7. w \in Nat \ {0} /\ now \in Nat /\ RollupFloor(t) \in Nat
  BY <1>2, WidthAssumption, Numbers, RollupFloorRange DEF WidthAssumption
<1>8. FloorTo(now, w) \in Nat
  <2> HIDE DEF w
  <2> QED
    BY <1>7, FloorRange
<1>9. \A s \in Instants : RollupFloor(t) <= s => RollupFloor(t) <= FloorTo(s, w)
  BY RollupFloorRange
<1> SUFFICES ASSUME NEW b \in Instants
             PROVE  \/ /\ new[b] = rows[t + 1][b]
                       /\ RollupFloor(t) <= b /\ b + w <= now =>
                            \A s \in Instants : FloorTo(s, w) = b => rows[t][s] = {}
                    \/ /\ \E s \in Instants : FloorTo(s, w) = b /\ rows[t][s] # {}
                       /\ new[b] = UNION {rows[t][s] : s \in Bucket(t, b)}
  BY <1>4
<1>10. \A s : s \in Bucket(t, b) <=> s \in Instants /\ rows[t][s] # {} /\ FloorTo(s, w) = b
  BY DEF Bucket
<1>11. CASE sources(b) = {}
  <2>1. new[b] = rows[t + 1][b]
    BY <1>11
  <2>2. ASSUME RollupFloor(t) <= b, b + w <= now, NEW s \in Instants, FloorTo(s, w) = b, rows[t][s] # {}
        PROVE  FALSE
    <3>1. FloorTo(s, w) + w <= FloorTo(now, w)
      <4> HIDE DEF w
      <4> QED
        BY <1>6, <1>7, <2>2, CompleteBucket
    <3>2. RollupFloor(t) <= s /\ s < FloorTo(now, w)
      <4> HIDE DEF w
      <4> QED
        BY <1>6, <1>7, <1>8, <2>2, <3>1
    <3>3. s \in sources(b)
      BY <1>5, <1>10, <2>2, <3>2
    <3> QED
      BY <1>11, <3>3
  <2> QED
    BY <2>1, <2>2
<1>12. CASE sources(b) # {}
  <2>1. PICK s \in Bucket(t, b) : RollupFloor(t) <= s /\ s < FloorTo(now, w)
    BY <1>5, <1>12
  <2>2. s \in Instants /\ FloorTo(s, w) = b /\ rows[t][s] # {}
    BY <1>10
  <2>3. RollupFloor(t) <= b /\ b + w <= FloorTo(now, w)
    <3>1. RollupFloor(t) <= b
      BY <1>9, <2>1, <2>2
    <3>2. FloorTo(s, w) + w <= FloorTo(now, w)
      <4> HIDE DEF w
      <4> QED
        BY <1>6, <1>7, <2>1, <2>2, BelowFloor
    <3> QED
      BY <2>2, <3>1, <3>2
  <2>4. ASSUME NEW r \in Bucket(t, b) PROVE r \in sources(b)
    <3>1. r \in Instants /\ FloorTo(r, w) = b
      BY <1>10
    <3>2. RollupFloor(t) <= r /\ r < FloorTo(now, w)
      <4> HIDE DEF w
      <4> QED
        BY <1>6, <1>7, <1>8, <2>3, <3>1
    <3> QED
      BY <1>5, <3>2
  <2>5. sources(b) = Bucket(t, b)
    BY <2>4
  <2>6. new[b] = UNION {rows[t][r] : r \in sources(b)}
    BY <1>12
  <2> QED
    BY <2>2, <2>5, <2>6
<1> QED
  BY <1>11, <1>12

\* A sweep leaves every row of the other tiers, and of its own what is not below
\* the cutoff.
LEMMA SweepRow ==
  ASSUME TypeOK, NEW t \in Tiers, Sweep(t)
  PROVE  /\ \A u \in Tiers \ {t} : rows'[u] = rows[u]
         /\ \A b \in Instants :
              rows'[t][b] = IF keep[t] # 0 /\ b < Cutoff(t) THEN {} ELSE rows[t][b]
<1>1. DOMAIN rows = Tiers
  BY DEF TypeOK
<1> QED
  BY <1>1 DEF Sweep

\* A reading that is recorded is the whole of its raw row.
LEMMA RecordRow ==
  ASSUME TypeOK, NEW at \in Instants, Record(at)
  PROVE  /\ \A u \in Tiers \ {0} : rows'[u] = rows[u]
         /\ \A b \in Instants : rows'[0][b] = IF b = at THEN {at} ELSE rows[0][b]
<1>1. rows \in [Tiers -> [Instants -> SUBSET Instants]] /\ 0 \in Tiers
  BY LastAssumption DEF TypeOK, LastAssumption, Tiers
<1> QED
  BY <1>1 DEF Record

---------------------------------------------------------------------------
(* The inductive invariant *)

\* The tier's row for the bucket a reading is of averages it.
Has(t, at) == at \in rows[t][FloorTo(at, Width[t])]

\* The instant up to which a tier was rolled up last.
Through(t) == IF step > t THEN now ELSE rolled

\* The roll-up into the tier has seen all that was ever to come of the bucket a
\* reading is of.
Settled(t, at) == t = 0 \/ FloorTo(at, Width[t]) + Width[t] + MaxLag <= Through(t)

\* Some retention of tier t lets go of what is before an instant.
Past(t, end) == \E k \in Retentions : k[t] # 0 /\ end <= Before(clock, k[t])

\* A bucket of the next tier, past the retention, was taken out of tier t and of
\* those finer, and nothing will bring any of it back.
Swept(t, b) ==
  /\ Past(t, b + Width[t + 1])
  /\ b + Width[t + 1] + MaxLag <= rolled
  /\ \A u \in 0 .. t : \A s \in Instants : FloorTo(s, Width[t + 1]) = b => rows[u][s] = {}

\* Some retention lets go of a reading altogether.
Expired(at) ==
  \E k \in Retentions : k[Last] # 0 /\ FloorTo(at, Width[Last]) < Before(clock, k[Last])

\* What a row averages was recorded, and in its bucket.
InPlace ==
  /\ \A t \in Tiers : \A b \in Instants : \A at \in rows[t][b] :
       at \in recorded /\ FloorTo(at, Width[t]) = b
  /\ \A at \in recorded : at <= newest
  /\ newest <= clock

\* The instants of the runs; the sweeps of a run follow its last roll-up.
Clocked ==
  /\ rolled <= clock /\ clock <= rolled + MaxPause
  /\ now <= clock
  /\ step # 0 => rolled <= now
  /\ step > Last /\ Last > 0 => rolled = now

\* The sweeps of a run go from the finest tier on.
SweptInOrder ==
  \A u \in 0 .. Last - 1 :
    step > Last + 1 + u /\ keep[u] # 0 =>
      \A s \in Instants : s < RollupFloor(u) => rows[u][s] = {}

\* A reading is in each tier that has settled, and in each tier below one that
\* has it, unless all of its bucket was swept there.
Carried ==
  \A t \in 0 .. Last - 1 : \A at \in recorded :
    Settled(t, at) \/ Has(t + 1, at) => Has(t, at) \/ Swept(t, FloorTo(at, Width[t + 1]))

\* The coarsest tier has a settled reading, or has let go of its row.
Kept ==
  \A at \in recorded :
    Settled(Last, at) =>
      Has(Last, at) \/ (rows[Last][FloorTo(at, Width[Last])] = {} /\ Expired(at))

\* A reading stays where it was put: every row averages readings of its bucket.
LEMMA InPlaceInvariant == Spec => []InPlace
<1>1. Init => InPlace
  <2> SUFFICES ASSUME Init PROVE InPlace
    OBVIOUS
  <2>1. \A t \in Tiers : \A b \in Instants : rows[t][b] = {}
    BY DEF Init
  <2>2. recorded = {} /\ newest = 0 /\ clock = 0
    BY DEF Init
  <2> QED
    BY <2>1, <2>2 DEF InPlace
<1>2. TypeOK /\ InPlace /\ [Next]_vars => InPlace'
  <2> SUFFICES ASSUME TypeOK, InPlace, [Next]_vars
               PROVE  InPlace'
    OBVIOUS
  <2>1. CASE Tick
    <3>1. rows' = rows /\ recorded' = recorded /\ newest' = newest /\ clock' = clock + 1
      BY <2>1 DEF Tick
    <3> QED
      BY <3>1, Numbers DEF InPlace
  <2>2. ASSUME NEW at \in Instants, Record(at)
        PROVE  InPlace'
    <3>1. /\ at > newest /\ at <= clock /\ clock' = clock
          /\ recorded' = recorded \cup {at} /\ newest' = at
      BY <2>2 DEF Record
    <3>2. \A x \in recorded' : x <= newest'
      <4>1. \A x \in recorded : x \in Nat
        BY Numbers DEF TypeOK
      <4> QED
        BY <3>1, <4>1, Numbers DEF InPlace
    <3>3. ASSUME NEW t \in Tiers, NEW b \in Instants, NEW x \in rows'[t][b]
          PROVE  x \in recorded' /\ FloorTo(x, Width[t]) = b
      <4>1. CASE x \in rows[t][b]
        BY <3>1, <4>1 DEF InPlace
      <4>2. CASE x \notin rows[t][b]
        <5>1. t = 0 /\ b = at /\ x = at
          BY <2>2, <3>3, <4>2, RecordRow
        <5> QED
          BY <3>1, <5>1, RawBucket
      <4> QED
        BY <4>1, <4>2
    <3>4. newest' <= clock'
      BY <3>1
    <3> QED
      BY <3>2, <3>3, <3>4 DEF InPlace
  <2>3. ASSUME NEW t \in 0 .. Last - 1, Rollup(t)
        PROVE  InPlace'
    <3>1. recorded' = recorded /\ newest' = newest /\ clock' = clock
      BY <2>3 DEF Rollup
    <3>2. t \in Tiers /\ t + 1 \in Tiers /\ t <= t + 1
      BY LastAssumption DEF LastAssumption, Tiers
    <3>3. ASSUME NEW u \in Tiers, NEW b \in Instants, NEW x \in rows'[u][b]
          PROVE  x \in recorded /\ FloorTo(x, Width[u]) = b
      <4>1. CASE x \in rows[u][b]
        BY <4>1 DEF InPlace
      <4>2. CASE x \notin rows[u][b]
        <5>1. u = t + 1 /\ rows'[t + 1][b] = UNION {rows[t][s] : s \in Bucket(t, b)}
          BY <2>3, <3>3, <4>2, RollupRow
        <5>2. PICK s \in Bucket(t, b) : x \in rows[t][s]
          BY <3>3, <5>1
        <5>3. s \in Instants /\ FloorTo(s, Width[t + 1]) = b
          BY DEF Bucket
        <5>4. x \in recorded /\ FloorTo(x, Width[t]) = s
          BY <3>2, <5>2, <5>3 DEF InPlace
        <5>5. x \in Instants
          BY <5>4 DEF TypeOK
        <5> QED
          BY <3>2, <5>1, <5>3, <5>4, <5>5, BucketsNest
      <4> QED
        BY <4>1, <4>2
    <3> QED
      BY <3>1, <3>3 DEF InPlace
  <2>4. ASSUME NEW t \in Tiers, Sweep(t)
        PROVE  InPlace'
    <3>1. recorded' = recorded /\ newest' = newest /\ clock' = clock
      BY <2>4 DEF Sweep
    <3>2. \A u \in Tiers : \A b \in Instants : rows'[u][b] = rows[u][b] \/ rows'[u][b] = {}
      BY <2>4, SweepRow
    <3> QED
      BY <3>1, <3>2 DEF InPlace
  <2>5. CASE Begin \/ Fail \/ Restart \/ UNCHANGED vars
    BY <2>5 DEF Begin, Fail, Restart, vars, InPlace
  <2> QED
    BY <2>1, <2>2, <2>3, <2>4, <2>5 DEF Next
<1> QED
  BY <1>1, <1>2, CompactionTypeCorrect, PTL DEF Spec

\* Runs take their instants from the clock, and none comes later than it should.
LEMMA ClockInvariant == Spec => []Clocked
<1>1. Init => Clocked
  BY LastAssumption, BoundsAssumption DEF LastAssumption, BoundsAssumption, Init, Clocked
<1>2. TypeOK /\ Clocked /\ [Next]_vars => Clocked'
  <2> SUFFICES ASSUME TypeOK, Clocked, [Next]_vars
               PROVE  Clocked'
    OBVIOUS
  <2>0. /\ clock \in Nat /\ now \in Nat /\ rolled \in Nat /\ step \in Nat
        /\ MaxPause \in Nat /\ Last \in Nat
    BY Numbers
  <2>1. CASE Tick
    BY <2>0, <2>1 DEF Tick, Clocked
  <2>2. ASSUME NEW at \in Instants, Record(at)
        PROVE  Clocked'
    BY <2>2 DEF Record, Clocked
  <2>3. CASE Begin
    BY <2>0, <2>3 DEF Begin, Clocked
  <2>4. ASSUME NEW t \in 0 .. Last - 1, Rollup(t)
        PROVE  Clocked'
    BY <2>0, <2>4 DEF Rollup, Clocked
  <2>5. ASSUME NEW t \in Tiers, Sweep(t)
        PROVE  Clocked'
    BY <2>0, <2>5 DEF Sweep, Clocked, Tiers
  <2>6. CASE Fail \/ Restart \/ UNCHANGED vars
    BY <2>0, <2>6 DEF Fail, Restart, vars, Clocked
  <2> QED
    BY <2>1, <2>2, <2>3, <2>4, <2>5, <2>6 DEF Next
<1> QED
  BY <1>1, <1>2, CompactionTypeCorrect, PTL DEF Spec

\* No reading is committed below where its tier is swept.
LEMMA RecordAboveTheFloor ==
  ASSUME WellConfigured, TypeOK, Clocked, NEW at \in Instants, Record(at), 0 < Last
  PROVE  RollupFloor(0) <= at
<1>1. 0 \in 0 .. Last - 1 /\ 0 \in Tiers
  BY LastAssumption DEF LastAssumption, Tiers
<1>2. clock <= at + MaxLag
  BY DEF Record
<1>3. SUFFICES ASSUME at < RollupFloor(0) PROVE FALSE
  BY <1>1, RollupFloorRange, Numbers
<1>4. keep[0] # 0 /\ RollupFloor(0) + keep[0] <= now /\ RollupFloor(0) \in Nat
  BY <1>1, <1>3, RollupFloorRange
<1>5. keep[0] >= MaxLag + MaxPause
  BY <1>1, <1>4 DEF WellConfigured, TypeOK
<1> QED
  BY <1>1, <1>2, <1>3, <1>4, <1>5, Numbers DEF Clocked

\* The sweeps of a run leave nothing below the floors of the tiers they are
\* through with.
LEMMA SweptInOrderInvariant ==
  ASSUME WellConfigured
  PROVE  Spec => []SweptInOrder
<1>1. Init => SweptInOrder
  BY LastAssumption DEF LastAssumption, Init, SweptInOrder
<1>2. TypeOK /\ Clocked /\ SweptInOrder /\ [Next]_vars => SweptInOrder'
  <2> SUFFICES ASSUME TypeOK, Clocked, SweptInOrder, [Next]_vars
               PROVE  SweptInOrder'
    OBVIOUS
  <2>0. step \in Nat /\ Last \in Nat
    BY Numbers
  <2>1. CASE UNCHANGED <<keep, rows, step, now>>
    BY <2>1 DEF SweptInOrder, RollupFloor
  <2>2. ASSUME NEW at \in Instants, Record(at)
        PROVE  SweptInOrder'
    <3> SUFFICES ASSUME NEW u \in 0 .. Last - 1, (step > Last + 1 + u /\ keep[u] # 0)',
                        NEW s \in Instants, s < RollupFloor(u)'
                 PROVE  rows'[u][s] = {}
      BY DEF SweptInOrder
    <3>1. keep' = keep /\ step' = step /\ now' = now
      BY <2>2 DEF Record
    <3>2. s < RollupFloor(u)
      BY <3>1 DEF RollupFloor
    <3>3. rows[u][s] = {}
      BY <3>1, <3>2 DEF SweptInOrder
    <3>4. u \in Tiers /\ 0 < Last
      BY <2>0 DEF Tiers
    <3>5. CASE u # 0
      BY <2>2, <3>3, <3>4, <3>5, RecordRow
    <3>6. CASE u = 0
      <4>1. RollupFloor(0) <= at
        BY <2>2, <3>4, RecordAboveTheFloor
      <4>2. s # at
        BY <3>2, <3>6, <4>1, Numbers, RollupFloorRange
      <4> QED
        BY <2>2, <3>3, <3>6, <4>2, RecordRow
    <3> QED
      BY <3>5, <3>6
  <2>3. CASE step' \in 0 .. Last + 1
    BY <2>0, <2>3 DEF SweptInOrder
  <2>4. ASSUME NEW t \in 0 .. Last - 1, Rollup(t)
        PROVE  SweptInOrder'
    <3>1. step' \in 0 .. Last + 1
      BY <2>0, <2>4 DEF Rollup
    <3> QED
      BY <2>3, <3>1
  <2>5. ASSUME NEW t \in Tiers, Sweep(t)
        PROVE  SweptInOrder'
    <3> SUFFICES ASSUME NEW u \in 0 .. Last - 1, (step > Last + 1 + u /\ keep[u] # 0)',
                        NEW s \in Instants, s < RollupFloor(u)'
                 PROVE  rows'[u][s] = {}
      BY DEF SweptInOrder
    <3>1. keep' = keep /\ now' = now /\ step = Last + 1 + t /\ (step' = step + 1 \/ step' = 0)
      BY <2>5 DEF Sweep
    <3>2. s < RollupFloor(u)
      BY <3>1 DEF RollupFloor
    <3>3. u \in Tiers /\ u <= t
      BY <2>0, <3>1 DEF Tiers
    <3>4. CASE u = t
      <4>1. Cutoff(t) = RollupFloor(t)
        BY <2>0, <3>4 DEF Cutoff
      <4> QED
        BY <2>5, <3>1, <3>2, <3>4, <4>1, SweepRow
    <3>5. CASE u # t
      <4>1. step > Last + 1 + u
        BY <2>0, <3>1, <3>3, <3>5 DEF Tiers
      <4>2. rows[u][s] = {}
        BY <3>1, <3>2, <4>1 DEF SweptInOrder
      <4> QED
        BY <2>5, <3>3, <3>5, <4>2, SweepRow
    <3> QED
      BY <3>4, <3>5
  <2>6. CASE Tick \/ UNCHANGED vars
    BY <2>1, <2>6 DEF Tick, vars
  <2>7. CASE Begin \/ Fail \/ Restart
    BY <2>0, <2>3, <2>7 DEF Begin, Fail, Restart
  <2> QED
    BY <2>2, <2>4, <2>5, <2>6, <2>7 DEF Next
<1> QED
  BY <1>1, <1>2, CompactionTypeCorrect, ClockInvariant, PTL DEF Spec

\* Nothing settles but by a roll-up into its tier.
LEMMA SettledBefore ==
  ASSUME TypeOK, Clocked, [Next]_vars, NEW t \in Tiers, NEW at \in Instants, Settled(t, at)'
  PROVE  Settled(t, at) \/ (0 < t /\ Rollup(t - 1))
<1>0. /\ clock \in Nat /\ now \in Nat /\ rolled \in Nat /\ step \in Nat /\ MaxLag \in Nat
      /\ Last \in Nat /\ t \in Nat /\ t <= Last
  BY Numbers DEF Tiers
<1> SUFFICES ASSUME 0 < t, ~Rollup(t - 1)
             PROVE  Settled(t, at)
  BY <1>0 DEF Settled
<1>1. FloorTo(at, Width[t]) \in Nat /\ Width[t] \in Nat
  BY BucketOfAnInstant, Numbers
<1>2. FloorTo(at, Width[t]) + Width[t] + MaxLag <= Through(t)'
  BY <1>0 DEF Settled
<1>3. CASE UNCHANGED <<step, now, rolled>>
  BY <1>2, <1>3 DEF Settled, Through
<1>4. CASE Begin
  BY <1>0, <1>2, <1>4 DEF Begin, Settled, Through
<1>5. ASSUME NEW v \in 0 .. Last - 1, Rollup(v)
      PROVE  Settled(t, at)
  <2>0. v # t - 1
    BY <1>5
  <2>1. step = v + 1 /\ step' = v + 2 /\ now' = now /\ (v + 1 # Last => rolled' = rolled)
    BY <1>0, <1>5 DEF Rollup
  <2>2. step > t <=> step' > t
    BY <1>0, <2>0, <2>1
  <2>3. ~(step > t) => v + 1 # Last
    BY <1>0, <2>0, <2>1
  <2> QED
    BY <1>2, <2>1, <2>2, <2>3 DEF Settled, Through
<1>6. ASSUME NEW v \in Tiers, Sweep(v)
      PROVE  Settled(t, at)
  <2>1. step = Last + 1 + v /\ (step' = step + 1 \/ step' = 0) /\ now' = now /\ rolled' = rolled
    BY <1>6 DEF Sweep
  <2>2. step > t /\ rolled = now
    BY <1>0, <2>1 DEF Tiers, Clocked
  <2> QED
    BY <1>2, <2>1, <2>2 DEF Settled, Through
<1>7. CASE Fail \/ Restart
  <2>1. step' = 0 /\ now' = now /\ rolled' = rolled
    BY <1>7 DEF Fail, Restart
  <2>2. FloorTo(at, Width[t]) + Width[t] + MaxLag <= rolled
    BY <1>0, <1>2, <2>1 DEF Through
  <2>3. step > t => rolled <= now
    BY <1>0 DEF Clocked
  <2> QED
    BY <1>0, <1>1, <2>2, <2>3 DEF Settled, Through
<1> QED
  BY <1>3, <1>4, <1>5, <1>6, <1>7 DEF Next, Tick, Record, vars

\* What has settled in a tier has settled in the finer one.
LEMMA SettledBelow ==
  ASSUME TypeOK, Clocked, NEW t \in 0 .. Last - 1, NEW at \in Instants, Settled(t + 1, at)
  PROVE  Settled(t, at)
<1>0. /\ now \in Nat /\ rolled \in Nat /\ step \in Nat /\ MaxLag \in Nat /\ t \in Nat
      /\ t \in Tiers /\ t + 1 \in Tiers /\ t <= t + 1
  BY Numbers DEF Tiers
<1>1. FloorTo(at, Width[t]) + Width[t] <= FloorTo(at, Width[t + 1]) + Width[t + 1]
  BY <1>0, BucketsNest
<1>2. /\ FloorTo(at, Width[t]) \in Nat /\ Width[t] \in Nat
      /\ FloorTo(at, Width[t + 1]) \in Nat /\ Width[t + 1] \in Nat
  BY <1>0, BucketOfAnInstant, Numbers
<1>3. Through(t + 1) <= Through(t) /\ Through(t) \in Nat /\ Through(t + 1) \in Nat
  BY <1>0 DEF Through, Clocked
<1>4. FloorTo(at, Width[t + 1]) + Width[t + 1] + MaxLag <= Through(t + 1)
  BY <1>0 DEF Settled
<1> QED
  BY <1>0, <1>1, <1>2, <1>3, <1>4 DEF Settled

\* What ended long before the last run has settled.
LEMMA SettledByTheLastRun ==
  ASSUME TypeOK, Clocked, NEW t \in Tiers, NEW at \in Instants,
         FloorTo(at, Width[t]) + Width[t] + MaxLag <= rolled
  PROVE  Settled(t, at)
<1>0. /\ now \in Nat /\ rolled \in Nat /\ step \in Nat /\ MaxLag \in Nat /\ t \in Nat
  BY Numbers DEF Tiers
<1>1. FloorTo(at, Width[t]) \in Nat /\ Width[t] \in Nat
  BY BucketOfAnInstant, Numbers
<1>2. rolled <= Through(t) /\ Through(t) \in Nat
  BY <1>0 DEF Through, Clocked
<1> QED
  BY <1>0, <1>1, <1>2 DEF Settled

\* A retention that lets go of something keeps to it.
LEMMA PastStays ==
  ASSUME TypeOK, [Next]_vars, NEW t \in Tiers, NEW end \in Nat, Past(t, end)
  PROVE  Past(t, end)'
<1>1. clock \in Nat /\ (clock' = clock \/ clock' = clock + 1)
  BY Numbers DEF Next, Tick, Record, Begin, Rollup, Sweep, Fail, Restart, vars
<1>2. PICK k \in Retentions : k[t] # 0 /\ end <= Before(clock, k[t])
  BY DEF Past
<1>3. k[t] \in Nat
  BY RetentionsAssumption DEF RetentionsAssumption
<1>4. end <= Before(clock', k[t])
  BY <1>1, <1>2, <1>3 DEF Before
<1> QED
  BY <1>2, <1>4 DEF Past

\* What was swept stays swept: a reading so late would be of a snapshot observed
\* longer ago than one is, and a roll-up finds no sources.
LEMMA SweptStays ==
  ASSUME TypeOK, InPlace, Clocked, [Next]_vars,
         NEW t \in 0 .. Last - 1, NEW b \in Instants, Swept(t, b)
  PROVE  Swept(t, b)'
<1>0. /\ now \in Nat /\ rolled \in Nat /\ clock \in Nat /\ MaxLag \in Nat /\ t \in Nat
      /\ Last \in Nat /\ t \in Tiers /\ t + 1 \in Tiers
  BY Numbers DEF Tiers
<1>1. Width[t + 1] \in Nat /\ b \in Nat
  BY <1>0, BucketOfAnInstant, Numbers
<1>2. b + Width[t + 1] + MaxLag <= rolled /\ Past(t, b + Width[t + 1])'
  <2>1. Past(t, b + Width[t + 1]) /\ b + Width[t + 1] \in Nat
    BY <1>1 DEF Swept
  <2> DEFINE end == b + Width[t + 1]
  <2>2. end \in Nat /\ Past(t, end)
    BY <2>1
  <2> HIDE DEF end
  <2>3. Past(t, end)'
    BY <1>0, <2>2, PastStays
  <2> QED
    BY <2>3 DEF Swept, end
<1>3. \A u \in 0 .. t : u \in Tiers /\ \A s \in Instants : FloorTo(s, Width[t + 1]) = b => rows[u][s] = {}
  BY <1>0 DEF Swept, Tiers
<1>4. CASE UNCHANGED <<rows, rolled>>
  BY <1>2, <1>3, <1>4 DEF Swept
<1>5. ASSUME NEW at \in Instants, Record(at)
      PROVE  Swept(t, b)'
  <2>1. rolled' = rolled /\ clock <= at + MaxLag
    BY <1>5 DEF Record
  <2>2. at < FloorTo(at, Width[t + 1]) + Width[t + 1]
    BY <1>0, BucketOfAnInstant
  <2>3. FloorTo(at, Width[t + 1]) # b
    BY <1>0, <1>1, <1>2, <2>1, <2>2, Numbers DEF Clocked
  <2>4. ASSUME NEW u \in 0 .. t, NEW s \in Instants, FloorTo(s, Width[t + 1]) = b
        PROVE  rows'[u][s] = {}
    <3>1. rows[u][s] = {} /\ u \in Tiers /\ s # at
      BY <1>3, <2>3, <2>4
    <3> QED
      BY <1>5, <3>1, RecordRow
  <2> QED
    BY <1>2, <2>1, <2>4 DEF Swept
<1>6. ASSUME NEW v \in 0 .. Last - 1, Rollup(v)
      PROVE  Swept(t, b)'
  <2>1. rolled' = rolled \/ (rolled' = now /\ rolled <= now)
    BY <1>6 DEF Rollup, Clocked
  <2>2. b + Width[t + 1] + MaxLag <= rolled'
    BY <1>0, <1>1, <1>2, <2>1
  <2>3. ASSUME NEW u \in 0 .. t, NEW s \in Instants, FloorTo(s, Width[t + 1]) = b
        PROVE  rows'[u][s] = {}
    <3>1. rows[u][s] = {} /\ u \in Tiers
      BY <1>3, <2>3
    <3>2. CASE u # v + 1
      BY <1>6, <3>1, <3>2, RollupRow
    <3>3. CASE u = v + 1 /\ rows'[u][s] # rows[u][s]
      <4>1. PICK r \in Instants : FloorTo(r, Width[u]) = s /\ rows[v][r] # {}
        BY <1>6, <3>3, RollupRow
      <4>2. FloorTo(r, Width[t + 1]) = b
        BY <1>0, <2>3, <3>1, <4>1, BucketsNest
      <4>3. v \in 0 .. t
        BY <1>0, <3>3
      <4> QED
        BY <1>3, <4>1, <4>2, <4>3
    <3> QED
      BY <3>1, <3>2, <3>3
  <2> QED
    BY <1>2, <2>2, <2>3 DEF Swept
<1>7. ASSUME NEW v \in Tiers, Sweep(v)
      PROVE  Swept(t, b)'
  <2>1. rolled' = rolled
    BY <1>7 DEF Sweep
  <2>2. \A u \in Tiers : \A s \in Instants : rows[u][s] = {} => rows'[u][s] = {}
    BY <1>7, SweepRow
  <2> QED
    BY <1>2, <1>3, <2>1, <2>2 DEF Swept
<1> QED
  BY <1>4, <1>5, <1>6, <1>7 DEF Next, Tick, Begin, Fail, Restart, vars

\* A roll-up takes nothing out of a row: what it derives anew has all of it.
LEMMA RowsGrow ==
  ASSUME TypeOK, InPlace, Carried, NEW v \in 0 .. Last - 1, Rollup(v),
         NEW t \in Tiers, NEW at \in recorded, Has(t, at)
  PROVE  Has(t, at)'
<1>0. v \in Tiers /\ v + 1 \in Tiers /\ v <= v + 1 /\ at \in Instants
  BY Numbers DEF Tiers, TypeOK
<1> DEFINE b == FloorTo(at, Width[v + 1])
<1>1. CASE t # v + 1
  BY <1>1, RollupRow DEF Has
<1>2. CASE t = v + 1
  <2>1. b \in Instants
    BY <1>0, BucketOfAnInstant
  <2>2. CASE rows'[v + 1][b] = rows[v + 1][b]
    BY <1>2, <2>2 DEF Has
  <2>3. CASE rows'[v + 1][b] # rows[v + 1][b]
    <3>1. /\ rows'[v + 1][b] = UNION {rows[v][s] : s \in Bucket(v, b)}
          /\ \E s \in Instants : FloorTo(s, Width[v + 1]) = b /\ rows[v][s] # {}
      <4> HIDE DEF b
      <4> QED
        BY <2>1, <2>3, RollupRow
    <3>2. ~Swept(v, b)
      BY <1>0, <3>1, Numbers DEF Swept, Tiers
    <3>3. Has(v, at)
      BY <1>2, <3>2 DEF Carried
    <3>4. FloorTo(at, Width[v]) \in Bucket(v, b)
      BY <1>0, <3>3, BucketOfAnInstant, BucketsNest DEF Has, Bucket
    <3>5. at \in rows'[v + 1][b]
      <4> HIDE DEF b
      <4> QED
        BY <3>1, <3>3, <3>4 DEF Has
    <3> QED
      BY <1>2, <3>5 DEF Has
  <2> QED
    BY <2>2, <2>3
<1> QED
  BY <1>1, <1>2

\* What settles by a roll-up is then in the tier, or had settled before and was
\* left as it was.
LEMMA RollupSettles ==
  ASSUME WellConfigured, TypeOK, Clocked, Carried, NEW v \in 0 .. Last - 1, Rollup(v),
         NEW at \in recorded, Settled(v + 1, at)'
  PROVE  \/ Has(v + 1, at)'
         \/ /\ Settled(v + 1, at)
            /\ rows'[v + 1] [FloorTo(at, Width[v + 1])] = rows[v + 1][FloorTo(at, Width[v + 1])]
<1> DEFINE w == Width[v + 1]
           b == FloorTo(at, w)
           f == FloorTo(at, Width[v])
<1>0. /\ v \in Tiers /\ v + 1 \in Tiers /\ v <= v + 1 /\ v + 1 # 0 /\ v \in Nat /\ at \in Instants
      /\ clock \in Nat /\ now \in Nat /\ rolled \in Nat /\ MaxLag \in Nat /\ MaxPause \in Nat
      /\ keep[v] \in Nat
  BY Numbers DEF Tiers, TypeOK
<1>1. /\ w \in Nat \ {0} /\ b \in Instants /\ b \in Nat /\ b <= at
      /\ f \in Instants /\ f \in Nat
  BY <1>0, BucketOfAnInstant, Numbers
<1>2. FloorTo(f, w) = b /\ b <= f
  BY <1>0, BucketsNest
<1>3. step = v + 1 /\ step' = v + 2 /\ now' = now
  BY <1>0 DEF Rollup
<1>4. b + w + MaxLag <= now
  <2>1. Settled(v + 1, at)' <=> b + w + MaxLag <= Through(v + 1)'
    BY <1>0 DEF Settled
  <2>2. Through(v + 1)' = now
    BY <1>0, <1>3 DEF Through
  <2> QED
    BY <2>1, <2>2
<1>5. Settled(v, at)
  <2>1. CASE v = 0
    BY <2>1 DEF Settled
  <2>2. CASE v # 0
    <3>1. f + Width[v] <= b + w /\ Width[v] \in Nat
      BY <1>0, BucketsNest, BucketOfAnInstant
    <3>2. f + Width[v] + MaxLag <= now
      <4> HIDE DEF f, b, w
      <4> QED
        BY <1>0, <1>1, <1>4, <3>1
    <3>3. Through(v) = now
      BY <1>0, <1>3 DEF Through
    <3> QED
      BY <3>2, <3>3 DEF Settled
  <2> QED
    BY <2>1, <2>2
<1>6. Has(v, at) \/ Swept(v, b)
  BY <1>5 DEF Carried
<1>7. Settled(v + 1, at) <=> b + w + MaxLag <= rolled
  BY <1>0, <1>3 DEF Settled, Through
<1>8. CASE rows'[v + 1][b] # rows[v + 1][b]
  <2>1. /\ rows'[v + 1][b] = UNION {rows[v][s] : s \in Bucket(v, b)}
        /\ \E s \in Instants : FloorTo(s, w) = b /\ rows[v][s] # {}
    <3> HIDE DEF b
    <3> QED
      BY <1>1, <1>8, RollupRow
  <2>2. Has(v, at)
    BY <1>0, <1>6, <2>1 DEF Swept
  <2>3. f \in Bucket(v, b)
    BY <1>1, <1>2, <2>2 DEF Has, Bucket
  <2>4. at \in rows'[v + 1][b]
    <3>1. at \in rows[v][f]
      BY <2>2 DEF Has
    <3> HIDE DEF b, f
    <3> QED
      BY <2>1, <2>3, <3>1
  <2> QED
    BY <2>4 DEF Has
<1>9. CASE rows'[v + 1][b] = rows[v + 1][b] /\ Swept(v, b)
  BY <1>7, <1>9 DEF Swept
<1>10. CASE rows'[v + 1][b] = rows[v + 1][b] /\ Has(v, at)
  <2>1. at \in rows[v][f]
    BY <1>10 DEF Has
  <2>2. CASE RollupFloor(v) <= b
    <3>1. b + w <= now
      <4> HIDE DEF b, w
      <4> QED
        BY <1>0, <1>1, <1>4
    <3>2. \/ \A s \in Instants : FloorTo(s, w) = b => rows[v][s] = {}
          \/ rows'[v + 1][b] = UNION {rows[v][s] : s \in Bucket(v, b)}
      <4> HIDE DEF b
      <4> QED
        BY <1>1, <2>2, <3>1, RollupRow
    <3>3. rows'[v + 1][b] = UNION {rows[v][s] : s \in Bucket(v, b)}
      BY <1>1, <1>2, <2>1, <3>2
    <3>4. f \in Bucket(v, b)
      BY <1>1, <1>2, <2>1 DEF Bucket
    <3>5. at \in rows'[v + 1][b]
      <4> HIDE DEF b, f
      <4> QED
        BY <2>1, <3>3, <3>4
    <3> QED
      BY <3>5 DEF Has
  <2>3. CASE ~(RollupFloor(v) <= b)
    <3>1. RollupFloor(v) \in Nat /\ b < RollupFloor(v)
      <4> HIDE DEF b
      <4> QED
        BY <1>1, <2>3, RollupFloorRange
    <3>2. FloorTo(b, w) = b
      <4>1. \A x \in Nat \ {0} : x % x = 0
        OBVIOUS
      <4> QED
        BY <1>0, <4>1, BucketsNest
    <3>3. keep[v] # 0 /\ b + w <= RollupFloor(v) /\ RollupFloor(v) + keep[v] <= now
      <4> HIDE DEF b
      <4> QED
        BY <1>1, <3>1, <3>2, RollupFloorRange
    <3>4. keep[v] >= MaxLag + MaxPause
      BY <3>3 DEF WellConfigured, TypeOK
    <3>5. now <= rolled + MaxPause
      BY <1>0 DEF Clocked
    <3>6. b + w + MaxLag <= rolled
      <4> HIDE DEF b, w
      <4> QED
        BY <1>0, <1>1, <3>1, <3>3, <3>4, <3>5
    <3> QED
      BY <1>7, <1>10, <3>6
  <2> QED
    BY <2>2, <2>3
<1> QED
  BY <1>6, <1>8, <1>9, <1>10

\* The floors fall from tier to tier.
LEMMA FloorsFall ==
  ASSUME WellConfigured, TypeOK, NEW t \in 0 .. Last - 1, keep[t] # 0, NEW u \in 0 .. t
  PROVE  keep[u] # 0 /\ RollupFloor(t) <= RollupFloor(u)
<1>0. /\ t \in Tiers /\ u \in Tiers /\ t + 1 \in Tiers /\ u + 1 \in Tiers /\ u + 1 <= t + 1
      /\ now \in Nat /\ now \in Instants /\ keep[t] \in Nat /\ keep[u] \in Nat
      /\ u \in 0 .. Last - 1
  BY Numbers DEF Tiers, TypeOK
<1>1. keep[u] # 0 /\ keep[u] <= keep[t]
  BY DEF WellConfigured, TypeOK
<1> DEFINE older == Before(now, keep[t])
           newer == Before(now, keep[u])
<1>2. older \in Nat /\ newer \in Nat /\ older <= newer /\ older <= now
  BY <1>0, <1>1 DEF Before
<1>3. RollupFloor(t) = FloorTo(older, Width[t + 1]) /\ RollupFloor(u) = FloorTo(newer, Width[u + 1])
  BY <1>1 DEF RollupFloor
<1>4. older \in Instants
  BY <1>0, <1>2, BoundsAssumption DEF BoundsAssumption, Instants
<1> HIDE DEF older, newer
<1>5. FloorTo(older, Width[t + 1]) <= FloorTo(older, Width[u + 1])
  BY <1>0, <1>4, BucketsNest
<1>6. FloorTo(older, Width[u + 1]) <= FloorTo(newer, Width[u + 1])
  <2>1. Width[u + 1] \in Nat \ {0}
    BY <1>0, WidthAssumption DEF WidthAssumption
  <2> QED
    BY <1>2, <2>1, FloorMonotone
<1>7. /\ FloorTo(older, Width[t + 1]) \in Nat
      /\ FloorTo(older, Width[u + 1]) \in Nat
      /\ FloorTo(newer, Width[u + 1]) \in Nat
  <2>1. Width[u + 1] \in Nat \ {0} /\ Width[t + 1] \in Nat \ {0}
    BY <1>0, WidthAssumption DEF WidthAssumption
  <2> QED
    BY <1>2, <2>1, FloorRange
<1> QED
  BY <1>1, <1>3, <1>5, <1>6, <1>7

\* What a sweep takes out of a tier is a whole bucket of the next one, which the
\* sweeps before took out of the finer tiers.
LEMMA SweepTakesWholeBuckets ==
  ASSUME WellConfigured, TypeOK, InPlace, Clocked, SweptInOrder, [Next]_vars,
         NEW t \in 0 .. Last - 1, Sweep(t), NEW at \in recorded, Has(t, at)
  PROVE  Has(t, at)' \/ Swept(t, FloorTo(at, Width[t + 1]))'
<1> DEFINE w == Width[t + 1]
           b == FloorTo(at, w)
           f == FloorTo(at, Width[t])
<1>0. /\ t \in Tiers /\ t + 1 \in Tiers /\ t <= t + 1 /\ t # Last /\ at \in Instants
      /\ now \in Nat /\ rolled \in Nat /\ MaxLag \in Nat /\ MaxPause \in Nat /\ step \in Nat /\ Last \in Nat
      /\ keep[t] \in Nat /\ t \in Nat /\ Last > 0
  BY Numbers DEF Tiers, TypeOK
<1>1. w \in Nat \ {0} /\ f \in Instants /\ f \in Nat /\ b \in Nat
  BY <1>0, BucketOfAnInstant, Numbers
<1>2. FloorTo(f, w) = b
  BY <1>0, BucketsNest
<1> SUFFICES ASSUME ~Has(t, at)'
             PROVE  Swept(t, b)'
  OBVIOUS
<1>3. keep[t] # 0 /\ f < RollupFloor(t)
  <2>1. at \in rows[t][f] /\ at \notin rows'[t][f]
    BY DEF Has
  <2>2. Cutoff(t) = RollupFloor(t)
    BY <1>0 DEF Cutoff
  <2> HIDE DEF f
  <2> QED
    BY <1>0, <1>1, <2>1, <2>2, SweepRow
<1>4. b + w <= RollupFloor(t) /\ RollupFloor(t) + keep[t] <= now /\ RollupFloor(t) \in Nat
  <2> HIDE DEF f, b
  <2> QED
    BY <1>1, <1>2, <1>3, RollupFloorRange
<1>5. keep[t] >= MaxLag + MaxPause
  BY <1>3 DEF WellConfigured, TypeOK
<1>6. step = Last + 1 + t /\ rolled' = rolled /\ rolled = now
  BY <1>0 DEF Sweep, Clocked
<1>7. b + w + MaxLag <= rolled'
  <2> HIDE DEF b, w
  <2> QED
    BY <1>0, <1>1, <1>4, <1>5, <1>6
<1>8. ASSUME NEW u \in 0 .. t, NEW s \in Instants, FloorTo(s, w) = b
      PROVE  rows'[u][s] = {}
  <2>1. s < b + w /\ s \in Nat
    BY <1>0, <1>8, BucketOfAnInstant, Numbers
  <2>2. keep[u] # 0 /\ RollupFloor(t) <= RollupFloor(u)
    BY <1>3, FloorsFall
  <2>3. u \in Tiers /\ u \in 0 .. Last - 1 /\ RollupFloor(u) \in Nat
    BY <1>0, RollupFloorRange DEF Tiers
  <2>4. s < RollupFloor(t) /\ s < RollupFloor(u)
    <3> HIDE DEF b, w
    <3> QED
      BY <1>1, <1>4, <2>1, <2>2, <2>3
  <2>5. CASE u = t
    <3>1. Cutoff(t) = RollupFloor(t)
      BY <1>0 DEF Cutoff
    <3> QED
      BY <1>0, <1>3, <2>4, <2>5, <3>1, SweepRow
  <2>6. CASE u # t
    <3>1. step > Last + 1 + u
      BY <1>0, <1>6, <2>6
    <3>2. rows[u][s] = {}
      BY <2>2, <2>3, <2>4, <3>1 DEF SweptInOrder
    <3> QED
      BY <1>0, <2>3, <2>6, <3>2, SweepRow
  <2> QED
    BY <2>5, <2>6
<1>9. Past(t, b + w)'
  <2>1. RollupFloor(t) = FloorTo(Before(now, keep[t]), w)
    BY <1>3 DEF RollupFloor
  <2>2. Before(now, keep[t]) \in Nat /\ Before(now, keep[t]) <= Before(clock, keep[t])
    BY <1>0, Numbers DEF Before, Clocked
  <2>3. FloorTo(Before(now, keep[t]), w) <= Before(now, keep[t])
    <3> HIDE DEF w
    <3> QED
      BY <1>1, <2>2, FloorRange
  <2>4. Before(clock, keep[t]) \in Nat
    BY <1>0, Numbers DEF Before
  <2>5. b + w <= Before(clock, keep[t])
    <3> HIDE DEF b, w
    <3> QED
      BY <1>1, <1>4, <2>1, <2>2, <2>3, <2>4
  <2>6. clock' = clock /\ keep \in Retentions
    BY DEF Sweep, TypeOK
  <2> QED
    BY <1>3, <2>5, <2>6 DEF Past
<1> QED
  BY <1>7, <1>8, <1>9 DEF Swept

\* So does one that lets go of a reading.
LEMMA ExpiredStays ==
  ASSUME TypeOK, [Next]_vars, NEW at \in Instants, Expired(at)
  PROVE  Expired(at)'
<1>1. clock \in Nat /\ (clock' = clock \/ clock' = clock + 1)
  BY Numbers DEF Next, Tick, Record, Begin, Rollup, Sweep, Fail, Restart, vars
<1>2. PICK k \in Retentions : k[Last] # 0 /\ FloorTo(at, Width[Last]) < Before(clock, k[Last])
  BY DEF Expired
<1>3. Last \in Tiers
  BY LastAssumption DEF LastAssumption, Tiers
<1>4. k[Last] \in Nat
  BY <1>3, RetentionsAssumption DEF RetentionsAssumption
<1>5. Before(clock, k[Last]) \in Nat /\ Before(clock', k[Last]) \in Nat
  BY <1>1, <1>4 DEF Before
<1>6. Before(clock, k[Last]) <= Before(clock', k[Last])
  BY <1>1, <1>4 DEF Before
<1>7. FloorTo(at, Width[Last]) \in Nat
  BY <1>3, BucketOfAnInstant, Numbers
<1> QED
  BY <1>2, <1>5, <1>6, <1>7 DEF Expired

\* The coarsest tier lets go of a row when its retention is over.
LEMMA LastSweepExpires ==
  ASSUME TypeOK, Clocked, Sweep(Last), NEW at \in recorded, Has(Last, at)
  PROVE  Has(Last, at)' \/ (rows'[Last][FloorTo(at, Width[Last])] = {} /\ Expired(at)')
<1> DEFINE b == FloorTo(at, Width[Last])
<1>0. /\ Last \in Tiers /\ at \in Instants /\ now \in Nat /\ clock \in Nat /\ now <= clock
      /\ keep[Last] \in Nat /\ keep \in Retentions /\ clock' = clock
  BY Numbers DEF Tiers, TypeOK, Clocked, Sweep
<1>1. b \in Instants /\ b \in Nat
  BY <1>0, BucketOfAnInstant, Numbers
<1> SUFFICES ASSUME ~Has(Last, at)'
             PROVE  rows'[Last][b] = {} /\ Expired(at)'
  OBVIOUS
<1>2. keep[Last] # 0 /\ b < Cutoff(Last) /\ rows'[Last][b] = {}
  <2>1. at \in rows[Last][b] /\ at \notin rows'[Last][b]
    BY DEF Has
  <2> HIDE DEF b
  <2> QED
    BY <1>0, <1>1, <2>1, SweepRow
<1>3. Cutoff(Last) = Before(now, keep[Last])
  BY DEF Cutoff
<1>4. /\ Before(now, keep[Last]) <= Before(clock, keep[Last])
      /\ Before(now, keep[Last]) \in Nat /\ Before(clock, keep[Last]) \in Nat
  BY <1>0 DEF Before
<1>5. b < Before(clock', keep[Last])
  <2> HIDE DEF b
  <2> QED
    BY <1>0, <1>1, <1>2, <1>3, <1>4
<1> QED
  BY <1>0, <1>2, <1>5 DEF Expired

\* Everything the last two invariants rest on.
Grounds == TypeOK /\ InPlace /\ Clocked /\ SweptInOrder

LEMMA GroundsInvariant ==
  ASSUME WellConfigured
  PROVE  Spec => []Grounds
BY CompactionTypeCorrect, InPlaceInvariant, ClockInvariant, SweptInOrderInvariant, PTL DEF Grounds

\* A recorded reading is new, and settled in no tier but the raw one, which has it.
LEMMA NewReading ==
  ASSUME Grounds, NEW at \in Instants, Record(at), NEW t \in Tiers
  PROVE  /\ at \notin recorded
         /\ \A b \in Instants : at \notin rows[t][b]
         /\ t = 0 => Has(t, at)'
         /\ t # 0 => ~Settled(t, at)' /\ ~Has(t, at)'
<1>0. /\ clock \in Nat /\ now \in Nat /\ rolled \in Nat /\ newest \in Nat /\ MaxLag \in Nat
      /\ at \in Nat
  BY Numbers DEF Grounds
<1>1. at > newest /\ clock <= at + MaxLag /\ step' = step /\ now' = now /\ rolled' = rolled
  BY DEF Record
<1>2. at \notin recorded
  BY <1>0, <1>1 DEF Grounds, InPlace
<1>3. \A b \in Instants : at \notin rows[t][b]
  BY <1>2 DEF Grounds, InPlace
<1>4. FloorTo(at, Width[t]) \in Instants /\ FloorTo(at, Width[t]) \in Nat /\ Width[t] \in Nat
      /\ at < FloorTo(at, Width[t]) + Width[t]
  BY BucketOfAnInstant, Numbers DEF Grounds
<1>5. t = 0 => Has(t, at)'
  BY RawBucket, RecordRow DEF Has, Grounds
<1>6. ASSUME t # 0 PROVE ~Settled(t, at)' /\ ~Has(t, at)'
  <2>1. Through(t)' <= clock /\ Through(t)' \in Nat
    BY <1>0, <1>1 DEF Through, Grounds, Clocked
  <2>2. ~(FloorTo(at, Width[t]) + Width[t] + MaxLag <= Through(t)')
    BY <1>0, <1>1, <1>4, <2>1
  <2>3. ~Settled(t, at)'
    BY <1>6, <2>2 DEF Settled
  <2>4. rows'[t] = rows[t]
    BY <1>6, RecordRow DEF Grounds
  <2> QED
    BY <1>3, <1>4, <2>3, <2>4 DEF Has
<1> QED
  BY <1>2, <1>3, <1>5, <1>6

\* A reading leaves a tier only when the tier is swept.
LEMMA HasStays ==
  ASSUME Grounds, Carried, [Next]_vars, NEW t \in Tiers, NEW at \in recorded, Has(t, at)
  PROVE  Has(t, at)' \/ Sweep(t)
<1>1. CASE rows' = rows
  BY <1>1 DEF Has
<1>2. ASSUME NEW x \in Instants, Record(x)
      PROVE  Has(t, at)'
  <2>1. x # at /\ at \in Instants
    BY <1>2, NewReading DEF Grounds, TypeOK
  <2>2. CASE t = 0
    BY <1>2, <2>1, <2>2, RawBucket, RecordRow DEF Has, Grounds
  <2>3. CASE t # 0
    BY <1>2, <2>3, RecordRow DEF Has, Grounds
  <2> QED
    BY <2>2, <2>3
<1>3. ASSUME NEW v \in 0 .. Last - 1, Rollup(v)
      PROVE  Has(t, at)'
  BY <1>3, RowsGrow DEF Grounds
<1>4. ASSUME NEW v \in Tiers, Sweep(v), v # t
      PROVE  Has(t, at)'
  BY <1>4, SweepRow DEF Has, Grounds
<1> QED
  BY <1>1, <1>2, <1>3, <1>4 DEF Next, Tick, Begin, Fail, Restart, vars

\* Readings are only ever found where they were, or where a roll-up took them from
\* the tier below.
LEMMA HadBefore ==
  ASSUME Grounds, [Next]_vars, NEW t \in Tiers, NEW at \in recorded, Has(t, at)'
  PROVE  Has(t, at) \/ (0 < t /\ Rollup(t - 1) /\ Has(t - 1, at))
<1>0. at \in Instants /\ FloorTo(at, Width[t]) \in Instants
  BY BucketOfAnInstant DEF Grounds, TypeOK
<1>1. CASE rows' = rows
  BY <1>1 DEF Has
<1>2. ASSUME NEW x \in Instants, Record(x)
      PROVE  Has(t, at)
  <2>1. x # at
    BY <1>2, NewReading
  <2>2. CASE t = 0
    BY <1>0, <1>2, <2>1, <2>2, RecordRow DEF Has, Grounds
  <2>3. CASE t # 0
    BY <1>2, <2>3, RecordRow DEF Has, Grounds
  <2> QED
    BY <2>2, <2>3
<1>3. ASSUME NEW v \in 0 .. Last - 1, Rollup(v), ~Has(t, at)
      PROVE  0 < t /\ t - 1 = v /\ Has(v, at)
  <2> DEFINE b == FloorTo(at, Width[t])
  <2>1. at \in rows'[t][b] /\ at \notin rows[t][b]
    BY <1>3 DEF Has
  <2>2. v \in Tiers /\ v \in Nat
    BY LastAssumption DEF LastAssumption, Tiers
  <2>3. t = v + 1
    BY <1>3, <2>1, RollupRow DEF Grounds
  <2>4. rows'[t][b] = UNION {rows[v][s] : s \in Bucket(v, b)}
    <3> HIDE DEF b
    <3> QED
      BY <1>0, <1>3, <2>1, <2>3, RollupRow DEF Grounds, b
  <2>5. PICK s \in Bucket(v, b) : at \in rows[v][s]
    <3> HIDE DEF b
    <3> QED
      BY <2>1, <2>4
  <2>6. s \in Instants
    BY DEF Bucket
  <2>7. FloorTo(at, Width[v]) = s
    BY <2>2, <2>5, <2>6 DEF Grounds, InPlace
  <2> QED
    BY <2>2, <2>3, <2>5, <2>7 DEF Has
<1>4. ASSUME NEW v \in Tiers, Sweep(v)
      PROVE  Has(t, at)
  BY <1>0, <1>4, SweepRow DEF Has, Grounds
<1> QED
  BY <1>1, <1>2, <1>3, <1>4 DEF Next, Tick, Begin, Fail, Restart, vars

\* An empty row stays so, unless a roll-up into its tier derives it anew.
LEMMA RowStaysEmpty ==
  ASSUME Grounds, [Next]_vars, NEW t \in Tiers, NEW at \in recorded,
         rows[t][FloorTo(at, Width[t])] = {}
  PROVE  rows'[t][FloorTo(at, Width[t])] = {} \/ (0 < t /\ Rollup(t - 1))
<1> DEFINE b == FloorTo(at, Width[t])
<1>0. at \in Instants /\ b \in Instants /\ t \in Nat /\ Last \in Nat
  BY BucketOfAnInstant, Numbers DEF Grounds, TypeOK, Tiers
<1>1. CASE rows' = rows
  BY <1>1
<1>2. ASSUME NEW x \in Instants, Record(x)
      PROVE  rows'[t][b] = {}
  <2>1. x # at
    BY <1>2, NewReading
  <2>2. CASE t = 0
    BY <1>0, <1>2, <2>1, <2>2, RawBucket, RecordRow DEF Grounds
  <2>3. CASE t # 0
    BY <1>2, <2>3, RecordRow DEF Grounds
  <2> QED
    BY <2>2, <2>3
<1>3. ASSUME NEW v \in 0 .. Last - 1, Rollup(v)
      PROVE  rows'[t][b] = {} \/ (0 < t /\ Rollup(t - 1))
  <2>1. CASE t = v + 1
    <3>1. t - 1 = v /\ 0 < t
      BY <1>0, <2>1
    <3> QED
      BY <1>3, <3>1
  <2>2. CASE t # v + 1
    BY <1>3, <2>2, RollupRow DEF Grounds
  <2> QED
    BY <2>1, <2>2
<1>4. ASSUME NEW v \in Tiers, Sweep(v)
      PROVE  rows'[t][b] = {}
  <2> HIDE DEF b
  <2> QED
    BY <1>0, <1>4, SweepRow DEF Grounds, b
<1> QED
  BY <1>1, <1>2, <1>3, <1>4 DEF Next, Tick, Begin, Fail, Restart, vars

\* What had been recorded before, or comes to be by this step.
LEMMA RecordedBefore ==
  ASSUME [Next]_vars, NEW at \in recorded', at \notin recorded
  PROVE  at \in Instants /\ Record(at)
<1>1. CASE recorded' = recorded
  BY <1>1
<1>2. ASSUME NEW x \in Instants, Record(x)
      PROVE  at \in Instants /\ Record(at)
  <2>1. at = x
    BY <1>2 DEF Record
  <2> QED
    BY <1>2, <2>1
<1> QED
  BY <1>1, <1>2 DEF Next, Tick, Begin, Rollup, Sweep, Fail, Restart, vars

\* No tier is ahead of the one below it but for what was swept there whole, and
\* the coarsest tier keeps what it has until its retention is over.
LEMMA CarriedInvariant ==
  ASSUME WellConfigured
  PROVE  Spec => [](Carried /\ Kept)
<1>1. Init => Carried /\ Kept
  BY DEF Init, Carried, Kept
<1>2. Grounds /\ Carried /\ Kept /\ [Next]_vars => (Carried /\ Kept)'
  <2> SUFFICES ASSUME Grounds, Carried, Kept, [Next]_vars
               PROVE  Carried' /\ Kept'
    OBVIOUS
  <2>0. Last \in Nat /\ Last \in Tiers
    BY LastAssumption DEF LastAssumption, Tiers
  <2>1. ASSUME NEW t \in Tiers, NEW at \in recorded, Settled(t, at)'
        PROVE  \/ Has(t, at)'
               \/ /\ Settled(t, at)
                  /\ 0 < t /\ Rollup(t - 1) =>
                       rows'[t][FloorTo(at, Width[t])] = rows[t][FloorTo(at, Width[t])]
    <3>1. at \in Instants
      BY DEF Grounds, TypeOK
    <3>2. CASE 0 < t /\ Rollup(t - 1)
      <4>1. t - 1 \in 0 .. Last - 1 /\ (t - 1) + 1 = t
        BY <2>0, <3>2 DEF Tiers
      <4> DEFINE v == t - 1
      <4>2. v \in 0 .. Last - 1 /\ v + 1 = t /\ Rollup(v)
        BY <3>2, <4>1
      <4> HIDE DEF v
      <4>3. Settled(v + 1, at)'
        BY <2>1, <4>2
      <4>4. \/ Has(v + 1, at)'
            \/ /\ Settled(v + 1, at)
               /\ rows'[v + 1][FloorTo(at, Width[v + 1])] = rows[v + 1][FloorTo(at, Width[v + 1])]
        BY <4>2, <4>3, RollupSettles DEF Grounds
      <4> QED
        BY <4>2, <4>4
    <3>3. CASE ~(0 < t /\ Rollup(t - 1))
      BY <2>1, <3>1, <3>3, SettledBefore DEF Grounds
    <3> QED
      BY <3>2, <3>3
  <2>2. ASSUME NEW t \in 0 .. Last - 1, NEW at \in recorded', Settled(t, at)' \/ Has(t + 1, at)'
        PROVE  Has(t, at)' \/ Swept(t, FloorTo(at, Width[t + 1]))'
    <3>0. t \in Tiers /\ t + 1 \in Tiers /\ (t + 1) - 1 = t /\ t + 1 # 0
      BY <2>0 DEF Tiers
    <3>1. CASE at \notin recorded
      <4>1. at \in Instants /\ Record(at)
        BY <3>1, RecordedBefore
      <4>2. ~Has(t + 1, at)'
        BY <3>0, <4>1, NewReading
      <4>3. t = 0
        BY <2>2, <3>0, <4>1, <4>2, NewReading
      <4> QED
        BY <3>0, <4>1, <4>3, NewReading
    <3>2. CASE at \in recorded
      <4>1. Has(t, at)' \/ Has(t, at) \/ Swept(t, FloorTo(at, Width[t + 1]))
        <5>1. CASE Settled(t, at)'
          BY <2>1, <3>0, <3>2, <5>1 DEF Carried
        <5>2. CASE Has(t + 1, at)'
          <6>1. Has(t + 1, at) \/ Has(t, at)
            BY <3>0, <3>2, <5>2, HadBefore
          <6> QED
            BY <3>2, <6>1 DEF Carried
        <5> QED
          BY <2>2, <5>1, <5>2
      <4>2. ASSUME Has(t, at)
            PROVE  Has(t, at)' \/ Swept(t, FloorTo(at, Width[t + 1]))'
        <5>1. Has(t, at)' \/ Sweep(t)
          BY <3>0, <3>2, <4>2, HasStays
        <5> QED
          BY <3>2, <4>2, <5>1, SweepTakesWholeBuckets DEF Grounds
      <4>3. ASSUME Swept(t, FloorTo(at, Width[t + 1]))
            PROVE  Swept(t, FloorTo(at, Width[t + 1]))'
        <5> DEFINE b == FloorTo(at, Width[t + 1])
        <5>1. b \in Instants
          BY <3>0, <3>2, BucketOfAnInstant DEF Grounds, TypeOK
        <5>2. Swept(t, b)
          BY <4>3
        <5>3. Swept(t, b)'
          <6> HIDE DEF b
          <6> QED
            BY <5>1, <5>2, SweptStays DEF Grounds
        <5> QED
          BY <5>3
      <4> QED
        BY <4>1, <4>2, <4>3
    <3> QED
      BY <3>1, <3>2
  <2>3. Carried'
    BY <2>2 DEF Carried
  <2>4. ASSUME NEW at \in recorded', Settled(Last, at)'
        PROVE  Has(Last, at)' \/ (rows'[Last][FloorTo(at, Width[Last])] = {} /\ Expired(at)')
    <3>1. CASE at \notin recorded
      BY <2>0, <2>4, <3>1, RecordedBefore, NewReading
    <3>2. CASE at \in recorded
      <4> SUFFICES ASSUME ~Has(Last, at)'
                   PROVE  rows'[Last][FloorTo(at, Width[Last])] = {} /\ Expired(at)'
        OBVIOUS
      <4>1. /\ Settled(Last, at)
            /\ 0 < Last /\ Rollup(Last - 1) =>
                 rows'[Last][FloorTo(at, Width[Last])] = rows[Last][FloorTo(at, Width[Last])]
        BY <2>0, <2>1, <2>4, <3>2
      <4>2. CASE Has(Last, at)
        <5>1. Sweep(Last)
          BY <2>0, <3>2, <4>2, HasStays
        <5> QED
          BY <3>2, <4>2, <5>1, LastSweepExpires DEF Grounds
      <4>3. CASE rows[Last][FloorTo(at, Width[Last])] = {} /\ Expired(at)
        <5>1. at \in Instants
          BY <3>2 DEF Grounds, TypeOK
        <5>2. Expired(at)'
          BY <4>3, <5>1, ExpiredStays DEF Grounds
        <5>3. rows'[Last][FloorTo(at, Width[Last])] = {}
          BY <2>0, <3>2, <4>1, <4>3, RowStaysEmpty
        <5> QED
          BY <5>2, <5>3
      <4> QED
        BY <3>2, <4>1, <4>2, <4>3 DEF Kept
    <3> QED
      BY <3>1, <3>2
  <2>5. Kept'
    BY <2>4 DEF Kept
  <2> QED
    BY <2>3, <2>5
<1> QED
  BY <1>1, <1>2, GroundsInvariant, PTL DEF Spec

---------------------------------------------------------------------------
(* Theorems *)

\* History does not drift: an average never loses one of its readings for as long
\* as it is kept, however often it is derived again (compact.go:24-28).
THEOREM HistoryDoesNotDrift ==
  ASSUME WellConfigured
  PROVE  Spec => NoDrift
<1>1. Grounds /\ Carried /\ [Next]_vars =>
        [\A t \in 1 .. Last : \A b \in Instants :
           rows'[t][b] = {} \/ rows[t][b] \subseteq rows'[t][b]]_rows
  <2> SUFFICES ASSUME Grounds, Carried, [Next]_vars, rows' # rows,
                      NEW t \in 1 .. Last, NEW b \in Instants
               PROVE  rows'[t][b] = {} \/ rows[t][b] \subseteq rows'[t][b]
    OBVIOUS
  <2>0. t \in Tiers /\ t # 0 /\ Last \in Nat
    BY LastAssumption DEF LastAssumption, Tiers
  <2>1. ASSUME NEW at \in Instants, Record(at)
        PROVE  rows'[t] = rows[t]
    BY <2>0, <2>1, RecordRow DEF Grounds
  <2>2. ASSUME NEW v \in 0 .. Last - 1, Rollup(v), NEW at \in rows[t][b]
        PROVE  at \in rows'[t][b]
    <3>1. at \in recorded /\ FloorTo(at, Width[t]) = b
      BY <2>0, <2>2 DEF Grounds, InPlace
    <3>2. Has(t, at)'
      BY <2>0, <2>2, <3>1, RowsGrow DEF Grounds, Has
    <3> QED
      BY <3>1, <3>2 DEF Has
  <2>3. ASSUME NEW v \in Tiers, Sweep(v)
        PROVE  rows'[t][b] = {} \/ rows'[t][b] = rows[t][b]
    BY <2>0, <2>3, SweepRow DEF Grounds
  <2> QED
    BY <2>1, <2>2, <2>3 DEF Next, Tick, Begin, Fail, Restart, vars
<1> QED
  BY <1>1, GroundsInvariant, CarriedInvariant, PTL DEF Spec, NoDrift

\* A bucket that ended long before the last run averages every reading recorded
\* in it and nothing else, in whatever tier still has it (compact.go:19-22).
THEOREM AveragesAreExact ==
  ASSUME WellConfigured
  PROVE  Spec => []OldAveragesAreExact
<1>1. Grounds /\ Carried /\ Kept => OldAveragesAreExact
  <2> SUFFICES ASSUME Grounds, Carried, Kept,
                      NEW t \in 1 .. Last, NEW b \in Instants, b + Width[t] + MaxLag <= rolled,
                      rows[t][b] # {}
               PROVE  rows[t][b] = {at \in recorded : FloorTo(at, Width[t]) = b}
    BY DEF OldAveragesAreExact
  <2>0. t \in Tiers /\ t \in Nat /\ Last \in Nat
    BY LastAssumption DEF LastAssumption, Tiers
  <2>1. ASSUME NEW at \in rows[t][b]
        PROVE  at \in recorded /\ FloorTo(at, Width[t]) = b
    BY <2>0 DEF Grounds, InPlace
  <2>2. ASSUME NEW at \in recorded, FloorTo(at, Width[t]) = b
        PROVE  at \in rows[t][b]
    <3>0. at \in Instants
      BY DEF Grounds, TypeOK
    <3>1. Settled(t, at)
      BY <2>0, <2>2, <3>0, SettledByTheLastRun DEF Grounds
    <3>2. CASE t = Last
      BY <2>2, <3>1, <3>2 DEF Kept, Has
    <3>3. CASE t # Last
      <4>1. t \in 0 .. Last - 1 /\ t \in 0 .. t /\ t + 1 \in Tiers /\ t <= t + 1
        BY <2>0, <3>3 DEF Tiers
      <4>2. Has(t, at) \/ Swept(t, FloorTo(at, Width[t + 1]))
        BY <3>1, <4>1 DEF Carried
      <4>3. FloorTo(b, Width[t + 1]) = FloorTo(at, Width[t + 1])
        BY <2>0, <2>2, <3>0, <4>1, BucketsNest
      <4>4. ~Swept(t, FloorTo(at, Width[t + 1]))
        BY <4>1, <4>3 DEF Swept
      <4> QED
        BY <2>2, <4>2, <4>4 DEF Has
    <3> QED
      BY <3>2, <3>3
  <2> QED
    BY <2>1, <2>2
<1> QED
  BY <1>1, GroundsInvariant, CarriedInvariant, PTL

\* A reading that was recorded is in some tier until the coarsest lets go of it
\* (compact.go:20-22): it is in the coarsest tier it has settled in, for had it
\* been swept there it would have settled in the next.
THEOREM ReadingsSurvive ==
  ASSUME WellConfigured
  PROVE  Spec => []NothingIsLost
<1>1. Grounds /\ Carried /\ Kept => NothingIsLost
  <2> SUFFICES ASSUME Grounds, Carried, Kept, NEW at \in recorded
               PROVE  (\E t \in Tiers : Has(t, at)) \/ Expired(at)
    BY DEF NothingIsLost, Has, Expired
  <2>0. Last \in Nat /\ at \in Instants /\ Last \in Tiers
    BY LastAssumption DEF LastAssumption, Grounds, TypeOK, Tiers
  <2> DEFINE Below == {d \in 0 .. Last : Settled(Last - d, at)}
  <2>1. Last \in Below
    BY <2>0 DEF Settled
  <2>2. PICK d \in Below : \A e \in Below : d <= e
    <3>1. Below \subseteq Nat
      OBVIOUS
    <3> HIDE DEF Below
    <3> QED
      BY <2>1, <3>1, LeastNat
  <2> DEFINE t == Last - d
  <2>3. t \in Tiers /\ t \in Nat /\ Settled(t, at)
    BY <2>0, <2>2 DEF Tiers
  <2>4. CASE t = Last
    BY <2>0, <2>3, <2>4 DEF Kept
  <2>5. CASE t # Last
    <3>1. t \in 0 .. Last - 1 /\ t + 1 \in Tiers /\ t + 1 = Last - (d - 1)
      BY <2>0, <2>2, <2>5 DEF Tiers
    <3>2. ~Settled(t + 1, at)
      <4>1. d - 1 \in 0 .. Last /\ ~(d <= d - 1)
        BY <2>0, <2>2, <2>5
      <4>2. d - 1 \notin Below
        <5> HIDE DEF Below
        <5> QED
          BY <2>2, <4>1
      <4> QED
        BY <3>1, <4>1, <4>2
    <3> HIDE DEF t
    <3>3. ~Swept(t, FloorTo(at, Width[t + 1]))
      BY <2>0, <3>1, <3>2, SettledByTheLastRun DEF Grounds, Swept
    <3>4. Has(t, at)
      BY <2>3, <3>1, <3>3 DEF Carried
    <3> QED
      BY <2>3, <3>4
  <2> QED
    BY <2>4, <2>5
<1> QED
  BY <1>1, GroundsInvariant, CarriedInvariant, PTL

---------------------------------------------------------------------------
(* Charts *)

\* The greatest number of a set below a bound.
LEMMA GreatestNat ==
  ASSUME NEW n \in Nat, NEW T \in SUBSET (0 .. n), T # {}
  PROVE  Max(T) \in T /\ \A x \in T : x <= Max(T)
<1> DEFINE Gaps == {n - x : x \in T}
<1>1. Gaps \in SUBSET Nat /\ Gaps # {}
  <2>1. \A x \in T : n - x \in Nat
    OBVIOUS
  <2>2. PICK x \in T : TRUE
    OBVIOUS
  <2>3. n - x \in Gaps
    BY <2>2
  <2> QED
    BY <2>1, <2>3
<1>2. PICK gap \in Gaps : \A y \in Gaps : gap <= y
  <2> HIDE DEF Gaps
  <2> QED
    BY <1>1, LeastNat
<1>3. PICK m \in T : gap = n - m
  OBVIOUS
<1>4. ASSUME NEW x \in T PROVE m >= x
  <2>1. gap <= n - x
    BY <1>2
  <2> QED
    BY <1>3, <2>1
<1>5. \E x \in T : \A y \in T : x >= y
  BY <1>4
<1>6. Max(T) \in T /\ \A y \in T : Max(T) >= y
  BY <1>5 DEF Max
<1> QED
  BY <1>6

\* Rounding a quotient up.
LEMMA RoundedUp ==
  ASSUME NEW x \in Nat, NEW p \in Nat \ {0}
  PROVE  (x + p - 1) \div p \in Nat /\ x <= p * ((x + p - 1) \div p)
<1>1. ASSUME NEW q \in Int, NEW r \in Int, q = (x + p - 1) \div p, r = (x + p - 1) % p
      PROVE  x + p - 1 = p * q + r /\ r >= 0 /\ r < p
  BY <1>1
<1> DEFINE q == (x + p - 1) \div p
           r == (x + p - 1) % p
<1>2. q \in Int /\ r \in Int
  OBVIOUS
<1>3. x + p - 1 = p * q + r /\ r >= 0 /\ r < p
  BY <1>1, <1>2
<1> HIDE DEF q, r
<1>4. p * q \in Int
  BY <1>2
<1>5. x <= p * q
  BY <1>2, <1>3, <1>4
<1>6. q \in Nat
  BY <1>2, <1>5
<1> QED
  BY <1>5, <1>6 DEF q

\* A chart's buckets are wide enough for its points to span the window.
LEMMA ResolutionSpans ==
  ASSUME TypeOK, NEW w \in Asked
  PROVE  /\ From(w) \in Nat /\ From(w) <= clock
         /\ Resolution(w) \in Nat \ {0} /\ w.points \in Nat \ {0}
         /\ clock <= From(w) + w.points * Resolution(w)
<1>1. w.back \in Nat /\ w.points \in Nat \ {0} /\ clock \in Nat
  BY AskedAssumption, Numbers DEF AskedAssumption
<1>2. From(w) \in Nat /\ From(w) <= clock
  BY <1>1 DEF From, Before
<1> DEFINE x == clock - From(w)
           q == (x + w.points - 1) \div w.points
           p == w.points
<1>3. x \in Nat /\ p \in Nat \ {0}
  BY <1>1, <1>2
<1>4. q \in Nat /\ x <= p * q
  <2> HIDE DEF x, p
  <2> QED
    BY <1>3, RoundedUp DEF p
<1>5. Resolution(w) = Max({1, q})
  BY DEF Resolution
<1> HIDE DEF q
<1>6. Max({1, q}) \in {1, q} /\ q <= Max({1, q}) /\ 1 <= Max({1, q})
  <2>1. \E y \in {1, q} : \A z \in {1, q} : y >= z
    BY <1>4
  <2> QED
    BY <1>4, <2>1 DEF Max
<1> DEFINE m == Max({1, q})
<1>7. m \in Nat \ {0} /\ q <= m
  BY <1>4, <1>6
<1> HIDE DEF m
<1>8. p * q <= p * m
  BY <1>3, <1>4, <1>7
<1>9. clock <= From(w) + p * m
  <2>1. p * q \in Nat /\ p * m \in Nat
    BY <1>3, <1>4, <1>7
  <2> HIDE DEF p
  <2> QED
    BY <1>1, <1>2, <1>4, <1>8, <2>1
<1> QED
  BY <1>1, <1>2, <1>5, <1>7, <1>9 DEF m

\* The tier a chart is drawn from is the raw one or fits into its buckets.
LEMMA TierFits ==
  ASSUME NEW width \in Nat \ {0}
  PROVE  TierFor(width) \in Tiers /\ Width[TierFor(width)] <= width
<1> DEFINE Fitting == {t \in Tiers : t = 0 \/ Width[t] <= width}
<1>1. Last \in Nat /\ Fitting \in SUBSET (0 .. Last) /\ 0 \in Fitting
  BY LastAssumption DEF LastAssumption, Tiers
<1>2. Max(Fitting) \in Fitting
  <2> HIDE DEF Fitting
  <2> QED
    BY <1>1, GreatestNat
<1>3. TierFor(width) = Max(Fitting)
  BY DEF TierFor
<1>4. Width[0] <= width
  BY WidthAssumption DEF WidthAssumption
<1> QED
  BY <1>2, <1>3, <1>4

\* What is in a point: rows of the tier that begin in the window and in the
\* point's bucket.
LEMMA SeriesPoints ==
  ASSUME NEW w \in Asked
  PROVE  /\ \A b : b \in DOMAIN Series(w) <=>
              \E s \in Instants : /\ rows[TierFor(Resolution(w))][s] # {} /\ InWindow(w, s)
                                  /\ b = FloorTo(s, Resolution(w))
         /\ \A b \in DOMAIN Series(w) : \A at :
              at \in Series(w)[b] <=>
                \E s \in Instants : /\ at \in rows[TierFor(Resolution(w))][s] /\ InWindow(w, s)
                                    /\ b = FloorTo(s, Resolution(w))
<1> DEFINE width  == Resolution(w)
           t      == TierFor(width)
           within == {s \in Instants : rows[t][s] # {} /\ InWindow(w, s)}
           points == {FloorTo(s, width) : s \in within}
           of(b)  == {s \in within : FloorTo(s, width) = b}
<1>1. Series(w) = [b \in points |-> UNION {rows[t][s] : s \in of(b)}]
  BY DEF Series
<1>2. DOMAIN Series(w) = points /\ \A b \in points : Series(w)[b] = UNION {rows[t][s] : s \in of(b)}
  <2> HIDE DEF points, of
  <2> QED
    BY <1>1
<1> HIDE DEF t, width
<1> QED
  BY <1>2 DEF t, width

\* A chart has at most one point more than was asked for.
LEMMA AsManyPoints ==
  ASSUME TypeOK, NEW w \in Asked
  PROVE  Cardinality(DOMAIN Series(w)) <= w.points + 1
<1> DEFINE width == Resolution(w)
           n     == w.points + 1
           start == From(w)
<1>1. /\ start \in Nat /\ width \in Nat \ {0} /\ n \in Nat /\ n > 1 /\ clock \in Nat
      /\ clock <= start + (n - 1) * width
  <2>1. w.points \in Nat \ {0} /\ n - 1 = w.points /\ n \in Nat /\ n > 1
    BY ResolutionSpans
  <2>2. clock <= start + w.points * width /\ start \in Nat /\ width \in Nat \ {0} /\ clock \in Nat
    BY ResolutionSpans, Numbers
  <2> HIDE DEF width, n, start
  <2> QED
    BY <2>1, <2>2
<1> HIDE DEF width, n, start
<1>2. PICK p \in Nat : FloorTo(start, width) = width * p /\ width * p <= start /\ start < width * p + width
  BY <1>1, Division
<1> DEFINE grid == [i \in 1 .. n |-> width * (p + i - 1)]
           G    == {grid[i] : i \in 1 .. n}
<1>3. grid \in Surjection(1 .. n, G)
  BY DEF Surjection
<1>4. IsFiniteSet(1 .. n) /\ Cardinality(1 .. n) = n
  BY <1>1, FS_Interval
<1>5. IsFiniteSet(G) /\ Cardinality(G) <= n
  <2> HIDE DEF grid, G
  <2> QED
    BY <1>3, <1>4, FS_Surjection
<1>6. ASSUME NEW b \in DOMAIN Series(w) PROVE b \in G
  <2>1. PICK s \in Instants : InWindow(w, s) /\ b = FloorTo(s, width)
    BY SeriesPoints DEF width
  <2>2. s \in Nat /\ start <= s /\ s < clock
    BY <2>1, Numbers DEF InWindow, start
  <2>3. PICK q \in Nat : b = width * q /\ width * q <= s /\ s < width * q + width
    BY <1>1, <2>1, <2>2, Division
  <2>4. p <= q
    <3>1. FloorTo(start, width) <= FloorTo(s, width)
      BY <1>1, <2>2, FloorMonotone
    <3>2. width * p <= width * q
      BY <1>2, <2>1, <2>3, <3>1
    <3> QED
      BY <1>1, <3>2
  <2>5. q < p + n
    <3>1. (n - 1) * width \in Nat /\ width * p \in Nat /\ width * q \in Nat
      BY <1>1
    <3>2. width * q < width * p + width + (n - 1) * width
      BY <1>1, <1>2, <2>2, <2>3, <3>1
    <3>3. width * p + width + (n - 1) * width = width * (p + n)
      BY <1>1
    <3>4. width * q < width * (p + n)
      BY <3>2, <3>3
    <3> QED
      BY <1>1, <3>4
  <2> DEFINE i == q - p + 1
  <2>6. i \in 1 .. n /\ p + i - 1 = q
    BY <1>1, <2>4, <2>5
  <2>7. grid[i] = b
    <3> HIDE DEF i
    <3> QED
      BY <2>3, <2>6
  <2> HIDE DEF i, grid
  <2> QED
    BY <2>6, <2>7
<1>7. DOMAIN Series(w) \in SUBSET G
  BY <1>6
<1> HIDE DEF grid, G
<1>8. Cardinality(DOMAIN Series(w)) <= Cardinality(G) /\ IsFiniteSet(DOMAIN Series(w))
  BY <1>5, <1>7, FS_Subset
<1>9. Cardinality(G) \in Nat /\ Cardinality(DOMAIN Series(w)) \in Nat
  BY <1>5, <1>8, FS_CardinalityType
<1> QED
  BY <1>1, <1>5, <1>8, <1>9 DEF n

\* Readings are drawn where they belong.
LEMMA PointsInPlace ==
  ASSUME TypeOK, InPlace, NEW w \in Asked
  PROVE  PointsAreInPlace(w)
<1> DEFINE width == Resolution(w)
           t     == TierFor(width)
           tier  == Width[t]
           over  == IF tier < width /\ width % tier # 0 THEN tier - 1 ELSE 0
<1>1. width \in Nat \ {0}
  BY ResolutionSpans
<1>2. t \in Tiers /\ tier <= width /\ tier \in Nat \ {0}
  <2> HIDE DEF width
  <2> QED
    BY <1>1, TierFits, WidthAssumption DEF WidthAssumption
<1>3. ASSUME NEW b \in DOMAIN Series(w), NEW at \in Series(w)[b]
      PROVE  at \in b .. b + width - 1 + over
  <2>1. PICK s \in Instants : at \in rows[t][s] /\ b = FloorTo(s, width)
    BY SeriesPoints
  <2>2. at \in Instants /\ FloorTo(at, tier) = s
    BY <1>2, <2>1 DEF InPlace, TypeOK
  <2>3. at \in Nat /\ s \in Nat /\ s <= at /\ at < s + tier
    BY <1>2, <2>2, BucketOfAnInstant, Numbers
  <2>4. b \in Nat /\ b <= s /\ s < b + width
    <3> HIDE DEF width
    <3> QED
      BY <1>1, <2>1, <2>3, FloorRange
  <2>5. CASE tier < width /\ width % tier # 0
    <3>1. over = tier - 1
      BY <2>5
    <3> HIDE DEF over, tier, width
    <3> QED
      BY <1>1, <1>2, <2>3, <2>4, <3>1
  <2>6. CASE ~(tier < width /\ width % tier # 0)
    <3>1. over = 0
      BY <2>6
    <3> HIDE DEF over
    <3>2. width % tier = 0
      <4>1. \A v \in Nat \ {0} : v % v = 0
        OBVIOUS
      <4> HIDE DEF tier, width
      <4> QED
        BY <1>1, <1>2, <2>6, <4>1
    <3>3. FloorTo(at, width) = b
      <4> HIDE DEF tier, width
      <4> QED
        BY <1>1, <1>2, <2>1, <2>2, <2>3, <3>2, Nested
    <3>4. at < b + width
      <4> HIDE DEF tier, width
      <4> QED
        BY <1>1, <2>3, <3>3, FloorRange
    <3> HIDE DEF tier, width
    <3> QED
      BY <1>1, <2>3, <2>4, <3>1, <3>4
  <2> QED
    BY <2>5, <2>6
<1> HIDE DEF over
<1> QED
  BY <1>3, AsManyPoints DEF PointsAreInPlace, over

\* What a tier has kept of the window is drawn, once.
LEMMA KeptIsDrawn ==
  ASSUME Grounds, Carried, Kept, NEW w \in Asked
  PROVE  NothingKeptIsMissing(w)
<1> DEFINE width == Resolution(w)
           t     == TierFor(width)
           row(at) == FloorTo(at, Width[t])
           due(at) == /\ From(w) <= row(at) /\ row(at) < clock
                      /\ t = 0 \/ row(at) + Width[t] + MaxLag <= rolled
                      /\ \A k \in Retentions : k[t] = 0 \/ Before(clock, k[t]) <= row(at)
<1>1. width \in Nat \ {0} /\ t \in Tiers
  <2>1. width \in Nat \ {0}
    BY ResolutionSpans DEF Grounds
  <2> HIDE DEF width
  <2> QED
    BY <2>1, TierFits
<1> HIDE DEF width, t
<1>2. ASSUME NEW at \in recorded, due(at)
      PROVE  {b \in DOMAIN Series(w) : at \in Series(w)[b]} = {FloorTo(row(at), width)}
  <2>0. at \in Instants /\ row(at) \in Instants /\ row(at) \in Nat /\ clock \in Nat /\ Last \in Nat
    BY <1>1, BucketOfAnInstant, Numbers DEF Grounds, TypeOK
  <2>1. Settled(t, at)
    BY <1>1, <1>2, <2>0, SettledByTheLastRun DEF Grounds, Settled
  <2>2. \A k \in Retentions : k[t] = 0 \/ Before(clock, k[t]) \in Nat
    <3>1. \A k \in Retentions : k[t] \in Nat
      BY <1>1, RetentionsAssumption DEF RetentionsAssumption
    <3> QED
      BY <2>0, <3>1 DEF Before
  <2>3. Has(t, at)
    <3>1. CASE t = Last
      <4>1. ~Expired(at)
        <5> SUFFICES ASSUME NEW k \in Retentions, k[t] # 0, row(at) < Before(clock, k[t])
                     PROVE  FALSE
          BY <3>1 DEF Expired
        <5>1. Before(clock, k[t]) <= row(at) /\ Before(clock, k[t]) \in Nat
          BY <1>2, <2>2
        <5> HIDE DEF row
        <5> QED
          BY <2>0, <5>1
      <4> QED
        BY <2>1, <3>1, <4>1 DEF Kept
    <3>2. CASE t # Last
      <4>1. t \in 0 .. Last - 1 /\ t + 1 \in Tiers /\ t <= t + 1 /\ t \in Tiers
        BY <1>1, <2>0, <3>2 DEF Tiers
      <4> DEFINE b == FloorTo(at, Width[t + 1])
      <4>2. row(at) < b + Width[t + 1] /\ b \in Nat /\ Width[t + 1] \in Nat
        <5>1. row(at) <= at /\ at < b + Width[t + 1] /\ b \in Instants /\ Width[t + 1] \in Nat
          BY <2>0, <4>1, BucketOfAnInstant
        <5>2. at \in Nat /\ b \in Nat
          BY <2>0, <5>1, Numbers DEF Grounds
        <5> HIDE DEF row, b
        <5> QED
          BY <2>0, <5>1, <5>2
      <4>3. ~Past(t, b + Width[t + 1])
        <5> SUFFICES ASSUME NEW k \in Retentions, k[t] # 0, b + Width[t + 1] <= Before(clock, k[t])
                     PROVE  FALSE
          BY DEF Past
        <5>1. Before(clock, k[t]) <= row(at) /\ Before(clock, k[t]) \in Nat
          BY <1>2, <2>2
        <5> HIDE DEF row, b
        <5> QED
          BY <2>0, <4>2, <5>1
      <4>4. ~Swept(t, b)
        BY <4>3 DEF Swept
      <4> QED
        BY <2>1, <4>1, <4>4 DEF Carried
    <3> QED
      BY <3>1, <3>2
  <2>4. \A s \in Instants : at \in rows[t][s] <=> s = row(at)
    <3>1. at \in rows[t][row(at)]
      BY <2>3 DEF Has
    <3>2. \A s \in Instants : at \in rows[t][s] => s = row(at)
      BY <1>1 DEF Grounds, InPlace
    <3> HIDE DEF row
    <3> QED
      BY <3>1, <3>2
  <2>5. InWindow(w, row(at))
    BY <1>2 DEF InWindow
  <2> DEFINE b == FloorTo(row(at), width)
  <2> HIDE DEF row
  <2>6. b \in DOMAIN Series(w) /\ at \in Series(w)[b]
    <3>1. b \in DOMAIN Series(w)
      BY <2>0, <2>4, <2>5, SeriesPoints DEF t, width
    <3> QED
      BY <2>0, <2>4, <2>5, <3>1, SeriesPoints DEF t, width
  <2>7. ASSUME NEW c \in DOMAIN Series(w), at \in Series(w)[c] PROVE c = b
    <3>1. PICK s \in Instants : at \in rows[t][s] /\ c = FloorTo(s, width)
      BY <2>7, SeriesPoints DEF t, width
    <3> QED
      BY <2>4, <3>1
  <2> HIDE DEF b
  <2>8. {c \in DOMAIN Series(w) : at \in Series(w)[c]} = {b}
    BY <2>6, <2>7
  <2> QED
    BY <2>8 DEF b, row
<1> QED
  BY <1>2 DEF NothingKeptIsMissing, t, width

\* A chart has what is kept of its window, each reading at its place and once,
\* whichever tier it is drawn from (query.go:54-60).
THEOREM ChartsAreTheHistory ==
  ASSUME WellConfigured
  PROVE  Spec => []ChartsShowWhatIsKept
<1>1. Grounds /\ Carried /\ Kept => ChartsShowWhatIsKept
  BY PointsInPlace, KeptIsDrawn DEF ChartsShowWhatIsKept, Grounds
<1> QED
  BY <1>1, GroundsInvariant, CarriedInvariant, PTL
=============================================================================
