------------------------- MODULE LeakyBucket_proofs -------------------------
(***************************************************************************)
(* The rate bound of the leaky bucket, for every burst, interval and       *)
(* window.  The inductive invariant is Owed: what a window of a ticks has  *)
(* admitted and those ticks have not paid is part of the debt.             *)
(***************************************************************************)
EXTENDS LeakyBucket, TLAPS

(* What the arithmetic below needs of a product, so that Cost stays folded. *)
LEMMA CostType ==
  ASSUME LeakyBucketAssumption, NEW n \in Nat
  PROVE  /\ Cost(n) \in Nat
         /\ Cost(n + 1) = Cost(n) + Interval
         /\ Cost(0) = 0
<1>1. Interval \in Nat
  BY DEF LeakyBucketAssumption
<1>2. n * Interval \in Nat /\ (n + 1) * Interval = n * Interval + Interval
  BY <1>1, Z3T(30)
<1>3. 0 * Interval = 0
  BY <1>1, Z3T(30)
<1> QED
  BY <1>2, <1>3 DEF Cost

LEMMA CostOfBurst ==
  ASSUME LeakyBucketAssumption
  PROVE  /\ Cost(Burst) \in Nat
         /\ Interval <= Cost(Burst)
         /\ Cost(Burst - Initial) \in 0 .. Cost(Burst)
<1>1. /\ Burst \in Nat /\ Interval \in Nat /\ Initial \in Nat
      /\ Burst >= 1 /\ Initial <= Burst
  BY DEF LeakyBucketAssumption
<1>2. Burst * Interval \in Nat /\ Interval <= Burst * Interval
  BY <1>1, Z3T(30)
<1>3. Initial * Interval \in Nat /\ (Burst - Initial) * Interval \in Nat
  BY <1>1, Z3T(30)
<1>4. (Burst - Initial) * Interval = Burst * Interval - Initial * Interval
  BY <1>1, Z3T(30)
<1> QED
  BY <1>2, <1>3, <1>4 DEF Cost

(* Debt stays between nothing and a full bucket. *)
THEOREM LBTypeCorrect ==
  ASSUME LeakyBucketAssumption
  PROVE  LBSpec => []LBTypeOK
<1>1. LBInit => LBTypeOK
  BY CostOfBurst DEF LeakyBucketAssumption, LBInit, LBTypeOK, NoHistory
<1>2. LBTypeOK /\ [LBNext]_bucketVars => LBTypeOK'
  <2> SUFFICES ASSUME LBTypeOK, [LBNext]_bucketVars PROVE LBTypeOK'
    OBVIOUS
  <2> USE CostOfBurst DEF LeakyBucketAssumption
  <2>1. CASE Tick
    BY <2>1 DEF LBTypeOK, Tick
  <2>2. CASE Admit
    BY <2>2 DEF LBTypeOK, Admit
  <2>3. CASE Restart
    BY <2>3, CostOfBurst DEF LBTypeOK, Restart, NoHistory
  <2>4. CASE UNCHANGED bucketVars
    BY <2>4 DEF LBTypeOK, bucketVars
  <2> QED
    BY <2>1, <2>2, <2>3, <2>4 DEF LBNext
<1> QED
  BY <1>1, <1>2, PTL DEF LBSpec

LEMMA OwedStep ==
  ASSUME LeakyBucketAssumption
  PROVE  LBTypeOK /\ Owed /\ [LBNext]_bucketVars => Owed'
<1> SUFFICES ASSUME LBTypeOK, Owed, [LBNext]_bucketVars,
                    NEW a \in 0 .. Window
             PROVE  Cost(recent'[a]) <= debt' + a
  BY DEF Owed
<1> USE DEF LeakyBucketAssumption
<1>0. debt \in Nat /\ a \in Nat /\ Interval \in Nat /\ Window \in Nat
  BY CostOfBurst DEF LBTypeOK
<1>1. CASE Tick
  <2>1. CASE a = 0
    <3>1. recent'[a] = 0 /\ debt' \in Nat
      BY <1>0, <1>1, <2>1 DEF Tick
    <3>2. Cost(recent'[a]) = 0
      BY <3>1, CostType
    <3> QED
      BY <1>0, <3>1, <3>2
  <2>2. CASE a # 0
    <3>1. a - 1 \in 0 .. Window /\ recent'[a] = recent[a - 1]
      BY <1>0, <1>1, <2>2 DEF Tick
    <3>2. Cost(recent[a - 1]) <= debt + (a - 1)
      BY <3>1 DEF Owed
    <3>3. debt' >= debt - 1 /\ debt' \in Nat
      BY <1>0, <1>1 DEF Tick
    <3>4. Cost(recent[a - 1]) \in Nat
      BY <3>1, CostType DEF LBTypeOK
    <3> QED
      BY <1>0, <3>1, <3>2, <3>3, <3>4
  <2> QED
    BY <2>1, <2>2
<1>2. CASE Admit
  <2>1. recent[a] \in Nat /\ recent'[a] = recent[a] + 1 /\ debt' = debt + Interval
    BY <1>2 DEF Admit, LBTypeOK
  <2>2. Cost(recent[a]) <= debt + a
    BY DEF Owed
  <2> QED
    BY <1>0, <2>1, <2>2, CostType
<1>3. CASE Restart
  <2>1. recent'[a] = 0 /\ debt' \in Nat
    BY <1>3, CostOfBurst DEF Restart, NoHistory
  <2>2. Cost(recent'[a]) = 0
    BY <2>1, CostType
  <2> QED
    BY <1>0, <2>1, <2>2
<1>4. CASE UNCHANGED bucketVars
  BY <1>4 DEF bucketVars, Owed
<1> QED
  BY <1>1, <1>2, <1>3, <1>4 DEF LBNext

(***************************************************************************)
(* The promise of the token bucket: over any a ticks, a full bucket and    *)
(* what a ticks earn, and no more.                                         *)
(***************************************************************************)
THEOREM LBRateBounded ==
  ASSUME LeakyBucketAssumption
  PROVE  LBSpec => []LBRateBound
<1>1. LBInit => Owed
  <2> SUFFICES ASSUME LBInit, NEW a \in 0 .. Window
               PROVE  Cost(recent[a]) <= debt + a
    BY DEF Owed
  <2>1. recent[a] = 0 /\ debt \in Nat /\ a \in Nat /\ Interval \in Nat
    BY CostOfBurst DEF LeakyBucketAssumption, LBInit, NoHistory
  <2>2. Cost(recent[a]) = 0
    BY <2>1, CostType
  <2> QED
    BY <2>1, <2>2
<1>2. LBTypeOK /\ Owed => LBRateBound
  <2> SUFFICES ASSUME LBTypeOK, Owed, NEW a \in 0 .. Window
               PROVE  Cost(recent[a]) <= Cost(Burst) + a
    BY DEF LBRateBound
  <2>1. Cost(recent[a]) <= debt + a /\ recent[a] \in Nat /\ a \in Nat
    BY DEF LeakyBucketAssumption, Owed, LBTypeOK
  <2>2. debt <= Cost(Burst) /\ debt \in Nat
    BY CostOfBurst DEF LBTypeOK
  <2> QED
    BY <2>1, <2>2, CostOfBurst, CostType
<1> QED
  BY <1>1, <1>2, OwedStep, LBTypeCorrect, PTL DEF LBSpec
=============================================================================
