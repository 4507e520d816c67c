------------------------- MODULE RateLimiter_proofs -------------------------
(***************************************************************************)
(* Theorems about RateLimiter, for any number of threads, any              *)
(* configuration (the ones sanitized() repairs included), any waits, and   *)
(* a wall clock that may be set back.                                      *)
(***************************************************************************)
EXTENDS RateLimiter, TLAPS

-----------------------------------------------------------------------------
(* The configuration after sanitized(), and the arithmetic of Cost. *)

LEMMA ConfigType ==
  /\ MaxTokens \in 1 .. TokenModulus - 1
  /\ RefillInterval \in Nat \ {0}
  /\ InitialTokens \in 0 .. MaxTokens
BY RateLimiterAssumption DEF MaxTokens, RefillInterval, InitialTokens

LEMMA CostType ==
  ASSUME NEW n \in Nat
  PROVE  /\ Cost(n) \in Nat
         /\ Cost(n + 1) = Cost(n) + RefillInterval
         /\ Cost(0) = 0
<1>1. RefillInterval \in Nat
  BY ConfigType
<1>2. /\ n * RefillInterval \in Nat
      /\ (n + 1) * RefillInterval = n * RefillInterval + RefillInterval
  BY <1>1, Z3T(30)
<1>3. 0 * RefillInterval = 0
  BY <1>1, Z3T(30)
<1> QED
  BY <1>2, <1>3 DEF Cost

LEMMA CostOfDifference ==
  ASSUME NEW n \in Nat, NEW m \in 0 .. n
  PROVE  Cost(n - m) = Cost(n) - Cost(m) /\ Cost(m) <= Cost(n)
<1>1. RefillInterval \in Nat
  BY ConfigType
<1>2. (n - m) * RefillInterval = n * RefillInterval - m * RefillInterval
  BY <1>1, Z3T(30)
<1>3. m * RefillInterval <= n * RefillInterval
  BY <1>1, Z3T(30)
<1> QED
  BY <1>2, <1>3 DEF Cost

(* refill() credits whole intervals and leaves less than one. *)
LEMMA EarnedType ==
  ASSUME age \in Nat
  PROVE  /\ Earned \in Nat
         /\ Cost(Earned) <= age
         /\ age < Cost(Earned) + RefillInterval
<1>1. RefillInterval \in Nat \ {0}
  BY ConfigType
<1>2. Earned \in Nat
  BY <1>1, Z3T(30) DEF Earned
<1>3. /\ Earned * RefillInterval <= age
      /\ age < Earned * RefillInterval + RefillInterval
  BY <1>1, Z3T(30) DEF Earned
<1> QED
  BY <1>2, <1>3 DEF Cost

-----------------------------------------------------------------------------
(* refill() neither creates tokens nor loses any: what the bucket owes is  *)
(* the same before and after, and after it less than one interval is       *)
(* waiting to be credited unless the bucket is full.                       *)

LEMMA RefillIsExact ==
  ASSUME tokens \in 0 .. MaxTokens, age \in 0 .. AgeCap
  PROVE  /\ RefilledTokens \in 0 .. MaxTokens
         /\ RefilledAge \in 0 .. AgeCap
         /\ RefilledAge <= Cost(MaxTokens - RefilledTokens)
         /\ Debt = Cost(MaxTokens - RefilledTokens) - RefilledAge
         /\ RefilledTokens = 0 => RefilledAge < RefillInterval
<1>1. /\ MaxTokens \in Nat /\ tokens \in Nat /\ tokens <= MaxTokens
      /\ RefillInterval \in Nat /\ AgeCap \in Nat /\ age \in Nat
      /\ MaxTokens < TokenModulus /\ TokenModulus \in Nat
      /\ RefillInterval > 0 /\ MaxTokens >= 1 /\ age <= AgeCap
  BY ConfigType, CostType, RateLimiterAssumption DEF AgeCap
<1>2. /\ Earned \in Nat /\ Cost(Earned) <= age /\ Cost(Earned) \in Nat
      /\ age < Cost(Earned) + RefillInterval
  BY <1>1, EarnedType, CostType
<1>3. CASE tokens >= MaxTokens
  <2>1. RefilledTokens = MaxTokens /\ RefilledAge = 0 /\ tokens = MaxTokens
    BY <1>1, <1>3 DEF RefilledTokens, RefilledAge
  <2>2. Cost(MaxTokens - MaxTokens) = 0
    BY <1>1, CostType
  <2> QED
    BY <1>1, <2>1, <2>2 DEF Debt, DebtOf
<1>4. CASE tokens < MaxTokens /\ Earned <= 0
  <2>1. RefilledTokens = tokens /\ RefilledAge = age /\ Earned = 0
    BY <1>1, <1>2, <1>4 DEF RefilledTokens, RefilledAge
  <2>2. age < RefillInterval
    BY <1>1, <1>2, <2>1, CostType
  <2>3. /\ Cost(MaxTokens - tokens) = Cost(MaxTokens - tokens - 1) + RefillInterval
        /\ Cost(MaxTokens - tokens - 1) \in Nat
    <3>1. MaxTokens - tokens - 1 \in Nat
      BY <1>1, <1>4
    <3>2. (MaxTokens - tokens - 1) + 1 = MaxTokens - tokens
      BY <1>1
    <3> QED
      BY <3>1, <3>2, CostType
  <2> QED
    BY <1>1, <2>1, <2>2, <2>3 DEF Debt, DebtOf
<1>5. CASE tokens < MaxTokens /\ Earned > 0 /\ tokens + Earned >= MaxTokens
  <2>1. RefilledTokens = MaxTokens /\ RefilledAge = 0
    BY <1>1, <1>2, <1>5 DEF RefilledTokens, RefilledAge
  <2>2. Cost(MaxTokens - tokens) <= Cost(Earned) /\ Cost(MaxTokens - tokens) \in Nat
    <3>1. MaxTokens - tokens \in 0 .. Earned
      BY <1>1, <1>2, <1>5
    <3> QED
      BY <1>2, <3>1, CostOfDifference, CostType
  <2>3. Cost(MaxTokens - MaxTokens) = 0
    BY <1>1, CostType
  <2> QED
    BY <1>1, <1>2, <2>1, <2>2, <2>3 DEF Debt, DebtOf
<1>6. CASE tokens < MaxTokens /\ Earned > 0 /\ tokens + Earned < MaxTokens
  <2>1. (tokens + Earned) % TokenModulus = tokens + Earned
    BY <1>1, <1>2, <1>6
  <2>2. RefilledTokens = tokens + Earned /\ RefilledAge = age - Cost(Earned)
    BY <1>1, <1>2, <1>6, <2>1 DEF RefilledTokens, RefilledAge
  <2>3. Cost(MaxTokens - tokens - Earned) = Cost(MaxTokens - tokens) - Cost(Earned)
    BY <1>1, <1>2, <1>6, CostOfDifference
  <2>4. /\ Cost(MaxTokens - tokens - Earned) >= RefillInterval
        /\ Cost(MaxTokens - tokens - Earned) \in Nat
        /\ Cost(MaxTokens - tokens) \in Nat
    <3>1. MaxTokens - tokens - Earned - 1 \in Nat /\ MaxTokens - tokens \in Nat
      BY <1>1, <1>2, <1>6
    <3>2. (MaxTokens - tokens - Earned - 1) + 1 = MaxTokens - tokens - Earned
      BY <1>1, <1>2
    <3> QED
      BY <1>1, <3>1, <3>2, CostType
  <2>5. MaxTokens - (tokens + Earned) = MaxTokens - tokens - Earned
    BY <1>1, <1>2
  <2> QED
    BY <1>1, <1>2, <1>6, <2>2, <2>3, <2>4, <2>5 DEF Debt, DebtOf
<1> QED
  BY <1>1, <1>2, <1>3, <1>4, <1>5, <1>6

-----------------------------------------------------------------------------
(* Types. *)

LEMMA AgeCapType == AgeCap \in Nat
BY ConfigType, CostType DEF AgeCap

LEMMA BeginType ==
  ASSUME TypeOK, NEW t \in Threads, NEW how \in {"try", "bounded", "unbounded"},
         NEW ticks \in Int, Begin(t, how, ticks)
  PROVE  TypeOK'
BY DEF TypeOK, Begin, InCall, bucket, quota, history

LEMMA ReturnType ==
  ASSUME TypeOK, NEW t \in Threads, NEW result \in {"granted", "refused"},
         Return(t, result)
  PROVE  /\ pc' \in [Threads -> Returned \cup InCall]
         /\ kind' \in [Threads -> {"try", "bounded", "unbounded"}]
         /\ left' \in [Threads -> Int]
         /\ wait' \in [Threads -> 0 .. RefillInterval]
         /\ late' \in [Threads -> 0 .. MaxLate]
<1>1. 0 \in 0 .. RefillInterval /\ 0 \in 0 .. MaxLate
  BY ConfigType, RateLimiterAssumption
<1> QED
  BY <1>1 DEF TypeOK, Return, Returned

LEMMA CallType ==
  ASSUME TypeOK, NEW t \in Threads, Call(t)
  PROVE  TypeOK'
<1>1. \A w \in Int : Positive(w) \in Int
  BY DEF Positive
<1>2. CASE TryAcquire(t)
  BY <1>2, BeginType DEF TryAcquire
<1>3. CASE Acquire(t)
  <2>1. CASE \E w \in ConfigMaxWait : AcquireFor(t, w)
    BY <1>1, <2>1, BeginType, RateLimiterAssumption DEF AcquireFor
  <2>2. CASE Begin(t, "unbounded", 0)
    BY <2>2, BeginType
  <2> QED
    BY <1>3, <2>1, <2>2 DEF Acquire
<1>4. CASE \E w \in ExplicitWaits : AcquireFor(t, w)
  BY <1>1, <1>4, BeginType, RateLimiterAssumption DEF AcquireFor
<1> QED
  BY <1>2, <1>3, <1>4 DEF Call

LEMMA CountType ==
  ASSUME TypeOK
  PROVE  UsedToday \in Nat /\ CountedDay \in 0 .. MaxDay
BY DEF TypeOK, UsedToday, CountedDay, RolledOver

LEMMA LockingType ==
  ASSUME TypeOK, NEW t \in Threads, Locking(t)
  PROVE  TypeOK'
<1>1. /\ UsedToday \in Nat /\ CountedDay \in 0 .. MaxDay
      /\ RefilledTokens \in 0 .. MaxTokens /\ RefilledAge \in 0 .. AgeCap
      /\ MaxTokens \in Nat /\ RefillInterval \in Nat
  <2>1. tokens \in 0 .. MaxTokens /\ age \in 0 .. AgeCap
    BY DEF TypeOK
  <2>2. RefilledTokens \in 0 .. MaxTokens /\ RefilledAge \in 0 .. AgeCap
    BY <2>1, RefillIsExact
  <2> QED
    BY <2>2, CountType, ConfigType
<1>2. CASE RefuseByQuota(t)
  <2>1. dailyUsed' \in Nat /\ dayStart' \in 0 .. MaxDay
    BY <1>1, <1>2 DEF RefuseByQuota, EnterLock
  <2>2. /\ Return(t, "refused") /\ contested' = [contested EXCEPT ![t] = TRUE]
        /\ UNCHANGED <<tokens, age, day, recent, grantedOn, granted, epochDay, setBack>>
    BY <1>2 DEF RefuseByQuota, bucket
  <2> QED
    BY <2>1, <2>2, ReturnType DEF TypeOK
<1>3. CASE TakeToken(t)
  <2>1. tokens' \in 0 .. MaxTokens /\ age' \in 0 .. AgeCap
    BY <1>1, <1>3 DEF TakeToken
  <2>2. dailyUsed' \in Nat /\ dayStart' \in 0 .. MaxDay
    BY <1>1, <1>3 DEF TakeToken
  <2>3. /\ recent' \in [0 .. Window -> Nat]
        /\ grantedOn' \in [0 .. MaxDay -> Nat] /\ granted' \in Nat
    <3>1. /\ recent \in [0 .. Window -> Nat] /\ grantedOn \in [0 .. MaxDay -> Nat]
          /\ granted \in Nat
      BY DEF TypeOK
    <3>2. recent' = [a \in 0 .. Window |-> recent[a] + 1]
      BY <1>3 DEF TakeToken
    <3>3. \/ grantedOn' = [grantedOn EXCEPT ![day] = @ + 1] /\ granted' = granted + 1
          \/ grantedOn' = grantedOn /\ granted' = granted
      BY <1>3 DEF TakeToken
    <3>4. recent' \in [0 .. Window -> Nat]
      BY <3>1, <3>2
    <3>5. grantedOn' \in [0 .. MaxDay -> Nat] /\ granted' \in Nat
      BY <3>1, <3>3
    <3> QED
      BY <3>4, <3>5
  <2> QED
    BY <1>3, <2>1, <2>2, <2>3, ReturnType DEF TakeToken, TypeOK
<1>4. CASE FindEmpty(t)
  BY <1>1, <1>4 DEF FindEmpty, EnterLock, TypeOK, InCall, history
<1> QED
  BY <1>2, <1>3, <1>4 DEF Locking

LEMMA TickType ==
  ASSUME TypeOK, Tick
  PROVE  TypeOK'
<1>1. MostOverdue \in Int /\ MaxLate \in Nat /\ Window \in Nat
  BY RateLimiterAssumption DEF MostOverdue
<1>2. age' \in 0 .. AgeCap
  <2>1. age' = (IF age < AgeCap THEN age + 1 ELSE age) /\ age \in 0 .. AgeCap
    BY DEF Tick, TypeOK
  <2> QED
    BY <2>1, AgeCapType
<1>3. left' \in [Threads -> Int]
  <2>1. left' = [t \in Threads |-> IF kind[t] = "bounded" /\ left[t] > MostOverdue
                                    THEN left[t] - 1 ELSE left[t]]
    BY DEF Tick
  <2>2. left \in [Threads -> Int]
    BY DEF TypeOK
  <2> QED
    BY <2>1, <2>2
<1>4. wait' \in [Threads -> 0 .. RefillInterval]
  <2>1. wait' = [t \in Threads |-> IF pc[t] = "asleep" /\ wait[t] > 0
                                    THEN wait[t] - 1 ELSE wait[t]]
    BY DEF Tick
  <2>2. wait \in [Threads -> 0 .. RefillInterval]
    BY DEF TypeOK
  <2> QED
    BY <2>1, <2>2, ConfigType
<1>5. late' \in [Threads -> 0 .. MaxLate]
  <2>1. late' = [t \in Threads |->
                   IF pc[t] = "decided" /\ kind[t] = "bounded" /\ late[t] < MaxLate
                     THEN late[t] + 1 ELSE late[t]]
    BY DEF Tick
  <2>2. late \in [Threads -> 0 .. MaxLate]
    BY DEF TypeOK
  <2> QED
    BY <1>1, <2>1, <2>2
<1>6. recent' \in [0 .. Window -> Nat]
  <2>1. recent' = [a \in 0 .. Window |-> IF a = 0 THEN 0 ELSE recent[a - 1]]
    BY DEF Tick
  <2>2. recent \in [0 .. Window -> Nat]
    BY DEF TypeOK
  <2> QED
    BY <1>1, <2>1, <2>2
<1>7. UNCHANGED <<tokens, dailyUsed, dayStart, day, pc, kind, grantedOn, granted, epochDay,
                  setBack, contested>>
  BY DEF Tick, quota
<1> QED
  BY <1>2, <1>3, <1>4, <1>5, <1>6, <1>7 DEF TypeOK

LEMMA InitType == Init => TypeOK
<1> SUFFICES ASSUME Init PROVE TypeOK
  OBVIOUS
<1>1. setBack \in BOOLEAN
  BY Zenon DEF Init
<1> QED
  BY <1>1, ConfigType, AgeCapType, RateLimiterAssumption
  DEF Init, TypeOK, NoGrants, Returned

(* Type correctness: no call leaves a token count outside the bucket. *)
THEOREM TypeCorrect == Spec => []TypeOK
<1>1. Init => TypeOK
  BY InitType
<1>2. TypeOK /\ [Next]_vars => TypeOK'
  <2> SUFFICES ASSUME TypeOK, [Next]_vars PROVE TypeOK'
    OBVIOUS
  <2> USE ConfigType, AgeCapType
  <2>1. CASE Tick
    BY <2>1, TickType
  <2>2. CASE WallClock
    BY <2>2 DEF WallClock, TypeOK, bucket, quota, calls, history
  <2>3. ASSUME NEW t \in Threads, Call(t) PROVE TypeOK'
    BY <2>3, CallType
  <2>4. ASSUME NEW t \in Threads, Locking(t) PROVE TypeOK'
    BY <2>4, LockingType
  <2>5. ASSUME NEW t \in Threads, ReadWait(t) PROVE TypeOK'
    <3>1. WaitTime \in 0 .. RefillInterval
      BY DEF WaitTime, TypeOK
    <3>2. CASE kind[t] = "try"
      BY <2>5, <3>2, ReturnType DEF ReadWait, TypeOK, bucket, quota
    <3>3. CASE kind[t] # "try"
      <4>1. /\ pc' = [pc EXCEPT ![t] = "deciding"] /\ wait' = [wait EXCEPT ![t] = WaitTime]
            /\ contested' = [contested EXCEPT ![t] = FALSE]
            /\ UNCHANGED <<bucket, quota, day, kind, left, late, recent, grantedOn, granted,
                           epochDay, setBack>>
        BY <2>5, <3>3 DEF ReadWait
      <4>2. pc' \in [Threads -> Returned \cup InCall]
        BY <4>1 DEF TypeOK, InCall
      <4>3. wait' \in [Threads -> 0 .. RefillInterval]
        BY <3>1, <4>1 DEF TypeOK
      <4> QED
        BY <4>1, <4>2, <4>3 DEF TypeOK, bucket, quota
    <3> QED
      BY <3>2, <3>3
  <2>6. ASSUME NEW t \in Threads, Deciding(t) PROVE TypeOK'
    <3>1. CASE GiveUp(t)
      BY <3>1, ReturnType DEF GiveUp, TypeOK, bucket, quota
    <3>2. CASE KeepWaiting(t)
      BY <3>2 DEF KeepWaiting, TypeOK, InCall, bucket, quota, history
    <3> QED
      BY <2>6, <3>1, <3>2 DEF Deciding
  <2>7. ASSUME NEW t \in Threads, Sleeping(t) PROVE TypeOK'
    <3>1. CASE StartSleep(t)
      BY <3>1 DEF StartSleep, TypeOK, InCall, bucket, quota, history
    <3>2. CASE Wake(t)
      <4>1. /\ pc' = [pc EXCEPT ![t] = "attempt"] /\ late' = [late EXCEPT ![t] = 0]
            /\ UNCHANGED <<bucket, quota, day, kind, left, wait, history>>
        BY <3>2 DEF Wake
      <4>2. pc' \in [Threads -> Returned \cup InCall]
        BY <4>1 DEF TypeOK, InCall
      <4>3. late' \in [Threads -> 0 .. MaxLate]
        BY <4>1, RateLimiterAssumption DEF TypeOK
      <4> QED
        BY <4>1, <4>2, <4>3 DEF TypeOK, bucket, quota, history
    <3> QED
      BY <2>7, <3>1, <3>2 DEF Sleeping
  <2>8. ASSUME NEW t \in Threads, Reset(t) PROVE TypeOK'
    <3>1. setBack' \in BOOLEAN
      BY <2>8, Zenon DEF Reset
    <3> QED
      BY <2>8, <3>1, RateLimiterAssumption DEF Reset, TypeOK, NoGrants, calls
  <2>9. CASE UNCHANGED vars
    BY <2>9 DEF vars, bucket, quota, calls, history, TypeOK
  <2> QED
    BY <2>1, <2>2, <2>3, <2>4, <2>5, <2>6, <2>7, <2>8, <2>9 DEF Next
<1> QED
  BY <1>1, <1>2, PTL DEF Spec

-----------------------------------------------------------------------------
(* Refinement: the limiter implements the leaky bucket. *)

LEMMA LBCostIsCost == \A n \in Int : LB!Cost(n) = Cost(n)
BY DEF LB!Cost, Cost

(* A grant is an admission: it needs, and costs, one interval of debt. *)
LEMMA TakeIsAdmit ==
  ASSUME TypeOK, NEW t \in Threads, TakeToken(t)
  PROVE  LB!Admit
<1>1. /\ RefilledTokens \in 1 .. MaxTokens /\ RefilledAge \in Nat
      /\ RefilledAge <= Cost(MaxTokens - RefilledTokens)
      /\ Debt = Cost(MaxTokens - RefilledTokens) - RefilledAge
      /\ tokens' = RefilledTokens - 1 /\ age' = RefilledAge
      /\ MaxTokens \in Nat /\ RefillInterval \in Nat
  BY RefillIsExact, ConfigType, AgeCapType DEF TypeOK, TakeToken
<1> DEFINE missing == MaxTokens - RefilledTokens
<1>2. missing \in Nat /\ missing + 1 \in 0 .. MaxTokens
  BY <1>1
<1>3. /\ Cost(missing) \in Nat
      /\ Cost(missing + 1) = Cost(missing) + RefillInterval
      /\ Cost(missing + 1) <= Cost(MaxTokens)
  BY <1>1, <1>2, CostType, CostOfDifference
<1>4. Debt + RefillInterval <= Cost(MaxTokens)
  BY <1>1, <1>3, CostType
<1>5. Debt' = Debt + RefillInterval
  <2>1. MaxTokens - tokens' = missing + 1
    BY <1>1
  <2>2. Debt' = IF Cost(missing + 1) - RefilledAge > 0
                  THEN Cost(missing + 1) - RefilledAge ELSE 0
    BY <1>1, <2>1 DEF Debt, DebtOf
  <2> HIDE DEF missing
  <2>3. Debt = Cost(missing) - RefilledAge /\ RefilledAge <= Cost(missing)
    BY <1>1 DEF missing
  <2>4. RefillInterval > 0
    BY ConfigType
  <2> QED
    BY <1>1, <1>3, <2>2, <2>3, <2>4
<1>6. recent' = [a \in 0 .. Window |-> recent[a] + 1]
  BY DEF TakeToken
<1> QED
  BY <1>1, <1>4, <1>5, <1>6, LBCostIsCost DEF LB!Admit

(* A locked section that finds no token changes nothing that is owed. *)
LEMMA FindEmptyIsStutter ==
  ASSUME TypeOK, NEW t \in Threads, FindEmpty(t)
  PROVE  Debt' = Debt /\ recent' = recent
<1>1. /\ RefilledTokens \in 0 .. MaxTokens /\ RefilledAge \in Nat
      /\ RefilledAge <= Cost(MaxTokens - RefilledTokens)
      /\ Debt = Cost(MaxTokens - RefilledTokens) - RefilledAge
      /\ MaxTokens - RefilledTokens \in Nat
  BY RefillIsExact, ConfigType, AgeCapType DEF TypeOK
<1>2. tokens' = RefilledTokens /\ age' = RefilledAge /\ recent' = recent
  BY DEF FindEmpty, history
<1>3. Debt' = IF Cost(MaxTokens - RefilledTokens) - RefilledAge > 0
                THEN Cost(MaxTokens - RefilledTokens) - RefilledAge ELSE 0
  BY <1>2 DEF Debt, DebtOf
<1>4. Cost(MaxTokens - RefilledTokens) \in Nat
  BY <1>1, CostType
<1> QED
  BY <1>1, <1>2, <1>3, <1>4

LEMMA TickIsTick ==
  ASSUME TypeOK, Tick
  PROVE  LB!Tick
<1>1. /\ MaxTokens - tokens \in Nat /\ age \in Nat /\ AgeCap \in Nat
      /\ age <= AgeCap /\ MaxTokens \in Nat /\ tokens \in 0 .. MaxTokens
  BY ConfigType, AgeCapType DEF TypeOK
<1>2. /\ Cost(MaxTokens - tokens) \in Nat
      /\ Cost(MaxTokens - tokens) <= AgeCap
  <2>1. MaxTokens - tokens \in 0 .. MaxTokens
    BY <1>1
  <2> QED
    BY <1>1, <2>1, CostType, CostOfDifference DEF AgeCap
<1>3. /\ tokens' = tokens
      /\ age' = IF age < AgeCap THEN age + 1 ELSE age
      /\ recent' = [a \in 0 .. Window |-> IF a = 0 THEN 0 ELSE recent[a - 1]]
  BY DEF Tick
<1>4. Debt' = IF Cost(MaxTokens - tokens) - age' > 0
                THEN Cost(MaxTokens - tokens) - age' ELSE 0
  BY <1>3 DEF Debt, DebtOf
<1>5. Debt' = IF Debt > 0 THEN Debt - 1 ELSE 0
  BY <1>1, <1>2, <1>3, <1>4 DEF Debt, DebtOf
<1> QED
  BY <1>3, <1>5 DEF LB!Tick

LEMMA ResetIsRestart ==
  ASSUME NEW t \in Threads, Reset(t)
  PROVE  LB!Restart
<1>1. tokens' = InitialTokens /\ age' = 0 /\ recent' = NoGrants
  BY DEF Reset
<1>2. MaxTokens - InitialTokens \in Nat
  BY ConfigType
<1>3. Debt' = Cost(MaxTokens - InitialTokens)
  BY <1>1, <1>2, CostType DEF Debt, DebtOf
<1> QED
  BY <1>1, <1>2, <1>3, LBCostIsCost DEF LB!Restart, LB!NoHistory, NoGrants

LEMMA StepRefines == TypeOK /\ [Next]_vars => [LB!LBNext]_(LB!bucketVars)
<1> SUFFICES ASSUME TypeOK, [Next]_vars PROVE [LB!LBNext]_(LB!bucketVars)
  OBVIOUS
<1>1. ASSUME Debt' = Debt, recent' = recent PROVE UNCHANGED LB!bucketVars
  BY <1>1 DEF LB!bucketVars
<1>2. ASSUME UNCHANGED bucket, recent' = recent PROVE UNCHANGED LB!bucketVars
  BY <1>1, <1>2 DEF bucket, Debt, DebtOf
<1>3. CASE Tick
  BY <1>3, TickIsTick DEF LB!LBNext
<1>4. CASE WallClock
  BY <1>2, <1>4 DEF WallClock, history
<1>5. ASSUME NEW t \in Threads, Call(t) PROVE UNCHANGED LB!bucketVars
  BY <1>2, <1>5 DEF Call, TryAcquire, Acquire, AcquireFor, Begin, history
<1>6. ASSUME NEW t \in Threads, Locking(t) PROVE [LB!LBNext]_(LB!bucketVars)
  <2>1. CASE RefuseByQuota(t)
    BY <1>2, <2>1 DEF RefuseByQuota
  <2>2. CASE TakeToken(t)
    BY <2>2, TakeIsAdmit DEF LB!LBNext
  <2>3. CASE FindEmpty(t)
    BY <1>1, <2>3, FindEmptyIsStutter
  <2> QED
    BY <1>6, <2>1, <2>2, <2>3 DEF Locking
<1>7. ASSUME NEW t \in Threads, ReadWait(t) \/ Deciding(t) \/ Sleeping(t)
      PROVE  UNCHANGED LB!bucketVars
  BY <1>2, <1>7 DEF ReadWait, Deciding, GiveUp, KeepWaiting,
      Sleeping, StartSleep, Wake, history
<1>8. ASSUME NEW t \in Threads, Reset(t) PROVE LB!LBNext
  BY <1>8, ResetIsRestart DEF LB!LBNext
<1>9. CASE UNCHANGED vars
  BY <1>2, <1>9 DEF vars, history
<1> QED
  BY <1>3, <1>4, <1>5, <1>6, <1>7, <1>8, <1>9 DEF Next

(***************************************************************************)
(* Every behaviour of the limiter, whatever its threads and clocks do, is  *)
(* one of the leaky bucket: grants are admissions, ticks pay, reset()      *)
(* restarts, and every other step owes exactly what it owed before.        *)
(***************************************************************************)
THEOREM Refinement == Spec => ImplementsLeakyBucket
<1>1. Init => LB!LBInit
  <2> SUFFICES ASSUME Init PROVE LB!LBInit
    OBVIOUS
  <2>1. tokens = InitialTokens /\ age = 0 /\ recent = NoGrants
    BY DEF Init
  <2>2. MaxTokens - InitialTokens \in Nat
    BY ConfigType
  <2>3. Debt = Cost(MaxTokens - InitialTokens)
    BY <2>1, <2>2, CostType DEF Debt, DebtOf
  <2> QED
    BY <2>1, <2>2, <2>3, LBCostIsCost DEF LB!LBInit, LB!NoHistory, NoGrants
<1> QED
  BY <1>1, StepRefines, TypeCorrect, PTL DEF Spec, ImplementsLeakyBucket, LB!LBSpec

-----------------------------------------------------------------------------
(* The rate limit, carried over from the leaky bucket. *)

LBP == INSTANCE LeakyBucket_proofs WITH
         Burst <- MaxTokens, Interval <- RefillInterval,
         Initial <- InitialTokens, debt <- Debt

(***************************************************************************)
(* The rate limit of the code: in any a ticks, over all threads, at most a *)
(* full bucket of grants and what a ticks earn.                            *)
(***************************************************************************)
THEOREM RateLimited == Spec => []RateBound
<1>1. LBP!LeakyBucketAssumption
  BY ConfigType, RateLimiterAssumption DEF LBP!LeakyBucketAssumption
<1>2. LBP!LBSpec => []LBP!LBRateBound
  BY <1>1, LBP!LBRateBounded
<1>3. LB!LBSpec => LBP!LBSpec
  BY PTL
  DEF LB!LBSpec, LB!LBInit, LB!LBNext, LB!bucketVars, LB!Tick, LB!Admit,
      LB!Restart, LB!Cost, LB!NoHistory,
      LBP!LBSpec, LBP!LBInit, LBP!LBNext, LBP!bucketVars, LBP!Tick, LBP!Admit,
      LBP!Restart, LBP!Cost, LBP!NoHistory
<1>4. LBP!LBRateBound => RateBound
  BY DEF LBP!LBRateBound, LBP!Cost, RateBound, Cost
<1> QED
  BY <1>2, <1>3, <1>4, Refinement, PTL DEF ImplementsLeakyBucket

-----------------------------------------------------------------------------
(* The daily quota. *)

(* Whole quotas, folded like Cost. *)
Quotas(n) == DailyLimit * n

LEMMA QuotasType ==
  ASSUME DailyLimit > 0
  PROVE  /\ Quotas(0) = 0
         /\ \A n \in Nat : /\ Quotas(n) \in Nat
                           /\ Quotas(n + 1) = Quotas(n) + DailyLimit
         /\ \A n, m \in Nat : n <= m => Quotas(n) <= Quotas(m)
<1>1. DailyLimit \in Nat
  BY RateLimiterAssumption
<1>2. DailyLimit * 0 = 0
  BY <1>1, Z3T(30)
<1>3. \A n \in Nat : /\ DailyLimit * n \in Nat
                     /\ DailyLimit * (n + 1) = DailyLimit * n + DailyLimit
  BY <1>1, Z3T(30)
<1>4. \A n, m \in Nat : n <= m => DailyLimit * n <= DailyLimit * m
  BY <1>1, Z3T(30)
<1> QED
  BY <1>2, <1>3, <1>4 DEF Quotas

(* Each day counted since the reset has used at most its quota, the one
   counted now exactly dailyUsed of it. *)
BudgetInv ==
    DailyLimit > 0 =>
      /\ epochDay <= dayStart
      /\ dailyUsed <= DailyLimit
      /\ granted <= Quotas(dayStart - epochDay) + dailyUsed

(* A rollover turns what was used into one whole quota at most. *)
LEMMA RolloverKeepsBudget ==
  ASSUME TypeOK, BudgetInv, DailyLimit > 0
  PROVE  /\ epochDay <= CountedDay
         /\ UsedToday \in Nat /\ UsedToday <= DailyLimit
         /\ Quotas(CountedDay - epochDay) \in Nat
         /\ granted <= Quotas(CountedDay - epochDay) + UsedToday
<1>1. /\ epochDay \in Nat /\ dayStart \in Nat /\ day \in Nat
      /\ dailyUsed \in Nat /\ granted \in Nat /\ DailyLimit \in Nat
      /\ epochDay <= dayStart /\ dailyUsed <= DailyLimit
      /\ granted <= Quotas(dayStart - epochDay) + dailyUsed
  BY RateLimiterAssumption DEF TypeOK, BudgetInv
<1>2. CASE day > dayStart
  <2>1. CountedDay = day /\ UsedToday = 0
    BY <1>2 DEF CountedDay, UsedToday, RolledOver
  <2>2. dayStart - epochDay \in Nat /\ day - epochDay \in Nat
    BY <1>1, <1>2
  <2>3. Quotas((dayStart - epochDay) + 1) <= Quotas(day - epochDay)
    BY <1>1, <1>2, <2>2, QuotasType
  <2> QED
    BY <1>1, <1>2, <2>1, <2>2, <2>3, QuotasType
<1>3. CASE ~(day > dayStart)
  BY <1>1, <1>3, QuotasType DEF CountedDay, UsedToday, RolledOver
<1> QED
  BY <1>2, <1>3

LEMMA BudgetStep == TypeOK /\ BudgetInv /\ [Next]_vars => BudgetInv'
<1> SUFFICES ASSUME TypeOK, BudgetInv, [Next]_vars, DailyLimit > 0
             PROVE  /\ epochDay' <= dayStart'
                    /\ dailyUsed' <= DailyLimit
                    /\ granted' <= Quotas(dayStart' - epochDay') + dailyUsed'
  BY DEF BudgetInv
<1>1. ASSUME UNCHANGED <<dailyUsed, dayStart, granted, epochDay>>
      PROVE  /\ epochDay' <= dayStart'
             /\ dailyUsed' <= DailyLimit
             /\ granted' <= Quotas(dayStart' - epochDay') + dailyUsed'
  BY <1>1 DEF BudgetInv
<1>2. ASSUME NEW t \in Threads, Locking(t)
      PROVE  /\ epochDay' <= dayStart'
             /\ dailyUsed' <= DailyLimit
             /\ granted' <= Quotas(dayStart' - epochDay') + dailyUsed'
  <2>1. /\ epochDay <= CountedDay
        /\ UsedToday \in Nat /\ UsedToday <= DailyLimit
        /\ Quotas(CountedDay - epochDay) \in Nat
        /\ granted <= Quotas(CountedDay - epochDay) + UsedToday
        /\ granted \in Nat /\ DailyLimit \in Nat
    <3>1. granted \in Nat /\ DailyLimit \in Nat
      BY RateLimiterAssumption DEF TypeOK
    <3> QED
      BY <3>1, RolloverKeepsBudget
  <2>2. dayStart' = CountedDay /\ epochDay' = epochDay
    BY <1>2
    DEF Locking, RefuseByQuota, TakeToken, FindEmpty, EnterLock, history
  <2>3. CASE TakeToken(t)
    <3>1. UsedToday < DailyLimit
      BY <2>1, <2>3 DEF TakeToken, QuotaSpent
    <3>2. dailyUsed' = UsedToday + 1 /\ granted' = granted + 1
      BY <2>3 DEF TakeToken
    <3> QED
      BY <2>1, <2>2, <3>1, <3>2
  <2>4. CASE ~TakeToken(t)
    <3>1. dailyUsed' = UsedToday /\ granted' = granted
      BY <1>2, <2>4 DEF Locking, RefuseByQuota, FindEmpty, EnterLock, history
    <3> QED
      BY <2>1, <2>2, <3>1
  <2> QED
    BY <2>3, <2>4
<1>3. ASSUME NEW t \in Threads, Reset(t)
      PROVE  /\ epochDay' <= dayStart'
             /\ dailyUsed' <= DailyLimit
             /\ granted' <= Quotas(dayStart' - epochDay') + dailyUsed'
  <2>1. /\ epochDay' = day /\ dayStart' = day /\ dailyUsed' = 0 /\ granted' = 0
        /\ day \in Nat /\ day - day = 0
    BY <1>3 DEF Reset, TypeOK
  <2>2. Quotas(dayStart' - epochDay') = 0
    BY <2>1, QuotasType
  <2>3. DailyLimit \in Nat
    BY RateLimiterAssumption
  <2> QED
    BY <2>1, <2>2, <2>3
<1>4. CASE Tick \/ WallClock \/ UNCHANGED vars
  BY <1>1, <1>4 DEF Tick, WallClock, vars, quota, history
<1>5. ASSUME NEW t \in Threads,
             Call(t) \/ ReadWait(t) \/ Deciding(t) \/ Sleeping(t)
      PROVE  UNCHANGED <<dailyUsed, dayStart, granted, epochDay>>
  BY <1>5
  DEF Call, TryAcquire, Acquire, AcquireFor, Begin, ReadWait, Deciding, GiveUp,
      KeepWaiting, Sleeping, StartSleep, Wake, quota, history
<1> QED
  BY <1>1, <1>2, <1>3, <1>4, <1>5 DEF Next

LEMMA InitBudget == Init => BudgetInv
<1> SUFFICES ASSUME Init, DailyLimit > 0 PROVE BudgetInv
  BY DEF BudgetInv
<1>1. epochDay = 0 /\ dayStart = 0 /\ dailyUsed = 0 /\ granted = 0 /\ 0 - 0 = 0
  BY DEF Init
<1>2. Quotas(dayStart - epochDay) = 0 /\ DailyLimit \in Nat
  BY <1>1, QuotasType, RateLimiterAssumption
<1> QED
  BY <1>1, <1>2 DEF BudgetInv

(***************************************************************************)
(* The quota, also when the wall clock is set back and forward again: the  *)
(* grants since a reset are at most one quota for each day counted.        *)
(***************************************************************************)
THEOREM QuotaBudgeted == Spec => []QuotaBudget
<1>1. Init => BudgetInv
  BY InitBudget
<1>2. TypeOK /\ BudgetInv => QuotaBudget
  <2> SUFFICES ASSUME TypeOK, BudgetInv, DailyLimit > 0
               PROVE  granted <= DailyLimit * (dayStart - epochDay + 1)
    BY DEF QuotaBudget
  <2>1. /\ dayStart - epochDay \in Nat /\ dailyUsed \in Nat /\ granted \in Nat
        /\ dailyUsed <= DailyLimit /\ DailyLimit \in Nat
        /\ granted <= Quotas(dayStart - epochDay) + dailyUsed
    BY RateLimiterAssumption DEF TypeOK, BudgetInv
  <2> DEFINE days == dayStart - epochDay
  <2>2. Quotas(days) \in Nat /\ Quotas(days + 1) = Quotas(days) + DailyLimit
    BY <2>1, QuotasType
  <2>3. granted <= Quotas(days + 1)
    <3> HIDE DEF days
    <3> QED
      BY <2>1, <2>2 DEF days
  <2> QED
    BY <2>3 DEF Quotas
<1> QED
  BY <1>1, <1>2, BudgetStep, TypeCorrect, PTL DEF Spec

-----------------------------------------------------------------------------
(* A quiet sleep pays. *)

(* What refill() will find at the next lock, said without division. *)
LEMMA NoTokenIffNothingEarned ==
  ASSUME TypeOK
  PROVE  /\ RefilledTokens <= 0 <=> tokens = 0 /\ age < RefillInterval
         /\ RefilledTokens <= 0 => RefilledTokens = 0 /\ RefilledAge = age
<1>1. /\ MaxTokens \in Nat /\ tokens \in Nat /\ age \in Nat
      /\ RefillInterval \in Nat /\ MaxTokens >= 1 /\ MaxTokens < TokenModulus
      /\ TokenModulus \in Nat
  BY ConfigType, AgeCapType, RateLimiterAssumption DEF TypeOK
<1>2. /\ Earned \in Nat /\ Cost(Earned) \in Nat /\ Cost(Earned) <= age
      /\ age < Cost(Earned) + RefillInterval
  BY <1>1, EarnedType, CostType
<1>3. Earned > 0 => Cost(Earned) >= RefillInterval
  <2>1. Earned > 0 => Earned - 1 \in Nat /\ (Earned - 1) + 1 = Earned
    BY <1>2
  <2> QED
    BY <1>1, <2>1, CostType
<1>4. Earned = 0 => Cost(Earned) = 0
  BY <1>1, CostType
<1>5. tokens + Earned < MaxTokens => (tokens + Earned) % TokenModulus = tokens + Earned
  BY <1>1, <1>2
<1>6. Earned > 0 <=> age >= RefillInterval
  BY <1>1, <1>2, <1>3, <1>4
<1> QED
  BY <1>1, <1>2, <1>5, <1>6 DEF RefilledTokens, RefilledAge

(* A thread nobody disturbed will find its token by the time its wait is over. *)
QuietInv ==
    \A t \in Threads : ~contested[t] =>
      /\ pc[t] \in {"deciding", "decided", "asleep", "attempt"}
      /\ pc[t] = "attempt" => tokens > 0 \/ age >= RefillInterval
      /\ tokens > 0 \/ age + wait[t] >= RefillInterval

LEMMA QuietStep == TypeOK /\ QuietInv /\ [Next]_vars => QuietInv'
<1> SUFFICES ASSUME TypeOK, QuietInv, [Next]_vars,
                    NEW u \in Threads, ~contested'[u]
             PROVE  /\ pc'[u] \in {"deciding", "decided", "asleep", "attempt"}
                    /\ pc'[u] = "attempt" => tokens' > 0 \/ age' >= RefillInterval
                    /\ tokens' > 0 \/ age' + wait'[u] >= RefillInterval
  BY DEF QuietInv
<1> DEFINE Quiet ==
      /\ pc[u] \in {"deciding", "decided", "asleep", "attempt"}
      /\ pc[u] = "attempt" => tokens > 0 \/ age >= RefillInterval
      /\ tokens > 0 \/ age + wait[u] >= RefillInterval
<1>1. ~contested[u] => Quiet
  BY DEF QuietInv
<1>2. /\ RefillInterval \in Nat /\ AgeCap \in Nat /\ RefillInterval <= AgeCap
      /\ age \in 0 .. AgeCap /\ tokens \in Nat /\ wait[u] \in Nat
  <2>1. Cost(0 + 1) <= Cost(MaxTokens) /\ Cost(0 + 1) = RefillInterval
    BY ConfigType, CostType, CostOfDifference
  <2> QED
    BY <2>1, ConfigType, AgeCapType DEF TypeOK, AgeCap
<1>3. ASSUME UNCHANGED <<tokens, age, pc, wait, contested>>
      PROVE  Quiet'
  BY <1>1, <1>3
<1>4. CASE Tick
  <2>1. ~contested[u] /\ pc'[u] = pc[u] /\ tokens' = tokens
    BY <1>4 DEF Tick
  <2>2. age' = IF age < AgeCap THEN age + 1 ELSE age
    BY <1>4 DEF Tick
  <2>3. wait'[u] = IF pc[u] = "asleep" /\ wait[u] > 0 THEN wait[u] - 1 ELSE wait[u]
    BY <1>4 DEF Tick
  <2> QED
    BY <1>1, <1>2, <2>1, <2>2, <2>3
<1>5. CASE WallClock
  BY <1>3, <1>5 DEF WallClock, bucket, calls, history
<1>6. ASSUME NEW t \in Threads, Call(t) PROVE Quiet'
  <2>1. /\ pc[t] \in Returned /\ pc' = [pc EXCEPT ![t] = "attempt"]
        /\ UNCHANGED <<tokens, age, wait, contested>>
    BY <1>6 DEF Call, TryAcquire, Acquire, AcquireFor, Begin, bucket, history
  <2>2. u # t
    BY <1>1, <2>1 DEF Returned
  <2> QED
    BY <1>1, <2>1, <2>2 DEF TypeOK
<1>7. ASSUME NEW t \in Threads, Locking(t) PROVE Quiet'
  <2>1. CASE RefuseByQuota(t)
    <3>1. u # t /\ ~contested[u]
      BY <2>1 DEF RefuseByQuota, TypeOK
    <3>2. pc'[u] = pc[u] /\ wait'[u] = wait[u] /\ UNCHANGED <<tokens, age>>
      BY <2>1, <3>1 DEF RefuseByQuota, Return, bucket, TypeOK
    <3> QED
      BY <1>1, <3>1, <3>2
  <2>2. CASE TakeToken(t)
    BY <2>2 DEF TakeToken
  <2>3. CASE FindEmpty(t)
    <3>1. /\ tokens = 0 /\ age < RefillInterval
          /\ tokens' = tokens /\ age' = age
      BY <2>3, NoTokenIffNothingEarned DEF FindEmpty
    <3>2. /\ pc[t] = "attempt" /\ pc' = [pc EXCEPT ![t] = "locked"]
          /\ UNCHANGED <<wait, contested>>
      BY <2>3 DEF FindEmpty, EnterLock, history
    <3>3. u # t
      BY <1>1, <1>2, <3>1, <3>2
    <3> QED
      BY <1>1, <3>1, <3>2, <3>3 DEF TypeOK
  <2> QED
    BY <1>7, <2>1, <2>2, <2>3 DEF Locking
<1>8. ASSUME NEW t \in Threads, ReadWait(t) PROVE Quiet'
  <2>1. UNCHANGED <<tokens, age>> /\ pc[t] = "locked"
    BY <1>8 DEF ReadWait, bucket
  <2>2. CASE u # t
    <3>1. pc'[u] = pc[u] /\ wait'[u] = wait[u] /\ ~contested[u]
      BY <1>8, <2>2 DEF ReadWait, Return, TypeOK
    <3> QED
      BY <1>1, <2>1, <3>1
  <2>3. CASE u = t /\ kind[t] = "try"
    BY <1>1, <1>8, <2>1, <2>3 DEF ReadWait
  <2>4. CASE u = t /\ kind[t] # "try"
    <3>1. pc'[u] = "deciding" /\ wait'[u] = WaitTime
      BY <1>8, <2>4 DEF ReadWait, TypeOK
    <3>2. age + WaitTime >= RefillInterval
      BY <1>2 DEF WaitTime
    <3> QED
      BY <2>1, <3>1, <3>2
  <2> QED
    BY <2>2, <2>3, <2>4
<1>9. ASSUME NEW t \in Threads, GiveUp(t) PROVE Quiet'
  <2>1. u # t /\ ~contested[u]
    BY <1>9 DEF GiveUp, TypeOK
  <2>2. pc'[u] = pc[u] /\ wait'[u] = wait[u] /\ UNCHANGED <<tokens, age>>
    BY <1>9, <2>1 DEF GiveUp, Return, bucket, TypeOK
  <2> QED
    BY <1>1, <2>1, <2>2
<1>10. ASSUME NEW t \in Threads, KeepWaiting(t) \/ Sleeping(t) PROVE Quiet'
  <2>1. UNCHANGED <<tokens, age, wait, contested>>
    BY <1>10 DEF KeepWaiting, Sleeping, StartSleep, Wake, bucket, history
  <2>2. \/ pc'[u] = pc[u]
        \/ pc'[u] = "decided"
        \/ pc'[u] = "asleep"
        \/ pc'[u] = "attempt" /\ wait[u] = 0
    BY <1>10 DEF KeepWaiting, Sleeping, StartSleep, Wake, TypeOK
  <2> QED
    BY <1>1, <1>2, <2>1, <2>2
<1>11. ASSUME NEW t \in Threads, Reset(t) PROVE Quiet'
  BY <1>11 DEF Reset
<1>12. CASE UNCHANGED vars
  BY <1>3, <1>12 DEF vars, bucket, calls, history
<1> QED
  BY <1>4, <1>5, <1>6, <1>7, <1>8, <1>9, <1>10, <1>11, <1>12 DEF Next, Deciding

(***************************************************************************)
(* A thread that slept the time it was told to, while nobody took a token  *)
(* or reset the limiter, is granted one unless the quota is spent.         *)
(***************************************************************************)
THEOREM QuietSleepsPay == Spec => []QuietSleepPays
<1>1. Init => QuietInv
  BY DEF Init, QuietInv
<1>2. TypeOK /\ QuietInv => QuietSleepPays
  <2> SUFFICES ASSUME TypeOK, QuietInv,
                      NEW t \in Threads, pc[t] = "attempt", ~contested[t]
               PROVE  RefilledTokens > 0
    BY DEF QuietSleepPays
  <2>1. tokens > 0 \/ age >= RefillInterval
    BY DEF QuietInv
  <2>2. /\ tokens \in Nat /\ age \in Nat /\ RefillInterval \in Nat
        /\ RefilledTokens \in Nat
    BY ConfigType, AgeCapType, RefillIsExact DEF TypeOK
  <2>3. ~(RefilledTokens <= 0)
    BY <2>1, <2>2, NoTokenIffNothingEarned
  <2> QED
    BY <2>2, <2>3
<1> QED
  BY <1>1, <1>2, QuietStep, TypeCorrect, PTL DEF Spec

-----------------------------------------------------------------------------
(* The deadline. *)

(* What a call may still wait, counted from its last comparison with the
   deadline, covers the sleep that it decided on. *)
DecidedInTime ==
    \A t \in Threads :
      (/\ pc[t] = "decided" \/ (pc[t] = "asleep" /\ wait[t] > 0)
       /\ kind[t] = "bounded" /\ late[t] < MaxLate)
        => wait[t] <= left[t] + late[t]

LEMMA DecidedStep == TypeOK /\ DecidedInTime /\ [Next]_vars => DecidedInTime'
<1> SUFFICES ASSUME TypeOK, DecidedInTime, [Next]_vars, NEW u \in Threads,
                    pc'[u] = "decided" \/ (pc'[u] = "asleep" /\ wait'[u] > 0),
                    kind'[u] = "bounded", late'[u] < MaxLate
             PROVE  wait'[u] <= left'[u] + late'[u]
  BY DEF DecidedInTime
<1>0. /\ wait[u] \in Nat /\ left[u] \in Int /\ late[u] \in Nat /\ MaxLate \in Nat
      /\ (/\ pc[u] = "decided" \/ (pc[u] = "asleep" /\ wait[u] > 0)
          /\ kind[u] = "bounded" /\ late[u] < MaxLate)
           => wait[u] <= left[u] + late[u]
  BY ConfigType, RateLimiterAssumption DEF TypeOK, DecidedInTime
<1>1. ASSUME UNCHANGED calls PROVE wait'[u] <= left'[u] + late'[u]
  BY <1>0, <1>1 DEF calls
<1>2. CASE Tick
  <2>1. pc'[u] = pc[u] /\ kind[u] = "bounded"
    BY <1>2 DEF Tick
  <2>2. wait'[u] = IF pc[u] = "asleep" /\ wait[u] > 0 THEN wait[u] - 1 ELSE wait[u]
    BY <1>2 DEF Tick
  <2>3. left'[u] = left[u] - 1 \/ left'[u] = left[u]
    BY <1>2 DEF Tick
  <2>4. late'[u] = IF pc[u] = "decided" /\ late[u] < MaxLate
                     THEN late[u] + 1 ELSE late[u]
    BY <1>2, <2>1 DEF Tick
  <2>5. CASE pc[u] = "decided"
    <3>1. wait'[u] = wait[u] /\ late'[u] = late[u] + 1 /\ late[u] < MaxLate
      BY <1>0, <2>2, <2>4, <2>5
    <3> QED
      BY <1>0, <2>1, <2>3, <2>5, <3>1
  <2>6. CASE pc[u] = "asleep" /\ wait'[u] > 0
    <3>1. wait[u] > 0 /\ wait'[u] = wait[u] - 1 /\ late'[u] = late[u]
      BY <1>0, <2>2, <2>4, <2>6
    <3> QED
      BY <1>0, <2>1, <2>3, <2>6, <3>1
  <2> QED
    BY <2>1, <2>5, <2>6
<1>3. CASE WallClock \/ UNCHANGED vars
  BY <1>1, <1>3 DEF WallClock, vars
<1>4. ASSUME NEW t \in Threads,
             Call(t) \/ Locking(t) \/ ReadWait(t) \/ GiveUp(t) \/ Wake(t)
      PROVE  wait'[u] <= left'[u] + late'[u]
  <2>1. /\ pc'[t] \notin {"decided", "asleep"}
        /\ u # t => /\ pc'[u] = pc[u] /\ kind'[u] = kind[u] /\ wait'[u] = wait[u]
                    /\ left'[u] = left[u] /\ late'[u] = late[u]
    <3>1. CASE Call(t)
      BY <3>1 DEF Call, TryAcquire, Acquire, AcquireFor, Begin, TypeOK
    <3>2. CASE Locking(t)
      BY <3>2 DEF Locking, RefuseByQuota, TakeToken, FindEmpty, Return, TypeOK
    <3>3. CASE ReadWait(t)
      BY <3>3 DEF ReadWait, Return, TypeOK
    <3>4. CASE GiveUp(t)
      BY <3>4 DEF GiveUp, Return, TypeOK
    <3>5. CASE Wake(t)
      BY <3>5 DEF Wake, TypeOK
    <3> QED
      BY <1>4, <3>1, <3>2, <3>3, <3>4, <3>5
  <2> QED
    BY <1>0, <2>1
<1>5. ASSUME NEW t \in Threads, KeepWaiting(t) PROVE wait'[u] <= left'[u] + late'[u]
  <2>1. UNCHANGED <<kind, wait, left, late>> /\ (u # t => pc'[u] = pc[u])
    BY <1>5 DEF KeepWaiting, TypeOK
  <2>2. u = t => wait[u] <= left[u]
    BY <1>0, <1>5, <2>1 DEF KeepWaiting, TooLong
  <2> QED
    BY <1>0, <2>1, <2>2
<1>6. ASSUME NEW t \in Threads, StartSleep(t) PROVE wait'[u] <= left'[u] + late'[u]
  <2>1. /\ UNCHANGED <<kind, wait, left, late>> /\ pc[t] = "decided"
        /\ (u # t => pc'[u] = pc[u])
    BY <1>6 DEF StartSleep, TypeOK
  <2> QED
    BY <1>0, <2>1
<1>7. ASSUME NEW t \in Threads, Reset(t) PROVE wait'[u] <= left'[u] + late'[u]
  BY <1>1, <1>7 DEF Reset
<1> QED
  BY <1>2, <1>3, <1>4, <1>5, <1>6, <1>7 DEF Next, Deciding, Sleeping

(***************************************************************************)
(* A sleep outlasts the deadline at most by the delay between the last     *)
(* comparison and the sleep, for delays of any length (MaxLate is any      *)
(* number): what is left of the wait and of the deadline shrink together.  *)
(***************************************************************************)
THEOREM OverrunsAreBounded == Spec => []OverrunsByLastDelayOnly
<1>1. Init => DecidedInTime
  BY DEF Init, DecidedInTime
<1>2. DecidedInTime => OverrunsByLastDelayOnly
  BY DEF DecidedInTime, OverrunsByLastDelayOnly
<1> QED
  BY <1>1, <1>2, DecidedStep, TypeCorrect, PTL DEF Spec

-----------------------------------------------------------------------------
(* The quota of a UTC day, until the wall clock is set back. *)

DailyInv ==
    (DailyLimit > 0 /\ ~setBack) =>
      /\ dayStart <= day
      /\ dailyUsed = grantedOn[dayStart]
      /\ \A d \in 0 .. MaxDay : /\ grantedOn[d] <= DailyLimit
                                /\ d > dayStart => grantedOn[d] = 0

LEMMA DailyStep == TypeOK /\ DailyInv /\ [Next]_vars => DailyInv'
<1> SUFFICES ASSUME TypeOK, DailyInv, [Next]_vars, DailyLimit > 0, ~setBack'
             PROVE  DailyInv'
  BY DEF DailyInv
<1>0. /\ dayStart \in 0 .. MaxDay /\ day \in 0 .. MaxDay /\ dailyUsed \in Nat
      /\ grantedOn \in [0 .. MaxDay -> Nat]
      /\ DailyLimit \in Nat /\ MaxDay \in Nat /\ setBack \in BOOLEAN
  BY RateLimiterAssumption DEF TypeOK
<1>1. ~setBack =>
        /\ dayStart <= day
        /\ dailyUsed = grantedOn[dayStart]
        /\ \A d \in 0 .. MaxDay : /\ grantedOn[d] <= DailyLimit
                                  /\ d > dayStart => grantedOn[d] = 0
  BY DEF DailyInv
<1>2. CASE WallClock
  <2>1. ~setBack /\ day' = day + 1
    <3>1. PICK d \in 0 .. MaxDay :
            d \in {day - 1, day + 1} /\ day' = d /\ setBack' = (setBack \/ d < day)
      BY <1>2 DEF WallClock
    <3>2. ~setBack /\ ~(d < day)
      BY <3>1, Zenon
    <3> QED
      BY <1>0, <3>1, <3>2
  <2> QED
    BY <1>0, <1>1, <1>2, <2>1 DEF WallClock, DailyInv, quota
<1>3. ASSUME NEW t \in Threads, Locking(t) PROVE DailyInv'
  <2>1. ~setBack /\ day' = day
    BY <1>3 DEF Locking, RefuseByQuota, TakeToken, FindEmpty, history
  <2>2. CountedDay = day /\ UsedToday = grantedOn[day]
    <3>1. CASE day > dayStart
      <4>1. CountedDay = day /\ UsedToday = 0
        BY <3>1 DEF CountedDay, UsedToday, RolledOver
      <4>2. grantedOn[day] = 0
        BY <1>0, <1>1, <2>1, <3>1
      <4> QED
        BY <4>1, <4>2
    <3>2. CASE ~(day > dayStart)
      <4>1. day = dayStart
        BY <1>0, <1>1, <2>1, <3>2
      <4> QED
        BY <1>1, <2>1, <3>2, <4>1 DEF CountedDay, UsedToday, RolledOver
    <3> QED
      BY <3>1, <3>2
  <2>3. dayStart' = day
    BY <1>3, <2>2 DEF Locking, RefuseByQuota, TakeToken, FindEmpty, EnterLock
  <2>4. CASE TakeToken(t)
    <3>1. UsedToday < DailyLimit
      BY <1>0, <2>2, <2>4 DEF TakeToken, QuotaSpent
    <3>2. /\ dailyUsed' = UsedToday + 1
          /\ grantedOn' = [grantedOn EXCEPT ![day] = @ + 1]
      BY <2>4 DEF TakeToken
    <3> QED
      BY <1>0, <1>1, <2>1, <2>2, <2>3, <3>1, <3>2 DEF DailyInv
  <2>5. CASE ~TakeToken(t)
    <3>1. dailyUsed' = UsedToday /\ grantedOn' = grantedOn
      BY <1>3, <2>5 DEF Locking, RefuseByQuota, FindEmpty, EnterLock, history
    <3> QED
      BY <1>0, <1>1, <2>1, <2>2, <2>3, <3>1 DEF DailyInv
  <2> QED
    BY <2>4, <2>5
<1>4. ASSUME NEW t \in Threads, Reset(t) PROVE DailyInv'
  <2>1. /\ dayStart' = day /\ day' = day /\ dailyUsed' = 0
        /\ grantedOn' = [d \in 0 .. MaxDay |-> 0]
    BY <1>4 DEF Reset
  <2> QED
    BY <1>0, <2>1 DEF DailyInv
<1>5. ASSUME UNCHANGED <<dailyUsed, dayStart, grantedOn, day, setBack>>
      PROVE  DailyInv'
  BY <1>0, <1>1, <1>5 DEF DailyInv
<1>6. CASE Tick \/ UNCHANGED vars
  BY <1>5, <1>6 DEF Tick, vars, quota, history
<1>7. ASSUME NEW t \in Threads,
             Call(t) \/ ReadWait(t) \/ Deciding(t) \/ Sleeping(t)
      PROVE  UNCHANGED <<dailyUsed, dayStart, grantedOn, day, setBack>>
  BY <1>7
  DEF Call, TryAcquire, Acquire, AcquireFor, Begin, ReadWait, Deciding, GiveUp,
      KeepWaiting, Sleeping, StartSleep, Wake, quota, history
<1> QED
  BY <1>2, <1>3, <1>4, <1>5, <1>6, <1>7 DEF Next

(***************************************************************************)
(* daily_limit is a limit per UTC day: until the wall clock is set back,   *)
(* no day is granted more, and the counter is the number of grants of its  *)
(* day.                                                                    *)
(***************************************************************************)
THEOREM DailyAccounted == Spec => []DailyAccounting
<1>1. Init => DailyInv
  BY RateLimiterAssumption DEF Init, DailyInv
<1>2. DailyInv => DailyAccounting
  BY DEF DailyInv, DailyAccounting
<1>3. TypeOK /\ DailyInv /\ [Next]_vars => DailyInv'
  BY DailyStep
<1> QED
  BY <1>1, <1>2, <1>3, TypeCorrect, PTL DEF Spec
-----------------------------------------------------------------------------
(* What a step may do: the observers, and the refusals.                     *)

(* available_tokens() caps what refill() caps, and needs no modulus: what   *)
(* fits the bucket fits tokens_. *)
LEMMA AvailableIsRefilled ==
  ASSUME TypeOK
  PROVE  AvailableTokens = RefilledTokens
<1>1. /\ MaxTokens \in Nat /\ tokens \in 0 .. MaxTokens /\ age \in Nat
      /\ TokenModulus \in Nat /\ MaxTokens < TokenModulus
  BY ConfigType, AgeCapType, RateLimiterAssumption DEF TypeOK
<1>2. Earned \in Nat
  BY <1>1, EarnedType
<1>3. tokens + Earned < MaxTokens => (tokens + Earned) % TokenModulus = tokens + Earned
  BY <1>1, <1>2
<1> QED
  BY <1>1, <1>2, <1>3 DEF AvailableTokens, RefilledTokens

(***************************************************************************)
(* A call finds the bucket empty only when the leaky bucket owes too much  *)
(* to admit it: refill() loses nothing to its rounding.                    *)
(***************************************************************************)
THEOREM EmptyWhenInDebt == Spec => EmptyOnlyWhenInDebt
<1>1. ASSUME TypeOK, NEW t \in Threads, FindEmpty(t)
      PROVE  Debt + RefillInterval > Cost(MaxTokens)
  <2>1. RefilledTokens = 0
    BY <1>1, NoTokenIffNothingEarned DEF FindEmpty
  <2>2. /\ Debt = Cost(MaxTokens - RefilledTokens) - RefilledAge
        /\ RefilledAge < RefillInterval /\ RefilledAge \in 0 .. AgeCap
    BY <1>1, <2>1, RefillIsExact DEF TypeOK
  <2>3. MaxTokens - 0 = MaxTokens /\ Cost(MaxTokens) \in Nat /\ RefillInterval \in Nat
    BY ConfigType, CostType
  <2> QED
    BY <2>1, <2>2, <2>3, AgeCapType
<1>2. TypeOK => \A t \in Threads : FindEmpty(t) => Debt + RefillInterval > Cost(MaxTokens)
  BY <1>1
<1> QED
  BY <1>2, TypeCorrect, PTL DEF EmptyOnlyWhenInDebt

(***************************************************************************)
(* The observers foretell the next locked section: a token that is shown   *)
(* is there to take, and the count of the day moves by one with it.        *)
(***************************************************************************)
THEOREM ObserversAreRight == Spec => ObserversForetell
<1> DEFINE Foretold(t) ==
             /\ TakeToken(t) => /\ AvailableTokens > 0
                                /\ tokens' = AvailableTokens - 1
                                /\ DailyLimit > 0 => DailyRequestsRemaining > 0
                                /\ DailyLimit > 0 =>
                                     DailyRequestsRemaining' = DailyRequestsRemaining - 1
             /\ FindEmpty(t) => AvailableTokens = 0
             /\ RefuseByQuota(t) => DailyRequestsRemaining = 0
<1>1. ASSUME TypeOK, BudgetInv, NEW t \in Threads
      PROVE  Foretold(t)
  <2>0. /\ day \in Nat /\ dayStart \in Nat /\ dailyUsed \in Nat /\ DailyLimit \in Int
        /\ DailyLimit > 0 => dailyUsed <= DailyLimit
        /\ AvailableTokens = RefilledTokens /\ RefilledTokens \in Nat
    <3>1. RefilledTokens \in 0 .. MaxTokens
      BY <1>1, RefillIsExact DEF TypeOK
    <3>2. AvailableTokens = RefilledTokens
      BY <1>1, AvailableIsRefilled
    <3> QED
      BY <1>1, <3>1, <3>2, ConfigType, RateLimiterAssumption DEF TypeOK, BudgetInv
  <2>1. ASSUME TakeToken(t), DailyLimit > 0
        PROVE  /\ DailyRequestsRemaining > 0
               /\ DailyRequestsRemaining' = DailyRequestsRemaining - 1
    <3>1. /\ ~QuotaSpent /\ day' = day /\ dayStart' = CountedDay
          /\ dailyUsed' = UsedToday + 1
      BY <2>1 DEF TakeToken
    <3>2. ~(day' > dayStart')
      <4>1. ~(day > CountedDay)
        BY <2>0 DEF CountedDay, RolledOver
      <4> QED
        BY <3>1, <4>1
    <3>3. DailyRequestsRemaining' = DailyLimit - (UsedToday + 1)
      BY <2>0, <2>1, <3>1, <3>2 DEF DailyRequestsRemaining
    <3>4. DailyRequestsRemaining = DailyLimit - UsedToday /\ UsedToday \in Nat
      BY <2>0, <2>1 DEF DailyRequestsRemaining, UsedToday, RolledOver
    <3> QED
      BY <2>0, <2>1, <3>1, <3>3, <3>4 DEF QuotaSpent
  <2>2. ASSUME TakeToken(t)
        PROVE  AvailableTokens > 0 /\ tokens' = AvailableTokens - 1
    BY <2>0, <2>2 DEF TakeToken
  <2>3. ASSUME FindEmpty(t) PROVE AvailableTokens = 0
    BY <2>0, <2>3 DEF FindEmpty
  <2>4. ASSUME RefuseByQuota(t) PROVE DailyRequestsRemaining = 0
    BY <2>0, <2>4 DEF RefuseByQuota, QuotaSpent, UsedToday, RolledOver, DailyRequestsRemaining
  <2> QED
    BY <2>1, <2>2, <2>3, <2>4
<1> HIDE DEF Foretold
<1>2. TypeOK /\ BudgetInv => \A t \in Threads : Foretold(t)
  BY <1>1
<1>3. Spec => []BudgetInv
  BY InitBudget, BudgetStep, TypeCorrect, PTL DEF Spec
<1>4. Spec => [][\A t \in Threads : Foretold(t)]_vars
  BY <1>2, <1>3, TypeCorrect, PTL
<1> QED
  BY <1>4 DEF ObserversForetell, Foretold

=============================================================================
