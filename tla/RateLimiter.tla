---------------------------- MODULE RateLimiter ----------------------------
(***************************************************************************)
(* spc::RateLimiter: a token bucket and a daily quota behind one mutex,    *)
(* used by any number of threads.  A call is several steps: the locked     *)
(* section (check_daily_reset, quota, refill, take), the second reading of *)
(* the clock that computes the wait, the comparison with the deadline      *)
(* after the unlock by a third reading, and the sleep, which is relative   *)
(* to the moment it starts.  Other threads, the steady clock and the wall  *)
(* clock move between any two of them.                                     *)
(*                                                                         *)
(* Time is kept relative, so that the state is finite without a horizon:   *)
(* age is Clock::now() - last_refill_, left[t] is deadline - Clock::now(), *)
(* wait[t] is the wait computed, then what is left of the sleep.           *)
(***************************************************************************)
EXTENDS Integers

CONSTANTS
    Threads,
    Resetters,             \* the threads that may also call reset()
    ConfigMaxTokens,       \* Config::max_tokens, as the caller wrote it
    ConfigRefillInterval,  \* Config::refill_interval, in ticks
    ConfigInitialTokens,   \* Config::initial_tokens
    DefaultInterval,       \* what a non-positive interval becomes (1000 ms)
    TokenModulus,          \* tokens_ wraps here; 2^16 in the build
    DailyLimit,            \* Config::daily_limit
    ConfigMaxWait,         \* Config::max_wait: {} when unset, else {ticks}
    ExplicitWaits,         \* the arguments given to acquire_for()
    MaxDay,                \* bound: the last wall-clock day of a behaviour
    MaxLate,               \* bound: the longest delay before a sleep that is measured
    Window                 \* bound: the longest window history keeps

(* Mutant: a bucket that was configured to hold nothing is left so. *)
MaxTokensAsWritten == ConfigMaxTokens

MaxTokens == IF ConfigMaxTokens < 1 THEN 1 ELSE ConfigMaxTokens

RefillInterval ==
    IF ConfigRefillInterval <= 0 THEN DefaultInterval ELSE ConfigRefillInterval

InitialTokens ==
    IF ConfigInitialTokens > MaxTokens THEN MaxTokens ELSE ConfigInitialTokens

(* The time that n tokens take to earn. *)
Cost(n) == n * RefillInterval

Positive(w) == IF w <= 0 THEN 0 ELSE w

ASSUME RateLimiterAssumption ==
    /\ Resetters \subseteq Threads
    /\ ConfigMaxTokens \in 0 .. TokenModulus - 1
    /\ ConfigInitialTokens \in 0 .. TokenModulus - 1
    /\ ConfigRefillInterval \in Int
    /\ DefaultInterval \in Nat \ {0}
    /\ TokenModulus \in Nat \ {0, 1}
    /\ DailyLimit \in Int
    /\ ConfigMaxWait \subseteq Int
    /\ ExplicitWaits \subseteq Int
    /\ MaxDay \in Nat
    /\ MaxLate \in Nat
    /\ Window \in Nat

VARIABLES
    tokens,      \* tokens_
    age,         \* Clock::now() - last_refill_, capped at AgeCap
    dailyUsed,   \* daily_requests_used_
    dayStart,    \* day_start_, as a day number
    day,         \* the UTC day the wall clock shows
    pc,          \* where each thread is in its call
    kind,        \* which call: "try", "bounded" (a deadline), "unbounded"
    left,        \* deadline - Clock::now(), kept down to MostOverdue
    wait,        \* *wait, then the remainder of sleep_for(*wait)
    late,        \* history: ticks from the last comparison with the deadline
                 \* to the sleep; MaxLate stands for that many and more
    recent,      \* history: grants of the last a ticks, since reset()
    grantedOn,   \* history: grants of each wall-clock day, since reset();
                 \* it and granted count only under a quota
    granted,     \* history: grants since reset()
    epochDay,    \* history: day_start_ when the limiter was last reset
    setBack,     \* history: was the wall clock set back since reset()
    contested    \* history: FALSE from the moment a thread has computed its
                 \* wait until another one takes a token or resets

bucket == <<tokens, age>>
quota == <<dailyUsed, dayStart>>
calls == <<pc, kind, left, wait, late>>
history == <<recent, grantedOn, granted, epochDay, setBack, contested>>
vars == <<bucket, quota, day, calls, history>>

(* An age past a whole bucket of intervals earns no more than that. *)
AgeCap == Cost(MaxTokens)

Returned == {"idle", "granted", "refused"}
InCall == {"attempt", "locked", "deciding", "decided", "asleep"}

(* How far past its deadline a call is no longer matters to any property. *)
MostOverdue == -1 - MaxLate

NoGrants == [a \in 0 .. Window |-> 0]

TypeOK ==
    /\ tokens \in 0 .. MaxTokens
    /\ age \in 0 .. AgeCap
    /\ dailyUsed \in Nat
    /\ dayStart \in 0 .. MaxDay
    /\ day \in 0 .. MaxDay
    /\ pc \in [Threads -> Returned \cup InCall]
    /\ kind \in [Threads -> {"try", "bounded", "unbounded"}]
    /\ left \in [Threads -> Int]
    /\ wait \in [Threads -> 0 .. RefillInterval]
    /\ late \in [Threads -> 0 .. MaxLate]
    /\ recent \in [0 .. Window -> Nat]
    /\ grantedOn \in [0 .. MaxDay -> Nat]
    /\ granted \in Nat
    /\ epochDay \in 0 .. MaxDay
    /\ setBack \in BOOLEAN
    /\ contested \in [Threads -> BOOLEAN]

Init ==
    /\ tokens = InitialTokens
    /\ age = 0
    /\ dailyUsed = 0
    /\ day = 0
    /\ dayStart = day
    /\ pc = [t \in Threads |-> "idle"]
    /\ kind = [t \in Threads |-> "try"]
    /\ left = [t \in Threads |-> 0]
    /\ wait = [t \in Threads |-> 0]
    /\ late = [t \in Threads |-> 0]
    /\ recent = NoGrants
    /\ grantedOn = [d \in 0 .. MaxDay |-> 0]
    /\ granted = 0
    /\ epochDay = day
    /\ setBack = FALSE
    /\ contested = [t \in Threads |-> TRUE]

-----------------------------------------------------------------------------
(* The bucket and the quota, as functions of the state. *)

(* Mutant: any other day, an earlier one too, clears the count. *)
RolledOverEitherWay == day # dayStart

(* check_daily_reset(): only a later day than the one kept clears the count. *)
RolledOver == day > dayStart
UsedToday == IF RolledOver THEN 0 ELSE dailyUsed

(* Mutant: the count is cleared, the day it is kept for is not moved. *)
CountedDayKept == dayStart

CountedDay == IF RolledOver THEN day ELSE dayStart

QuotaSpent == DailyLimit > 0 /\ UsedToday >= DailyLimit

(* Mutant: an interval that has begun earns its token already. *)
EarnedRoundedUp == (age + RefillInterval - 1) \div RefillInterval

Earned == age \div RefillInterval

(* Mutant: the sum is narrowed before it is compared with the size. *)
RefilledTokensNarrowed ==
    IF tokens >= MaxTokens \/ Earned <= 0 THEN tokens
    ELSE IF (tokens + Earned) % TokenModulus >= MaxTokens THEN MaxTokens
    ELSE (tokens + Earned) % TokenModulus

(* refill() *)
RefilledTokens ==
    IF tokens >= MaxTokens \/ Earned <= 0 THEN tokens
    ELSE IF tokens + Earned >= MaxTokens THEN MaxTokens
    ELSE (tokens + Earned) % TokenModulus

(* Mutant: time that earned more than fits the bucket is kept for later. *)
RefilledAgeSurplusKept ==
    IF tokens >= MaxTokens THEN 0
    ELSE IF Earned <= 0 THEN age
    ELSE IF tokens + Earned >= MaxTokens THEN age - Cost(MaxTokens - tokens)
    ELSE age - Cost(Earned)

(* Mutant: a partial interval is lost with every refill. *)
RefilledAgeTruncated ==
    IF tokens < MaxTokens /\ Earned <= 0 THEN age ELSE 0

RefilledAge ==
    IF tokens >= MaxTokens THEN 0
    ELSE IF Earned <= 0 THEN age
    ELSE IF tokens + Earned >= MaxTokens THEN 0
    ELSE age - Cost(Earned)

(* Mutant: the wait is rounded down to the tick before. *)
WaitTimeRoundedDown ==
    IF RefillInterval - age > 0 THEN RefillInterval - age - 1 ELSE 0

(* The wait take_or_wait_time() computes: one interval less what has passed. *)
WaitTime == IF RefillInterval - age > 0 THEN RefillInterval - age ELSE 0

(* available_tokens() *)
AvailableTokens ==
    IF tokens + Earned < MaxTokens THEN tokens + Earned ELSE MaxTokens

(* Mutant: the observer forgets that the day may have rolled over. *)
DailyRequestsRemainingStale ==
    IF DailyLimit <= 0 THEN 0 ELSE DailyLimit - dailyUsed

(* daily_requests_remaining() *)
DailyRequestsRemaining ==
    IF DailyLimit <= 0 THEN 0
    ELSE IF day > dayStart THEN DailyLimit
    ELSE DailyLimit - dailyUsed

Unlocked == \A t \in Threads : pc[t] # "locked"

-----------------------------------------------------------------------------
(* Calls and returns. *)

Begin(t, how, ticks) ==
    /\ pc[t] \in Returned
    /\ pc' = [pc EXCEPT ![t] = "attempt"]
    /\ kind' = [kind EXCEPT ![t] = how]
    /\ left' = [left EXCEPT ![t] = ticks]
    /\ UNCHANGED <<bucket, quota, day, wait, late, history>>

(* A call that is over keeps nothing but its result. *)
Return(t, result) ==
    /\ pc' = [pc EXCEPT ![t] = result]
    /\ kind' = [kind EXCEPT ![t] = "try"]
    /\ left' = [left EXCEPT ![t] = 0]
    /\ wait' = [wait EXCEPT ![t] = 0]
    /\ late' = [late EXCEPT ![t] = 0]

TryAcquire(t) == Begin(t, "try", 0)

(* acquire_for(): the deadline is fixed before the lock is asked for. *)
AcquireFor(t, w) == Begin(t, "bounded", Positive(w))

Acquire(t) ==
    \/ \E w \in ConfigMaxWait : AcquireFor(t, w)
    \/ ConfigMaxWait = {} /\ Begin(t, "unbounded", 0)

-----------------------------------------------------------------------------
(* The locked section, and what comes after it. *)

EnterLock(t) ==
    /\ pc[t] = "attempt"
    /\ Unlocked
    /\ dailyUsed' = UsedToday
    /\ dayStart' = CountedDay

(* daily_quota_spent(): waiting cannot help, so no call waits. *)
RefuseByQuota(t) ==
    /\ EnterLock(t)
    /\ QuotaSpent
    /\ Return(t, "refused")
    /\ contested' = [contested EXCEPT ![t] = TRUE]
    /\ UNCHANGED <<bucket, day, recent, grantedOn, granted, epochDay, setBack>>

TakeToken(t) ==
    /\ pc[t] = "attempt"
    /\ Unlocked
    /\ ~QuotaSpent
    /\ RefilledTokens > 0
    /\ tokens' = RefilledTokens - 1
    /\ age' = RefilledAge
    /\ dailyUsed' = IF DailyLimit > 0 THEN UsedToday + 1 ELSE UsedToday
    /\ dayStart' = CountedDay
    /\ Return(t, "granted")
    /\ recent' = [a \in 0 .. Window |-> recent[a] + 1]
    /\ IF DailyLimit > 0
         THEN /\ grantedOn' = [grantedOn EXCEPT ![day] = @ + 1]
              /\ granted' = granted + 1
         ELSE UNCHANGED <<grantedOn, granted>>
    /\ contested' = [u \in Threads |-> TRUE]
    /\ UNCHANGED <<day, epochDay, setBack>>

(* No token: the thread keeps the lock until it has read the clock again. *)
FindEmpty(t) ==
    /\ EnterLock(t)
    /\ ~QuotaSpent
    /\ RefilledTokens <= 0
    /\ tokens' = RefilledTokens
    /\ age' = RefilledAge
    /\ pc' = [pc EXCEPT ![t] = "locked"]
    /\ UNCHANGED <<day, kind, left, wait, late, history>>

(* The clock is read, the lock released; try_acquire() is done here. *)
ReadWait(t) ==
    /\ pc[t] = "locked"
    /\ IF kind[t] = "try"
         THEN Return(t, "refused") /\ UNCHANGED contested
         ELSE /\ pc' = [pc EXCEPT ![t] = "deciding"]
              /\ wait' = [wait EXCEPT ![t] = WaitTime]
              /\ contested' = [contested EXCEPT ![t] = FALSE]
              /\ UNCHANGED <<kind, left, late>>
    /\ UNCHANGED <<bucket, quota, day, recent, grantedOn, granted, epochDay, setBack>>

(* Mutant: only a deadline that is over stops the wait. *)
TooLongAfterDeadline(t) == kind[t] = "bounded" /\ left[t] < 0

(* Mutant: the deadline is not looked at. *)
TooLongNever(t) == FALSE

(* *wait > *deadline - Clock::now(), with a clock read after the unlock. *)
TooLong(t) == kind[t] = "bounded" /\ wait[t] > left[t]

GiveUp(t) ==
    /\ pc[t] = "deciding"
    /\ TooLong(t)
    /\ Return(t, "refused")
    /\ contested' = [contested EXCEPT ![t] = TRUE]
    /\ UNCHANGED <<bucket, quota, day, recent, grantedOn, granted, epochDay, setBack>>

KeepWaiting(t) ==
    /\ pc[t] = "deciding"
    /\ ~TooLong(t)
    /\ pc' = [pc EXCEPT ![t] = "decided"]
    /\ UNCHANGED <<bucket, quota, day, kind, left, wait, late, history>>

(* sleep_for() counts from here, whatever the clock showed at the comparison. *)
StartSleep(t) ==
    /\ pc[t] = "decided"
    /\ pc' = [pc EXCEPT ![t] = "asleep"]
    /\ UNCHANGED <<bucket, quota, day, kind, left, wait, late, history>>

(* sleep_for() returns once the time is over, and possibly later. *)
Wake(t) ==
    /\ pc[t] = "asleep"
    /\ wait[t] = 0
    /\ pc' = [pc EXCEPT ![t] = "attempt"]
    /\ late' = [late EXCEPT ![t] = 0]
    /\ UNCHANGED <<bucket, quota, day, kind, left, wait, history>>

Reset(t) ==
    /\ t \in Resetters
    /\ pc[t] \in Returned
    /\ Unlocked
    /\ tokens' = InitialTokens
    /\ age' = 0
    /\ dailyUsed' = 0
    /\ dayStart' = day
    /\ recent' = NoGrants
    /\ grantedOn' = [d \in 0 .. MaxDay |-> 0]
    /\ granted' = 0
    /\ epochDay' = day
    /\ setBack' = FALSE
    /\ contested' = [u \in Threads |-> TRUE]
    /\ UNCHANGED <<day, calls>>

-----------------------------------------------------------------------------
(* The two clocks. *)

Tick ==
    /\ age' = IF age < AgeCap THEN age + 1 ELSE age
    /\ left' = [t \in Threads |->
                  IF kind[t] = "bounded" /\ left[t] > MostOverdue
                    THEN left[t] - 1 ELSE left[t]]
    /\ wait' = [t \in Threads |->
                  IF pc[t] = "asleep" /\ wait[t] > 0 THEN wait[t] - 1 ELSE wait[t]]
    /\ late' = [t \in Threads |->
                  IF pc[t] = "decided" /\ kind[t] = "bounded" /\ late[t] < MaxLate
                    THEN late[t] + 1 ELSE late[t]]
    /\ recent' = [a \in 0 .. Window |-> IF a = 0 THEN 0 ELSE recent[a - 1]]
    /\ UNCHANGED <<tokens, quota, day, pc, kind, grantedOn, granted, epochDay,
                   setBack, contested>>

WallClock ==
    /\ \E d \in 0 .. MaxDay :
         /\ d \in {day - 1, day + 1}
         /\ day' = d
         /\ setBack' = (setBack \/ d < day)
    /\ UNCHANGED <<bucket, quota, calls, recent, grantedOn, granted, epochDay, contested>>

Call(t) ==
    \/ TryAcquire(t)
    \/ Acquire(t)
    \/ \E w \in ExplicitWaits : AcquireFor(t, w)

Locking(t) == RefuseByQuota(t) \/ TakeToken(t) \/ FindEmpty(t)

Deciding(t) == GiveUp(t) \/ KeepWaiting(t)

Sleeping(t) == StartSleep(t) \/ Wake(t)

Next ==
    \/ Tick
    \/ WallClock
    \/ \E t \in Threads :
         Call(t) \/ Locking(t) \/ ReadWait(t) \/ Deciding(t) \/ Sleeping(t) \/ Reset(t)

(***************************************************************************)
(* Time passes, a running thread runs, and a thread that keeps finding the *)
(* mutex free in the end gets it.  No call is ever obliged to be made.     *)
(***************************************************************************)
Fairness ==
    /\ WF_vars(Tick)
    /\ \A t \in Threads :
         /\ SF_vars(Locking(t))
         /\ WF_vars(ReadWait(t))
         /\ WF_vars(Deciding(t))
         /\ WF_vars(Sleeping(t))

Spec == Init /\ [][Next]_vars

FairSpec == Spec /\ Fairness
-----------------------------------------------------------------------------
(* Properties. *)

(* What a bucket owes: the tokens missing, less the time not yet turned
   into tokens. *)
DebtOf(n, elapsed) ==
    IF Cost(MaxTokens - n) - elapsed > 0 THEN Cost(MaxTokens - n) - elapsed ELSE 0

Debt == DebtOf(tokens, age)

LB == INSTANCE LeakyBucket WITH
        Burst <- MaxTokens, Interval <- RefillInterval,
        Initial <- InitialTokens, debt <- Debt

(***************************************************************************)
(* The limiter implements the leaky bucket: every grant is one the bucket  *)
(* admits, whichever thread takes it and however often refill() rounded    *)
(* the elapsed time down to whole tokens in between.                       *)
(***************************************************************************)
ImplementsLeakyBucket == LB!LBSpec

(***************************************************************************)
(* The rate limit (rate_limit.hpp: "token bucket"): any a ticks see at     *)
(* most a full bucket and what a ticks earn, counted over all threads.     *)
(***************************************************************************)
RateBound ==
    \A a \in 0 .. Window :
      Cost(recent[a]) <= Cost(MaxTokens) + a

(***************************************************************************)
(* The other direction: a call is told that the bucket is empty only when  *)
(* the leaky bucket would not admit it either.  With the refinement, the   *)
(* rounding of refill() neither creates tokens nor loses any.              *)
(***************************************************************************)
EmptyOnlyWhenInDebt ==
    [][\A t \in Threads :
         FindEmpty(t) => Debt + RefillInterval > Cost(MaxTokens)]_vars

(***************************************************************************)
(* available_tokens() and daily_requests_remaining() compute, without      *)
(* changing the state, what the next locked section will find: the         *)
(* observer's copy of refill() and of check_daily_reset() cannot drift.    *)
(***************************************************************************)
ObserversForetell ==
    [][\A t \in Threads :
         /\ TakeToken(t) => /\ AvailableTokens > 0
                            /\ tokens' = AvailableTokens - 1
                            /\ DailyLimit > 0 => DailyRequestsRemaining > 0
                            /\ DailyLimit > 0 =>
                                 DailyRequestsRemaining' = DailyRequestsRemaining - 1
         /\ FindEmpty(t) => AvailableTokens = 0
         /\ RefuseByQuota(t) => DailyRequestsRemaining = 0]_vars

(***************************************************************************)
(* The quota (rate_limit.hpp: "requests per UTC day"): until the wall      *)
(* clock is set back, dailyUsed is the number of grants of the day it is   *)
(* kept for, and no day sees more than the limit; threads that slept over  *)
(* midnight are counted on the day they are granted.                       *)
(***************************************************************************)
DailyAccounting ==
    (DailyLimit > 0 /\ ~setBack) =>
      /\ dailyUsed = grantedOn[dayStart]
      /\ \A d \in 0 .. MaxDay : grantedOn[d] <= DailyLimit

(***************************************************************************)
(* What is left of the quota when the wall clock may also be set back over *)
(* a midnight, and forward again: one quota for each day that the limiter  *)
(* ever counted since its reset, however often each midnight was crossed.  *)
(***************************************************************************)
QuotaBudget ==
    DailyLimit > 0 =>
      granted <= DailyLimit * (dayStart - epochDay + 1)

(***************************************************************************)
(* A thread that was told to sleep and had no rival since (nobody took a   *)
(* token, nobody reset) finds its token when it wakes, however the clock   *)
(* moved between the refill, the computation of the wait and the sleep:    *)
(* a lone caller never sleeps twice.                                       *)
(***************************************************************************)
QuietSleepPays ==
    \A t \in Threads :
      (pc[t] = "attempt" /\ ~contested[t]) => RefilledTokens > 0

(***************************************************************************)
(* A sleep outlasts the deadline of acquire_for() at most by the time for  *)
(* which the thread was held up between its last comparison with the       *)
(* deadline and the sleep.  Delays before that comparison, those of the    *)
(* locked section and of earlier rounds included, never add to it.         *)
(***************************************************************************)
OverrunsByLastDelayOnly ==
    \A t \in Threads :
      (pc[t] = "asleep" /\ kind[t] = "bounded" /\ wait[t] > 0 /\ late[t] < MaxLate)
        => wait[t] <= left[t] + late[t]

(***************************************************************************)
(* Liveness: a call with a deadline returns, whatever the other threads do *)
(* (they may take every token it waits for).                               *)
(***************************************************************************)
BoundedCallReturns ==
    \A t \in Threads :
      (pc[t] \in InCall /\ kind[t] # "unbounded") ~> (pc[t] \in Returned)

(***************************************************************************)
(* An acquire() without max_wait may starve behind rivals, but only behind *)
(* them: once the other threads make no more calls, it returns.            *)
(***************************************************************************)
LoneCallReturns ==
    \A t \in Threads :
      (<>[](\A u \in Threads \ {t} : pc[u] \in Returned))
        => ((pc[t] \in InCall) ~> (pc[t] \in Returned))

(***************************************************************************)
(* rate_limit.hpp says of acquire() and acquire_for(): "Returns false when *)
(* no token can arrive in time or the daily quota is spent".  So a call    *)
(* that gives up has less time left than the next token needs.             *)
(***************************************************************************)
GaveUpOnlyIfHopeless ==
    [][\A t \in Threads : GiveUp(t) => RefillInterval - age > left[t]]_vars

(***************************************************************************)
(* rate_limit.hpp says of reset(): "Refill the bucket and clear today's    *)
(* count".  So a reset never leaves fewer tokens than there were.          *)
(***************************************************************************)
ResetRefills ==
    [][\A t \in Threads : Reset(t) => tokens' >= AvailableTokens]_vars
=============================================================================
