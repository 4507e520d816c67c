------------------------ MODULE ArchiveFetch_proofs -------------------------
(***************************************************************************)
(* Theorems about ArchiveClient::fetch(), for any number of threads, any   *)
(* limiter and any policy.  What the loop does is known from Retry_proofs, *)
(* what the limiter does from RateLimiter_proofs: a behaviour of the       *)
(* client is one of its limiter (LimiterIsUsedAsSpecified).                *)
(***************************************************************************)
EXTENDS ArchiveFetch, Retry_proofs, TLAPS

RLP == INSTANCE RateLimiter_proofs WITH
         Threads <- Callers, Resetters <- {},
         ConfigMaxTokens <- Burst, ConfigRefillInterval <- Interval,
         ConfigInitialTokens <- Initial, DefaultInterval <- Interval,
         DailyLimit <- 0, ConfigMaxWait <- MaxWait,
         ExplicitWaits <- {}, MaxDay <- 0, MaxLate <- 0,
         Window <- 0

LEMMA LimiterConfigured == RLP!RateLimiterAssumption
BY ArchiveAssumption DEF RLP!RateLimiterAssumption

-----------------------------------------------------------------------------
(* RL and RLP are two instances of one module, and the same formulas.       *)

LEMMA SameState ==
  /\ RLP!TypeOK = RL!TypeOK
  /\ RLP!Debt = RL!Debt
  /\ RLP!Init = RL!Init
  /\ RLP!vars = RL!vars
BY DEF RLP!TypeOK, RL!TypeOK, RLP!Init, RL!Init, RLP!Debt, RL!Debt, RLP!DebtOf,
       RL!DebtOf, RLP!Cost, RL!Cost, RLP!MaxTokens, RL!MaxTokens, RLP!RefillInterval,
       RL!RefillInterval, RLP!InitialTokens, RL!InitialTokens, RLP!AgeCap, RL!AgeCap,
       RLP!Returned, RL!Returned, RLP!InCall, RL!InCall, RLP!NoGrants, RL!NoGrants,
       RLP!vars, RL!vars, RLP!bucket, RL!bucket, RLP!quota, RL!quota, RLP!calls,
       RL!calls, RLP!history, RL!history

LEMMA SameActions ==
  /\ RLP!Tick <=> RL!Tick
  /\ \A c \in Callers :
       /\ RLP!Call(c) <=> RL!Call(c)
       /\ RLP!RefuseByQuota(c) <=> RL!RefuseByQuota(c)
       /\ RLP!TakeToken(c) <=> RL!TakeToken(c)
       /\ RLP!FindEmpty(c) <=> RL!FindEmpty(c)
       /\ RLP!ReadWait(c) <=> RL!ReadWait(c)
       /\ RLP!Deciding(c) <=> RL!Deciding(c)
       /\ RLP!Sleeping(c) <=> RL!Sleeping(c)
<1> USE DEF RLP!Cost, RL!Cost, RLP!MaxTokens, RL!MaxTokens, RLP!RefillInterval,
       RL!RefillInterval, RLP!AgeCap, RL!AgeCap,
       RLP!Returned, RL!Returned, RLP!bucket, RL!bucket, RLP!quota, RL!quota,
       RLP!calls, RL!calls, RLP!history, RL!history
<1>1. RLP!Tick <=> RL!Tick
  BY DEF RLP!Tick, RL!Tick, RLP!MostOverdue, RL!MostOverdue
<1> SUFFICES ASSUME NEW c \in Callers
             PROVE  /\ RLP!Call(c) <=> RL!Call(c)
                    /\ RLP!RefuseByQuota(c) <=> RL!RefuseByQuota(c)
                    /\ RLP!TakeToken(c) <=> RL!TakeToken(c)
                    /\ RLP!FindEmpty(c) <=> RL!FindEmpty(c)
                    /\ RLP!ReadWait(c) <=> RL!ReadWait(c)
                    /\ RLP!Deciding(c) <=> RL!Deciding(c)
                    /\ RLP!Sleeping(c) <=> RL!Sleeping(c)
  BY <1>1
<1> USE DEF RLP!Return, RL!Return
<1>2. RLP!Call(c) <=> RL!Call(c)
  BY DEF RLP!Call, RL!Call, RLP!TryAcquire, RL!TryAcquire, RLP!Acquire, RL!Acquire,
         RLP!AcquireFor, RL!AcquireFor, RLP!Begin, RL!Begin, RLP!Positive, RL!Positive
<1>3. RLP!ReadWait(c) <=> RL!ReadWait(c)
  BY DEF RLP!ReadWait, RL!ReadWait, RLP!WaitTime, RL!WaitTime
<1>4. RLP!Deciding(c) <=> RL!Deciding(c)
  BY DEF RLP!Deciding, RL!Deciding, RLP!GiveUp, RL!GiveUp,
         RLP!KeepWaiting, RL!KeepWaiting, RLP!TooLong, RL!TooLong
<1>5. RLP!Sleeping(c) <=> RL!Sleeping(c)
  BY DEF RLP!Sleeping, RL!Sleeping, RLP!StartSleep, RL!StartSleep, RLP!Wake, RL!Wake
<1> USE DEF RLP!Unlocked, RL!Unlocked, RLP!UsedToday, RL!UsedToday, RLP!CountedDay,
       RL!CountedDay, RLP!RolledOver, RL!RolledOver, RLP!QuotaSpent, RL!QuotaSpent,
       RLP!EnterLock, RL!EnterLock, RLP!Earned, RL!Earned, RLP!RefilledTokens,
       RL!RefilledTokens, RLP!RefilledAge, RL!RefilledAge
<1>6. RLP!RefuseByQuota(c) <=> RL!RefuseByQuota(c)
  BY DEF RLP!RefuseByQuota, RL!RefuseByQuota
<1>7. RLP!TakeToken(c) <=> RL!TakeToken(c)
  BY DEF RLP!TakeToken, RL!TakeToken
<1>8. RLP!FindEmpty(c) <=> RL!FindEmpty(c)
  BY DEF RLP!FindEmpty, RL!FindEmpty
<1> QED
  BY <1>1, <1>2, <1>3, <1>4, <1>5, <1>6, <1>7, <1>8
-----------------------------------------------------------------------------
(* What a step of the limiter does to its debt and to the calls.            *)

LEMMA LimiterStepKinds ==
  ASSUME NEW c \in Callers, LimiterStep(c)
  PROVE  RL!TakeToken(c) \/ RL!RefuseByQuota(c) \/ RL!FindEmpty(c) \/ RL!ReadWait(c)
           \/ RL!Deciding(c) \/ RL!Sleeping(c)
BY DEF LimiterStep, RL!Locking

LEMMA GrantCosts ==
  ASSUME RL!TypeOK, NEW c \in Callers, RL!TakeToken(c)
  PROVE  RL!Debt' = RL!Debt + RL!RefillInterval
<1>1. RLP!TypeOK /\ RLP!TakeToken(c)
  BY SameState, SameActions
<1>2. RLP!LB!Admit
  BY <1>1, RLP!TakeIsAdmit, LimiterConfigured
<1>3. RLP!Debt' = RL!Debt'
  BY DEF RLP!Debt, RL!Debt, RLP!DebtOf, RL!DebtOf, RLP!Cost, RL!Cost, RLP!MaxTokens,
         RL!MaxTokens, RLP!RefillInterval, RL!RefillInterval
<1> QED
  BY <1>2, <1>3, SameState DEF RLP!LB!Admit, RLP!RefillInterval, RL!RefillInterval

LEMMA TimePays ==
  ASSUME RL!TypeOK, RL!Tick
  PROVE  RL!Debt' = IF RL!Debt > 0 THEN RL!Debt - 1 ELSE 0
<1>1. RLP!TypeOK /\ RLP!Tick
  BY SameState, SameActions
<1>2. RLP!LB!Tick
  BY <1>1, RLP!TickIsTick, LimiterConfigured
<1>3. RLP!Debt' = RL!Debt'
  BY DEF RLP!Debt, RL!Debt, RLP!DebtOf, RL!DebtOf, RLP!Cost, RL!Cost, RLP!MaxTokens,
         RL!MaxTokens, RLP!RefillInterval, RL!RefillInterval
<1> QED
  BY <1>2, <1>3, SameState DEF RLP!LB!Tick

LEMMA OtherStepsAreFree ==
  ASSUME RL!TypeOK, NEW c \in Callers,
         \/ RL!RefuseByQuota(c) \/ RL!FindEmpty(c) \/ RL!ReadWait(c) \/ RL!Deciding(c)
         \/ RL!Sleeping(c) \/ RL!Acquire(c)
  PROVE  RL!Debt' = RL!Debt
<1>1. ASSUME UNCHANGED RL!bucket PROVE RL!Debt' = RL!Debt
  BY <1>1 DEF RL!bucket, RL!Debt, RL!DebtOf
<1>2. CASE RL!FindEmpty(c)
  <2>1. RLP!TypeOK /\ RLP!FindEmpty(c)
    BY <1>2, SameState, SameActions
  <2>2. RLP!Debt' = RLP!Debt
    BY <2>1, RLP!FindEmptyIsStutter, LimiterConfigured
  <2>3. RLP!Debt' = RL!Debt'
    BY DEF RLP!Debt, RL!Debt, RLP!DebtOf, RL!DebtOf, RLP!Cost, RL!Cost, RLP!MaxTokens,
           RL!MaxTokens, RLP!RefillInterval, RL!RefillInterval
  <2> QED
    BY <2>2, <2>3, SameState
<1>3. CASE RL!RefuseByQuota(c)
  BY <1>1, <1>3 DEF RL!RefuseByQuota
<1>4. CASE RL!ReadWait(c)
  BY <1>1, <1>4 DEF RL!ReadWait
<1>5. CASE RL!Deciding(c)
  BY <1>1, <1>5 DEF RL!Deciding, RL!GiveUp, RL!KeepWaiting
<1>6. CASE RL!Sleeping(c)
  BY <1>1, <1>6 DEF RL!Sleeping, RL!StartSleep, RL!Wake
<1>7. CASE RL!Acquire(c)
  BY <1>1, <1>7 DEF RL!Acquire, RL!AcquireFor, RL!Begin
<1> QED
  BY <1>2, <1>3, <1>4, <1>5, <1>6, <1>7

(* A bucket never owes more than it holds. *)
LEMMA DebtIsBounded ==
  ASSUME RL!TypeOK
  PROVE  /\ RL!RefillInterval = Interval /\ RL!MaxTokens = Burst
         /\ RL!Debt \in 0 .. RL!Cost(Burst)
<1>1. RL!RefillInterval = Interval /\ RL!MaxTokens = Burst
  BY ArchiveAssumption DEF RL!RefillInterval, RL!MaxTokens
<1>2. /\ tokens \in 0 .. Burst /\ Burst \in Nat /\ Interval \in Nat
      /\ Burst - tokens \in Nat
  BY <1>1, ArchiveAssumption DEF RL!TypeOK
<1>3. age \in Nat
  <2>1. Burst * Interval \in Nat
    BY <1>2, Z3T(30)
  <2> QED
    BY <1>1, <2>1 DEF RL!TypeOK, RL!AgeCap, RL!Cost
<1>4. /\ (Burst - tokens) * Interval \in Nat /\ Burst * Interval \in Nat
      /\ (Burst - tokens) * Interval <= Burst * Interval
  BY <1>2, Z3T(30)
<1> QED
  BY <1>1, <1>3, <1>4 DEF RL!Debt, RL!DebtOf, RL!Cost

LEMMA LimiterCalls ==
  ASSUME RL!TypeOK, NEW c \in Callers
  PROVE  /\ RL!Acquire(c) => /\ pc[c] \in RL!Returned
                             /\ pc' = [pc EXCEPT ![c] = "attempt"]
         /\ RL!TakeToken(c) => /\ pc[c] = "attempt"
                               /\ pc' = [pc EXCEPT ![c] = "granted"]
         /\ RL!RefuseByQuota(c) \/ RL!FindEmpty(c) \/ RL!ReadWait(c)
               \/ RL!Deciding(c) \/ RL!Sleeping(c)
              => \E p \in {"refused", "locked", "deciding", "decided", "asleep", "attempt"} :
                    /\ pc[c] \in RL!InCall
                    /\ pc' = [pc EXCEPT ![c] = p]
<1>1. RL!Acquire(c) => /\ pc[c] \in RL!Returned
                       /\ pc' = [pc EXCEPT ![c] = "attempt"]
  BY DEF RL!Acquire, RL!AcquireFor, RL!Begin
<1>2. RL!TakeToken(c) => /\ pc[c] = "attempt"
                         /\ pc' = [pc EXCEPT ![c] = "granted"]
  BY DEF RL!TakeToken, RL!Return
<1>3. RL!RefuseByQuota(c) => pc[c] = "attempt" /\ pc' = [pc EXCEPT ![c] = "refused"]
  BY DEF RL!RefuseByQuota, RL!EnterLock, RL!Return
<1>4. RL!FindEmpty(c) => pc[c] = "attempt" /\ pc' = [pc EXCEPT ![c] = "locked"]
  BY DEF RL!FindEmpty, RL!EnterLock
<1>5. RL!ReadWait(c) =>
        /\ pc[c] = "locked"
        /\ \/ pc' = [pc EXCEPT ![c] = "refused"]
           \/ pc' = [pc EXCEPT ![c] = "deciding"]
  BY DEF RL!ReadWait, RL!Return
<1>6. RL!Deciding(c) =>
        /\ pc[c] = "deciding"
        /\ \/ pc' = [pc EXCEPT ![c] = "refused"]
           \/ pc' = [pc EXCEPT ![c] = "decided"]
  BY DEF RL!Deciding, RL!GiveUp, RL!KeepWaiting, RL!Return
<1>7. RL!Sleeping(c) =>
        \/ pc[c] = "decided" /\ pc' = [pc EXCEPT ![c] = "asleep"]
        \/ pc[c] = "asleep" /\ pc' = [pc EXCEPT ![c] = "attempt"]
  BY DEF RL!Sleeping, RL!StartSleep, RL!Wake
<1> QED
  BY <1>1, <1>2, <1>3, <1>4, <1>5, <1>6, <1>7, Zenon DEF RL!InCall

LEMMA LimiterUntouched == UNCHANGED limiterVars => UNCHANGED RL!vars /\ RL!Debt' = RL!Debt
BY DEF limiterVars, RL!vars, RL!bucket, RL!quota, RL!calls, RL!history, RL!Debt,
       RL!DebtOf

(***************************************************************************)
(* Retries, replies and refusals leave the limiter alone: what the threads *)
(* of a client do to it is what its specification allows, so that every    *)
(* theorem about the limiter holds inside the client.                      *)
(***************************************************************************)
THEOREM LimiterIsUsedAsSpecified == Spec => RL!Spec
<1>1. Init => RL!Init
  BY DEF Init
<1>2. [Next]_vars => [RL!Next]_(RL!vars)
  <2> SUFFICES ASSUME [Next]_vars PROVE [RL!Next]_(RL!vars)
    OBVIOUS
  <2>1. CASE Tick
    BY <2>1 DEF Tick, RL!Next
  <2>2. ASSUME NEW c \in Callers, AskLimiter(c) PROVE RL!Next
    BY <2>2 DEF AskLimiter, RL!Next, RL!Call
  <2>3. ASSUME NEW c \in Callers, LimiterStep(c) PROVE RL!Next
    BY <2>3 DEF LimiterStep, RL!Next
  <2>4. ASSUME NEW c \in Callers, Fetch(c) \/ Operate(c) \/ Resume(c)
        PROVE  UNCHANGED RL!vars
    BY <2>4, LimiterUntouched
    DEF Fetch, Operate, LimiterGrants, LimiterRefuses, Send, Reply, Resume
  <2>5. CASE UNCHANGED vars
    BY <2>5, LimiterUntouched DEF vars
  <2> QED
    BY <2>1, <2>2, <2>3, <2>4, <2>5 DEF Next
<1> QED
  BY <1>1, <1>2, PTL DEF Spec, RL!Spec

LEMMA LimiterTypeCorrect == Spec => []RL!TypeOK
<1>1. RL!Init => RLP!Init
  BY SameState
<1>2. [RL!Next]_(RL!vars) => [RLP!Next]_(RLP!vars)
  <2>1. UNCHANGED RL!vars => UNCHANGED RLP!vars
    BY DEF RLP!vars, RL!vars, RLP!bucket, RL!bucket, RLP!quota, RL!quota, RLP!calls,
       RL!calls, RLP!history, RL!history
  <2>2. RL!WallClock <=> RLP!WallClock
    BY DEF RL!WallClock, RLP!WallClock, RLP!bucket, RL!bucket, RLP!quota, RL!quota,
       RLP!calls, RL!calls
  <2>3. \A c \in Callers : ~RL!Reset(c) /\ (RL!Locking(c) <=> RLP!Locking(c))
    BY SameActions DEF RL!Reset, RL!Locking, RLP!Locking
  <2> QED
    BY <2>1, <2>2, <2>3, SameActions DEF RL!Next, RLP!Next
<1>3. RLP!Spec => []RLP!TypeOK
  BY RLP!TypeCorrect, LimiterConfigured, PTL
<1>4. RLP!TypeOK => RL!TypeOK
  BY SameState
<1> QED
  BY <1>1, <1>2, <1>3, <1>4, LimiterIsUsedAsSpecified, PTL DEF RL!Spec, RLP!Spec

-----------------------------------------------------------------------------
(* The inductive invariant. *)

OpTypeOK ==
    /\ op \in [Callers -> {"none", "acquiring", "sending", "awaiting"}]
    /\ sent \in [Callers -> 0 .. Attempts]
    /\ wire \in [0 .. WireWindow -> Nat]

(* Where a call is in its operation: only a thread that asks the limiter is *)
(* inside it, and every answer but a refusal was sent for. *)
OperationInOrder(c) ==
    /\ op[c] # "none" => phase[c] = "operating"
    /\ pc[c] \in RL!InCall => op[c] = "acquiring"
    /\ phase[c] = "operating" =>
          sent[c] = IF op[c] = "awaiting" THEN tries[c] + 1 ELSE tries[c]
    /\ phase[c] \in {"idle", "sleeping"} => sent[c] = tries[c]
    /\ phase[c] = "done" =>
          sent[c] = IF last[c] = LimiterRefused THEN tries[c] - 1 ELSE tries[c]
    /\ tries[c] > 0 => last[c] \in Answers \cup {LimiterRefused}

OperationsInOrder == \A c \in Callers : OperationInOrder(c)

(* The threads that have a token and have not sent their GET. *)
Holding ==
    {c \in Callers : op[c] = "sending" \/ (op[c] = "acquiring" /\ pc[c] = "granted")}

(* A GET on the wire, or about to be, is still owed by the limiter, but for *)
(* what the ticks since paid and for one token that each thread may have    *)
(* held from before. *)
WireOwed ==
    \A a \in 0 .. WireWindow :
      (wire[a] + Cardinality(Holding)) * Interval
        <= RL!Debt + a + Cardinality(Callers) * Interval

FetchInv == RetryInv /\ OpTypeOK /\ OperationsInOrder /\ WireOwed

-----------------------------------------------------------------------------
(* The loop's part of the invariant. *)

LEMMA RefusalIsNoAnswer ==
  /\ IsAnswer(LimiterRefused) /\ LimiterRefused \notin Answers
  /\ ~ShouldRetry(LimiterRefused)
BY AnswersAssumption DEF LimiterRefused, Failure, IsAnswer, ShouldRetry

LEMMA AnsweredEffect ==
  ASSUME RetryInv, NEW c \in Callers, NEW answer, Answered(c, answer)
  PROVE  /\ phase[c] = "operating" /\ tries[c] \in 0 .. Attempts - 1
         /\ phase'[c] \in {"sleeping", "done"}
         /\ phase'[c] = "sleeping" => ShouldRetry(answer)
         /\ tries'[c] = tries[c] + 1
         /\ last'[c] = answer
         /\ \A u \in Callers \ {c} :
               phase'[u] = phase[u] /\ tries'[u] = tries[u] /\ last'[u] = last[u]
<1>1. /\ phase[c] = "operating" /\ attempt[c] = tries[c] + 1
      /\ tries[c] \in Nat /\ attempt[c] \in 0 .. Attempts /\ Attempts \in Nat
  BY PolicyType DEF RetryInv, RetryTypeOK, CallsInOrder, CallInOrder, Answered
<1>2. Least(tries[c] + 1, Attempts + 1) = tries[c] + 1
  BY <1>1 DEF Least
<1>3. tries' = [tries EXCEPT ![c] = tries[c] + 1]
  BY <1>2 DEF Answered
<1>4. /\ last'[c] = answer
      /\ \A u \in Callers \ {c} : last'[u] = last[u]
  BY DEF Answered, RetryInv, AnswersKept
<1>5. \/ phase' = [phase EXCEPT ![c] = "done"]
      \/ phase' = [phase EXCEPT ![c] = "sleeping"] /\ ShouldRetry(answer)
  BY DEF Answered, Conclusive
<1>6. tries'[c] = tries[c] + 1 /\ \A u \in Callers \ {c} : tries'[u] = tries[u]
  BY <1>3 DEF RetryInv, RetryTypeOK
<1>7. /\ phase'[c] \in {"sleeping", "done"}
      /\ phase'[c] = "sleeping" => ShouldRetry(answer)
      /\ \A u \in Callers \ {c} : phase'[u] = phase[u]
  BY <1>5 DEF RetryInv, RetryTypeOK
<1> QED
  BY <1>1, <1>4, <1>6, <1>7

LEMMA FetchRetryStep == RetryInv /\ [Next]_vars => RetryInv'
<1> SUFFICES ASSUME RetryInv, [Next]_vars PROVE RetryInv'
  OBVIOUS
<1>1. CASE Tick
  BY <1>1, RetryTickStep DEF Tick
<1>2. ASSUME NEW c \in Callers, Fetch(c) PROVE RetryInv'
  BY <1>2, StartCallStep DEF Fetch
<1>3. ASSUME NEW c \in Callers, Resume(c) PROVE RetryInv'
  BY <1>3, NextAttemptStep DEF Resume
<1>4. ASSUME NEW c \in Callers, LimiterRefuses(c) PROVE RetryInv'
  BY <1>4, AnsweredStep, RefusalIsNoAnswer DEF LimiterRefuses
<1>5. ASSUME NEW c \in Callers, Reply(c) PROVE RetryInv'
  BY <1>5, AnsweredStep, AnswersAssumption DEF Reply
<1>6. ASSUME NEW c \in Callers,
             AskLimiter(c) \/ LimiterStep(c) \/ LimiterGrants(c) \/ Send(c)
      PROVE  RetryInv'
  BY <1>6, RetryUnchanged DEF AskLimiter, LimiterStep, LimiterGrants, Send
<1>7. CASE UNCHANGED vars
  BY <1>7, RetryUnchanged DEF vars
<1> QED
  BY <1>1, <1>2, <1>3, <1>4, <1>5, <1>6, <1>7 DEF Next, Operate

-----------------------------------------------------------------------------
(* The operation's part. *)

OpInv == OpTypeOK /\ OperationsInOrder

(* A step that leaves a caller alone leaves its operation in order. *)
LEMMA OthersInOrder ==
  ASSUME NEW u \in Callers, OperationInOrder(u),
         phase'[u] = phase[u], tries'[u] = tries[u], last'[u] = last[u],
         op'[u] = op[u], sent'[u] = sent[u], pc'[u] = pc[u]
  PROVE  OperationInOrder(u)'
BY DEF OperationInOrder

LEMMA FetchOp ==
  ASSUME RetryInv, OpInv, NEW c \in Callers, Fetch(c)
  PROVE  OpInv'
<1>1. OpTypeOK'
  BY PolicyType DEF OpInv, OpTypeOK, Fetch
<1>2. ASSUME NEW u \in Callers PROVE OperationInOrder(u)'
  <2>1. CASE u = c
    <3>1. op[c] = "none"
      BY DEF OpInv, OperationsInOrder, OperationInOrder, Fetch, StartCall
    <3>2. /\ phase'[c] = "operating" /\ tries'[c] = 0 /\ sent'[c] = 0
          /\ op'[c] = op[c] /\ pc'[c] = pc[c]
      BY DEF Fetch, StartCall, limiterVars, RetryInv, RetryTypeOK, OpInv, OpTypeOK
    <3> QED
      BY <2>1, <3>1, <3>2 DEF OpInv, OperationsInOrder, OperationInOrder
  <2>2. CASE u # c
    BY <2>2, OthersInOrder
    DEF Fetch, StartCall, limiterVars, RetryInv, RetryTypeOK, AnswersKept, OpInv,
        OpTypeOK, OperationsInOrder
  <2> QED
    BY <2>1, <2>2
<1> QED
  BY <1>1, <1>2 DEF OpInv, OperationsInOrder

LEMMA ResumeOp ==
  ASSUME RetryInv, OpInv, NEW c \in Callers, Resume(c)
  PROVE  OpInv'
<1>1. OpTypeOK'
  BY DEF OpInv, OpTypeOK, Resume
<1>2. ASSUME NEW u \in Callers PROVE OperationInOrder(u)'
  <2>1. CASE u = c
    <3>1. /\ phase[c] = "sleeping" /\ phase'[c] = "operating"
          /\ tries' = tries /\ last' = last /\ sent' = sent /\ op' = op /\ pc' = pc
      BY DEF Resume, NextAttempt, limiterVars, RetryInv, RetryTypeOK
    <3> QED
      BY <2>1, <3>1 DEF OpInv, OperationsInOrder, OperationInOrder
  <2>2. CASE u # c
    BY <2>2, OthersInOrder
    DEF Resume, NextAttempt, limiterVars, RetryInv, RetryTypeOK, OpInv, OperationsInOrder
  <2> QED
    BY <2>1, <2>2
<1> QED
  BY <1>1, <1>2 DEF OpInv, OperationsInOrder

LEMMA AskLimiterOp ==
  ASSUME RL!TypeOK, OpInv, NEW c \in Callers, AskLimiter(c)
  PROVE  OpInv'
<1>1. OpTypeOK'
  BY DEF OpInv, OpTypeOK, AskLimiter
<1>2. pc' = [pc EXCEPT ![c] = "attempt"]
  BY LimiterCalls DEF AskLimiter
<1>3. ASSUME NEW u \in Callers PROVE OperationInOrder(u)'
  <2>1. CASE u = c
    <3>1. /\ phase[c] = "operating" /\ op[c] = "none" /\ op'[c] = "acquiring"
          /\ phase' = phase /\ tries' = tries /\ last' = last /\ sent' = sent
      BY DEF AskLimiter, retryVars, OpInv, OpTypeOK
    <3> QED
      BY <2>1, <3>1 DEF OpInv, OperationsInOrder, OperationInOrder
  <2>2. CASE u # c
    BY <1>2, <2>2, OthersInOrder
    DEF AskLimiter, retryVars, RL!TypeOK, OpInv, OpTypeOK, OperationsInOrder
  <2> QED
    BY <2>1, <2>2
<1> QED
  BY <1>1, <1>3 DEF OpInv, OperationsInOrder

LEMMA LimiterStepOp ==
  ASSUME RL!TypeOK, OpInv, NEW c \in Callers, LimiterStep(c)
  PROVE  OpInv'
<1>1. /\ op' = op /\ sent' = sent /\ wire' = wire
      /\ phase' = phase /\ tries' = tries /\ last' = last
  BY DEF LimiterStep, retryVars
<1>2. PICK p : pc[c] \in RL!InCall /\ pc' = [pc EXCEPT ![c] = p]
  BY LimiterStepKinds, LimiterCalls DEF RL!InCall
<1>3. ASSUME NEW u \in Callers PROVE OperationInOrder(u)'
  <2>1. CASE u = c
    BY <1>1, <1>2, <2>1 DEF OpInv, OperationsInOrder, OperationInOrder
  <2>2. CASE u # c
    BY <1>1, <1>2, <2>2, OthersInOrder DEF RL!TypeOK, OpInv, OperationsInOrder
  <2> QED
    BY <2>1, <2>2
<1> QED
  BY <1>1, <1>3 DEF OpInv, OpTypeOK, OperationsInOrder

LEMMA LimiterGrantsOp ==
  ASSUME RL!TypeOK, OpInv, NEW c \in Callers, LimiterGrants(c)
  PROVE  OpInv'
<1>1. OpTypeOK'
  BY DEF OpInv, OpTypeOK, LimiterGrants
<1>2. ASSUME NEW u \in Callers PROVE OperationInOrder(u)'
  <2>1. CASE u = c
    <3>1. /\ op[c] = "acquiring" /\ op'[c] = "sending" /\ pc[c] = "granted"
          /\ pc' = pc /\ phase' = phase /\ tries' = tries /\ last' = last /\ sent' = sent
      BY DEF LimiterGrants, retryVars, limiterVars, OpInv, OpTypeOK
    <3> QED
      BY <2>1, <3>1 DEF OpInv, OperationsInOrder, OperationInOrder, RL!InCall
  <2>2. CASE u # c
    BY <2>2, OthersInOrder
    DEF LimiterGrants, retryVars, limiterVars, OpInv, OpTypeOK, OperationsInOrder
  <2> QED
    BY <2>1, <2>2
<1> QED
  BY <1>1, <1>2 DEF OpInv, OperationsInOrder

LEMMA SendOp ==
  ASSUME RetryInv, OpInv, NEW c \in Callers, Send(c)
  PROVE  /\ OpInv'
         /\ wire' = [a \in 0 .. WireWindow |-> wire[a] + 1]
<1>1. /\ op[c] = "sending" /\ phase[c] = "operating" /\ sent[c] = tries[c]
      /\ pc[c] \notin RL!InCall
  BY DEF Send, OpInv, OperationsInOrder, OperationInOrder
<1>2. /\ tries[c] \in Nat /\ tries[c] + 1 \in 0 .. Attempts
      /\ Attempts \in Nat
  BY <1>1, PolicyType DEF RetryInv, RetryTypeOK, CallsInOrder, CallInOrder
<1>3. /\ sent' = [sent EXCEPT ![c] = tries[c] + 1]
      /\ op' = [op EXCEPT ![c] = "awaiting"]
      /\ pc' = pc /\ phase' = phase /\ tries' = tries /\ last' = last
  <2>1. Least(sent[c] + 1, Attempts + 1) = tries[c] + 1
    BY <1>1, <1>2 DEF Least
  <2> QED
    BY <2>1 DEF Send, retryVars, limiterVars
<1>4. wire' = [a \in 0 .. WireWindow |-> wire[a] + 1]
  BY DEF Send
<1>5. OpTypeOK'
  BY <1>2, <1>3, <1>4 DEF OpInv, OpTypeOK
<1>6. ASSUME NEW u \in Callers PROVE OperationInOrder(u)'
  <2>1. CASE u = c
    BY <1>1, <1>3, <2>1 DEF OpInv, OpTypeOK, OperationsInOrder, OperationInOrder
  <2>2. CASE u # c
    BY <1>3, <2>2, OthersInOrder DEF OpInv, OpTypeOK, OperationsInOrder
  <2> QED
    BY <2>1, <2>2
<1> QED
  BY <1>4, <1>5, <1>6 DEF OpInv, OperationsInOrder

(* An answer ends the operation: a refusal was not sent, a reply was. *)
LEMMA AnsweredOp ==
  ASSUME RetryInv, OpInv, NEW c \in Callers,
         NEW answer \in Answers \cup {LimiterRefused}, Answered(c, answer),
         op[c] = IF answer = LimiterRefused THEN "acquiring" ELSE "awaiting",
         op' = [op EXCEPT ![c] = "none"], pc[c] \in {"granted", "refused", "idle"},
         UNCHANGED <<limiterVars, sent, wire>>
  PROVE  OpInv'
<1>1. pc' = pc /\ sent' = sent /\ wire' = wire
  BY DEF limiterVars
<1>2. OpTypeOK'
  BY <1>1 DEF OpInv, OpTypeOK
<1>3. /\ phase[c] = "operating" /\ tries[c] \in Nat
      /\ phase'[c] \in {"sleeping", "done"}
      /\ phase'[c] = "sleeping" => ShouldRetry(answer)
      /\ tries'[c] = tries[c] + 1
      /\ last'[c] = answer
      /\ op'[c] = "none"
  BY AnsweredEffect DEF OpInv, OpTypeOK
<1>4. sent[c] = IF op[c] = "awaiting" THEN tries[c] + 1 ELSE tries[c]
  BY <1>3 DEF OpInv, OperationsInOrder, OperationInOrder
<1>5. ASSUME NEW u \in Callers PROVE OperationInOrder(u)'
  <2>1. CASE u = c
    <3>1. pc[c] \notin RL!InCall
      BY DEF RL!InCall
    <3>2. CASE answer = LimiterRefused
      <4>1. phase'[c] = "done"
        BY <1>3, <3>2, RefusalIsNoAnswer
      <4> QED
        BY <1>1, <1>3, <1>4, <2>1, <3>1, <3>2, <4>1 DEF OperationInOrder
    <3>3. CASE answer # LimiterRefused
      BY <1>1, <1>3, <1>4, <2>1, <3>1, <3>3 DEF OperationInOrder
    <3> QED
      BY <3>2, <3>3
  <2>2. CASE u # c
    BY <1>1, <2>2, AnsweredEffect, OthersInOrder DEF OpInv, OpTypeOK, OperationsInOrder
  <2> QED
    BY <2>1, <2>2
<1> QED
  BY <1>2, <1>5 DEF OpInv, OperationsInOrder

LEMMA FetchOpStep == RetryInv /\ RL!TypeOK /\ OpInv /\ [Next]_vars => OpInv'
<1> SUFFICES ASSUME RetryInv, RL!TypeOK, OpInv, [Next]_vars PROVE OpInv'
  OBVIOUS
<1>1. CASE Tick
  <2>1. /\ pc' = pc /\ op' = op /\ sent' = sent
        /\ phase' = phase /\ tries' = tries /\ last' = last
    BY <1>1 DEF Tick, RetryTick, RL!Tick
  <2>2. wire' \in [0 .. WireWindow -> Nat]
    BY <1>1, ArchiveAssumption DEF Tick, OpInv, OpTypeOK
  <2> QED
    BY <2>1, <2>2 DEF OpInv, OpTypeOK, OperationsInOrder, OperationInOrder
<1>2. ASSUME NEW c \in Callers, Fetch(c) \/ AskLimiter(c) \/ LimiterStep(c) \/ Resume(c)
      PROVE  OpInv'
  BY <1>2, FetchOp, AskLimiterOp, LimiterStepOp, ResumeOp
<1>3. ASSUME NEW c \in Callers, LimiterGrants(c) \/ Send(c) PROVE OpInv'
  BY <1>3, LimiterGrantsOp, SendOp
<1>4. ASSUME NEW c \in Callers, LimiterRefuses(c) PROVE OpInv'
  <2>1. /\ Answered(c, LimiterRefused) /\ op[c] = "acquiring" /\ pc[c] = "refused"
        /\ op' = [op EXCEPT ![c] = "none"] /\ UNCHANGED <<limiterVars, sent, wire>>
    BY <1>4 DEF LimiterRefuses
  <2> QED
    BY <2>1, AnsweredOp
<1>5. ASSUME NEW c \in Callers, Reply(c) PROVE OpInv'
  <2>1. PICK a \in Answers : Answered(c, a)
    BY <1>5 DEF Reply
  <2>2. /\ op[c] = "awaiting"
        /\ op' = [op EXCEPT ![c] = "none"] /\ UNCHANGED <<limiterVars, sent, wire>>
    BY <1>5 DEF Reply
  <2>3. pc[c] \in {"granted", "refused", "idle"}
    BY <2>2 DEF RL!TypeOK, RL!Returned, OpInv, OperationsInOrder, OperationInOrder
  <2> QED
    BY <2>1, <2>2, <2>3, RefusalIsNoAnswer, AnsweredOp
<1>6. CASE UNCHANGED vars
  BY <1>6
  DEF vars, retryVars, limiterVars, OpInv, OpTypeOK, OperationsInOrder, OperationInOrder
<1> QED
  BY <1>1, <1>2, <1>3, <1>4, <1>5, <1>6 DEF Next, Operate

-----------------------------------------------------------------------------
(* The wire's part. *)

LEMMA Times ==
  ASSUME NEW n \in Nat
  PROVE  /\ n * Interval \in Nat
         /\ (n + 1) * Interval = n * Interval + Interval
         /\ \A m \in 0 .. n : m * Interval <= n * Interval
<1>1. Interval \in Nat
  BY ArchiveAssumption
<1>2. n * Interval \in Nat
  BY <1>1, Z3T(30)
<1>3. (n + 1) * Interval = n * Interval + Interval
  BY <1>1, Z3T(30)
<1>4. \A m \in 0 .. n : m * Interval <= n * Interval
  BY <1>1, Z3T(30)
<1> QED
  BY <1>2, <1>3, <1>4

LEMMA HoldingType ==
  /\ IsFiniteSet(Holding)
  /\ Cardinality(Holding) \in Nat /\ Cardinality(Callers) \in Nat
  /\ Cardinality(Holding) <= Cardinality(Callers)
<1>1. IsFiniteSet(Callers) /\ Holding \subseteq Callers
  BY ArchiveAssumption DEF Holding
<1> QED
  BY <1>1, FS_Subset, FS_CardinalityType

(* Every step but a grant, a GET and a tick leaves the wire, the threads    *)
(* with a token and the debt as they are. *)
WireKept == wire' = wire /\ Holding' = Holding /\ RL!Debt' = RL!Debt

LEMMA WireStutters == WireOwed /\ WireKept => WireOwed'
BY DEF WireOwed, WireKept

LEMMA WireKeptBy ==
  ASSUME RL!TypeOK, OpInv, NEW c \in Callers,
         \/ Fetch(c) \/ Resume(c) \/ AskLimiter(c) \/ LimiterGrants(c)
         \/ LimiterRefuses(c) \/ Reply(c)
         \/ LimiterStep(c) /\ ~RL!TakeToken(c)
  PROVE  WireKept
<1>1. CASE Fetch(c) \/ Resume(c)
  <2>1. op' = op /\ UNCHANGED limiterVars /\ wire' = wire
    BY <1>1 DEF Fetch, Resume
  <2>2. pc' = pc /\ RL!Debt' = RL!Debt
    BY <2>1, LimiterUntouched DEF limiterVars
  <2> QED
    BY <2>1, <2>2 DEF WireKept, Holding
<1>2. CASE AskLimiter(c)
  <2>1. /\ op[c] = "none" /\ op' = [op EXCEPT ![c] = "acquiring"]
        /\ pc' = [pc EXCEPT ![c] = "attempt"]
        /\ wire' = wire /\ RL!Debt' = RL!Debt
    BY <1>2, LimiterCalls, OtherStepsAreFree DEF AskLimiter
  <2>2. Holding' = Holding
    BY <2>1 DEF Holding, OpInv, OpTypeOK, RL!TypeOK
  <2> QED
    BY <2>1, <2>2 DEF WireKept
<1>3. CASE LimiterGrants(c)
  <2>1. /\ op[c] = "acquiring" /\ pc[c] = "granted" /\ op' = [op EXCEPT ![c] = "sending"]
        /\ wire' = wire /\ pc' = pc /\ RL!Debt' = RL!Debt
    BY <1>3, LimiterUntouched DEF LimiterGrants, limiterVars
  <2>2. Holding' = Holding
    BY <2>1 DEF Holding, OpInv, OpTypeOK
  <2> QED
    BY <2>1, <2>2 DEF WireKept
<1>4. CASE LimiterRefuses(c)
  <2>1. /\ op[c] = "acquiring" /\ pc[c] = "refused" /\ op' = [op EXCEPT ![c] = "none"]
        /\ wire' = wire /\ pc' = pc /\ RL!Debt' = RL!Debt
    BY <1>4, LimiterUntouched DEF LimiterRefuses, limiterVars
  <2>2. Holding' = Holding
    BY <2>1 DEF Holding, OpInv, OpTypeOK
  <2> QED
    BY <2>1, <2>2 DEF WireKept
<1>5. CASE Reply(c)
  <2>1. /\ op[c] = "awaiting" /\ op' = [op EXCEPT ![c] = "none"]
        /\ wire' = wire /\ pc' = pc /\ RL!Debt' = RL!Debt
    BY <1>5, LimiterUntouched DEF Reply, limiterVars
  <2>2. Holding' = Holding
    BY <2>1 DEF Holding, OpInv, OpTypeOK
  <2> QED
    BY <2>1, <2>2 DEF WireKept
<1>6. CASE LimiterStep(c) /\ ~RL!TakeToken(c)
  <2>1. op' = op /\ wire' = wire
    BY <1>6 DEF LimiterStep
  <2>2. RL!Debt' = RL!Debt
    BY <1>6, LimiterStepKinds, OtherStepsAreFree
  <2>3. PICK p \in {"refused", "locked", "deciding", "decided", "asleep", "attempt"} :
          pc[c] \in RL!InCall /\ pc' = [pc EXCEPT ![c] = p]
    BY <1>6, LimiterStepKinds, LimiterCalls
  <2>4. pc[c] # "granted" /\ op[c] = "acquiring"
    BY <2>3 DEF RL!InCall, OpInv, OperationsInOrder, OperationInOrder
  <2>5. Holding' = Holding
    BY <2>1, <2>3, <2>4 DEF Holding, RL!TypeOK
  <2> QED
    BY <2>1, <2>2, <2>5 DEF WireKept
<1> QED
  BY <1>1, <1>2, <1>3, <1>4, <1>5, <1>6

(* A grant: one more thread has a token, and the limiter is owed for it.    *)
LEMMA GrantOnWire ==
  ASSUME RL!TypeOK, OpInv, WireOwed, NEW c \in Callers, LimiterStep(c), RL!TakeToken(c)
  PROVE  WireOwed'
<1>1. /\ op' = op /\ wire' = wire /\ pc[c] = "attempt"
      /\ pc' = [pc EXCEPT ![c] = "granted"]
      /\ RL!Debt' = RL!Debt + Interval
  BY LimiterCalls, GrantCosts, DebtIsBounded DEF LimiterStep
<1>2. op[c] = "acquiring"
  BY <1>1 DEF RL!InCall, OpInv, OperationsInOrder, OperationInOrder
<1>3. c \notin Holding /\ Holding' = Holding \cup {c}
  BY <1>1, <1>2 DEF Holding, RL!TypeOK
<1>4. Cardinality(Holding') = Cardinality(Holding) + 1
  BY <1>3, HoldingType, FS_AddElement
<1>5. ASSUME NEW a \in 0 .. WireWindow
      PROVE  (wire'[a] + Cardinality(Holding')) * Interval
               <= RL!Debt' + a + Cardinality(Callers) * Interval
  <2> DEFINE n == wire[a] + Cardinality(Holding)
             k == Cardinality(Callers) * Interval
  <2>1. n \in Nat /\ wire'[a] + Cardinality(Holding') = n + 1
    <3>1. wire[a] \in Nat /\ wire'[a] = wire[a] /\ Cardinality(Holding) \in Nat
      BY <1>1, HoldingType DEF OpInv, OpTypeOK
    <3> QED
      BY <1>4, <3>1
  <2>2. RL!Debt \in Int /\ a \in Int /\ Interval \in Int
    BY DebtIsBounded, ArchiveAssumption
  <2>3. k \in Int
    BY HoldingType, Times
  <2>4. n * Interval <= RL!Debt + a + k
    BY DEF WireOwed
  <2> HIDE DEF n, k
  <2>5. n * Interval \in Int /\ (n + 1) * Interval = n * Interval + Interval
    BY <2>1, Times
  <2>6. (n + 1) * Interval <= RL!Debt' + a + k
    BY <1>1, <2>2, <2>3, <2>4, <2>5
  <2> QED
    BY <2>1, <2>6 DEF k
<1> QED
  BY <1>5 DEF WireOwed

(* A GET: a token in hand becomes a GET on the wire. *)
LEMMA SendOnWire ==
  ASSUME RetryInv, OpInv, WireOwed, NEW c \in Callers, Send(c)
  PROVE  WireOwed'
<1>1. /\ op[c] = "sending" /\ op' = [op EXCEPT ![c] = "awaiting"] /\ pc' = pc
      /\ RL!Debt' = RL!Debt
      /\ wire' = [a \in 0 .. WireWindow |-> wire[a] + 1]
  BY LimiterUntouched DEF Send, limiterVars
<1>2. c \in Holding /\ Holding' = Holding \ {c}
  BY <1>1 DEF Holding, OpInv, OpTypeOK
<1>3. Cardinality(Holding') = Cardinality(Holding) - 1
  BY <1>2, HoldingType, FS_RemoveElement
<1>4. ASSUME NEW a \in 0 .. WireWindow
      PROVE  wire'[a] + Cardinality(Holding') = wire[a] + Cardinality(Holding)
  BY <1>1, <1>3, HoldingType DEF OpInv, OpTypeOK
<1> QED
  BY <1>1, <1>4 DEF WireOwed

(* A tick: what was sent a ticks ago was sent one tick less ago. *)
LEMMA TickOnWire ==
  ASSUME RL!TypeOK, OpInv, WireOwed, Tick
  PROVE  WireOwed'
<1>1. /\ wire' = [a \in 0 .. WireWindow |-> IF a = 0 THEN 0 ELSE wire[a - 1]]
      /\ Holding' = Holding
  BY DEF Tick, RL!Tick, Holding
<1>2. /\ RL!Debt' = IF RL!Debt > 0 THEN RL!Debt - 1 ELSE 0
      /\ RL!Debt \in Nat
  <2>1. RL!Cost(Burst) \in Nat
    BY Times, ArchiveAssumption, DebtIsBounded DEF RL!Cost
  <2> QED
    BY <2>1, TimePays, DebtIsBounded DEF Tick
<1> DEFINE k == Cardinality(Callers) * Interval
<1>3. /\ k \in Nat
      /\ Cardinality(Holding) \in Nat /\ Cardinality(Holding) * Interval \in Nat
      /\ Cardinality(Holding) * Interval <= k
  BY HoldingType, Times
<1>4. ASSUME NEW a \in 0 .. WireWindow
      PROVE  (wire'[a] + Cardinality(Holding')) * Interval <= RL!Debt' + a + k
  <2>1. CASE a = 0
    <3>1. wire'[a] + Cardinality(Holding') = Cardinality(Holding)
      BY <1>1, <1>3, <2>1
    <3> HIDE DEF k
    <3> QED
      BY <1>2, <1>3, <2>1, <3>1
  <2>2. CASE a # 0
    <3>1. a - 1 \in 0 .. WireWindow
      BY <2>2, ArchiveAssumption
    <3>2. wire'[a] + Cardinality(Holding') = wire[a - 1] + Cardinality(Holding)
      BY <1>1, <2>2
    <3>3. wire[a - 1] + Cardinality(Holding) \in Nat
      BY <1>3, <3>1 DEF OpInv, OpTypeOK
    <3>4. (wire[a - 1] + Cardinality(Holding)) * Interval \in Nat
      BY <3>3, Times
    <3>5. (wire[a - 1] + Cardinality(Holding)) * Interval <= RL!Debt + (a - 1) + k
      BY <3>1 DEF WireOwed
    <3> HIDE DEF k
    <3>6. (wire[a - 1] + Cardinality(Holding)) * Interval <= RL!Debt' + a + k
      BY <1>2, <1>3, <3>1, <3>4, <3>5
    <3> QED
      BY <3>2, <3>6
  <2> QED
    BY <2>1, <2>2
<1> QED
  BY <1>4 DEF WireOwed

LEMMA WireStep == RetryInv /\ RL!TypeOK /\ OpInv /\ WireOwed /\ [Next]_vars => WireOwed'
<1> SUFFICES ASSUME RetryInv, RL!TypeOK, OpInv, WireOwed, [Next]_vars PROVE WireOwed'
  OBVIOUS
<1>1. CASE Tick
  BY <1>1, TickOnWire
<1>2. ASSUME NEW c \in Callers,
             Fetch(c) \/ Resume(c) \/ AskLimiter(c) \/ LimiterGrants(c)
               \/ LimiterRefuses(c) \/ Reply(c)
      PROVE  WireOwed'
  BY <1>2, WireKeptBy, WireStutters
<1>3. ASSUME NEW c \in Callers, LimiterStep(c) PROVE WireOwed'
  BY <1>3, WireKeptBy, WireStutters, GrantOnWire
<1>4. ASSUME NEW c \in Callers, Send(c) PROVE WireOwed'
  BY <1>4, SendOnWire
<1>5. CASE UNCHANGED vars
  <2>1. op' = op /\ pc' = pc /\ wire' = wire /\ RL!Debt' = RL!Debt
    BY <1>5, LimiterUntouched DEF vars, limiterVars
  <2> QED
    BY <2>1, WireStutters DEF WireKept, Holding
<1> QED
  BY <1>1, <1>2, <1>3, <1>4, <1>5 DEF Next, Operate

-----------------------------------------------------------------------------
(***************************************************************************)
(* The inductive invariant: where each call is in its loop and in its      *)
(* operation, and that every GET of a window is still owed by the limiter. *)
(***************************************************************************)
THEOREM FetchInvariant == Spec => []FetchInv
<1>1. Init => RetryInv
  BY RetryInitially DEF Init
<1>2. Init => OpInv
  BY PolicyType, ArchiveAssumption
  DEF Init, RetryInit, RL!Init, OpInv, OpTypeOK, OperationsInOrder, OperationInOrder,
      RL!InCall
<1>3. Init => WireOwed
  <2> SUFFICES ASSUME Init, NEW a \in 0 .. WireWindow
               PROVE  (wire[a] + Cardinality(Holding)) * Interval
                        <= RL!Debt + a + Cardinality(Callers) * Interval
    BY DEF WireOwed
  <2>1. wire[a] = 0 /\ Holding = {}
    BY DEF Init, Holding
  <2>2. wire[a] + Cardinality(Holding) = 0
    BY <2>1, FS_EmptySet
  <2>3. 0 * Interval = 0 /\ Cardinality(Callers) * Interval \in Nat
    <3>1. Interval \in Nat
      BY ArchiveAssumption
    <3>2. 0 * Interval = 0
      BY <3>1, Z3T(30)
    <3> QED
      BY <3>2, HoldingType, Times
  <2>4. RL!Debt \in Nat
    <3>1. RLP!Init => RLP!TypeOK
      BY RLP!InitType, LimiterConfigured
    <3>2. RL!TypeOK
      BY <3>1, SameState DEF Init
    <3>3. RL!Cost(Burst) \in Nat
      BY <3>2, Times, ArchiveAssumption, DebtIsBounded DEF RL!Cost
    <3> QED
      BY <3>2, <3>3, DebtIsBounded
  <2> QED
    BY <2>2, <2>3, <2>4
<1> QED
  BY <1>1, <1>2, <1>3, FetchRetryStep, FetchOpStep, WireStep, LimiterTypeCorrect, PTL
  DEF Spec, FetchInv, OpInv

(***************************************************************************)
(* Type correctness of the whole client: no delay, attempt, token count or *)
(* history leaves its range.                                               *)
(***************************************************************************)
THEOREM FetchTypeCorrect == Spec => []FetchTypeOK
<1>1. RL!TypeOK /\ FetchInv => FetchTypeOK
  BY DEF FetchInv, RetryInv, OpTypeOK, FetchTypeOK
<1> QED
  BY <1>1, FetchInvariant, LimiterTypeCorrect, PTL

LEMMA WireFromOwed == RL!TypeOK /\ FetchInv => WireBound
<1> SUFFICES ASSUME RL!TypeOK, FetchInv, NEW a \in 0 .. WireWindow
             PROVE  RL!Cost(wire[a]) <= RL!Cost(Burst + Cardinality(Callers)) + a
  BY DEF WireBound
<1> DEFINE n == Cardinality(Callers)
           h == Cardinality(Holding)
<1>1. /\ n \in Nat /\ h \in Nat /\ wire[a] \in Nat
      /\ Interval \in Nat /\ Burst \in Nat /\ RL!RefillInterval = Interval
  BY HoldingType, ArchiveAssumption, DebtIsBounded DEF FetchInv, OpTypeOK
<1>2. (wire[a] + h) * Interval <= RL!Debt + a + n * Interval
  BY DEF FetchInv, WireOwed
<1>3. RL!Debt \in Int /\ RL!Debt <= Burst * Interval
  <2>1. Burst * Interval \in Nat
    BY <1>1, Times
  <2> QED
    BY <1>1, <2>1, DebtIsBounded DEF RL!Cost
<1> HIDE DEF n, h
<1>4. /\ wire[a] * Interval <= (wire[a] + h) * Interval
      /\ wire[a] * Interval \in Nat /\ (wire[a] + h) * Interval \in Nat
      /\ Burst * Interval \in Nat /\ n * Interval \in Nat
      /\ (Burst + n) * Interval = Burst * Interval + n * Interval
  <2>1. wire[a] * Interval <= (wire[a] + h) * Interval
    BY <1>1, Z3T(30)
  <2>2. (Burst + n) * Interval = Burst * Interval + n * Interval
    BY <1>1, Z3T(30)
  <2>3. wire[a] + h \in Nat
    BY <1>1
  <2> QED
    BY <1>1, <2>1, <2>2, <2>3, Times
<1>5. wire[a] * Interval <= (Burst + n) * Interval + a
  BY <1>2, <1>3, <1>4
<1> QED
  BY <1>1, <1>5 DEF RL!Cost, n

(***************************************************************************)
(* What IEM sees: in any a ticks no more GETs than the limiter's burst,    *)
(* one for each thread, and what a ticks earn, however many attempts the   *)
(* threads make and however long they are held up.                         *)
(***************************************************************************)
THEOREM WireIsBounded == Spec => []WireBound
BY WireFromOwed, FetchInvariant, LimiterTypeCorrect, PTL

(***************************************************************************)
(* One GET per attempt, but for the attempt that the limiter refused.      *)
(***************************************************************************)
THEOREM AttemptsAreSentOrRefused == Spec => []EveryAttemptIsSentOrRefused
<1>1. FetchInv => EveryAttemptIsSentOrRefused
  BY DEF FetchInv, OperationsInOrder, OperationInOrder, EveryAttemptIsSentOrRefused
<1> QED
  BY <1>1, FetchInvariant, PTL

LEMMA ErrorsFromInv ==
  ASSUME DefaultPolicy
  PROVE  FetchInv => ErrorsAsDocumented
<1> SUFFICES ASSUME FetchInv, NEW c \in Callers, phase[c] = "done"
             PROVE  /\ CodeOf(c) = "RateLimited" =>
                         last[c] = LimiterRefused \/ sent[c] = Attempts
                    /\ CodeOf(c) = "NetworkError" => sent[c] = Attempts
  BY DEF ErrorsAsDocumented
<1>1. /\ tries[c] > 0
      /\ tries[c] = Attempts \/ ~ShouldRetry(last[c])
      /\ sent[c] = IF last[c] = LimiterRefused THEN tries[c] - 1 ELSE tries[c]
      /\ last[c] \in Answers \cup {LimiterRefused}
  BY DEF FetchInv, RetryInv, CallsInOrder, CallInOrder, OperationsInOrder,
         OperationInOrder
<1>2. CASE last[c] = LimiterRefused
  <2>1. CodeOf(c) = "RateLimited"
    BY <1>2 DEF CodeOf, BuiltFrom, BodyOrError, LimiterRefused, Failure
  <2> QED
    BY <1>2, <2>1
<1>3. CASE last[c] # LimiterRefused
  <2>1. sent[c] = tries[c] /\ last[c] \in Answers
    BY <1>1, <1>3
  <2>2. CodeOf(c) \in {"NetworkError", "RateLimited"} => tries[c] = Attempts
    BY <1>1, <2>1, FinalAnswersAreNotTransient DEF CodeOf
  <2> QED
    BY <2>1, <2>2
<1> QED
  BY <1>2, <1>3

(***************************************************************************)
(* README.md, error table, under a policy that retries lost connections    *)
(* and rate limits as archive_retry_policy() does: RateLimited is the      *)
(* client's own limit or the last of max_attempts answers, NetworkError    *)
(* the last of max_attempts.                                               *)
(***************************************************************************)
THEOREM ErrorsAreAsDocumented ==
  ASSUME DefaultPolicy
  PROVE  Spec => []ErrorsAsDocumented
<1>1. FetchInv => ErrorsAsDocumented
  BY ErrorsFromInv
<1> QED
  BY <1>1, FetchInvariant, PTL

=============================================================================
