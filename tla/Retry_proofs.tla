---------------------------- MODULE Retry_proofs ----------------------------
(***************************************************************************)
(* Theorems about with_retry(), for any callers, any policy and whatever   *)
(* the operation answers.  The lemmas about its actions are stated for any *)
(* answer, so that they also hold of the loop around an operation of more  *)
(* steps (ArchiveFetch).                                                   *)
(***************************************************************************)
EXTENDS Retry, InductionFacts, TLAPS

(* Where a call is in its loop: how many answers it has had, that each of   *)
(* them but the one of a finished call could be retried, and that a thread  *)
(* sleeps out one of the delays its last answer gave. *)
CallInOrder(c) ==
    /\ IsAnswer(last[c])
    /\ phase[c] = "idle" => attempt[c] = 0 /\ tries[c] = 0
    /\ phase[c] = "operating" =>
          /\ attempt[c] = tries[c] + 1
          /\ tries[c] > 0 => ShouldRetry(last[c])
    /\ phase[c] = "sleeping" =>
          /\ attempt[c] = tries[c]
          /\ tries[c] \in 1 .. Attempts - 1
          /\ ShouldRetry(last[c])
          /\ \E d \in DelaysAfter(last[c], attempt[c]) : rest[c] + quiet[c] >= d
    /\ phase[c] = "done" =>
          /\ attempt[c] = 0 /\ tries[c] > 0
          /\ tries[c] = Attempts \/ ~ShouldRetry(last[c])

CallsInOrder == \A c \in Callers : CallInOrder(c)

(* TLA+ has no type for an answer, whose body is left open. *)
AnswersKept == last = [c \in Callers |-> last[c]]

RetryInv == RetryTypeOK /\ AnswersKept /\ CallsInOrder

-----------------------------------------------------------------------------
(* The delays. *)

LEMMA PolicyType ==
  /\ Attempts \in Nat \ {0} /\ Longest \in Nat
  /\ Most(InitialDelay, 0) \in Nat
  /\ Multiplier \in Nat /\ JitterScale \in Nat \ {0} /\ Jitter \in 0 .. JitterScale
  /\ MaxRetryAfter \in Nat
BY RetryAssumption DEF Attempts, Longest, Most

(* One step of the recursion that Backoff is. *)
BackoffAfter(f, n) ==
    IF n = 1 THEN Most(InitialDelay, 0) ELSE Least(f[n - 1] * Multiplier, Longest)

(* A recursive definition defines something only if some function satisfies *)
(* it: here one does, up to every length. *)
LEMMA BackoffExists ==
  ASSUME NEW m \in Nat
  PROVE  \E f : f = [n \in 1 .. m |-> BackoffAfter(f, n)]
<1> DEFINE Defined == {k \in Nat : \E f : f = [n \in 1 .. k |-> BackoffAfter(f, n)]}
<1>1. 0 \in Defined
  <2>1. [n \in 1 .. 0 |-> 0] = [n \in 1 .. 0 |-> BackoffAfter([i \in 1 .. 0 |-> 0], n)]
    OBVIOUS
  <2> QED
    BY <2>1
<1>2. ASSUME NEW k \in Defined PROVE k + 1 \in Defined
  <2>1. PICK f : f = [n \in 1 .. k |-> BackoffAfter(f, n)]
    OBVIOUS
  <2> DEFINE g == [n \in 1 .. k + 1 |-> BackoffAfter(f, n)]
  <2>2. ASSUME NEW n \in 1 .. k + 1 PROVE BackoffAfter(f, n) = BackoffAfter(g, n)
    <3>1. CASE n = 1
      BY <3>1 DEF BackoffAfter
    <3>2. CASE n # 1
      <4>1. n - 1 \in 1 .. k /\ n - 1 \in 1 .. k + 1
        BY <3>2
      <4>2. g[n - 1] = BackoffAfter(f, n - 1)
        BY <4>1
      <4>3. f[n - 1] = BackoffAfter(f, n - 1)
        BY <2>1, <4>1
      <4> HIDE DEF g
      <4> QED
        BY <4>2, <4>3 DEF BackoffAfter
    <3> QED
      BY <3>1, <3>2
  <2>3. g = [n \in 1 .. k + 1 |-> BackoffAfter(g, n)]
    BY <2>2
  <2>4. \E h : h = [n \in 1 .. k + 1 |-> BackoffAfter(h, n)]
    <3> HIDE DEF g
    <3> QED
      BY <2>3
  <2> QED
    BY <2>4
<1> HIDE DEF Defined
<1>3. Nat \subseteq Defined
  <2>1. Defined \in SUBSET Nat
    BY DEF Defined
  <2> QED
    BY <1>1, <1>2, <2>1, AllNaturals
<1> QED
  BY <1>3 DEF Defined

LEMMA BackoffDefined ==
  Backoff = [n \in 1 .. Attempts |-> BackoffAfter(Backoff, n)]
<1> DEFINE Defines(f) ==
      f = [n \in 1 .. Attempts |->
             IF n = 1 THEN Most(InitialDelay, 0) ELSE Least(f[n - 1] * Multiplier, Longest)]
<1>1. \E f : Defines(f)
  BY PolicyType, BackoffExists DEF BackoffAfter
<1>2. Backoff = CHOOSE f : Defines(f)
  BY DEF Backoff
<1> HIDE DEF Defines
<1>3. Defines(Backoff)
  BY <1>1, <1>2
<1> QED
  BY <1>3 DEF Defines, BackoffAfter

LEMMA BackoffType == Backoff \in [1 .. Attempts -> Nat]
<1> DEFINE Typed == {k \in Nat : k \in 1 .. Attempts => Backoff[k] \in Nat}
<1>1. 0 \in Typed
  OBVIOUS
<1>2. ASSUME NEW k \in Typed PROVE k + 1 \in Typed
  <2>1. ASSUME k + 1 \in 1 .. Attempts PROVE Backoff[k + 1] \in Nat
    <3>1. Backoff[k + 1] = BackoffAfter(Backoff, k + 1)
      BY <2>1, BackoffDefined
    <3>2. CASE k = 0
      BY <3>1, <3>2, PolicyType DEF BackoffAfter
    <3>3. CASE k # 0
      <4>1. k \in 1 .. Attempts /\ (k + 1) - 1 = k /\ k + 1 # 1
        BY <2>1, <3>3, PolicyType
      <4>2. Backoff[k] * Multiplier \in Nat
        <5>1. Backoff[k] \in Nat /\ Multiplier \in Nat
          BY <4>1, PolicyType
        <5> QED
          BY <5>1, Z3T(30)
      <4> QED
        BY <3>1, <4>1, <4>2, PolicyType DEF BackoffAfter, Least
    <3> QED
      BY <3>2, <3>3
  <2> QED
    BY <2>1
<1> HIDE DEF Typed
<1>3. Nat \subseteq Typed
  <2>1. Typed \in SUBSET Nat
    BY DEF Typed
  <2> QED
    BY <1>1, <1>2, <2>1, AllNaturals
<1>4. \A n \in 1 .. Attempts : Backoff[n] \in Nat
  BY <1>3, PolicyType DEF Typed
<1> QED
  BY <1>4, BackoffDefined
(* Every delay is within max_delay. *)
LEMMA RetryDelaysType ==
  ASSUME NEW n \in 1 .. Attempts
  PROVE  RetryDelays(n) \subseteq 0 .. Longest
<1>1. ASSUME NEW j \in (JitterScale - Jitter) .. (JitterScale + Jitter)
      PROVE  Least((Backoff[n] * j) \div JitterScale, Longest) \in 0 .. Longest
  <2>1. /\ Backoff[n] \in Nat /\ j \in Nat
        /\ JitterScale \in Nat /\ JitterScale > 0 /\ Longest \in Nat
    BY BackoffType, PolicyType
  <2>2. Backoff[n] * j \in Nat
    BY <2>1, Z3T(30)
  <2>3. (Backoff[n] * j) \div JitterScale \in Nat
    BY <2>1, <2>2, Z3T(30)
  <2> QED
    BY <2>1, <2>3 DEF Least
<1> QED
  BY <1>1 DEF RetryDelays

(* The four rules that decide one sleep: it is within max_delay, no shorter *)
(* than what the server asked and than some jittered backoff, both as far   *)
(* as max_delay allows. *)
LEMMA DelaysObeyAllRules ==
  ASSUME NEW answer, IsAnswer(answer), NEW n \in 1 .. Attempts,
         NEW d \in DelaysAfter(answer, n)
  PROVE  /\ d \in 0 .. Longest
         /\ d >= Least(RetryAfter(answer), Longest)
         /\ \E e \in RetryDelays(n) : d >= e
<1>1. RetryDelays(n) \subseteq 0 .. Longest /\ Longest \in Nat
  BY RetryDelaysType, PolicyType
<1>2. RetryAfter(answer) \in Nat /\ (answer.kind = "error" => RetryAfter(answer) = 0)
  BY PolicyType DEF IsAnswer, RetryAfter, Least
<1>3. CASE answer.kind = "error"
  <2>1. d \in RetryDelays(n)
    BY <1>3 DEF DelaysAfter
  <2> QED
    BY <1>1, <1>2, <1>3, <2>1 DEF Least
<1>4. CASE answer.kind # "error"
  <2>1. PICK e \in RetryDelays(n) : d = Least(Most(e, RetryAfter(answer)), Longest)
    BY <1>4 DEF DelaysAfter
  <2>2. e \in 0 .. Longest
    BY <1>1
  <2>3. d \in 0 .. Longest /\ d >= Least(RetryAfter(answer), Longest) /\ d >= e
    BY <1>1, <1>2, <2>1, <2>2 DEF Least, Most
  <2> QED
    BY <2>3
<1> QED
  BY <1>3, <1>4

-----------------------------------------------------------------------------
(* The steps of the loop. *)

LEMMA RetryInitially == RetryInit => RetryInv
BY PolicyType DEF RetryInit, RetryInv, RetryTypeOK, AnswersKept, CallsInOrder, CallInOrder,
     QuietCap, NoAnswer, Failure, IsAnswer

LEMMA StartCallStep ==
  ASSUME RetryInv, NEW c \in Callers, StartCall(c)
  PROVE  RetryInv'
<1>1. RetryTypeOK'
  BY PolicyType DEF RetryInv, RetryTypeOK, StartCall, QuietCap
<1>3. AnswersKept'
  BY DEF RetryInv, AnswersKept, StartCall
<1>2. ASSUME NEW u \in Callers PROVE CallInOrder(u)'
  <2>1. CASE u = c
    BY <2>1 DEF RetryInv, RetryTypeOK, AnswersKept, StartCall, CallInOrder, NoAnswer,
         Failure, IsAnswer
  <2>2. CASE u # c
    BY <2>2 DEF RetryInv, RetryTypeOK, CallsInOrder, StartCall, CallInOrder
  <2> QED
    BY <2>1, <2>2
<1> QED
  BY <1>1, <1>2, <1>3 DEF RetryInv, CallsInOrder

LEMMA AnsweredStep ==
  ASSUME RetryInv, NEW c \in Callers, NEW answer, IsAnswer(answer), Answered(c, answer)
  PROVE  RetryInv'
<1>1. /\ phase[c] = "operating" /\ attempt[c] = tries[c] + 1
      /\ tries[c] \in Nat /\ attempt[c] \in 1 .. Attempts
      /\ Attempts \in Nat /\ Longest \in Nat
  BY PolicyType DEF RetryInv, RetryTypeOK, CallsInOrder, CallInOrder, Answered
<1>2. Least(tries[c] + 1, Attempts + 1) = attempt[c]
  BY <1>1 DEF Least
<1>3. /\ last' = [last EXCEPT ![c] = answer]
      /\ tries' = [tries EXCEPT ![c] = attempt[c]]
      /\ quiet' = [quiet EXCEPT ![c] = 0]
  BY <1>2 DEF Answered
<1>4. AnswersKept' /\ last'[c] = answer
  BY <1>3 DEF RetryInv, AnswersKept
<1>5. CASE Conclusive(c, answer)
  <2>1. /\ phase' = [phase EXCEPT ![c] = "done"]
        /\ attempt' = [attempt EXCEPT ![c] = 0]
        /\ rest' = rest
    BY <1>5 DEF Answered
  <2>2. RetryTypeOK'
    BY <1>1, <1>3, <2>1 DEF RetryInv, RetryTypeOK, QuietCap
  <2>3. ASSUME NEW u \in Callers PROVE CallInOrder(u)'
    <3>1. CASE u = c
      BY <1>1, <1>3, <1>5, <1>4, <2>1, <3>1
      DEF RetryInv, RetryTypeOK, CallInOrder, Conclusive
    <3>2. CASE u # c
      BY <1>3, <2>1, <3>2 DEF RetryInv, RetryTypeOK, CallsInOrder, CallInOrder
    <3> QED
      BY <3>1, <3>2
  <2> QED
    BY <1>4, <2>2, <2>3 DEF RetryInv, CallsInOrder
<1>6. CASE ~Conclusive(c, answer)
  <2>1. /\ phase' = [phase EXCEPT ![c] = "sleeping"]
        /\ attempt' = attempt
    BY <1>6 DEF Answered
  <2>2. PICK d \in DelaysAfter(answer, attempt[c]) : rest' = [rest EXCEPT ![c] = d]
    BY <1>6 DEF Answered
  <2>3. d \in 0 .. Longest
    BY <1>1, DelaysObeyAllRules
  <2>4. RetryTypeOK'
    BY <1>1, <1>3, <2>1, <2>2, <2>3 DEF RetryInv, RetryTypeOK, QuietCap
  <2>5. ShouldRetry(answer) /\ attempt[c] \in 1 .. Attempts - 1
    BY <1>1, <1>6 DEF Conclusive
  <2>6. ASSUME NEW u \in Callers PROVE CallInOrder(u)'
    <3>1. CASE u = c
      <4>1. /\ last'[u] = answer /\ tries'[u] = attempt[c] /\ quiet'[u] = 0
            /\ phase'[u] = "sleeping" /\ attempt'[u] = attempt[c] /\ rest'[u] = d
        BY <1>3, <1>4, <2>1, <2>2, <3>1 DEF RetryInv, RetryTypeOK
      <4> QED
        BY <1>1, <2>3, <2>5, <4>1 DEF CallInOrder
    <3>2. CASE u # c
      BY <1>3, <2>1, <2>2, <3>2 DEF RetryInv, RetryTypeOK, CallsInOrder, CallInOrder
    <3> QED
      BY <3>1, <3>2
  <2> QED
    BY <1>4, <2>4, <2>6 DEF RetryInv, CallsInOrder
<1> QED
  BY <1>5, <1>6

LEMMA NextAttemptStep ==
  ASSUME RetryInv, NEW c \in Callers, NextAttempt(c)
  PROVE  RetryInv'
<1>1. /\ phase[c] = "sleeping" /\ attempt[c] = tries[c]
      /\ tries[c] \in 1 .. Attempts - 1 /\ Attempts \in Nat
  BY PolicyType DEF RetryInv, RetryTypeOK, CallsInOrder, CallInOrder, NextAttempt
<1>2. RetryTypeOK'
  BY <1>1 DEF RetryInv, RetryTypeOK, NextAttempt, QuietCap
<1>3. ASSUME NEW u \in Callers PROVE CallInOrder(u)'
  <2>1. CASE u = c
    BY <1>1, <2>1 DEF RetryInv, RetryTypeOK, CallsInOrder, NextAttempt, CallInOrder
  <2>2. CASE u # c
    BY <2>2 DEF RetryInv, RetryTypeOK, CallsInOrder, NextAttempt, CallInOrder
  <2> QED
    BY <2>1, <2>2
<1> QED
  BY <1>2, <1>3 DEF RetryInv, AnswersKept, CallsInOrder, NextAttempt

LEMMA RetryTickStep ==
  ASSUME RetryInv, RetryTick
  PROVE  RetryInv'
<1>1. Attempts \in Nat /\ Longest \in Nat
  BY PolicyType
<1>2. RetryTypeOK'
  BY <1>1 DEF RetryInv, RetryTypeOK, RetryTick, QuietCap, Most, Least
<1>3. ASSUME NEW u \in Callers PROVE CallInOrder(u)'
  <2>1. CASE phase[u] = "sleeping"
    <3>1. /\ attempt[u] = tries[u] /\ tries[u] \in 1 .. Attempts - 1
          /\ ShouldRetry(last[u]) /\ IsAnswer(last[u])
      BY <1>1, <2>1 DEF RetryInv, RetryTypeOK, CallsInOrder, CallInOrder
    <3>2. PICK d \in DelaysAfter(last[u], attempt[u]) : rest[u] + quiet[u] >= d
      BY <2>1 DEF RetryInv, CallsInOrder, CallInOrder
    <3>3. attempt[u] \in 1 .. Attempts
      BY <1>1, <3>1
    <3>4. d \in 0 .. Longest
      BY <3>1, <3>3, DelaysObeyAllRules
    <3>5. rest[u] \in Nat /\ quiet[u] \in Nat
      BY DEF RetryInv, RetryTypeOK, QuietCap
    <3>6. /\ rest'[u] = Most(rest[u] - 1, 0)
          /\ quiet'[u] = Least(quiet[u] + 1, Longest)
      BY <2>1 DEF RetryTick, QuietCap
    <3>7. rest'[u] + quiet'[u] >= d
      BY <1>1, <3>2, <3>4, <3>5, <3>6 DEF Most, Least
    <3> QED
      BY <2>1, <3>1, <3>7 DEF RetryTick, CallInOrder
  <2>2. CASE phase[u] # "sleeping"
    BY <2>2 DEF RetryInv, CallsInOrder, RetryTick, CallInOrder
  <2> QED
    BY <2>1, <2>2
<1> QED
  BY <1>2, <1>3 DEF RetryInv, AnswersKept, CallsInOrder, RetryTick

LEMMA RetryUnchanged ==
  ASSUME RetryInv, UNCHANGED retryVars
  PROVE  RetryInv'
BY DEF RetryInv, RetryTypeOK, AnswersKept, CallsInOrder, CallInOrder, retryVars

LEMMA RetryStep == RetryInv /\ [RetryNext]_retryVars => RetryInv'
<1> SUFFICES ASSUME RetryInv, [RetryNext]_retryVars PROVE RetryInv'
  OBVIOUS
<1>1. CASE RetryTick
  BY <1>1, RetryTickStep
<1>2. ASSUME NEW c \in Callers, StartCall(c) PROVE RetryInv'
  BY <1>2, StartCallStep
<1>3. ASSUME NEW c \in Callers, NEW a \in Answers, Answered(c, a) PROVE RetryInv'
  BY <1>3, AnsweredStep, AnswersAssumption
<1>4. ASSUME NEW c \in Callers, NextAttempt(c) PROVE RetryInv'
  BY <1>4, NextAttemptStep
<1>5. CASE UNCHANGED retryVars
  BY <1>5, RetryUnchanged
<1> QED
  BY <1>1, <1>2, <1>3, <1>4, <1>5 DEF RetryNext

-----------------------------------------------------------------------------
(***************************************************************************)
(* The inductive invariant: between two attempts a call has had as many    *)
(* answers as attempts, all of them ones to retry, and sleeps out one of   *)
(* the delays the policy allows after the last.                            *)
(***************************************************************************)
THEOREM RetryInvariant == RetrySpec => []RetryInv
<1>1. RetryInit => RetryInv
  BY RetryInitially
<1>2. RetryInv /\ [RetryNext]_retryVars => RetryInv'
  BY RetryStep
<1> QED
  BY <1>1, <1>2, PTL DEF RetrySpec

(***************************************************************************)
(* No delay is longer than max_delay, whatever the jitter, the multiplier  *)
(* and Retry-After are, and no call makes more than max_attempts attempts. *)
(***************************************************************************)
THEOREM RetryTypeCorrect == RetrySpec => []RetryTypeOK
BY RetryInvariant, PTL DEF RetryInv

LEMMA ConclusiveFromInv == RetryInv => FirstConclusiveAnswerWins
<1> SUFFICES ASSUME RetryInv, NEW c \in Callers
             PROVE  /\ phase[c] = "done" => tries[c] = Attempts \/ ~ShouldRetry(last[c])
                    /\ phase[c] # "done" => tries[c] < Attempts
                    /\ phase[c] = "operating" /\ tries[c] > 0 => ShouldRetry(last[c])
  BY DEF FirstConclusiveAnswerWins
<1>1. /\ phase[c] \in {"idle", "operating", "sleeping", "done"}
      /\ attempt[c] \in 0 .. Attempts /\ tries[c] \in 0 .. Attempts
      /\ Attempts \in Nat \ {0}
  BY PolicyType DEF RetryInv, RetryTypeOK
<1>2. CallInOrder(c)
  BY DEF RetryInv, CallsInOrder
<1>3. phase[c] = "done" => tries[c] = Attempts \/ ~ShouldRetry(last[c])
  BY <1>2 DEF CallInOrder
<1>4. phase[c] # "done" => tries[c] < Attempts
  BY <1>1, <1>2 DEF CallInOrder
<1>5. phase[c] = "operating" /\ tries[c] > 0 => ShouldRetry(last[c])
  BY <1>2 DEF CallInOrder
<1> QED
  BY <1>3, <1>4, <1>5

(***************************************************************************)
(* with_retry() returns the first conclusive answer, or the last one.      *)
(***************************************************************************)
THEOREM FirstConclusiveWins == RetrySpec => []FirstConclusiveAnswerWins
BY RetryInvariant, ConclusiveFromInv, PTL

(* Every answer of a call is one of the operation's. *)
AnswersAreTheirs == \A c \in Callers : tries[c] > 0 => last[c] \in Answers

LEMMA AnswersStep ==
  RetryInv /\ AnswersAreTheirs /\ [RetryNext]_retryVars => AnswersAreTheirs'
<1> SUFFICES ASSUME RetryInv, AnswersAreTheirs, [RetryNext]_retryVars,
                    NEW u \in Callers, tries'[u] > 0
             PROVE  last'[u] \in Answers
  BY DEF AnswersAreTheirs
<1>1. CASE RetryTick
  BY <1>1 DEF AnswersAreTheirs, RetryTick
<1>2. ASSUME NEW c \in Callers, StartCall(c) PROVE last'[u] \in Answers
  <2>1. u # c
    BY <1>2 DEF StartCall, RetryInv, RetryTypeOK
  <2> QED
    BY <1>2, <2>1 DEF StartCall, AnswersAreTheirs, RetryInv, AnswersKept, RetryTypeOK
<1>3. ASSUME NEW c \in Callers, NEW a \in Answers, Answered(c, a) PROVE last'[u] \in Answers
  <2>1. CASE u = c
    BY <1>3, <2>1 DEF Answered, RetryInv, AnswersKept
  <2>2. CASE u # c
    BY <1>3, <2>2 DEF Answered, AnswersAreTheirs, RetryInv, AnswersKept, RetryTypeOK
  <2> QED
    BY <2>1, <2>2
<1>4. ASSUME NEW c \in Callers, NextAttempt(c) PROVE last'[u] \in Answers
  BY <1>4 DEF NextAttempt, AnswersAreTheirs
<1>5. CASE UNCHANGED retryVars
  BY <1>5 DEF retryVars, AnswersAreTheirs
<1> QED
  BY <1>1, <1>2, <1>3, <1>4, <1>5 DEF RetryNext

(* The default policy of both tables: lost connections and rate limits are *)
(* retried. *)
DefaultPolicy == RetryOnNetworkError = TRUE /\ RetryOnRateLimit = TRUE

(* What should_retry() gives up on at once is reported as something else.  *)
LEMMA FinalAnswersAreNotTransient ==
  ASSUME DefaultPolicy, NEW answer \in Answers, ~ShouldRetry(answer)
  PROVE  BuiltFrom(answer, NotFoundCode) \notin {"NetworkError", "RateLimited"}
<1>1. CASE answer.kind = "error"
  <2>1. answer.code \in {"NetworkError", "InvalidRequest"}
    BY <1>1, AnswersAssumption
  <2>2. answer.code # "NetworkError"
    BY <1>1 DEF ShouldRetry, DefaultPolicy
  <2> QED
    BY <1>1, <2>1, <2>2 DEF BuiltFrom, BodyOrError
<1>2. CASE answer.kind # "error"
  <2>1. /\ answer.code \in {"Ok", "ParseError"}
        /\ answer.status \in Int
        /\ NotFoundCode \in {"NotFound", "FeedUnavailable"}
    BY <1>2, AnswersAssumption DEF IsAnswer
  <2>2. answer.status \notin {429, 503}
    BY <1>2 DEF ShouldRetry, DefaultPolicy
  <2>3. FromResponse(answer.status, NotFoundCode) \notin {"NetworkError", "RateLimited"}
    BY <2>1, <2>2 DEF FromResponse
  <2> QED
    BY <1>2, <2>1, <2>3 DEF BuiltFrom, BodyOrError
<1> QED
  BY <1>1, <1>2

LEMMA TransientFromInv ==
  ASSUME DefaultPolicy
  PROVE  RetryInv /\ AnswersAreTheirs => TransientOnlyAfterRetries
<1> SUFFICES ASSUME RetryInv, AnswersAreTheirs, NEW c \in Callers,
                    phase[c] = "done", CodeOf(c) \in {"NetworkError", "RateLimited"}
             PROVE  tries[c] = Attempts
  BY DEF TransientOnlyAfterRetries
<1>1. tries[c] > 0 /\ (tries[c] = Attempts \/ ~ShouldRetry(last[c]))
  BY DEF RetryInv, CallsInOrder, CallInOrder
<1>2. last[c] \in Answers
  BY <1>1 DEF AnswersAreTheirs
<1> QED
  BY <1>1, <1>2, FinalAnswersAreNotTransient DEF CodeOf

(***************************************************************************)
(* README.md, error table: under a policy that retries lost connections    *)
(* and rate limits, as the default does, NetworkError and RateLimited come *)
(* only after max_attempts attempts.                                       *)
(***************************************************************************)
THEOREM TransientAfterRetries ==
  ASSUME DefaultPolicy
  PROVE  RetrySpec => []TransientOnlyAfterRetries
<1>1. RetryInit => AnswersAreTheirs
  BY DEF RetryInit, AnswersAreTheirs
<1>2. RetryInv /\ AnswersAreTheirs /\ [RetryNext]_retryVars => AnswersAreTheirs'
  BY AnswersStep
<1>3. RetryInv /\ AnswersAreTheirs => TransientOnlyAfterRetries
  BY TransientFromInv
<1> QED
  BY <1>1, <1>2, <1>3, RetryInvariant, PTL DEF RetrySpec

(***************************************************************************)
(* An attempt starts no sooner after the answer before it than the server  *)
(* asked and than some jittered backoff, as far as max_delay allows.       *)
(***************************************************************************)
THEOREM AttemptsAreSpaced == RetrySpec => SpacedAsAsked
<1> DEFINE Spaced ==
      \A c \in Callers :
        NextAttempt(c) =>
          /\ quiet[c] >= Least(RetryAfter(last[c]), Longest)
          /\ \E d \in RetryDelays(attempt[c]) : quiet[c] >= d
<1>1. RetryInv => Spaced
  <2> SUFFICES ASSUME RetryInv, NEW c \in Callers, NextAttempt(c)
               PROVE  /\ quiet[c] >= Least(RetryAfter(last[c]), Longest)
                      /\ \E d \in RetryDelays(attempt[c]) : quiet[c] >= d
    OBVIOUS
  <2>1. phase[c] = "sleeping" /\ rest[c] = 0
    BY DEF NextAttempt
  <2>2. /\ attempt[c] = tries[c] /\ tries[c] \in 1 .. Attempts - 1
        /\ IsAnswer(last[c]) /\ quiet[c] \in Nat
        /\ Attempts \in Nat /\ Longest \in Nat
    BY <2>1, PolicyType DEF RetryInv, RetryTypeOK, CallsInOrder, CallInOrder, QuietCap
  <2>3. PICK d \in DelaysAfter(last[c], attempt[c]) : rest[c] + quiet[c] >= d
    BY <2>1 DEF RetryInv, CallsInOrder, CallInOrder
  <2>4. attempt[c] \in 1 .. Attempts
    BY <2>2
  <2>5. /\ d \in 0 .. Longest
        /\ d >= Least(RetryAfter(last[c]), Longest)
        /\ \E e \in RetryDelays(attempt[c]) : d >= e
    BY <2>2, <2>4, DelaysObeyAllRules
  <2>6. PICK e \in RetryDelays(attempt[c]) : d >= e
    BY <2>5
  <2>7. e \in Int /\ RetryAfter(last[c]) \in Int
    BY <2>2, <2>4, PolicyType, RetryDelaysType DEF RetryAfter, Least, IsAnswer
  <2>8. quiet[c] >= d
    BY <2>1, <2>2, <2>3, <2>5
  <2>9. quiet[c] >= e /\ quiet[c] >= Least(RetryAfter(last[c]), Longest)
    BY <2>2, <2>5, <2>6, <2>7, <2>8 DEF Least
  <2> QED
    BY <2>9
<1>2. Spaced => [\A c \in Callers :
        NextAttempt(c) =>
          /\ quiet[c] >= Least(RetryAfter(last[c]), Longest)
          /\ \E d \in RetryDelays(attempt[c]) : quiet[c] >= d]_retryVars
  OBVIOUS
<1> HIDE DEF Spaced
<1> QED
  BY <1>1, <1>2, RetryInvariant, PTL DEF SpacedAsAsked

=============================================================================
