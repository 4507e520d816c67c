------------------------------- MODULE Retry -------------------------------
(***************************************************************************)
(* spc::with_retry(): run an operation until its answer is conclusive or   *)
(* the attempts are used up, sleeping between attempts for a jittered      *)
(* backoff, or for what Retry-After asks when that is longer.  The         *)
(* operation is left open: the runs of this module answer it from a set,   *)
(* ArchiveFetch and ArcGISQuery put their own operation in its place.      *)
(***************************************************************************)
EXTENDS ErrorCodes

CONSTANTS
    Callers,
    Answers,               \* what an operation may answer
    NotFoundCode,          \* what a 404 means for the feed asked
    MaxAttempts,           \* RetryPolicy::max_attempts
    InitialDelay,          \* RetryPolicy::initial_delay, in ticks
    MaxDelay,              \* RetryPolicy::max_delay
    Multiplier,            \* RetryPolicy::backoff_multiplier
    Jitter, JitterScale,   \* RetryPolicy::jitter_factor is Jitter / JitterScale
    RetryOnNetworkError, RetryOnRateLimit, RetryOnServerError,
    MaxRetryAfter          \* the 365 days a Retry-After is capped at

Least(x, y) == IF x < y THEN x ELSE y
Most(x, y) == IF x > y THEN x ELSE y

Attempts == Most(MaxAttempts, 1)
Longest == Most(MaxDelay, 0)

ASSUME RetryAssumption ==
    /\ MaxAttempts \in 0 .. 255
    /\ InitialDelay \in Int
    /\ MaxDelay \in Int
    /\ Multiplier \in Nat
    /\ JitterScale \in Nat \ {0}
    /\ Jitter \in 0 .. JitterScale
    /\ MaxRetryAfter \in Nat
    /\ {RetryOnNetworkError, RetryOnRateLimit, RetryOnServerError} \subseteq BOOLEAN

(* What with_retry() can be given back: Retry-After is read as seconds, and *)
(* only a response has one. *)
IsAnswer(answer) ==
    /\ answer.kind \in {"response", "error"}
    /\ answer.status \in Int
    /\ answer.after \in Nat
    /\ answer.kind = "error" => answer.after = 0

(* The errors a transport makes of itself (HttpClient::get), what parsing   *)
(* can make of a body, and the two meanings of a 404. *)
ASSUME AnswersAssumption ==
    /\ \A answer \in Answers :
          /\ IsAnswer(answer)
          /\ answer.code \in IF answer.kind = "error"
                               THEN {"NetworkError", "InvalidRequest"}
                               ELSE {"Ok", "ParseError"}
    /\ NotFoundCode \in {"NotFound", "FeedUnavailable"}

VARIABLES
    phase,     \* "idle", "operating", "sleeping", "done"
    attempt,   \* the attempt in progress, from 1
    rest,      \* what is left of sleep_for()
    last,      \* the last answer of this call, in the end its result
    tries,     \* history: the answers of this call, up to Attempts + 1
    quiet      \* history: ticks since the last answer, up to QuietCap

retryVars == <<phase, attempt, rest, last, tries, quiet>>

NoAnswer == Failure("Ok")

QuietCap == Longest

RetryTypeOK ==
    /\ phase \in [Callers -> {"idle", "operating", "sleeping", "done"}]
    /\ attempt \in [Callers -> 0 .. Attempts]
    /\ rest \in [Callers -> 0 .. Longest]
    /\ tries \in [Callers -> 0 .. Attempts]
    /\ quiet \in [Callers -> 0 .. QuietCap]

RetryInit ==
    /\ phase = [c \in Callers |-> "idle"]
    /\ attempt = [c \in Callers |-> 0]
    /\ rest = [c \in Callers |-> 0]
    /\ last = [c \in Callers |-> NoAnswer]
    /\ tries = [c \in Callers |-> 0]
    /\ quiet = [c \in Callers |-> 0]

-----------------------------------------------------------------------------
(* The policy. *)

(* Mutant: 503 is neither a rate limit nor another server error. *)
ShouldRetryBut503(answer) ==
    IF answer.kind = "error"
      THEN RetryOnNetworkError /\ answer.code = "NetworkError"
    ELSE IF answer.status = 429
      THEN RetryOnRateLimit
      ELSE RetryOnServerError /\ answer.status \in (500 .. 599) \ {503}

(* should_retry(), for a response and for an error *)
ShouldRetry(answer) ==
    IF answer.kind = "error"
      THEN RetryOnNetworkError /\ answer.code = "NetworkError"
    ELSE IF answer.status \in {429, 503}
      THEN RetryOnRateLimit
      ELSE RetryOnServerError /\ answer.status \in 500 .. 599

(* The backoff before the jitter. *)
Backoff[n \in 1 .. Attempts] ==
    IF n = 1 THEN Most(InitialDelay, 0) ELSE Least(Backoff[n - 1] * Multiplier, Longest)

(* calculate_retry_delay(): every delay the jitter may give. *)
RetryDelays(n) ==
    {Least((Backoff[n] * j) \div JitterScale, Longest) :
       j \in (JitterScale - Jitter) .. (JitterScale + Jitter)}

(* retry_after(): zero without a header that can be read as seconds. *)
RetryAfter(answer) == Least(answer.after, MaxRetryAfter)

(* Mutant: the delay the server asks for is not looked at. *)
DelaysAfterBackoffOnly(answer, n) == RetryDelays(n)

(* Mutant: what the server asks for is not capped at max_delay. *)
DelaysAfterUncapped(answer, n) ==
    IF answer.kind = "error" THEN RetryDelays(n)
    ELSE {Most(d, RetryAfter(answer)) : d \in RetryDelays(n)}

DelaysAfter(answer, n) ==
    IF answer.kind = "error" THEN RetryDelays(n)
    ELSE {Least(Most(d, RetryAfter(answer)), Longest) : d \in RetryDelays(n)}

-----------------------------------------------------------------------------
(* The loop. *)

StartCall(c) ==
    /\ phase[c] \in {"idle", "done"}
    /\ phase' = [phase EXCEPT ![c] = "operating"]
    /\ attempt' = [attempt EXCEPT ![c] = 1]
    /\ last' = [last EXCEPT ![c] = NoAnswer]
    /\ tries' = [tries EXCEPT ![c] = 0]
    /\ UNCHANGED <<rest, quiet>>

(* Mutant: the last attempt is the one after the last. *)
ConclusiveOffByOne(c, answer) == attempt[c] > Attempts \/ ~ShouldRetry(answer)

Conclusive(c, answer) == attempt[c] >= Attempts \/ ~ShouldRetry(answer)

(* The operation of the attempt in progress has returned. *)
Answered(c, answer) ==
    /\ phase[c] = "operating"
    /\ last' = [last EXCEPT ![c] = answer]
    /\ tries' = [tries EXCEPT ![c] = Least(@ + 1, Attempts + 1)]
    /\ quiet' = [quiet EXCEPT ![c] = 0]
    /\ IF Conclusive(c, answer)
         THEN /\ phase' = [phase EXCEPT ![c] = "done"]
              /\ attempt' = [attempt EXCEPT ![c] = 0]
              /\ UNCHANGED rest
         ELSE /\ phase' = [phase EXCEPT ![c] = "sleeping"]
              /\ \E d \in DelaysAfter(answer, attempt[c]) :
                   rest' = [rest EXCEPT ![c] = d]
              /\ UNCHANGED attempt

(* Mutant: the attempts are not counted. *)
NextAttemptUncounted(c) ==
    /\ phase[c] = "sleeping"
    /\ rest[c] = 0
    /\ phase' = [phase EXCEPT ![c] = "operating"]
    /\ UNCHANGED <<attempt, rest, last, tries, quiet>>

NextAttempt(c) ==
    /\ phase[c] = "sleeping"
    /\ rest[c] = 0
    /\ phase' = [phase EXCEPT ![c] = "operating"]
    /\ attempt' = [attempt EXCEPT ![c] = @ + 1]
    /\ UNCHANGED <<rest, last, tries, quiet>>

RetryTick ==
    /\ rest' = [c \in Callers |-> Most(rest[c] - 1, 0)]
    /\ quiet' = [c \in Callers |->
                   IF phase[c] = "sleeping" THEN Least(quiet[c] + 1, QuietCap) ELSE quiet[c]]
    /\ UNCHANGED <<phase, attempt, last, tries>>

RetryNext ==
    \/ RetryTick
    \/ \E c \in Callers :
         \/ StartCall(c)
         \/ \E a \in Answers : Answered(c, a)
         \/ NextAttempt(c)

(* Time passes, and every operation answers: the transport has a timeout. *)
RetryFairness ==
    /\ WF_retryVars(RetryTick)
    /\ \A c \in Callers :
         /\ WF_retryVars(\E a \in Answers : Answered(c, a))
         /\ WF_retryVars(NextAttempt(c))

RetrySpec == RetryInit /\ [][RetryNext]_retryVars

RetryFairSpec == RetrySpec /\ RetryFairness

-----------------------------------------------------------------------------
(* Properties. *)

(* What a client's method reports of a finished call. *)
CodeOf(c) == BuiltFrom(last[c], NotFoundCode)

(***************************************************************************)
(* with_retry() returns the first conclusive answer, or the last one when  *)
(* none was: no answer that could be retried ends a call early, and none   *)
(* that is final is asked for again.                                       *)
(***************************************************************************)
FirstConclusiveAnswerWins ==
    \A c \in Callers :
      /\ phase[c] = "done" => tries[c] = Attempts \/ ~ShouldRetry(last[c])
      /\ phase[c] # "done" => tries[c] < Attempts
      /\ phase[c] = "operating" /\ tries[c] > 0 => ShouldRetry(last[c])

(***************************************************************************)
(* README.md, error table: NetworkError and RateLimited come "after        *)
(* retries".  The table that decides what is retried (retry.hpp) and the   *)
(* one that names the error (error.cpp) agree on the transient ones.       *)
(***************************************************************************)
TransientOnlyAfterRetries ==
    \A c \in Callers :
      (phase[c] = "done" /\ CodeOf(c) \in {"NetworkError", "RateLimited"})
        => tries[c] = Attempts

(***************************************************************************)
(* An attempt starts no sooner after the answer before it than the server  *)
(* asked (up to max_delay and the cap on Retry-After), nor than the        *)
(* shortest jittered backoff.                                              *)
(***************************************************************************)
SpacedAsAsked ==
    [][\A c \in Callers :
         NextAttempt(c) =>
           /\ quiet[c] >= Least(RetryAfter(last[c]), Longest)
           /\ \E d \in RetryDelays(attempt[c]) : quiet[c] >= d]_retryVars

(* Every call returns, however often it is answered with a failure. *)
CallReturns ==
    \A c \in Callers : phase[c] = "operating" ~> phase[c] = "done"
=============================================================================
