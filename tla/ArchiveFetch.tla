---------------------------- MODULE ArchiveFetch ----------------------------
(***************************************************************************)
(* ArchiveClient::fetch(), called by several threads of one client:        *)
(* with_retry() around an operation that takes a token of the client's     *)
(* limiter (acquire() with max_wait) and then sends the GET.  One token    *)
(* per attempt, retries included; a refusal of the limiter is an error     *)
(* that is not retried.  Retry is the loop, RateLimiter the limiter.       *)
(***************************************************************************)
EXTENDS Retry, FiniteSets

CONSTANTS
    Burst, Interval, Initial,                   \* of archive_rate_limit()
    TokenModulus,                               \* 2^16 in the build
    MaxWait,                                    \* its max_wait, as a set
    WireWindow                                  \* bound: the longest window of the wire

ASSUME ArchiveAssumption ==
    /\ IsFiniteSet(Callers)
    /\ TokenModulus \in Nat \ {0, 1}
    /\ Burst \in 1 .. TokenModulus - 1
    /\ Interval \in Nat \ {0}
    /\ Initial \in 0 .. TokenModulus - 1
    /\ MaxWait \subseteq Int
    /\ WireWindow \in Nat

VARIABLES
    tokens, age, dailyUsed, dayStart, day, pc, kind, left, wait, late,
    recent, grantedOn, granted, epochDay, setBack, contested,
    op,          \* the operation: "none", "acquiring", "sending", "awaiting"
    sent,        \* history: the GETs of this call, up to Attempts + 1
    wire         \* history: GETs sent by anyone in the last a ticks

RL == INSTANCE RateLimiter WITH
        Threads <- Callers, Resetters <- {},
        ConfigMaxTokens <- Burst, ConfigRefillInterval <- Interval,
        ConfigInitialTokens <- Initial, DefaultInterval <- Interval,
        DailyLimit <- 0, ConfigMaxWait <- MaxWait,
        ExplicitWaits <- {}, MaxDay <- 0, MaxLate <- 0,
        Window <- 0

limiterVars == <<tokens, age, dailyUsed, dayStart, day, pc, kind, left, wait, late,
                 recent, grantedOn, granted, epochDay, setBack, contested>>

vars == <<retryVars, limiterVars, op, sent, wire>>

LimiterRefused == Failure("RateLimited")

FetchTypeOK ==
    /\ RetryTypeOK
    /\ RL!TypeOK
    /\ op \in [Callers -> {"none", "acquiring", "sending", "awaiting"}]
    /\ sent \in [Callers -> 0 .. Attempts]
    /\ wire \in [0 .. WireWindow -> Nat]

Init ==
    /\ RetryInit
    /\ RL!Init
    /\ op = [c \in Callers |-> "none"]
    /\ sent = [c \in Callers |-> 0]
    /\ wire = [a \in 0 .. WireWindow |-> 0]

-----------------------------------------------------------------------------
(* The caller's side of the loop. *)

Fetch(c) ==
    /\ StartCall(c)
    /\ sent' = [sent EXCEPT ![c] = 0]
    /\ UNCHANGED <<limiterVars, op, wire>>

Resume(c) ==
    /\ NextAttempt(c)
    /\ UNCHANGED <<limiterVars, op, sent, wire>>

(* Mutant: the limiter is configured without max_wait. *)
AskLimiterUnbounded(c) ==
    /\ phase[c] = "operating"
    /\ op[c] = "none"
    /\ RL!Begin(c, "unbounded", 0)
    /\ op' = [op EXCEPT ![c] = "acquiring"]
    /\ UNCHANGED <<retryVars, sent, wire>>

(* The operation: limiter.acquire(), then http->get(). *)
AskLimiter(c) ==
    /\ phase[c] = "operating"
    /\ op[c] = "none"
    /\ RL!Acquire(c)
    /\ op' = [op EXCEPT ![c] = "acquiring"]
    /\ UNCHANGED <<retryVars, sent, wire>>

LimiterGrants(c) ==
    /\ op[c] = "acquiring"
    /\ pc[c] = "granted"
    /\ op' = [op EXCEPT ![c] = "sending"]
    /\ UNCHANGED <<retryVars, limiterVars, sent, wire>>

(* Mutant: a refusal is reported like a lost connection, and retried. *)
LimiterRefusesAsNetworkError(c) ==
    /\ op[c] = "acquiring"
    /\ pc[c] = "refused"
    /\ Answered(c, Failure("NetworkError"))
    /\ op' = [op EXCEPT ![c] = "none"]
    /\ UNCHANGED <<limiterVars, sent, wire>>

LimiterRefuses(c) ==
    /\ op[c] = "acquiring"
    /\ pc[c] = "refused"
    /\ Answered(c, LimiterRefused)
    /\ op' = [op EXCEPT ![c] = "none"]
    /\ UNCHANGED <<limiterVars, sent, wire>>

Send(c) ==
    /\ op[c] = "sending"
    /\ op' = [op EXCEPT ![c] = "awaiting"]
    /\ sent' = [sent EXCEPT ![c] = Least(@ + 1, Attempts + 1)]
    /\ wire' = [a \in 0 .. WireWindow |-> wire[a] + 1]
    /\ UNCHANGED <<retryVars, limiterVars>>

(* Mutant: what is retried is the GET alone, on the token of the first. *)
ReplyKeepsToken(c) ==
    /\ op[c] = "awaiting"
    /\ \E a \in Answers :
         /\ Answered(c, a)
         /\ op' = [op EXCEPT ![c] = IF Conclusive(c, a) THEN "none" ELSE "sending"]
    /\ UNCHANGED <<limiterVars, sent, wire>>

Reply(c) ==
    /\ op[c] = "awaiting"
    /\ \E a \in Answers : Answered(c, a)
    /\ op' = [op EXCEPT ![c] = "none"]
    /\ UNCHANGED <<limiterVars, sent, wire>>

-----------------------------------------------------------------------------
(* The limiter's side, and the clock they share. *)

LimiterStep(c) ==
    /\ RL!Locking(c) \/ RL!ReadWait(c) \/ RL!Deciding(c) \/ RL!Sleeping(c)
    /\ UNCHANGED <<retryVars, op, sent, wire>>

Tick ==
    /\ RetryTick
    /\ RL!Tick
    /\ wire' = [a \in 0 .. WireWindow |-> IF a = 0 THEN 0 ELSE wire[a - 1]]
    /\ UNCHANGED <<op, sent>>

Operate(c) == LimiterGrants(c) \/ LimiterRefuses(c) \/ Send(c) \/ Reply(c)

Next ==
    \/ Tick
    \/ \E c \in Callers :
         Fetch(c) \/ AskLimiter(c) \/ LimiterStep(c) \/ Operate(c) \/ Resume(c)

(* Time passes, threads run, the mutex is fair, GETs are answered or time out. *)
Fairness ==
    /\ WF_vars(Tick)
    /\ \A c \in Callers :
         /\ WF_vars(AskLimiter(c))
         /\ SF_vars(RL!Locking(c) /\ UNCHANGED <<retryVars, op, sent, wire>>)
         /\ WF_vars((RL!ReadWait(c) \/ RL!Deciding(c) \/ RL!Sleeping(c))
                      /\ UNCHANGED <<retryVars, op, sent, wire>>)
         /\ WF_vars(Operate(c))
         /\ WF_vars(Resume(c))

Spec == Init /\ [][Next]_vars

FairSpec == Spec /\ Fairness

-----------------------------------------------------------------------------
(* Properties. *)

(***************************************************************************)
(* What IEM sees.  A thread may be held up between its token and its GET,  *)
(* so the wire can be denser than the limiter by one GET per thread, and   *)
(* by no more, however many attempts the threads make.                     *)
(***************************************************************************)
WireBound ==
    \A a \in 0 .. WireWindow :
      RL!Cost(wire[a]) <= RL!Cost(Burst + Cardinality(Callers)) + a

(***************************************************************************)
(* One GET per attempt, but for the attempt the limiter refused, which is  *)
(* the last: a refusal is never retried and never sent.                    *)
(***************************************************************************)
EveryAttemptIsSentOrRefused ==
    \A c \in Callers :
      phase[c] = "done" =>
        IF last[c] = LimiterRefused THEN sent[c] = tries[c] - 1 ELSE sent[c] = tries[c]

(***************************************************************************)
(* README.md, error table: RateLimited is "HTTP 429 or 503 after retries,  *)
(* or ArchiveClient's own limit", and NetworkError comes "after retries".  *)
(***************************************************************************)
ErrorsAsDocumented ==
    \A c \in Callers :
      phase[c] = "done" =>
        /\ CodeOf(c) = "RateLimited" => last[c] = LimiterRefused \/ sent[c] = Attempts
        /\ CodeOf(c) = "NetworkError" => sent[c] = Attempts

(* Every fetch returns, however busy the other threads keep the limiter. *)
FetchReturns == CallReturns
=============================================================================
