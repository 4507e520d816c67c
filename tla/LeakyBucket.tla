---------------------------- MODULE LeakyBucket ----------------------------
(***************************************************************************)
(* What the token bucket of spc::RateLimiter promises, with no tokens and  *)
(* no timestamps: admissions are paid for with debt.  One admission costs  *)
(* Interval ticks of debt, one tick pays one of them back, and an          *)
(* admission is legal only while the debt stays within Burst * Interval.   *)
(*                                                                         *)
(* recent is history: recent[a] counts the admissions of the last a ticks  *)
(* (the current one included) since the latest restart.                    *)
(***************************************************************************)
EXTENDS Integers

CONSTANTS
    Burst,      \* admissions that an idle bucket allows at once
    Interval,   \* ticks that pay for one admission
    Initial,    \* admissions allowed right after a restart
    Window      \* the longest window, in ticks, that history keeps

(* What the parameters must be for the promise to hold. *)
LeakyBucketAssumption ==
    /\ Burst \in Nat \ {0}
    /\ Interval \in Nat \ {0}
    /\ Initial \in 0 .. Burst
    /\ Window \in Nat

VARIABLES debt, recent

bucketVars == <<debt, recent>>

(* What n admissions cost, in ticks. *)
Cost(n) == n * Interval

NoHistory == [a \in 0 .. Window |-> 0]

LBTypeOK ==
    /\ debt \in 0 .. Cost(Burst)
    /\ recent \in [0 .. Window -> Nat]

LBInit ==
    /\ debt = Cost(Burst - Initial)
    /\ recent = NoHistory

(* One tick of the clock. *)
Tick ==
    /\ debt' = IF debt > 0 THEN debt - 1 ELSE 0
    /\ recent' = [a \in 0 .. Window |-> IF a = 0 THEN 0 ELSE recent[a - 1]]

Admit ==
    /\ debt + Interval <= Cost(Burst)
    /\ debt' = debt + Interval
    /\ recent' = [a \in 0 .. Window |-> recent[a] + 1]

(* RateLimiter::reset(): the history starts again with it. *)
Restart ==
    /\ debt' = Cost(Burst - Initial)
    /\ recent' = NoHistory

LBNext == Tick \/ Admit \/ Restart

LBSpec == LBInit /\ [][LBNext]_bucketVars

(***************************************************************************)
(* In no window of a ticks are there more admissions than a full bucket    *)
(* plus what a ticks earn: the rate limit itself.                          *)
(***************************************************************************)
LBRateBound ==
    \A a \in 0 .. Window : Cost(recent[a]) <= Cost(Burst) + a

(* Why: the admissions of a window are still owed, but for what it paid. *)
Owed == \A a \in 0 .. Window : Cost(recent[a]) <= debt + a
=============================================================================
