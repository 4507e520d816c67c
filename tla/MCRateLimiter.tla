--------------------------- MODULE MCRateLimiter ---------------------------
(***************************************************************************)
(* Small instances of RateLimiter for TLC.  The .cfg files give the        *)
(* configuration of the limiter; the sets below name the arguments of      *)
(* acquire_for() and the settings of max_wait that the runs use.           *)
(***************************************************************************)
EXTENDS RateLimiter, TLC

(* Config::max_wait unset, or set to a wait shorter than two intervals. *)
NoMaxWait == {}
ShortMaxWait == {3}

(* One interval exactly, and a wait that is over before it begins. *)
OneInterval == {2}
WaitsWithZero == {-1, 3}

ThreadSymmetry == Permutations(Threads)
=============================================================================
