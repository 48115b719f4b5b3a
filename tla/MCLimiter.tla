----------------------------- MODULE MCLimiter -----------------------------
(* Three transfers, two concurrent set_limit calls, limits 0 (unlimited), 1 *)
(* and 2: the limit is reached, lowered below the active count and raised   *)
(* with waiters parked.                                                     *)
EXTENDS ConcurrencyLimiter

MCLimits == {0, 1, 2}
=============================================================================
