----------------------------- MODULE TokenBucket -----------------------------
(***************************************************************************)
(* What a rate limiter promises: a bucket that gains `rate' tokens at      *)
(* every tick up to its size and loses what passes.  A rate of zero is no  *)
(* limit.  A new rate never adds tokens, unless there was no limit before, *)
(* and never exceeds the cap the bucket was made with.                     *)
(***************************************************************************)
EXTENDS Naturals

CONSTANTS Rates, BurstOf

VARIABLES
    cap,   \* the rate it was made with
    rate, level

Lesser(a, b) == IF a < b THEN a ELSE b

BucketInit == rate \in Rates /\ cap = rate /\ level = BurstOf[rate]

Fill == level' = Lesser(level + rate, BurstOf[rate]) /\ UNCHANGED <<cap, rate>>

Take == \E n \in 1..level : level' = level - n /\ UNCHANGED <<cap, rate>>

Change ==
    /\ UNCHANGED cap
    /\ rate' \in Rates \ {rate} /\ (cap > 0 => rate' \in 1..cap)
    /\ level' = IF rate = 0 THEN BurstOf[rate'] ELSE Lesser(level, BurstOf[rate'])

Bucket == BucketInit /\ [][Fill \/ Take \/ Change]_<<cap, rate, level>>
=============================================================================
