--------------------------- MODULE ByteRateLimiter ---------------------------
(***************************************************************************)
(* forwarding.byteRateLimiter: the token bucket of one Flow.  Its two copy *)
(* directions wait for tokens (TCP); a datagram tries to take them (UDP);  *)
(* a backend sets and clears an override of the policy's limit.  Tokens    *)
(* are added lazily, when somebody looks, from the time since `last'.      *)
(*                                                                         *)
(* Time is counted in ticks: one millisecond stands for the smallest wait. *)
(* The bucket is BurstWindow ticks of the rate, at least MinBurst.         *)
(***************************************************************************)
EXTENDS Naturals

CONSTANTS
    Limits,      \* rates a policy or a backend may set; 0 is no limit
    Writes,      \* sizes of the reads of a direction and of datagrams
    Waiters,     \* the goroutines that call Wait
    BurstWindow, MinBurst,
    MaxAge,      \* bound: ticks since `last' that are told apart
    MaxCalls     \* bound: calls of the backend

Larger(a, b) == IF a > b THEN a ELSE b
Smaller(a, b) == IF a < b THEN a ELSE b

Burst(rate) == IF rate = 0 THEN 0 ELSE Larger(rate * BurstWindow, MinBurst)

ASSUME LimiterAssumption ==
    /\ 0 \in Limits /\ Limits \subseteq Nat /\ Writes \subseteq Nat \ {0}
    /\ BurstWindow \in Nat /\ MinBurst \in Nat \ {0} /\ MaxAge \in Nat /\ MaxCalls \in Nat
    \* a bucket fills within MaxAge ticks at every rate
    /\ \A r \in Limits \ {0} : MaxAge * r >= Burst(r)

VARIABLES
    protocol,        \* of the Flow
    calls,           \* calls the backend has left
    base, override,  \* the policy's limit and the backend's
    tokens, age,     \* tokens at `last', and the ticks since then
    copier           \* each direction: what is left of its write, the ticks its timer
                     \* has left, and whether the channel it sleeps on is closed

limiterVars == <<protocol, calls, base, override, tokens, age, copier>>

\* recomputeLocked: the backend's limit counts where there is no policy limit
\* or it is the tighter one.
Effective(b, o) == IF b = 0 \/ (o > 0 /\ o < b) THEN o ELSE b
Rate == Effective(base, override)

LimiterTypeOK ==
    /\ protocol \in {"tcp", "udp"} /\ calls \in 0..MaxCalls
    /\ base \in Limits /\ override \in Limits
    /\ tokens \in 0..Burst(Rate) /\ age \in 0..MaxAge
    /\ copier \in [Waiters -> [state : {"idle", "waiting", "sleeping"}, left : Nat, timer : Nat, woken : BOOLEAN]]

IdleCopier == [state |-> "idle", left |-> 0, timer |-> 0, woken |-> FALSE]

\* newByteRateLimiter
LimiterInit ==
    /\ protocol \in {"tcp", "udp"} /\ calls = MaxCalls
    /\ base \in Limits /\ override = 0
    /\ tokens = Burst(base) /\ age = 0
    /\ copier = [d \in Waiters |-> IdleCopier]

\* replenish: what the bucket holds now.
Replenished == Smaller(tokens + age * Rate, Burst(Rate))

\* The bucket is filled again by every call.
RecomputeFull(o) ==
    /\ override' = o /\ tokens' = Burst(Effective(base, o)) /\ age' = 0
    /\ copier' = [d \in Waiters |->
                    [copier[d] EXCEPT !.woken = @ \/ (copier[d].state = "sleeping" /\ Effective(base, o) # Rate)]]
    /\ UNCHANGED <<protocol, base>>

\* recomputeLocked, after replenish, for a new override; the sleepers are
\* woken when the rate or the burst has changed.
Recompute(o) ==
    LET rate == Effective(base, o) IN
    /\ override' = o
    /\ tokens' = IF rate = 0 THEN 0
                 ELSE IF Rate = 0 THEN Burst(rate)
                 ELSE Smaller(Replenished, Burst(rate))
    /\ age' = 0
    /\ copier' = [d \in Waiters |->
                    [copier[d] EXCEPT !.woken = @ \/ (copier[d].state = "sleeping" /\ rate # Rate)]]
    /\ UNCHANGED <<protocol, base>>

BackendCalls == calls > 0 /\ calls' = calls - 1

SetLimitOverride == BackendCalls /\ \E o \in Limits \ {0} : Recompute(o)
ClearLimitOverride == BackendCalls /\ Recompute(0)

\* Try: takes the whole datagram or nothing; without a limit all pass.
TakeDatagram(n) ==
    /\ protocol = "udp" /\ Rate > 0
    /\ age' = 0
    /\ tokens' = IF Replenished < n THEN Replenished ELSE Replenished - n
    /\ UNCHANGED <<protocol, calls, base, override, copier>>

\* Wait: without a limit it returns at once.
WaitBegins(d, n) ==
    /\ protocol = "tcp" /\ copier[d].state = "idle" /\ Rate > 0
    /\ copier' = [copier EXCEPT ![d] = [IdleCopier EXCEPT !.state = "waiting", !.left = n]]
    /\ UNCHANGED <<protocol, calls, base, override, tokens, age>>

\* The whole write is one chunk, however small the bucket is.
ChunkWhole(d) == copier[d].left

Chunk(d) == Smaller(copier[d].left, Burst(Rate))

Ceiling(a, b) == (a + b - 1) \div b
Need(n) == Larger(1, Ceiling(n - Replenished, Rate))

\* waitChunk, one turn: the limit is gone, or a chunk is taken, or the timer
\* is set for the time the missing tokens take.
WaitTurn(d) ==
    /\ copier[d].state = "waiting"
    /\ UNCHANGED <<protocol, calls, base, override>>
    /\ IF Rate = 0
       THEN copier' = [copier EXCEPT ![d] = IdleCopier] /\ UNCHANGED <<tokens, age>>
       ELSE /\ age' = 0
            /\ IF Replenished >= Chunk(d)
               THEN /\ tokens' = Replenished - Chunk(d)
                    /\ copier' = [copier EXCEPT ![d] =
                                    IF copier[d].left = Chunk(d) THEN IdleCopier
                                    ELSE [copier[d] EXCEPT !.left = @ - Chunk(d)]]
               ELSE /\ tokens' = Replenished
                    /\ copier' = [copier EXCEPT ![d].state = "sleeping", ![d].timer = Need(Chunk(d))]

\* The select of waitChunk: the timer has fired or the channel is closed.
Wakes(d) ==
    /\ copier[d].state = "sleeping" /\ (copier[d].timer = 0 \/ copier[d].woken)
    /\ copier' = [copier EXCEPT ![d] = [IdleCopier EXCEPT !.state = "waiting", !.left = copier[d].left]]
    /\ UNCHANGED <<protocol, calls, base, override, tokens, age>>

\* The select of waitChunk: the Flow's context is done.
WaitCancelled(d) ==
    /\ copier[d].state = "sleeping"
    /\ copier' = [copier EXCEPT ![d] = IdleCopier]
    /\ UNCHANGED <<protocol, calls, base, override, tokens, age>>

LimiterTick ==
    /\ age' = Smaller(age + 1, MaxAge)
    /\ copier' = [d \in Waiters |-> [copier[d] EXCEPT !.timer = IF @ = 0 THEN 0 ELSE @ - 1]]
    /\ UNCHANGED <<protocol, calls, base, override, tokens>>

CopierStep(d) == WaitTurn(d) \/ Wakes(d)

LimiterNext ==
    \/ SetLimitOverride \/ ClearLimitOverride \/ LimiterTick
    \/ \E n \in Writes : TakeDatagram(n)
    \/ \E d \in Waiters : CopierStep(d) \/ WaitCancelled(d) \/ \E n \in Writes : WaitBegins(d, n)

LimiterSpec == LimiterInit /\ [][LimiterNext]_limiterVars

---------------------------------------------------------------------------
(* Properties *)

Abstract == INSTANCE TokenBucket WITH
    Rates <- Limits, BurstOf <- [r \in Limits |-> Burst(r)], cap <- base, rate <- Rate, level <- Replenished

\* The limiter lets no more through than a bucket that is filled tick by tick:
\* neither looking at it more often, nor setting the same override again,
\* nor sleeping through a change of the rate yields tokens, and a backend
\* "can only tighten the policy limit" (ratelimit.go:38-39).
ImplementsBucket == Abstract!Bucket

\* A direction never sleeps longer than its tokens take at the rate that is
\* in force now: a new rate wakes it.
NeverOversleeps ==
    \A d \in Waiters :
        copier[d].state = "sleeping" /\ ~copier[d].woken => Rate > 0 /\ copier[d].timer <= Need(Chunk(d))

\* A direction that no other one competes with gets its tokens, also for a
\* write larger than the bucket, and also when the limit is changed meanwhile.
LoneCopierProceeds ==
    \A d \in Waiters :
        <>[](\A e \in Waiters \ {d} : copier[e].state = "idle") =>
            (copier[d].state = "waiting" ~> copier[d].state = "idle")

\* The limiter delays nobody for longer than it must: NeverOversleeps, LoneCopierProceeds.
CopiersProceed == []NeverOversleeps /\ LoneCopierProceeds
=============================================================================
