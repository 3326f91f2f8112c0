---------------------------- MODULE RequestLimits ----------------------------
(***************************************************************************)
(* How many requests the HTTP listener serves: control.rateLimiter, a      *)
(* bucket per client address in front of the control RPC, with a sweep     *)
(* that forgets idle clients; and flowcontext.identityRateLimiter, a       *)
(* fixed window per backend identity.  One tick is the time in which a     *)
(* client earns PerTick requests.                                          *)
(***************************************************************************)
EXTENDS Naturals

CONSTANTS
    Clients, Watched,               \* addresses, and any one of them
    PerTick, RPCBurst, TTL,         \* rpcRatePerSecond, rpcRateBurst, rpcRateTTL
    Backends, WindowBurst, Window,  \* identities; RateLimitBurst, RateLimitWindow
    Unknown

\* 5 requests a second for 5 minutes fill a bucket of 10 many times over.
ASSUME LimitsAssumption ==
    /\ Watched \in Clients
    /\ PerTick \in Nat \ {0} /\ RPCBurst \in Nat \ {0} /\ TTL \in Nat /\ TTL * PerTick >= RPCBurst
    /\ WindowBurst \in Nat \ {0} /\ Window \in Nat \ {0}
    /\ Unknown \notin [tokens : Nat, idle : Nat] /\ Unknown \notin [age : Nat, count : Nat]

VARIABLES
    clients,   \* rateLimiter.clients: tokens, and ticks since `last'
    reply,     \* of the last control request
    windows,   \* identityRateLimiter.entries: ticks since `started', and the count
    admitted   \* history: requests of each backend admitted in the last k ticks, for each k

limitVars == <<clients, reply, windows, admitted>>

LimitsTypeOK ==
    /\ clients \in [Clients -> [tokens : 0..RPCBurst, idle : 0..(TTL + 1)] \cup {Unknown}]
    /\ reply \in {Unknown, 200, 400, 401, 405, 413, 429}
    /\ windows \in [Backends -> [age : 0..Window, count : 1..WindowBurst] \cup {Unknown}]
    /\ admitted \in [Backends -> [0..Window -> Nat]]

LimitsInit ==
    /\ clients = [c \in Clients |-> Unknown]
    /\ reply = Unknown
    /\ windows = [b \in Backends |-> Unknown]
    /\ admitted = [b \in Backends |-> [k \in 0..Window |-> 0]]

Lower(a, b) == IF a < b THEN a ELSE b
Tokens(c) == Lower(RPCBurst, clients[c].tokens + clients[c].idle * PerTick)
Forgotten(c) == clients[c] = Unknown \/ clients[c].idle > TTL

\* rateLimiter.Allow: its answer, and the bucket it leaves.
Allow(c) == Forgotten(c) \/ Tokens(c) >= 1

Charge(c) ==
    clients' = [clients EXCEPT ![c] =
        [tokens |-> IF Forgotten(c) THEN RPCBurst - 1 ELSE IF Tokens(c) >= 1 THEN Tokens(c) - 1 ELSE Tokens(c),
         idle |-> 0]]

\* handleRPC: the limiter before the token, then the method, the size, the
\* body and the name of the call; `fault' is the first of these that is wrong.
HandleRPC(c, fault) ==
    /\ Charge(c)
    /\ reply' = IF ~Allow(c) THEN 429 ELSE fault
    /\ UNCHANGED <<windows, admitted>>

\* A sweep that forgets the busy clients too.
SweepAll ==
    /\ \E c \in Clients : clients[c] # Unknown
    /\ clients' = [c \in Clients |-> Unknown]
    /\ UNCHANGED <<reply, windows, admitted>>

\* SweepExpired forgets every client that has been idle for longer than the TTL.
SweepExpired ==
    /\ \E c \in Clients : clients[c] # Unknown /\ Forgotten(c)
    /\ clients' = [c \in Clients |-> IF Forgotten(c) THEN Unknown ELSE clients[c]]
    /\ UNCHANGED <<reply, windows, admitted>>

NewWindow(b) == windows[b] # Unknown => windows[b].age >= Window

\* identityRateLimiter.Allow
AdmitBackend(b) ==
    /\ ~NewWindow(b) => windows[b].count < WindowBurst
    /\ windows' = [windows EXCEPT ![b] = IF NewWindow(b) THEN [age |-> 0, count |-> 1]
                                         ELSE [windows[b] EXCEPT !.count = @ + 1]]
    /\ admitted' = [admitted EXCEPT ![b] = [k \in 0..Window |-> IF k = 0 THEN 0 ELSE admitted[b][k] + 1]]
    /\ UNCHANGED <<clients, reply>>

LimitsTick ==
    /\ clients' = [c \in Clients |-> IF clients[c] = Unknown THEN Unknown
                                     ELSE [clients[c] EXCEPT !.idle = Lower(@ + 1, TTL + 1)]]
    /\ windows' = [b \in Backends |-> IF windows[b] = Unknown THEN Unknown
                                      ELSE [windows[b] EXCEPT !.age = Lower(@ + 1, Window)]]
    /\ admitted' = [b \in Backends |-> [k \in 0..Window |-> IF k = 0 THEN 0 ELSE admitted[b][k - 1]]]
    /\ UNCHANGED reply

LimitsNext ==
    \/ SweepExpired \/ LimitsTick
    \/ \E c \in Clients, fault \in {200, 400, 401, 405, 413} : HandleRPC(c, fault)
    \/ \E b \in Backends : AdmitBackend(b)

LimitsSpec == LimitsInit /\ [][LimitsNext]_limitVars

---------------------------------------------------------------------------
(* Properties *)

ClientBucket == INSTANCE TokenBucket WITH
    Rates <- {PerTick}, BurstOf <- [r \in {PerTick} |-> RPCBurst], cap <- PerTick, rate <- PerTick,
    level <- IF Forgotten(Watched) THEN RPCBurst ELSE Tokens(Watched)

\* Every client (Watched is any of them) gets what one bucket allows:
\* forgetting a client, by the sweep or by its next request, gives it nothing
\* it had not earned.
ClientsHaveOneBucket == ClientBucket!Bucket

\* In any Window ticks a backend has at most two windows' worth of requests
\* admitted (the window is fixed, not sliding).
TwoWindowsAtMost ==
    \A b \in Backends : admitted[b][Window] <= 2 * WindowBurst

\* Nobody is served more than the limit of the listener (control.rateLimiter) or of its
\* identity (identityRateLimiter) allows, whatever is forgotten and whenever windows begin.
LimitsHold == ClientsHaveOneBucket /\ []TwoWindowsAtMost
=============================================================================
