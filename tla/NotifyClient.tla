----------------------------- MODULE NotifyClient -----------------------------
(***************************************************************************)
(* The webhook client of internal/notify/client.go: Emit puts an event in  *)
(* a bounded queue or drops it, one goroutine sends the events in turn,    *)
(* with retries, and Close ends it.  The callers of Emit are the timer     *)
(* callbacks of the alert policy and the SendTestNotification RPC; neither *)
(* waits for an answer.                                                    *)
(***************************************************************************)
EXTENDS Naturals

CONSTANTS
    QueueSize,      \* capacity of Client.queue
    MaxAttempts,    \* maxAttempts
    MaxEvents       \* bound: calls of Emit

ASSUME NotifyClientAssumption ==
    QueueSize \in Nat \ {0} /\ MaxAttempts \in Nat \ {0} /\ MaxEvents \in Nat

VARIABLES
    clientClosed, events,    \* Client.closed; the number of events in Client.queue
    attempt,                 \* the attempt send is at, 0 when it has no event
    emitted, refused,        \* calls of Emit; those that Submit refused because closed
    dropped, success, failed, \* the webhook metrics
    closing                  \* Client.Close: not called, waiting, returned nil, returned ctx.Err

clientVars == <<clientClosed, events, attempt, emitted, refused, dropped, success, failed, closing>>

ClientTypeOK ==
    /\ clientClosed \in BOOLEAN
    /\ events \in 0..QueueSize
    /\ attempt \in 0..MaxAttempts
    /\ emitted \in 0..MaxEvents /\ refused \in 0..MaxEvents /\ dropped \in 0..MaxEvents
    /\ success \in 0..MaxEvents /\ failed \in 0..MaxEvents
    /\ closing \in {"no", "waiting", "done", "expired"}

ClientInit ==
    /\ clientClosed = FALSE /\ events = 0 /\ attempt = 0
    /\ emitted = 0 /\ refused = 0 /\ dropped = 0 /\ success = 0 /\ failed = 0
    /\ closing = "no"

\* Emit and Submit: refused once closed, queued if there is room, else dropped.
Submit ==
    /\ emitted < MaxEvents
    /\ emitted' = emitted + 1
    /\ IF clientClosed THEN refused' = refused + 1 /\ UNCHANGED <<events, dropped>>
       ELSE IF events < QueueSize THEN events' = events + 1 /\ UNCHANGED <<refused, dropped>>
       ELSE dropped' = dropped + 1 /\ UNCHANGED <<refused, events>>
    /\ UNCHANGED <<clientClosed, attempt, success, failed, closing>>

\* run receives the next event and send begins its first attempt.
SendBegins ==
    /\ attempt = 0 /\ events > 0
    /\ events' = events - 1 /\ attempt' = 1
    /\ UNCHANGED <<clientClosed, emitted, refused, dropped, success, failed, closing>>

\* A 2xx answer.
AttemptSucceeds ==
    /\ attempt > 0
    /\ success' = success + 1 /\ attempt' = 0
    /\ UNCHANGED <<clientClosed, events, emitted, refused, dropped, failed, closing>>

\* An answer below 500, or the request cannot be built.
AttemptRefused ==
    /\ attempt > 0
    /\ failed' = failed + 1 /\ attempt' = 0
    /\ UNCHANGED <<clientClosed, events, emitted, refused, dropped, success, closing>>

AttemptErrsUncounted ==
    /\ attempt > 0
    /\ attempt' = IF attempt < MaxAttempts THEN attempt + 1 ELSE 0
    /\ UNCHANGED <<clientClosed, events, emitted, refused, dropped, success, failed, closing>>

\* A transport error or a 5xx answer: the next attempt after retryDelay, unless this was the
\* last one or send's context ends while it waits.
AttemptErrs ==
    /\ attempt > 0
    /\ \/ /\ attempt < MaxAttempts
          /\ attempt' = attempt + 1 /\ UNCHANGED failed
       \/ attempt' = 0 /\ failed' = failed + 1
    /\ UNCHANGED <<clientClosed, events, emitted, refused, dropped, success, closing>>

Send == SendBegins \/ AttemptSucceeds \/ AttemptRefused \/ AttemptErrs

CloseClient ==
    /\ closing = "no"
    /\ clientClosed' = TRUE /\ closing' = "waiting"
    /\ UNCHANGED <<events, attempt, emitted, refused, dropped, success, failed>>

\* run has left its loop, so that wg.Wait returns.
SenderDone == clientClosed /\ events = 0 /\ attempt = 0

\* Close returns when the sender is done, or when its context ends; the sender then goes on.
CloseReturns ==
    /\ closing = "waiting"
    /\ closing' \in IF SenderDone THEN {"done", "expired"} ELSE {"expired"}
    /\ UNCHANGED <<clientClosed, events, attempt, emitted, refused, dropped, success, failed>>

ClientNext == Submit \/ Send \/ CloseClient \/ CloseReturns

ClientSpec == ClientInit /\ [][ClientNext]_clientVars

\* The sender goroutine runs and every attempt ends: send's context bounds it.  Attempts that
\* fail may all fail.
ClientFairness == WF_clientVars(Send) /\ WF_clientVars(CloseReturns)

-----------------------------------------------------------------------------
(* Properties.                                                             *)

\* Every event given to Emit is in the queue, with the sender, or counted exactly once.
EventsAccounted ==
    emitted = refused + dropped + success + failed + events + (IF attempt > 0 THEN 1 ELSE 0)

\* When Close returns nil nothing is left to send; nothing is queued after Close was called.
CloseIsComplete ==
    [][/\ closing' = "done" => events' = 0 /\ attempt' = 0
       /\ clientClosed => events' <= events]_clientVars

=============================================================================
