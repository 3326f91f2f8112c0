------------------------------ MODULE TCPListener ------------------------------
(***************************************************************************)
(* The TCP listener of internal/forwarding/forward_tcp.go: the accept loop *)
(* with its connection limit, handleConn, the serve loop of a connection   *)
(* and the two goroutines that copy its directions (tcp_copy.go), against  *)
(* the parties that close connections from outside: Block requests of the  *)
(* control plane and Runtime.stop.                                         *)
(*                                                                         *)
(* closeWithReason is three steps: the closed flag, then cancel and the    *)
(* two socket closes, then Lifecycle.Close.                                *)
(***************************************************************************)
EXTENDS Naturals, FiniteSets

CONSTANTS
    Conns,           \* client connections, each accepted at most once
    Requests,        \* Block requests
    MaxConnections,  \* limits.MaxTCPConnections, the capacity of sem
    MaxChunks,       \* bound: chunks read per connection
    MaxStops,        \* bound: executions of Runtime.stop (stopOnce: at most one)
    None

Reason == {"eof", "read_error", "write_error", "context_done", "idle_timeout",
           "backend_blocked", "upstream_unusable"}

ASSUME TCPAssumption ==
    /\ MaxConnections \in Nat \ {0}
    /\ MaxChunks \in Nat
    /\ MaxStops \in {0, 1}
    /\ None \notin Conns \cup Nat \cup Reason \cup {"block", "serve", "stop"}

Directions == {"up", "down"}

VARIABLES
    acceptUp, sem,          \* the accept loop runs; tokens in sem
    stage,                  \* per connection: handleConn and serve
    copy,                   \* per connection and direction: copyDirection
    life,                   \* per connection: Lifecycle.Open, then the steps of closeWithReason
    closer, reason,         \* who won closeWithReason, and with which reason
    controls,               \* connections whose Controls are in the registry
    requests,               \* per Block request: what withControl fetched, then its answer
    activity,               \* connections with a token in activityCh
    read, moved,            \* per connection: chunks read, chunks written
    counter, summary,       \* per connection: Lifecycle's counter and the final summary
    stop, closers, stopConn \* Runtime.stop: step, closers of CloseAll, one in progress

flowVars == <<life, closer, reason>>
dataVars == <<activity, read, moved, counter, summary>>
stopVars == <<stop, closers, stopConn>>
vars == <<acceptUp, sem, stage, copy, flowVars, controls, requests, dataVars, stopVars>>

Stage == {"new", "dial", "controls", "serve", "closing", "wait", "gone"}
CopyState == {"none", "read", "held", "written", "eof", "error", "ctx", "taken"}
Life == {"none", "open", "marked", "severed", "closed"}
StopStep == {"running", "canceled", "closing", "draining", "drained"}

TypeOK ==
    /\ acceptUp \in BOOLEAN
    /\ sem \in 0..MaxConnections
    /\ stage \in [Conns -> Stage]
    /\ copy \in [Conns -> [Directions -> CopyState]]
    /\ life \in [Conns -> Life]
    /\ closer \in [Conns -> {"serve", "block", "stop", None}]
    /\ reason \in [Conns -> Reason \cup {None}]
    /\ controls \subseteq Conns
    /\ requests \in [Requests -> [conn : Conns \cup {None}, answer : {"none", "applied", "refused"}]]
    /\ activity \subseteq Conns
    /\ read \in [Conns -> 0..MaxChunks]
    /\ moved \in [Conns -> 0..MaxChunks]
    /\ counter \in [Conns -> 0..MaxChunks]
    /\ summary \in [Conns -> 0..MaxChunks \cup {None}]
    /\ stop \in StopStep
    /\ closers \subseteq Conns
    /\ stopConn \in Conns \cup {None}

Init ==
    /\ acceptUp = TRUE /\ sem = 0
    /\ stage = [c \in Conns |-> "new"]
    /\ copy = [c \in Conns |-> [d \in Directions |-> "none"]]
    /\ life = [c \in Conns |-> "none"]
    /\ closer = [c \in Conns |-> None]
    /\ reason = [c \in Conns |-> None]
    /\ controls = {}
    /\ requests = [q \in Requests |-> [conn |-> None, answer |-> "none"]]
    /\ activity = {}
    /\ read = [c \in Conns |-> 0] /\ moved = [c \in Conns |-> 0]
    /\ counter = [c \in Conns |-> 0] /\ summary = [c \in Conns |-> None]
    /\ stop = "running" /\ closers = {} /\ stopConn = None

ctxDone == stop # "running"
listenerClosed == stop \in {"draining", "drained"}
\* Mutant: closing leaves the sockets open.
SeveredNever(c) == FALSE
Severed(c) == life[c] \in {"severed", "closed"}

flowCtxDone(c) == ctxDone \/ Severed(c)

Registered(c) == life[c] \in {"open", "marked", "severed"}

Goto(c, from, to) ==
    /\ stage[c] = from
    /\ stage' = [stage EXCEPT ![c] = to]

-----------------------------------------------------------------------------
\* The accept loop of Start and handleConn up to serve.

\* Accepted within the limit, or rejected with tcp_connection_limit.
Accept(c) ==
    /\ acceptUp /\ ~listenerClosed
    /\ IF sem < MaxConnections
       THEN sem' = sem + 1 /\ Goto(c, "new", "dial")
       ELSE UNCHANGED sem /\ Goto(c, "new", "gone")
    /\ UNCHANGED <<acceptUp, copy, flowVars, controls, requests, dataVars, stopVars>>

AcceptExit ==
    /\ acceptUp /\ (listenerClosed \/ ctxDone)
    /\ acceptUp' = FALSE
    /\ UNCHANGED <<sem, stage, copy, flowVars, controls, requests, dataVars, stopVars>>

\* Denied, no upstream, dial failed or cancelled, no identifier: the token goes back.
HandleFail(c) ==
    /\ Goto(c, "dial", "gone")
    /\ sem' = sem - 1
    /\ UNCHANGED <<acceptUp, copy, flowVars, controls, requests, dataVars, stopVars>>

\* Dialled; start registers the flow with Lifecycle.Open.
OpenFlow(c) ==
    /\ Goto(c, "dial", "controls")
    /\ life' = [life EXCEPT ![c] = "open"]
    /\ UNCHANGED <<acceptUp, sem, copy, closer, reason, controls, requests, dataVars, stopVars>>

\* Mutant: the controls are attached to a flow that is not in the registry any more.
SetControlsAlways(c) ==
    /\ Goto(c, "controls", "serve")
    /\ controls' = controls \cup {c}
    /\ copy' = [copy EXCEPT ![c] = [d \in Directions |-> "read"]]
    /\ UNCHANGED <<acceptUp, sem, flowVars, requests, dataVars, stopVars>>

\* SetControls (ignored once unregistered), Bind, and serve starts both copies.
SetControls(c) ==
    /\ Goto(c, "controls", "serve")
    /\ controls' = IF Registered(c) THEN controls \cup {c} ELSE controls
    /\ copy' = [copy EXCEPT ![c] = [d \in Directions |-> "read"]]
    /\ UNCHANGED <<acceptUp, sem, flowVars, requests, dataVars, stopVars>>

-----------------------------------------------------------------------------
\* copyTCP in direction d.

CopyStep(c, d, from, to) ==
    /\ copy[c][d] = from
    /\ copy' = [copy EXCEPT ![c][d] = to]

\* src.Read: a chunk, or EOF, on an open socket.
CopyRead(c, d) ==
    /\ ~Severed(c)
    /\ \/ /\ read[c] < MaxChunks
          /\ CopyStep(c, d, "read", "held")
          /\ read' = [read EXCEPT ![c] = @ + 1]
       \/ /\ CopyStep(c, d, "read", "eof")
          /\ UNCHANGED read
    /\ UNCHANGED <<acceptUp, sem, stage, flowVars, controls, requests,
                   activity, moved, counter, summary, stopVars>>

\* limiter.Wait let the chunk pass and writeAll wrote it.
CopyWrite(c, d) ==
    /\ ~Severed(c)
    /\ CopyStep(c, d, "held", "written")
    /\ moved' = [moved EXCEPT ![c] = @ + 1]
    /\ UNCHANGED <<acceptUp, sem, stage, flowVars, controls, requests,
                   activity, read, counter, summary, stopVars>>

\* Lifecycle.AddAt.
Add(c) == counter' = IF Registered(c) THEN [counter EXCEPT ![c] = @ + 1] ELSE counter

\* onProgress: touch adds to the lifecycle and leaves a token in activityCh.
CopyTouch(c, d) ==
    /\ CopyStep(c, d, "written", "read")
    /\ Add(c)
    /\ activity' = activity \cup {c}
    /\ UNCHANGED <<acceptUp, sem, stage, flowVars, controls, requests,
                   read, moved, summary, stopVars>>

\* Read or write error, at any time from the peer, certain once the sockets are closed.
CopyError(c, d) ==
    /\ CopyStep(c, d, "read", "error") \/ CopyStep(c, d, "held", "error")
    /\ UNCHANGED <<acceptUp, sem, stage, flowVars, controls, requests, dataVars, stopVars>>

\* The context check of the loop, and limiter.Wait interrupted by the context.
CopyContext(c, d) ==
    /\ flowCtxDone(c)
    /\ CopyStep(c, d, "read", "ctx") \/ CopyStep(c, d, "held", "ctx")
    /\ UNCHANGED <<acceptUp, sem, stage, flowVars, controls, requests, dataVars, stopVars>>

-----------------------------------------------------------------------------
\* closeWithReason.

\* Under controlMu: the first caller marks the flow and does the rest.
CloseBegin(c, who, why) ==
    IF life[c] = "open"
    THEN /\ life' = [life EXCEPT ![c] = "marked"]
         /\ closer' = [closer EXCEPT ![c] = who]
         /\ reason' = [reason EXCEPT ![c] = why]
    ELSE UNCHANGED flowVars

\* cancel, client.Close, upstream.Close.
Sever(c) ==
    /\ life[c] = "marked"
    /\ life' = [life EXCEPT ![c] = "severed"]
    /\ UNCHANGED <<acceptUp, sem, stage, copy, closer, reason, controls, requests, dataVars, stopVars>>

\* Lifecycle.Close: unregistered, one summary.
Finalize(c) ==
    /\ life[c] = "severed"
    /\ life' = [life EXCEPT ![c] = "closed"]
    /\ controls' = controls \ {c}
    /\ summary' = [summary EXCEPT ![c] = counter[c]]
    /\ UNCHANGED <<acceptUp, sem, stage, copy, closer, reason, requests,
                   activity, read, moved, counter, stopVars>>

-----------------------------------------------------------------------------
\* serve: one case of its select per action.

\* serve calls closeWithReason: it does the closing itself, or lost and goes on at once.
ServeClose(c, why) ==
    /\ CloseBegin(c, "serve", why)
    /\ Goto(c, "serve", IF life[c] = "open" THEN "closing" ELSE "wait")

Other(d) == IF d = "up" THEN "down" ELSE "up"

\* Mutant: the flow is closed as soon as one direction ends.
ServeEOFFirst(c, d) ==
    /\ CopyStep(c, d, "eof", "taken")
    /\ ServeClose(c, "eof")
    /\ UNCHANGED <<acceptUp, sem, controls, requests, dataVars, stopVars>>

\* A direction ended: half-close its destination; the flow ends with the second one.
ServeEOF(c, d) ==
    /\ CopyStep(c, d, "eof", "taken")
    /\ \/ /\ copy[c][Other(d)] # "taken"
          /\ stage[c] = "serve"
          /\ UNCHANGED <<stage, flowVars>>
       \/ /\ copy[c][Other(d)] = "taken"
          /\ ServeClose(c, "eof")
       \/ ~Severed(c) /\ ServeClose(c, "write_error")   \* closeWrite failed
    /\ UNCHANGED <<acceptUp, sem, controls, requests, dataVars, stopVars>>

\* A direction failed: tcpCopyCloseReason.
ServeError(c, d) ==
    /\ \/ CopyStep(c, d, "error", "taken") /\ \E why \in {"read_error", "write_error"} : ServeClose(c, why)
       \/ CopyStep(c, d, "ctx", "taken") /\ ServeClose(c, "context_done")
    /\ UNCHANGED <<acceptUp, sem, controls, requests, dataVars, stopVars>>

\* Mutant: the loop is left without closing the flow.
ServeContextLeaves(c) ==
    /\ flowCtxDone(c)
    /\ Goto(c, "serve", "wait")
    /\ UNCHANGED <<acceptUp, sem, copy, flowVars, controls, requests, dataVars, stopVars>>

ServeContext(c) ==
    /\ flowCtxDone(c)
    /\ ServeClose(c, "context_done")
    /\ UNCHANGED <<acceptUp, sem, copy, controls, requests, dataVars, stopVars>>

\* timer.C: the select may take it also when a token is in activityCh.
ServeIdle(c) ==
    /\ ServeClose(c, "idle_timeout")
    /\ UNCHANGED <<acceptUp, sem, copy, controls, requests, dataVars, stopVars>>

\* The token resets the timer.
ServeActivity(c) ==
    /\ stage[c] = "serve" /\ c \in activity
    /\ activity' = activity \ {c}
    /\ UNCHANGED <<acceptUp, sem, stage, copy, flowVars, controls, requests,
                   read, moved, counter, summary, stopVars>>

\* closeWithReason has returned in serve.
ServeClosed(c) ==
    /\ life[c] = "closed"
    /\ Goto(c, "closing", "wait")
    /\ UNCHANGED <<acceptUp, sem, copy, flowVars, controls, requests, dataVars, stopVars>>

\* waitTCPCopies.
WaitCopy(c, d) ==
    /\ stage[c] = "wait"
    /\ \E r \in {"eof", "error", "ctx"} : CopyStep(c, d, r, "taken")
    /\ UNCHANGED <<acceptUp, sem, stage, flowVars, controls, requests, dataVars, stopVars>>

\* serve, start and handleConn return; <-l.sem.
HandleReturn(c) ==
    /\ \A d \in Directions : copy[c][d] = "taken"
    /\ Goto(c, "wait", "gone")
    /\ sem' = sem - 1
    /\ UNCHANGED <<acceptUp, copy, flowVars, controls, requests, dataVars, stopVars>>

-----------------------------------------------------------------------------
\* Registry.Block: withControl fetches the callback under its lock, runs it unlocked.

BlockLookup(q, c) ==
    /\ requests[q].conn = None /\ c \in controls
    /\ requests' = [requests EXCEPT ![q].conn = c]
    /\ UNCHANGED <<acceptUp, sem, stage, copy, flowVars, controls, dataVars, stopVars>>

\* Mutant: the request is answered with success whoever closed the flow.
BlockAnswerAlways(c) == "applied"

\* The result of closeWithReason("backend_blocked"); a refused request is the API's 409.
BlockAnswer(c) == IF life[c] = "open" THEN "applied" ELSE "refused"

BlockApply(q) ==
    LET c == requests[q].conn IN
    /\ c # None /\ requests[q].answer = "none"
    /\ requests' = [requests EXCEPT ![q].answer = BlockAnswer(c)]
    /\ CloseBegin(c, "block", "backend_blocked")
    /\ UNCHANGED <<acceptUp, sem, stage, copy, controls, dataVars, stopVars>>

-----------------------------------------------------------------------------
\* Runtime.stop: cancel, CloseAll, listener Close, wg.Wait.

Cancel ==
    /\ MaxStops = 1
    /\ stop = "running" /\ stop' = "canceled"
    /\ UNCHANGED <<acceptUp, sem, stage, copy, flowVars, controls, requests, dataVars, closers, stopConn>>

CloseAll ==
    /\ stop = "canceled" /\ stop' = "closing"
    /\ closers' = {c \in Conns : Registered(c)}
    /\ UNCHANGED <<acceptUp, sem, stage, copy, flowVars, controls, requests, dataVars, stopConn>>

CloseAllCall(c) ==
    /\ stop = "closing" /\ stopConn = None /\ c \in closers
    /\ closers' = closers \ {c}
    /\ stopConn' = IF life[c] = "open" THEN c ELSE None
    /\ CloseBegin(c, "stop", "upstream_unusable")
    /\ UNCHANGED <<acceptUp, sem, stage, copy, controls, requests, dataVars, stop>>

CloseAllReturn ==
    /\ stopConn # None /\ life[stopConn] = "closed"
    /\ stopConn' = None
    /\ UNCHANGED <<acceptUp, sem, stage, copy, flowVars, controls, requests, dataVars, stop, closers>>

CloseListener ==
    /\ stop = "closing" /\ closers = {} /\ stopConn = None
    /\ stop' = "draining"
    /\ UNCHANGED <<acceptUp, sem, stage, copy, flowVars, controls, requests, dataVars, closers, stopConn>>

\* wg.Wait: the accept loop and every handleConn.
Drained ==
    /\ stop = "draining" /\ ~acceptUp
    /\ \A c \in Conns : stage[c] \in {"new", "gone"}
    /\ stop' = "drained"
    /\ UNCHANGED <<acceptUp, sem, stage, copy, flowVars, controls, requests, dataVars, closers, stopConn>>

-----------------------------------------------------------------------------
CopyNext(c, d) ==
    \/ CopyRead(c, d) \/ CopyWrite(c, d) \/ CopyTouch(c, d) \/ CopyError(c, d) \/ CopyContext(c, d)

ServeNext(c) ==
    \/ \E d \in Directions : ServeEOF(c, d) \/ ServeError(c, d) \/ WaitCopy(c, d)
    \/ ServeContext(c) \/ ServeActivity(c) \/ ServeClosed(c) \/ HandleReturn(c)

ConnNext(c) ==
    \/ Accept(c) \/ HandleFail(c) \/ OpenFlow(c) \/ SetControls(c)
    \/ \E d \in Directions : CopyNext(c, d)
    \/ ServeNext(c) \/ ServeIdle(c) \/ Sever(c) \/ Finalize(c)

StopNext ==
    \/ CloseAll \/ CloseAllReturn \/ CloseListener \/ Drained
    \/ \E c \in Conns : CloseAllCall(c)

Next ==
    \/ AcceptExit
    \/ \E c \in Conns : ConnNext(c) \/ \E q \in Requests : BlockLookup(q, c)
    \/ \E q \in Requests : BlockApply(q)
    \/ Cancel \/ StopNext

Spec == Init /\ [][Next]_vars

\* Goroutines that can run are scheduled, and a dial ends (its timeout).  A copy
\* stuck in Read or in the limiter is only sure to go on once the flow's sockets
\* are closed or its context is done; peers, timers and requests owe nothing.
Fairness ==
    /\ WF_vars(AcceptExit)
    /\ \A c \in Conns :
        /\ WF_vars(HandleFail(c) \/ OpenFlow(c)) /\ WF_vars(SetControls(c))
        /\ WF_vars(Sever(c)) /\ WF_vars(Finalize(c))
        /\ WF_vars(ServeNext(c))
        /\ \A d \in Directions :
            /\ WF_vars(CopyTouch(c, d))
            /\ WF_vars(Severed(c) /\ (CopyError(c, d) \/ CopyContext(c, d)))
    /\ WF_vars(StopNext)

FairSpec == Spec /\ Fairness

-----------------------------------------------------------------------------
(* "The close transition is exactly-once; a repeated block or a request     *)
(* racing with another close is rejected": at most one Block request is     *)
(* answered as applied, and exactly then the flow's reason is               *)
(* backend_blocked, whoever else was closing it.                            *)
BlockExactlyOnce ==
    \A c \in Conns :
        LET applied == {q \in Requests : requests[q].conn = c /\ requests[q].answer = "applied"} IN
        /\ Cardinality(applied) <= 1
        /\ applied # {} <=> reason[c] = "backend_blocked"

(* "An Update cannot be delivered after Close": the summary is the last     *)
(* counter, although a copy may report a chunk after the flow was closed.   *)
(* And a stream that ends with "eof" lost nothing: both directions were     *)
(* copied to their end, and the summary counts every chunk that was         *)
(* written, although the copies count concurrently with the serve loop.     *)
SummaryIsComplete ==
    \A c \in Conns :
        /\ life[c] = "closed" => summary[c] = counter[c]
        /\ reason[c] = "eof" =>
            /\ \A d \in Directions : copy[c][d] = "taken"
            /\ read[c] = moved[c]
            /\ life[c] = "closed" => summary[c] = moved[c]

(* sem counts the connections being handled, and its token covers the flow: *)
(* when handleConn has returned, and wg counts it no more, its flow is      *)
(* closed or an outside closer is just closing it.                          *)
TokensCoverFlows ==
    /\ sem = Cardinality({c \in Conns : stage[c] \notin {"new", "gone"}})
    /\ \A c \in Conns : stage[c] = "gone" /\ life[c] # "none" =>
        life[c] = "closed" \/ (life[c] \in {"marked", "severed"} /\ closer[c] \in {"block", "stop"})

(* A flow that somebody began to close ends, with both its copies, and      *)
(* gives its token back, also when the copies are blocked in a read, in a   *)
(* write or in the rate limiter; and after Cancel the runtime gets past     *)
(* wg.Wait and no token is left.                                            *)
CloseCompletes ==
    /\ \A c \in Conns : life[c] = "marked" ~> (life[c] = "closed" /\ stage[c] = "gone")
    /\ stop # "running" ~> (stop = "drained" /\ sem = 0)

-----------------------------------------------------------------------------
Lifecycle == INSTANCE FlowLifecycle WITH
    Flows     <- Conns,
    NoSummary <- None,
    opened    <- {c \in Conns : life[c] # "none"},
    closed    <- {c \in Conns : life[c] = "closed"},
    entries   <- {c \in Conns : Registered(c)}

(* A TCP stream is one Flow: with its copies, serve loop and closers it     *)
(* implements the lifecycle of lifecycle.go.                                *)
ImplementsLifecycle == Lifecycle!Spec

=============================================================================
