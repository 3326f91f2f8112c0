---------------------------- MODULE MeasureServer ----------------------------
(***************************************************************************)
(* The TCP side of pkg/fbmeasure: Server with its accept loop, a handler   *)
(* per connection, Serve and Close, and at the other end of a connection   *)
(* either Client.ProbeTCP or a stranger that sends nothing, or something   *)
(* that is no frame.  The loop for UDP is here only as one of the          *)
(* goroutines that Serve waits for; its probes are in MeasureUDP.          *)
(*                                                                         *)
(* A conversation has at most one frame under way, so `wire' holds it.     *)
(***************************************************************************)
EXTENDS Naturals, FiniteSets

CONSTANTS
    Probers, Strangers,   \* connections of ProbeTCP, and of others
    MaxTCPConnections,    \* capacity of connSem
    MaxTCPFrames,         \* frames a handler answers
    SampleCount           \* frames ProbeTCP sends

Conns == Probers \cup Strangers

ASSUME MeasureServerAssumption ==
    /\ IsFiniteSet(Conns) /\ Probers \cap Strangers = {}
    /\ MaxTCPConnections \in Nat \ {0} /\ MaxTCPFrames \in Nat \ {0} /\ SampleCount \in Nat \ {0}
    /\ SampleCount <= MaxTCPFrames
    /\ Conns \cap {"off", "accepting", "returned"} = {}

VARIABLES
    serve,     \* Serve: idle, serving, waiting (for serveWait), returned
    closeStep,   \* Close: open, swept (past its critical section), closed (the sockets are closed)
    ctxDone,   \* the context given to Serve
    acceptor,  \* acceptLoop: off, accepting, returned, or the connection it has accepted
    udpLoop,   \* serveUDP: off, reading, returned
    handler,   \* per connection: none, backlog, accepted, looping (at the top of handleTCP's loop),
               \* reading, leaving (token given back), ended
    frames,    \* per connection: frames its handler has answered, while it runs
    shut,      \* per connection: why the server has closed its socket, if it has
    connSem,   \* tokens taken
    conns,    \* Server.conns
    peer,      \* per connection: idle, sending, reading, reachable, failed
    samples,   \* per connection: echoes ProbeTCP has measured, while it runs
    wire       \* per connection: none, frame, junk (to the server), echo (to the peer)

serverVars == <<serve, closeStep, ctxDone, acceptor, udpLoop, handler, frames, shut, connSem, conns>>
peerVars == <<peer, samples, wire>>
measureServerVars == <<serverVars, peerVars>>

Over == {"reachable", "failed"}

MeasureServerTypeOK ==
    /\ serve \in {"idle", "serving", "waiting", "returned"}
    /\ closeStep \in {"open", "swept", "closed"}
    /\ ctxDone \in BOOLEAN
    /\ acceptor \in {"off", "accepting", "returned"} \cup Conns
    /\ udpLoop \in {"off", "reading", "returned"}
    /\ handler \in [Conns -> {"none", "backlog", "accepted", "looping", "reading", "leaving", "ended"}]
    /\ frames \in [Conns -> 0..MaxTCPFrames]
    /\ shut \in [Conns -> {"", "stop", "full", "idle", "left"}] /\ conns \subseteq Conns
    /\ connSem \in 0..MaxTCPConnections
    /\ peer \in [Conns -> {"idle", "sending", "reading"} \cup Over]
    /\ samples \in [Conns -> 0..SampleCount]
    /\ wire \in [Conns -> {"none", "frame", "junk", "echo"}]

\* NewServer has bound both sockets.
MeasureServerInit ==
    /\ serve = "idle" /\ closeStep = "open" /\ ctxDone = FALSE
    /\ acceptor = "off" /\ udpLoop = "off"
    /\ handler = [c \in Conns |-> "none"] /\ frames = [c \in Conns |-> 0]
    /\ shut = [c \in Conns |-> ""] /\ connSem = 0 /\ conns = {}
    /\ peer = [c \in Conns |-> "idle"] /\ samples = [c \in Conns |-> 0]
    /\ wire = [c \in Conns |-> "none"]

Shut(cs, why) == [c \in Conns |-> IF c \in cs /\ shut[c] = "" THEN why ELSE shut[c]]

-----------------------------------------------------------------------------
(* Serve and Close.                                                        *)

\* Serve refuses a closed server and otherwise starts its two loops.
ServeBegins ==
    /\ serve = "idle"
    /\ IF closeStep # "open"
       THEN serve' = "returned" /\ UNCHANGED <<acceptor, udpLoop>>
       ELSE serve' = "serving" /\ acceptor' = "accepting" /\ udpLoop' = "reading"
    /\ UNCHANGED <<closeStep, ctxDone, handler, frames, shut, connSem, conns, peerVars>>

\* The critical section of Close, run once: the connections in conns are closed.
Sweep ==
    /\ closeStep = "open"
    /\ closeStep' = "swept"
    /\ shut' = Shut(conns, "stop")
    /\ UNCHANGED <<serve, ctxDone, acceptor, udpLoop, handler, frames, connSem, conns, peerVars>>

\* The rest of Close: done and both sockets; connections nobody has accepted are reset.
CloseSockets ==
    /\ closeStep = "swept"
    /\ closeStep' = "closed"
    /\ shut' = Shut({c \in Conns : handler[c] = "backlog"}, "stop")
    /\ handler' = [c \in Conns |-> IF handler[c] = "backlog" THEN "ended" ELSE handler[c]]
    /\ UNCHANGED <<serve, ctxDone, acceptor, udpLoop, frames, connSem, conns, peerVars>>

CancelServe ==
    /\ ~ctxDone
    /\ ctxDone' = TRUE
    /\ UNCHANGED <<serve, closeStep, acceptor, udpLoop, handler, frames, shut, connSem, conns, peerVars>>

\* Serve's select has woken up and its own Close has returned: it waits for the goroutines.
ServeWaits ==
    /\ serve = "serving" /\ closeStep = "closed"
    /\ serve' = "waiting"
    /\ UNCHANGED <<closeStep, ctxDone, acceptor, udpLoop, handler, frames, shut, connSem, conns, peerVars>>

Holders == {c \in Conns : handler[c] \in {"looping", "reading"}}
Live(c) == c \in Holders \/ handler[c] = "leaving"

\* A WaitGroup that counts only the two loops.
ServeReturnsEarly ==
    /\ serve = "waiting" /\ acceptor = "returned" /\ udpLoop = "returned"
    /\ serve' = "returned"
    /\ UNCHANGED <<closeStep, ctxDone, acceptor, udpLoop, handler, frames, shut, connSem, conns, peerVars>>

\* serveWait counts both loops and every handler.
ServeReturns ==
    /\ serve = "waiting" /\ acceptor = "returned" /\ udpLoop = "returned"
    /\ \A c \in Conns : ~Live(c)
    /\ serve' = "returned"
    /\ UNCHANGED <<closeStep, ctxDone, acceptor, udpLoop, handler, frames, shut, connSem, conns, peerVars>>

\* Whoever calls Close: its owner at any time, Serve once its context is done.
CloseBySignal == ctxDone /\ serve = "serving" /\ Sweep

-----------------------------------------------------------------------------
(* The loops.  Both wake up every half second to look at the context.      *)

UDPLoopReturns ==
    /\ udpLoop = "reading" /\ (ctxDone \/ closeStep = "closed")
    /\ udpLoop' = "returned"
    /\ UNCHANGED <<serve, closeStep, ctxDone, acceptor, handler, frames, shut, connSem, conns, peerVars>>

Accept(c) ==
    /\ acceptor = "accepting" /\ handler[c] = "backlog"
    /\ acceptor' = c
    /\ handler' = [handler EXCEPT ![c] = "accepted"]
    /\ UNCHANGED <<serve, closeStep, ctxDone, udpLoop, frames, shut, connSem, conns, peerVars>>

\* The accepted connection gets a token, an entry and a handler, or is closed.
Admit ==
    /\ acceptor \in Conns
    /\ acceptor' = "accepting"
    /\ IF connSem < MaxTCPConnections
       THEN /\ connSem' = connSem + 1
            /\ conns' = conns \cup {acceptor}
            /\ handler' = [handler EXCEPT ![acceptor] = "looping"]
            /\ UNCHANGED shut
       ELSE /\ shut' = Shut({acceptor}, "full")
            /\ handler' = [handler EXCEPT ![acceptor] = "ended"]
            /\ UNCHANGED <<connSem, conns>>
    /\ UNCHANGED <<serve, closeStep, ctxDone, udpLoop, frames, peerVars>>

AcceptorReturns ==
    /\ acceptor = "accepting" /\ (ctxDone \/ closeStep = "closed")
    /\ acceptor' = "returned"
    /\ UNCHANGED <<serve, closeStep, ctxDone, udpLoop, handler, frames, shut, connSem, conns, peerVars>>

-----------------------------------------------------------------------------
(* handleTCP and the deferred calls around it.                             *)

HandlerLeaves(c, why) ==
    /\ handler' = [handler EXCEPT ![c] = "leaving"]
    /\ shut' = Shut({c}, why)
    /\ connSem' = connSem - 1
    /\ wire' = [wire EXCEPT ![c] = IF @ = "echo" THEN @ ELSE "none"]
    /\ frames' = [frames EXCEPT ![c] = 0]
    /\ UNCHANGED <<serve, closeStep, ctxDone, acceptor, udpLoop, conns, peer, samples>>

\* All frames answered, or the context is done; otherwise the idle deadline is set and the read begins.
LoopTop(c) ==
    /\ handler[c] = "looping"
    /\ IF ctxDone \/ frames[c] = MaxTCPFrames
       THEN HandlerLeaves(c, IF ctxDone THEN "stop" ELSE "left")
       ELSE /\ handler' = [handler EXCEPT ![c] = "reading"]
            /\ UNCHANGED <<serve, closeStep, ctxDone, acceptor, udpLoop, frames, shut, connSem, conns, peerVars>>

Echo(c) ==
    /\ handler[c] = "reading" /\ wire[c] = "frame" /\ shut[c] = ""
    /\ handler' = [handler EXCEPT ![c] = "looping"]
    /\ frames' = [frames EXCEPT ![c] = @ + 1]
    /\ wire' = [wire EXCEPT ![c] = "echo"]
    /\ UNCHANGED <<serve, closeStep, ctxDone, acceptor, udpLoop, shut, connSem, conns, peer, samples>>

\* A closed socket, junk, or the end of the stream.
ReadFails(c) ==
    /\ handler[c] = "reading"
    /\ shut[c] # "" \/ wire[c] = "junk" \/ (peer[c] \in Over /\ wire[c] # "frame")
    /\ HandlerLeaves(c, "left")

\* No deadline once the server is closed.
IdleOutWhileOpen(c) ==
    /\ handler[c] = "reading" /\ wire[c] # "frame" /\ closeStep = "open"
    /\ HandlerLeaves(c, "idle")

\* tcpIdleTimeout has passed without a frame.
IdleOut(c) ==
    /\ handler[c] = "reading" /\ wire[c] # "frame"
    /\ HandlerLeaves(c, "idle")

\* The last deferred call: the entry goes.
HandlerEnds(c) ==
    /\ handler[c] = "leaving"
    /\ handler' = [handler EXCEPT ![c] = "ended"]
    /\ conns' = conns \ {c}
    /\ UNCHANGED <<serve, closeStep, ctxDone, acceptor, udpLoop, frames, shut, connSem, peerVars>>

-----------------------------------------------------------------------------
(* The other end.                                                          *)

\* DialContext succeeds while the listener is open, Serve or no Serve.
Dial(c) ==
    /\ peer[c] = "idle" /\ closeStep # "closed"
    /\ peer' = [peer EXCEPT ![c] = "sending"]
    /\ handler' = [handler EXCEPT ![c] = "backlog"]
    /\ UNCHANGED <<serve, closeStep, ctxDone, acceptor, udpLoop, frames, shut, connSem, conns, samples, wire>>

\* ProbeTCP returns: reachable with at least one of n samples.
Finish(c, n) ==
    /\ peer' = [peer EXCEPT ![c] = IF n > 0 THEN "reachable" ELSE "failed"]
    /\ samples' = [samples EXCEPT ![c] = 0]

DialFails(c) ==
    /\ peer[c] = "idle" /\ closeStep = "closed"
    /\ Finish(c, samples[c])
    /\ UNCHANGED <<serverVars, wire>>

\* A write to a socket that the other end has closed may still succeed.
SendFrame(c) ==
    /\ c \in Probers /\ peer[c] = "sending"
    /\ peer' = [peer EXCEPT ![c] = "reading"]
    /\ wire' = [wire EXCEPT ![c] = IF shut[c] # "" THEN "none" ELSE "frame"]
    /\ UNCHANGED <<serverVars, samples>>

SendJunk(c) ==
    /\ c \in Strangers /\ peer[c] = "sending"
    /\ peer' = [peer EXCEPT ![c] = "reading"]
    /\ wire' = [wire EXCEPT ![c] = IF shut[c] # "" THEN "none" ELSE "junk"]
    /\ UNCHANGED <<serverVars, samples>>

\* The echo equals the frame: one more sample, and the next frame or the result.
ReadEcho(c) ==
    /\ peer[c] = "reading" /\ wire[c] = "echo"
    /\ wire' = [wire EXCEPT ![c] = "none"]
    /\ IF samples[c] + 1 = SampleCount
       THEN Finish(c, SampleCount)
       ELSE peer' = [peer EXCEPT ![c] = "sending"] /\ samples' = [samples EXCEPT ![c] = @ + 1]
    /\ UNCHANGED serverVars

PeerFails(c) ==
    /\ peer[c] \in {"sending", "reading"} /\ wire[c] # "echo" /\ shut[c] # ""
    /\ Finish(c, samples[c])
    /\ UNCHANGED <<serverVars, wire>>

\* The operation's deadline; a stranger goes away when it likes.
PeerGivesUp(c) ==
    /\ peer[c] \in {"sending", "reading"}
    /\ Finish(c, samples[c])
    /\ UNCHANGED <<serverVars, wire>>

HandlerStep(c) == LoopTop(c) \/ Echo(c) \/ ReadFails(c) \/ IdleOut(c) \/ HandlerEnds(c)
ServeStep == ServeWaits \/ ServeReturns \/ CloseSockets \/ CloseBySignal
AcceptorStep == Admit \/ AcceptorReturns \/ \E c \in Conns : Accept(c)
ServerStep == ServeStep \/ AcceptorStep \/ UDPLoopReturns \/ \E c \in Conns : HandlerStep(c)

MeasureServerNext ==
    \/ ServeBegins \/ Sweep \/ CancelServe \/ ServerStep
    \/ \E c \in Conns : Dial(c) \/ DialFails(c) \/ SendFrame(c) \/ SendJunk(c) \/ ReadEcho(c)
                          \/ PeerFails(c) \/ PeerGivesUp(c)

ServerSpec == MeasureServerInit /\ [][MeasureServerNext]_measureServerVars

-----------------------------------------------------------------------------
(* Properties.                                                             *)

\* connSem counts the handlers that have not given their token back (acceptLoop), and a
\* returned Serve leaves no handler, no token and no entry in Server.conns behind, whatever
\* Close and the accept loop did at the same time.
ServerLeavesNothing ==
    /\ connSem = Cardinality(Holders)
    /\ conns = {c \in Conns : Live(c)}
    /\ serve = "returned" => conns = {} /\ acceptor \notin Conns

\* A probe under way never finds that its handler has simply left: handleTCP answers as many
\* frames as ProbeTCP sends, and what it closes before is a connection too many, a stopping
\* server's, or one that was idle for too long.
ProbesAreAnswered ==
    \A c \in Probers : shut[c] = "left" => peer[c] \in Over \/ wire[c] = "echo"

\* A server that has been told to stop is never stuck before Serve returns, whatever its peers do
\* or leave undone: a connection accepted before Close and listed after it is not among the ones
\* Close closes, and its idle deadline (tcpIdleTimeout) ends it.
StopIsNeverStuck ==
    serve \in {"serving", "waiting"} /\ (ctxDone \/ closeStep # "open") => ENABLED ServerStep

\* Nobody is left hanging: no probe by a handler that leaves (ProbesAreAnswered), no Serve that
\* was told to stop (StopIsNeverStuck).
NobodyHangs == ProbesAreAnswered /\ StopIsNeverStuck
=============================================================================
