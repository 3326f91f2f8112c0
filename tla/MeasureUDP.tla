------------------------------ MODULE MeasureUDP ------------------------------
(***************************************************************************)
(* The UDP side of pkg/fbmeasure: Client.ProbeUDP, one probe after the     *)
(* other, against Server.serveUDP and its fixed window, over a network     *)
(* that loses, duplicates and reorders datagrams.                          *)
(*                                                                         *)
(* A frame is the probe it belongs to, which stands for its random bytes,  *)
(* and its sequence number.  The network is the set of frames it may still *)
(* deliver: a delivery that keeps the frame is a duplicate to come, a      *)
(* frame that is never delivered is lost.  An echo of an earlier probe can *)
(* reach a later one, whose socket may have been given the same port.      *)
(***************************************************************************)
EXTENDS Naturals, FiniteSets

CONSTANTS
    UDPSamples,           \* sampleCount
    UDPPacketsPerSecond,
    MaxProbes             \* bound: probes made

ASSUME MeasureUDPAssumption == {UDPSamples, UDPPacketsPerSecond, MaxProbes} \subseteq Nat \ {0}

VARIABLES
    probe,      \* ProbeUDP: number, sequence, step, sequences measured, result of the last one
    requests,   \* frames on their way to the server
    echoes,     \* frames on their way back
    window,     \* udpWindowCount
    echoed      \* history: frames the server has answered

udpProbeVars == <<probe, requests, echoes, window, echoed>>

Frame == [probe : 1..MaxProbes, sequence : 0..(UDPSamples - 1)]

UDPProbeTypeOK ==
    /\ probe \in [number : 0..MaxProbes, sequence : 0..UDPSamples, step : {"idle", "writing", "reading"},
                  measured : SUBSET (0..(UDPSamples - 1)), expired : BOOLEAN, canceled : BOOLEAN,
                  result : {"", "reachable", "failed"}]
    /\ requests \subseteq Frame /\ echoes \subseteq Frame /\ echoed \subseteq Frame
    /\ window \in 0..UDPPacketsPerSecond

UDPProbeInit ==
    /\ probe = [number |-> 0, sequence |-> 0, step |-> "idle", measured |-> {},
              expired |-> FALSE, canceled |-> FALSE, result |-> ""]
    /\ requests = {} /\ echoes = {} /\ echoed = {}
    /\ window = 0

Current == [probe |-> probe.number, sequence |-> probe.sequence]

BeginProbe ==
    /\ probe.step = "idle" /\ probe.number < MaxProbes
    /\ probe' = [number |-> probe.number + 1, sequence |-> 0, step |-> "writing", measured |-> {},
                 expired |-> FALSE, canceled |-> FALSE, result |-> ""]
    /\ UNCHANGED <<requests, echoes, window, echoed>>

EndProbe(measured) ==
    [probe EXCEPT !.step = "idle", !.measured = measured,
                  !.result = IF measured # {} THEN "reachable" ELSE "failed"]

\* The next sequence number, unless it was the last or the operation's context is done.
Advance(measured) ==
    IF probe.expired \/ probe.canceled \/ probe.sequence + 1 = UDPSamples
    THEN EndProbe(measured)
    ELSE [probe EXCEPT !.sequence = @ + 1, !.step = "writing", !.measured = measured]

\* The frame goes out; after the deadline the write fails and ends the probe.
WriteFrame ==
    /\ probe.step = "writing"
    /\ IF probe.expired
       THEN probe' = EndProbe(probe.measured) /\ UNCHANGED requests
       ELSE /\ probe' = [probe EXCEPT !.step = "reading"]
            /\ requests' = requests \cup {Current}
    /\ UNCHANGED <<echoes, window, echoed>>

\* Any frame is good enough.
IsEchoOfAny(f) == TRUE

\* decoded = probe
IsEcho(f) == f = Current

\* A frame arrives: the echo it waits for is measured, any other is skipped.
ReadFrame(f, again) ==
    /\ probe.step = "reading" /\ ~probe.expired /\ f \in echoes
    /\ echoes' = IF again THEN echoes ELSE echoes \ {f}
    /\ probe' = IF IsEcho(f) THEN Advance(probe.measured \cup {probe.sequence}) ELSE probe
    /\ UNCHANGED <<requests, window, echoed>>

\* The network has refused a frame: the next sequence number, without a sample.
ReadRefused ==
    /\ probe.step = "reading" /\ ~probe.expired
    /\ probe' = Advance(probe.measured)
    /\ UNCHANGED <<requests, echoes, window, echoed>>

\* The deadline has passed: the read fails and the test of the context ends the probe.
ReadExpired ==
    /\ probe.step = "reading" /\ probe.expired
    /\ probe' = Advance(probe.measured)
    /\ UNCHANGED <<requests, echoes, window, echoed>>

\* The deadline of the operation.
Deadline ==
    /\ probe.step # "idle" /\ ~probe.expired
    /\ probe' = [probe EXCEPT !.expired = TRUE]
    /\ UNCHANGED <<requests, echoes, window, echoed>>

\* The caller's context is cancelled: a read that has begun does not notice.
CancelProbe ==
    /\ probe.step # "idle" /\ ~probe.canceled
    /\ probe' = [probe EXCEPT !.canceled = TRUE]
    /\ UNCHANGED <<requests, echoes, window, echoed>>

-----------------------------------------------------------------------------
(* serveUDP.                                                               *)

Allowed == window < UDPPacketsPerSecond

\* A frame arrives and is answered, if allowUDPPacket allows it.
ServeFrame(f, again) ==
    /\ f \in requests
    /\ requests' = IF again THEN requests ELSE requests \ {f}
    /\ IF Allowed
       THEN /\ echoes' = echoes \cup {f} /\ echoed' = echoed \cup {f}
            /\ window' = window + 1
       ELSE UNCHANGED <<echoes, echoed, window>>
    /\ UNCHANGED probe

\* A second has passed since udpWindowStart.
WindowEnds ==
    /\ window > 0
    /\ window' = 0
    /\ UNCHANGED <<probe, requests, echoes, echoed>>

UDPProbeNext ==
    \/ BeginProbe \/ WriteFrame \/ ReadRefused \/ ReadExpired \/ Deadline \/ CancelProbe \/ WindowEnds
    \/ \E f \in Frame, again \in BOOLEAN : ReadFrame(f, again) \/ ServeFrame(f, again)

UDPProbeSpec == UDPProbeInit /\ [][UDPProbeNext]_udpProbeVars

-----------------------------------------------------------------------------
(* Properties.                                                             *)

\* ProbeUDP measures only what the server has answered for this very probe and sequence number,
\* whatever the network repeats, delays or delivers from an earlier probe.
SamplesAreEchoes ==
    \A s \in probe.measured : [probe |-> probe.number, sequence |-> s] \in echoed
=============================================================================
