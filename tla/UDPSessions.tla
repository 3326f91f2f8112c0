------------------------------ MODULE UDPSessions ------------------------------
(***************************************************************************)
(* What the UDP listener promises about admission: a client address holds  *)
(* at most one session, an IP address at most MaxPerIP of them, and the    *)
(* listener at most MaxMappings; a session, once ended, never comes back.  *)
(* UDPListener implements this specification.                              *)
(***************************************************************************)
EXTENDS Naturals, FiniteSets

CONSTANTS Clients, ClientIP, Flows, MaxMappings, MaxPerIP, None

VARIABLES
    sessions,  \* flows in force
    client     \* client each flow was admitted for, None before

vars == <<sessions, client>>

SessionsOf(ip) == {f \in sessions : ClientIP[client[f]] = ip}

Init == sessions = {} /\ client = [f \in Flows |-> None]

Admit(f, c) ==
    /\ client[f] = None
    /\ \A g \in sessions : client[g] # c
    /\ Cardinality(sessions) < MaxMappings
    /\ Cardinality(SessionsOf(ClientIP[c])) < MaxPerIP
    /\ sessions' = sessions \cup {f}
    /\ client' = [client EXCEPT ![f] = c]

End(f) ==
    /\ f \in sessions
    /\ sessions' = sessions \ {f}
    /\ UNCHANGED client

Next == \E f \in Flows : End(f) \/ \E c \in Clients : Admit(f, c)

Spec == Init /\ [][Next]_vars
=============================================================================
