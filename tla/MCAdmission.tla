----------------------------- MODULE MCAdmission -----------------------------
(***************************************************************************)
(* Admission with online rules and the persistent policy; and, each        *)
(* explored on its own because it shares no step with the others, the      *)
(* online rules, the GeoIP manager, and the fbmeasure server with its TCP  *)
(* and its UDP probes.                                                     *)
(***************************************************************************)
EXTENDS Admission, GeoIPManager, MeasureServer, MeasureUDP

VARIABLES
    part,   \* which of them is explored
    moves   \* bound: changes of the rules, the policy and the databases that
            \* are left in the admission part

CONSTANT MaxMoves

fbmeasureVars == <<measureServerVars, udpProbeVars>>
vars == <<admissionVars, geoVars, fbmeasureVars, part, moves>>

MCMetas == {[addr |-> "x", protocol |-> "tcp", port |-> 1]}

Matcher(cidr, ip, protocol) == [cidr |-> cidr, ip |-> ip, protocol |-> protocol, port |-> Absent]
Spec(matcher, action, priority, ttl, limit, upstream) ==
    [cidr |-> matcher.cidr, ip |-> matcher.ip, protocol |-> matcher.protocol, port |-> matcher.port,
     action |-> action, priority |-> priority, ttl |-> ttl, limit |-> limit, upstream |-> upstream]

\* A deny by network, a rate limit that outranks it, an override, and three
\* that the validator refuses: no matcher, two sources, no lifetime.
MCSpecs == {Spec(Matcher({"x"}, Absent, Absent), "deny", 0, 2, Absent, Absent),
            Spec(Matcher(Absent, Absent, "tcp"), "rate_limit", 1, 1, 5, Absent),
            Spec(Matcher(Absent, "x", Absent), "route_override", 0, 1, Absent, "a"),
            Spec(Matcher(Absent, Absent, Absent), "deny", 0, 1, Absent, Absent),
            Spec(Matcher({"x"}, "x", Absent), "deny", 0, 1, Absent, Absent),
            Spec(Matcher({"x"}, Absent, Absent), "deny", 0, 0, Absent, Absent)}

FwRule(id, action, cidr, asn, country) == [id |-> id, action |-> action, cidr |-> cidr, asn |-> asn, country |-> country]
Doc(default, rules) == [default |-> default, rules |-> rules]

\* A document by AS number, one by country with an allow before a deny of the
\* same client, and one with a rule that has two matchers.
MCDocs == {Doc("allow", <<FwRule("r", "deny", Unset, 1, Unset)>>),
           Doc("deny", <<FwRule("r", "allow", Unset, Unset, "c"), FwRule("s", "deny", {"x"}, Unset, Unset)>>),
           Doc("allow", <<FwRule("r", "deny", {"x"}, 1, Unset)>>)}
MCLegacyDoc == Doc("allow", <<FwRule("legacy-rule-1", "deny", {"x"}, Unset, Unset)>>)

MCASNOf == [a \in {"x"} |-> 1]
MCCountryOf == [a \in {"x"} |-> "c"]

GeoIdle == readers = NoReaders /\ opened = {} /\ used = {} /\ reload = IdleSwap /\ closer = IdleSwap /\ lookup = [l \in Lookups |-> IdleLookup]
AdmissionIdle ==
    /\ OnlineInit /\ mode = "disabled" /\ file = Unreadable /\ installing = Unset
    /\ Installed(AllowAll, "disabled", FALSE) /\ geo = {} /\ flow = Idle

Init ==
    /\ MeasureServerInit /\ UDPProbeInit
    /\ \/ part = "admission" /\ moves = MaxMoves /\ AdmissionInit /\ GeoIdle
       \/ part \in {"rules", "measure server", "udp probe"} /\ moves = 0 /\ AdmissionIdle /\ GeoIdle
       \/ part = "geoip" /\ moves = 0 /\ AdmissionIdle /\ GeoInit

Moves == moves > 0 /\ moves' = moves - 1

Next ==
    /\ UNCHANGED part
    /\ \/ /\ part = "admission" /\ UNCHANGED <<geoVars, fbmeasureVars>>
          /\ \/ FlowNext /\ UNCHANGED moves
             \/ PolicyNext /\ Moves
       \/ /\ part = "rules" /\ UNCHANGED <<fwVars, geo, flow, geoVars, fbmeasureVars, moves>>
          /\ OnlineNext
       \/ /\ part = "geoip" /\ UNCHANGED <<admissionVars, fbmeasureVars, moves>>
          /\ GeoNext
       \/ /\ UNCHANGED <<admissionVars, geoVars, moves>>
          /\ \/ part = "measure server" /\ MeasureServerNext /\ UNCHANGED udpProbeVars
             \/ part = "udp probe" /\ UDPProbeNext /\ UNCHANGED measureServerVars

Specification == Init /\ [][Next]_vars

TypeOK == AdmissionTypeOK /\ GeoTypeOK /\ MeasureServerTypeOK /\ UDPProbeTypeOK
=============================================================================
