SPECIFICATION Specification
CONSTANTS
    RuleIds = {1, 2}
    Specs <- MCSpecs
    Metas <- MCMetas
    UpstreamNames = {"a"}
    MaxRules = 1
    MaxOnlineTTL = 2
    Retention = 0
    MaxClock = 2
    Absent = Absent
    Docs <- MCDocs
    LegacyDoc <- MCLegacyDoc
    Unreadable = Unreadable
    Unset = Unset
    MaxGeneration = 2
    ASNOf <- MCASNOf
    CountryOf <- MCCountryOf
    Readers = {r1, r2, r3, r4}
    Lookups = {l1}
    NoReader = NoReader
    MaxMoves = 4
    Probers = {p}
    Strangers = {s}
    MaxTCPConnections = 1
    MaxTCPFrames = 2
    SampleCount = 2
    UDPSamples = 2
    UDPPacketsPerSecond = 2
    MaxProbes = 2
INVARIANTS OnlineRulesAgree StatusNamesEnforced  ServerLeavesNothing NobodyHangs SamplesAreEchoes
 
CHECK_DEADLOCK FALSE
