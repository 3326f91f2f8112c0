--------------------------- MODULE FirewallPolicy ---------------------------
(***************************************************************************)
(* The persistent policy: policy/provider.go over a policy file that       *)
(* operators edit, policy/validator.go and compiler.go, and the first      *)
(* match evaluator of firewall/engine.go.                                  *)
(*                                                                         *)
(* install publishes the status before the snapshot that decisions read,   *)
(* so a reload takes two steps under reloadMu.                             *)
(***************************************************************************)
EXTENDS Naturals, Sequences, FiniteSets

CONSTANTS
    Docs,           \* contents the policy file may have, valid or not
    LegacyDoc,      \* LegacyDocument: the rules written inline in the config
    Unreadable,     \* a missing, oversized or undecodable file
    Unset,          \* an absent matcher, an unavailable database
    MaxGeneration   \* bound: installs


VARIABLES
    mode,       \* how the provider was configured: disabled, legacy, file
    file,       \* what the policy file holds; none is named in the other modes
    current,    \* Provider.current: the document decisions use
    status,     \* Provider.status
    installing  \* the snapshot Reload is about to store, under reloadMu

fwVars == <<mode, file, current, status, installing>>

AllowAll == [default |-> "allow", rules |-> <<>>]
DenyAll == [default |-> "deny", rules |-> <<>>]
Document == Docs \cup {LegacyDoc, AllowAll, DenyAll}
Snapshot == [doc : Document, generation : 1..MaxGeneration]
State == {"disabled", "legacy", "active", "degraded"}

ASSUME PolicyAssumption ==
    /\ Unreadable \notin Docs /\ MaxGeneration \in Nat \ {0}
    /\ Unset \notin Snapshot

\* The types of the snapshot and of the status.
PolicyFileTypeOK ==
    /\ mode \in {"disabled", "legacy", "file"}
    /\ file \in Docs \cup {Unreadable}
    /\ current \in Snapshot
    /\ status \in [state : State, doc : Document, generation : 1..MaxGeneration, failed : BOOLEAN]
    /\ installing \in Snapshot \cup {Unset}

\* Validate: a default, unique identifiers, and one matcher for each rule.
Validate(doc) ==
    /\ doc.default \in {"allow", "deny"}
    /\ \A i, j \in DOMAIN doc.rules : doc.rules[i].id = doc.rules[j].id => i = j
    /\ \A i \in DOMAIN doc.rules :
           /\ doc.rules[i].action \in {"allow", "deny"}
           /\ Cardinality({k \in {"cidr", "asn", "country"} : doc.rules[i][k] # Unset}) = 1

\* ParseFile and Compile: what a reload or an initial load accepts.
Loadable(content) == content # Unreadable /\ Validate(content)

\* A rule of a validated document against an address.  geo holds what the
\* lookup found; Unset when the database is unavailable or has no answer.
RuleMatches(rule, addr, geo) ==
    \/ rule.cidr # Unset /\ addr \in rule.cidr
    \/ rule.asn # Unset /\ geo.asn = rule.asn
    \/ rule.country # Unset /\ geo.country = rule.country

\* Engine.Decide: the first rule that matches, or the default.
EngineAllows(doc, addr, geo) ==
    LET hits == {i \in DOMAIN doc.rules : RuleMatches(doc.rules[i], addr, geo)} IN
    IF hits = {} THEN doc.default = "allow"
    ELSE \E i \in hits : (\A j \in hits : i <= j) /\ doc.rules[i].action = "allow"

Installed(doc, state, failed) ==
    /\ current = [doc |-> doc, generation |-> 1]
    /\ status = [state |-> state, doc |-> doc, generation |-> 1, failed |-> failed]

\* NewProvider.  Inline rules that do not compile make it fail.  A file that
\* does not load makes it fail too, or, when the configuration says not to
\* fail, installs a policy that denies everything.
PolicyFileInit ==
    /\ file \in Docs \cup {Unreadable} /\ installing = Unset
    /\ \/ mode = "disabled" /\ file = Unreadable /\ Installed(AllowAll, "disabled", FALSE)
       \/ mode = "legacy" /\ file = Unreadable /\ Validate(LegacyDoc) /\ Installed(LegacyDoc, "legacy", FALSE)
       \/ mode = "file" /\ Loadable(file) /\ Installed(file, "active", FALSE)
       \/ mode = "file" /\ ~Loadable(file) /\ Installed(DenyAll, "degraded", TRUE)

\* An operator edits the file.
FileChanges ==
    /\ mode = "file"
    /\ file' \in (Docs \cup {Unreadable}) \ {file}
    /\ UNCHANGED <<mode, current, status, installing>>

\* Reload of a file that loads: install sets the status, generation included.
ReloadReads ==
    /\ mode = "file" /\ installing = Unset
    /\ Loadable(file)
    /\ status.generation < MaxGeneration
    /\ status' = [state |-> "active", doc |-> file, generation |-> status.generation + 1, failed |-> FALSE]
    /\ installing' = [doc |-> file, generation |-> status'.generation]
    /\ UNCHANGED <<mode, file, current>>

\* ... then stores the snapshot.
ReloadStores ==
    /\ installing # Unset
    /\ current' = installing /\ installing' = Unset
    /\ UNCHANGED <<mode, file, status>>

ReloadFailureDrops ==
    /\ mode = "file" /\ installing = Unset
    /\ ~Loadable(file)
    /\ status' = [status EXCEPT !.failed = TRUE, !.doc = AllowAll]
    /\ UNCHANGED <<mode, file, current, installing>>

\* Reload of a file that does not load: only LastError changes.
ReloadRefused ==
    /\ mode = "file" /\ installing = Unset
    /\ ~Loadable(file)
    /\ status' = [status EXCEPT !.failed = TRUE]
    /\ UNCHANGED <<mode, file, current, installing>>

PolicyFileNext == FileChanges \/ ReloadReads \/ ReloadStores \/ ReloadRefused

PolicyFileSpec == PolicyFileInit /\ [][PolicyFileNext]_fwVars
-----------------------------------------------------------------------------
\* What GetFirewallStatus reports is what decisions use, except between the two
\* steps of install, when the status is one generation ahead: no sequence of
\* edits and failed reloads makes the status name a policy never enforced.
StatusNamesEnforced ==
    IF installing = Unset
    THEN status.doc = current.doc /\ status.generation = current.generation
    ELSE status.doc = installing.doc /\ status.generation = current.generation + 1

\* The provider fails closed: while it reports itself degraded, every address
\* is denied, and it stays so until a file that validates is loaded.
DegradedDeniesAll == status.state = "degraded" => current.doc = DenyAll

\* The document decisions use is always a valid one: no edit of the file gets
\* past Validate into the engine.
EnforcedIsValid == Validate(current.doc)
=============================================================================
