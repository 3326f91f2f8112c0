---------------------------- MODULE GeoIPManager ----------------------------
(***************************************************************************)
(* geoip/manager.go: the pair of database readers behind an atomic         *)
(* pointer, Reload and Close that replace it, and Lookup that reads it.    *)
(*                                                                         *)
(* Lookup loads the pair once and then asks the ASN and the country reader *)
(* in turn; swapReaders closes the readers it replaced without waiting for *)
(* lookups that hold them.  A closed reader answers with an error, which   *)
(* Lookup drops, leaving the field empty.                                  *)
(***************************************************************************)
EXTENDS Naturals, FiniteSets

CONSTANTS
    Readers,    \* bound: reader handles, one per successful open
    Lookups,    \* concurrent callers of Lookup
    NoReader    \* a nil reader

ASSUME GeoIPAssumption == NoReader \notin Readers

Kinds == {"asn", "country"}
NoReaders == [k \in Kinds |-> NoReader]

VARIABLES
    readers,    \* Manager.readers, the readerSet
    opened,     \* handles opened and not closed
    used,       \* handles ever opened
    reload,     \* Reload's local variables while it holds refreshMu
    closer,     \* Close's local variables
    lookup      \* each lookup: its snapshot, what it has asked, what it got

geoVars == <<readers, opened, used, reload, closer, lookup>>

ReaderSet == [Kinds -> Readers \cup {NoReader}]
Swap == [step : {"idle", "load", "store", "close", "done"}, new : ReaderSet, old : ReaderSet]
Lookup == [step : {"idle", "asn", "country", "done"}, set : ReaderSet, got : SUBSET Kinds]
IdleSwap == [step |-> "idle", new |-> NoReaders, old |-> NoReaders]
IdleLookup == [step |-> "idle", set |-> NoReaders, got |-> {}]

\* The types of the pointer, of the handles and of the callers' locals.
GeoTypeOK ==
    /\ readers \in ReaderSet
    /\ opened \subseteq used /\ used \subseteq Readers
    /\ reload \in Swap /\ closer \in Swap
    /\ lookup \in [Lookups -> Lookup]

Held(set) == {set[k] : k \in Kinds} \ {NoReader}

\* loadLocalReaders: each database that exists and opens is loaded.
GeoInit ==
    \E initial \in ReaderSet :
        /\ initial["asn"] = initial["country"] => initial["asn"] = NoReader
        /\ readers = initial
        /\ opened = Held(initial) /\ used = Held(initial)
        /\ reload = IdleSwap /\ closer = IdleSwap
        /\ lookup = [l \in Lookups |-> IdleLookup]

\* Reload under refreshMu opens both databases.
ReloadOpens ==
    \E a, c \in Readers \ used :
        /\ reload.step = "idle" /\ a # c
        /\ opened' = opened \cup {a, c} /\ used' = used \cup {a, c}
        /\ reload' = [IdleSwap EXCEPT !.step = "load", !.new = [k \in Kinds |-> IF k = "asn" THEN a ELSE c]]
        /\ UNCHANGED <<readers, closer, lookup>>

ReloadFailsLeaking ==
    \E a \in Readers \ used :
        /\ reload.step = "idle"
        /\ used' = used \cup {a} /\ opened' = opened \cup {a}
        /\ UNCHANGED <<readers, reload, closer, lookup>>

\* Reload when the country database does not open: the ASN reader it has just
\* opened is closed again and the readers in use stay.
ReloadFails ==
    \E a \in Readers \ used :
        /\ reload.step = "idle"
        /\ used' = used \cup {a}
        /\ UNCHANGED <<readers, opened, reload, closer, lookup>>

\* Close is swapReaders(nil, nil), without refreshMu.
CloseBegins ==
    /\ closer.step = "idle"
    /\ closer' = [IdleSwap EXCEPT !.step = "load"]
    /\ UNCHANGED <<readers, opened, used, reload, lookup>>

\* swapReaders reads the old pair, stores the new one, then closes the old.
SwapLoads(s) == [s EXCEPT !.step = "store", !.old = readers]
SwapStores(s) == [s EXCEPT !.step = "close"]
SwapCloses(s) == [s EXCEPT !.step = "done"]

ReloadSwaps ==
    /\ UNCHANGED <<used, closer, lookup>>
    /\ \/ reload.step = "load" /\ reload' = SwapLoads(reload) /\ UNCHANGED <<readers, opened>>
       \/ reload.step = "store" /\ reload' = SwapStores(reload) /\ readers' = reload.new /\ UNCHANGED opened
       \/ /\ reload.step = "close" /\ opened' = opened \ Held(reload.old)
          /\ reload' = IdleSwap /\ UNCHANGED readers

CloseSwaps ==
    /\ UNCHANGED <<used, reload, lookup>>
    /\ \/ closer.step = "load" /\ closer' = SwapLoads(closer) /\ UNCHANGED <<readers, opened>>
       \/ closer.step = "store" /\ closer' = SwapStores(closer) /\ readers' = closer.new /\ UNCHANGED opened
       \/ /\ closer.step = "close" /\ opened' = opened \ Held(closer.old)
          /\ closer' = SwapCloses(closer) /\ UNCHANGED readers

\* Lookup loads the pointer once ...
LookupBegins(l) ==
    /\ lookup[l].step = "idle"
    /\ lookup' = [lookup EXCEPT ![l] = [step |-> "asn", set |-> readers, got |-> {}]]
    /\ UNCHANGED <<readers, opened, used, reload, closer>>

\* ... and asks each reader it found; the answer of a closed one is lost.
LookupAsks(l, k, next) ==
    /\ lookup[l].step = k
    /\ lookup' = [lookup EXCEPT ![l] = [step |-> next, set |-> @.set,
                                        got |-> @.got \cup (IF @.set[k] \in opened THEN {k} ELSE {})]]
    /\ UNCHANGED <<readers, opened, used, reload, closer>>

LookupReturns(l) ==
    /\ lookup[l].step = "done"
    /\ lookup' = [lookup EXCEPT ![l] = IdleLookup]
    /\ UNCHANGED <<readers, opened, used, reload, closer>>

GeoNext ==
    \/ ReloadOpens
    \/ ReloadFails
    \/ ReloadSwaps
    \/ CloseBegins
    \/ CloseSwaps
    \/ \E l \in Lookups : \/ LookupBegins(l)
                          \/ LookupAsks(l, "asn", "country")
                          \/ LookupAsks(l, "country", "done")
                          \/ LookupReturns(l)

GeoSpec == GeoInit /\ [][GeoNext]_geoVars
-----------------------------------------------------------------------------
\* Until Close, no reader handle leaks and none in use by the pointer is closed:
\* what is open is what the pointer holds, what Reload is about to install and
\* what it has replaced but not yet closed.
ReadersAccounted ==
    closer.step = "idle" =>
        opened = Held(readers) \cup Held(reload.new)
                 \cup (IF reload.step = "close" THEN Held(reload.old) ELSE {})

\* A lookup that no swap of the readers overlaps gets an answer from every
\* database it reports as available: fields are only missing when the database
\* is, or when the readers were replaced under the lookup.
QuietLookupIsComplete ==
    \A l \in Lookups : lookup[l].step = "done" /\ lookup[l].set = readers /\ closer.step = "idle" =>
        lookup[l].got = {k \in Kinds : lookup[l].set[k] # NoReader}

\* Swapping and closing readers neither leaks one (ReadersAccounted) nor takes an answer from
\* a lookup whose readers are still the current ones (QuietLookupIsComplete).
ReadersServe == ReadersAccounted /\ QuietLookupIsComplete
=============================================================================
