----------------------------- MODULE FlowLifecycle -----------------------------
(***************************************************************************)
(* flow.Lifecycle and flow.Registry of internal/flow/lifecycle.go: what a  *)
(* flow promises its observers, whatever carries it.  One action is one    *)
(* critical section of Lifecycle.mu (or of Registry.mu for SetControls).   *)
(* The TCP and the UDP listener are shown to implement this specification. *)
(***************************************************************************)
EXTENDS Naturals

CONSTANTS Flows, NoSummary

VARIABLES
    opened, closed,  \* flows whose observers were told Open, Close
    counter,         \* per flow: the cumulative counter of the last Update
    summary,         \* per flow: the counter in the summary of Close
    entries,         \* flows in the Registry, with their close function
    controls         \* flows in the Registry whose Controls are set

vars == <<opened, closed, counter, summary, entries, controls>>

Init ==
    /\ opened = {} /\ closed = {}
    /\ counter = [f \in Flows |-> 0]
    /\ summary = [f \in Flows |-> NoSummary]
    /\ entries = {} /\ controls = {}

\* Open publishes the metadata once and registers the close function.
Open(f) ==
    /\ f \notin opened \cup closed
    /\ opened' = opened \cup {f}
    /\ entries' = entries \cup {f}
    /\ UNCHANGED <<closed, counter, summary, controls>>

\* AddAt: a cumulative Update, ignored before Open and after Close.
Add(f) ==
    /\ f \in opened \ closed
    /\ counter' = [counter EXCEPT ![f] = @ + 1]
    /\ UNCHANGED <<opened, closed, summary, entries, controls>>

\* Close unregisters the flow and publishes one summary with the final counter.
Close(f) ==
    /\ f \notin closed
    /\ closed' = closed \cup {f}
    /\ summary' = [summary EXCEPT ![f] = counter[f]]
    /\ entries' = entries \ {f}
    /\ controls' = controls \ {f}
    /\ UNCHANGED <<opened, counter>>

\* SetControls attaches to a registered flow only.
SetControls(f) ==
    /\ f \in entries
    /\ controls' = controls \cup {f}
    /\ UNCHANGED <<opened, closed, counter, summary, entries>>

Next == \E f \in Flows : Open(f) \/ Add(f) \/ Close(f) \/ SetControls(f)

Spec == Init /\ [][Next]_vars
=============================================================================
