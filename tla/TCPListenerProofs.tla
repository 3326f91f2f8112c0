--------------------------- MODULE TCPListenerProofs ---------------------------
(***************************************************************************)
(* Proofs about the TCP listener, for any set of connections and of Block  *)
(* requests, any connection limit and any number of chunks.                *)
(*                                                                         *)
(* A step concerns one connection: LocalStep names the steps that touch    *)
(* the state of a given connection.  FlowInv says who may be closing its   *)
(* flow at each point of handleConn and serve, DataInv where its chunks    *)
(* are; SemInv and BlockInv relate the connections to the semaphore and to *)
(* the Block requests.                                                     *)
(*                                                                         *)
(* And about the byte limiter that its copies wait on.  The bucket is only *)
(* filled when somebody looks, so that a step is one of the abstract       *)
(* bucket in terms of what it would hold if somebody looked now            *)
(* (Replenished), not of `tokens'.  A sleeper's timer is bounded by the    *)
(* wait that is left at the rate in force: taking tokens lengthens that    *)
(* wait, a tick shortens it by at most one (NeedFalls), and a new rate     *)
(* wakes the sleeper.                                                      *)
(***************************************************************************)
EXTENDS TCPListener, ByteRateLimiter, Integers, FiniteSetTheorems, TLAPS

-----------------------------------------------------------------------------
\* Types.

Answer == {"none", "applied", "refused"}

\* The types of TypeOK, with the chunk counters unbounded and without sem.
TCPTypes ==
    /\ stage \in [Conns -> Stage]
    /\ copy \in [Conns -> [Directions -> CopyState]]
    /\ life \in [Conns -> Life]
    /\ closer \in [Conns -> {"serve", "block", "stop", None}]
    /\ reason \in [Conns -> Reason \cup {None}]
    /\ requests \in [Requests -> [conn : Conns \cup {None}, answer : Answer]]
    /\ read \in [Conns -> Nat]
    /\ moved \in [Conns -> Nat]
    /\ counter \in [Conns -> Nat]
    /\ summary \in [Conns -> Nat \cup {None}]

\* The listener starts well typed.
LEMMA TypesInit == Init => TCPTypes
  BY DEF Init, TCPTypes, Stage, CopyState, Life, Answer

\* Beginning to close a connection keeps the types.
LEMMA CloseBeginTypes ==
    ASSUME TCPTypes, NEW c \in Conns, NEW who \in {"serve", "block", "stop"}, NEW why \in Reason,
           CloseBegin(c, who, why)
    PROVE  /\ life' \in [Conns -> Life]
           /\ closer' \in [Conns -> {"serve", "block", "stop", None}]
           /\ reason' \in [Conns -> Reason \cup {None}]
  BY ZenonT(60) DEF TCPTypes, CloseBegin, flowVars, Life

\* So does the end of the serving goroutine,
LEMMA ServeCloseTypes ==
    ASSUME TCPTypes, NEW c \in Conns, NEW why \in Reason, ServeClose(c, why)
    PROVE  /\ life' \in [Conns -> Life]
           /\ closer' \in [Conns -> {"serve", "block", "stop", None}]
           /\ reason' \in [Conns -> Reason \cup {None}]
           /\ stage' \in [Conns -> Stage]
  <1>1. stage' \in [Conns -> Stage]
    BY Zenon DEF TCPTypes, ServeClose, Goto, Stage
  <1> QED
    BY <1>1, CloseBeginTypes, Zenon DEF ServeClose

\* a step of a copier,
LEMMA CopyStepTypes ==
    ASSUME TCPTypes, NEW c \in Conns, NEW d \in Directions, NEW from, NEW to \in CopyState,
           CopyStep(c, d, from, to)
    PROVE  copy' \in [Conns -> [Directions -> CopyState]]
  BY Zenon DEF TCPTypes, CopyStep

\* and a control request.
LEMMA RequestTypes ==
    ASSUME TCPTypes, NEW q \in Requests
    PROVE  /\ \A c \in Conns : [requests EXCEPT ![q].conn = c]
                               \in [Requests -> [conn : Conns \cup {None}, answer : Answer]]
           /\ \A a \in Answer : [requests EXCEPT ![q].answer = a]
                               \in [Requests -> [conn : Conns \cup {None}, answer : Answer]]
  BY ZenonT(60) DEF TCPTypes

\* Every step of one connection keeps the types,
LEMMA TypesConn ==
    ASSUME TCPTypes, NEW c \in Conns, ConnNext(c)
    PROVE  TCPTypes'
  <1> USE DEF flowVars, dataVars, stopVars
  <1>1. CASE Accept(c) \/ HandleFail(c) \/ OpenFlow(c)
    BY <1>1, ZenonT(60) DEF TCPTypes, Accept, HandleFail, OpenFlow, Goto, Stage, Life
  <1>2. CASE SetControls(c)
    BY <1>2, Zenon DEF TCPTypes, SetControls, Goto, Stage, CopyState
  <1>3. ASSUME NEW d \in Directions, CopyRead(c, d)
        PROVE  TCPTypes'
    <2>1. copy' \in [Conns -> [Directions -> CopyState]]
      BY <1>3, CopyStepTypes, Zenon DEF CopyRead, CopyState
    <2> QED
      BY <1>3, <2>1, SMTT(60) DEF TCPTypes, CopyRead
  <1>4. ASSUME NEW d \in Directions, CopyWrite(c, d) \/ CopyTouch(c, d)
        PROVE  TCPTypes'
    <2>1. copy' \in [Conns -> [Directions -> CopyState]]
      BY <1>4, CopyStepTypes, Zenon DEF CopyWrite, CopyTouch, CopyState
    <2>2. moved' \in [Conns -> Nat]
      BY <1>4 DEF TCPTypes, CopyWrite, CopyTouch
    <2>3. counter' \in [Conns -> Nat]
      BY <1>4, SMTT(60) DEF TCPTypes, CopyWrite, CopyTouch, Add
    <2>4. UNCHANGED <<stage, flowVars, requests, read, summary>>
      BY <1>4, Zenon DEF CopyWrite, CopyTouch
    <2> QED
      BY <2>1, <2>2, <2>3, <2>4, Zenon DEF TCPTypes
  <1>5. ASSUME NEW d \in Directions, CopyError(c, d) \/ CopyContext(c, d) \/ WaitCopy(c, d)
        PROVE  TCPTypes'
    <2>1. copy' \in [Conns -> [Directions -> CopyState]]
      BY <1>5, CopyStepTypes, Zenon DEF CopyError, CopyContext, WaitCopy, CopyState
    <2> QED
      BY <1>5, <2>1, Zenon DEF TCPTypes, CopyError, CopyContext, WaitCopy
  <1>6. ASSUME NEW d \in Directions, ServeEOF(c, d) \/ ServeError(c, d)
        PROVE  TCPTypes'
    <2>1. copy' \in [Conns -> [Directions -> CopyState]]
      BY <1>6, CopyStepTypes, Zenon DEF ServeEOF, ServeError, CopyState
    <2>2. UNCHANGED <<stage, flowVars>> \/ \E why \in Reason : ServeClose(c, why)
      BY <1>6, Zenon DEF ServeEOF, ServeError, Reason
    <2>3. UNCHANGED <<requests, dataVars>>
      BY <1>6, Zenon DEF ServeEOF, ServeError
    <2> QED
      BY <2>1, <2>2, <2>3, ServeCloseTypes, Zenon DEF TCPTypes
  <1>7. CASE ServeContext(c) \/ ServeIdle(c)
    <2>1. \E why \in Reason : ServeClose(c, why)
      BY <1>7, Zenon DEF ServeContext, ServeIdle, Reason
    <2>2. UNCHANGED <<copy, requests, dataVars>>
      BY <1>7, Zenon DEF ServeContext, ServeIdle
    <2> QED
      BY <2>1, <2>2, ServeCloseTypes, Zenon DEF TCPTypes
  <1>8. CASE ServeActivity(c) \/ ServeClosed(c) \/ HandleReturn(c)
    BY <1>8, Zenon DEF TCPTypes, ServeActivity, ServeClosed, HandleReturn, Goto, Stage
  <1>9. CASE Sever(c) \/ Finalize(c)
    BY <1>9, ZenonT(60) DEF TCPTypes, Sever, Finalize, Life
  <1> QED
    BY <1>1, <1>2, <1>3, <1>4, <1>5, <1>6, <1>7, <1>8, <1>9, Zenon DEF ConnNext, CopyNext, ServeNext

\* and so does every step of the listener.
LEMMA TypesNext ==
    ASSUME TCPTypes, [Next]_vars
    PROVE  TCPTypes'
  <1> USE DEF flowVars, dataVars, stopVars
  <1>1. ASSUME NEW q \in Requests, BlockApply(q)
        PROVE  TCPTypes'
    <2> DEFINE c == requests[q].conn
    <2>1. c \in Conns
      BY <1>1, Zenon DEF TCPTypes, BlockApply
    <2>2. CloseBegin(c, "block", "backend_blocked") /\ UNCHANGED <<stage, copy, dataVars>>
      BY <1>1, Zenon DEF BlockApply
    <2>3. requests' \in [Requests -> [conn : Conns \cup {None}, answer : Answer]]
      <3>1. requests' = [requests EXCEPT ![q].answer = BlockAnswer(c)] /\ BlockAnswer(c) \in Answer
        BY <1>1, Zenon DEF BlockApply, BlockAnswer, Answer
      <3> QED
        BY <3>1, RequestTypes, Zenon
    <2> HIDE DEF c
    <2> QED
      BY <2>1, <2>2, <2>3, CloseBeginTypes, Zenon DEF TCPTypes, Reason
  <1>2. ASSUME NEW q \in Requests, NEW c \in Conns, BlockLookup(q, c)
        PROVE  TCPTypes'
    <2>1. requests' \in [Requests -> [conn : Conns \cup {None}, answer : Answer]]
      BY <1>2, RequestTypes, Zenon DEF BlockLookup
    <2> QED
      BY <1>2, <2>1, Zenon DEF TCPTypes, BlockLookup
  <1>3. ASSUME NEW c \in Conns, CloseAllCall(c)
        PROVE  TCPTypes'
    BY <1>3, CloseBeginTypes, Zenon DEF TCPTypes, CloseAllCall, Reason
  <1>4. CASE AcceptExit \/ Cancel \/ CloseAll \/ CloseAllReturn \/ CloseListener \/ Drained \/ UNCHANGED vars
    BY <1>4, Zenon DEF TCPTypes, AcceptExit, Cancel, CloseAll, CloseAllReturn, CloseListener, Drained, vars
  <1> QED
    BY <1>1, <1>2, <1>3, <1>4, TypesConn, Zenon DEF Next, StopNext

-----------------------------------------------------------------------------
\* The steps of one connection.

\* A step of somebody else.
Same(c) ==
    /\ stage'[c] = stage[c] /\ copy'[c] = copy[c]
    /\ life'[c] = life[c] /\ closer'[c] = closer[c] /\ reason'[c] = reason[c]
    /\ read'[c] = read[c] /\ moved'[c] = moved[c]
    /\ counter'[c] = counter[c] /\ summary'[c] = summary[c]

\* A step in which an outside closer calls closeWithReason.
OutsideClose(c) ==
    /\ \E who \in {"block", "stop"}, why \in {"backend_blocked", "upstream_unusable"} :
            CloseBegin(c, who, why)
    /\ stage'[c] = stage[c] /\ copy'[c] = copy[c] /\ UNCHANGED dataVars

\* Closing one connection leaves the others alone,
LEMMA CloseBeginOther ==
    ASSUME TCPTypes, NEW c \in Conns, NEW b \in Conns, b # c, NEW who, NEW why, CloseBegin(b, who, why)
    PROVE  life'[c] = life[c] /\ closer'[c] = closer[c] /\ reason'[c] = reason[c]
  BY ZenonT(60) DEF TCPTypes, CloseBegin, flowVars

\* as does copying on it,
LEMMA CopyStepOther ==
    ASSUME TCPTypes, NEW c \in Conns, NEW b \in Conns, b # c, NEW d \in Directions,
           NEW from, NEW to, CopyStep(b, d, from, to)
    PROVE  copy'[c] = copy[c]
  BY Zenon DEF TCPTypes, CopyStep

\* and every other step of it.
LEMMA OthersStep ==
    ASSUME TCPTypes, NEW c \in Conns, NEW b \in Conns, b # c, ConnNext(b)
    PROVE  Same(c)
  <1> USE DEF flowVars, dataVars, stopVars
  <1>1. CASE Accept(b) \/ HandleFail(b) \/ OpenFlow(b) \/ SetControls(b)
    BY <1>1, Zenon DEF TCPTypes, Same, Accept, HandleFail, OpenFlow, SetControls, Goto
  <1>2. ASSUME NEW d \in Directions, CopyNext(b, d) \/ WaitCopy(b, d)
        PROVE  Same(c)
    <2>1. copy'[c] = copy[c]
      BY <1>2, CopyStepOther, Zenon
         DEF CopyNext, CopyRead, CopyWrite, CopyTouch, CopyError, CopyContext, WaitCopy
    <2>2. read'[c] = read[c] /\ moved'[c] = moved[c] /\ counter'[c] = counter[c]
      BY <1>2, Zenon DEF TCPTypes, CopyNext, CopyRead, CopyWrite, CopyTouch, CopyError, CopyContext, WaitCopy, Add
    <2>3. UNCHANGED <<stage, flowVars, summary>>
      BY <1>2, Zenon DEF CopyNext, CopyRead, CopyWrite, CopyTouch, CopyError, CopyContext, WaitCopy
    <2> QED
      BY <2>1, <2>2, <2>3, Zenon DEF Same
  <1>3. ASSUME NEW d \in Directions, ServeEOF(b, d) \/ ServeError(b, d)
        PROVE  Same(c)
    <2>1. copy'[c] = copy[c]
      BY <1>3, CopyStepOther, Zenon DEF ServeEOF, ServeError
    <2>2. UNCHANGED <<stage, flowVars>> \/ \E why : ServeClose(b, why)
      BY <1>3, Zenon DEF ServeEOF, ServeError
    <2>3. UNCHANGED dataVars
      BY <1>3, Zenon DEF ServeEOF, ServeError
    <2>4. stage'[c] = stage[c]
      BY <2>2, Zenon DEF TCPTypes, ServeClose, Goto
    <2> QED
      BY <2>1, <2>2, <2>3, <2>4, CloseBeginOther, Zenon DEF Same, ServeClose
  <1>4. CASE ServeContext(b) \/ ServeIdle(b)
    <2>1. PICK why : ServeClose(b, why) /\ UNCHANGED <<copy, dataVars>>
      BY <1>4, Zenon DEF ServeContext, ServeIdle
    <2>2. stage'[c] = stage[c]
      BY <2>1, Zenon DEF TCPTypes, ServeClose, Goto
    <2> QED
      BY <2>1, <2>2, CloseBeginOther, Zenon DEF Same, ServeClose
  <1>5. CASE ServeActivity(b) \/ ServeClosed(b) \/ HandleReturn(b) \/ Sever(b) \/ Finalize(b)
    BY <1>5, Zenon DEF TCPTypes, Same, ServeActivity, ServeClosed, HandleReturn, Sever, Finalize, Goto
  <1> QED
    BY <1>1, <1>2, <1>3, <1>4, <1>5, Zenon DEF ConnNext, ServeNext

\* What happens to a connection is a step of its own goroutines, of an outside closer, or nothing.
LEMMA LocalStep ==
    ASSUME TCPTypes, [Next]_vars, NEW c \in Conns
    PROVE  Same(c) \/ ConnNext(c) \/ OutsideClose(c)
  <1> USE DEF flowVars, dataVars, stopVars
  <1>1. ASSUME NEW b \in Conns, ConnNext(b)
        PROVE  Same(c) \/ ConnNext(c)
    BY <1>1, OthersStep, Zenon
  <1>2. ASSUME NEW q \in Requests, BlockApply(q)
        PROVE  Same(c) \/ OutsideClose(c)
    <2>1. PICK b \in Conns : /\ CloseBegin(b, "block", "backend_blocked")
                             /\ UNCHANGED <<stage, copy, dataVars>>
      BY <1>2, Zenon DEF TCPTypes, BlockApply
    <2> QED
      BY <2>1, CloseBeginOther, Zenon DEF Same, OutsideClose
  <1>3. ASSUME NEW b \in Conns, CloseAllCall(b)
        PROVE  Same(c) \/ OutsideClose(c)
    <2>1. CloseBegin(b, "stop", "upstream_unusable") /\ UNCHANGED <<stage, copy, dataVars>>
      BY <1>3, Zenon DEF CloseAllCall
    <2> QED
      BY <2>1, CloseBeginOther, Zenon DEF Same, OutsideClose
  <1>4. CASE \/ \E q \in Requests, b \in Conns : BlockLookup(q, b)
             \/ AcceptExit \/ Cancel \/ CloseAll \/ CloseAllReturn \/ CloseListener \/ Drained
             \/ UNCHANGED vars
    BY <1>4, Zenon DEF Same, BlockLookup, AcceptExit, Cancel, CloseAll, CloseAllReturn, CloseListener, Drained, vars
  <1> QED
    BY <1>1, <1>2, <1>3, <1>4, Zenon DEF Next, StopNext

-----------------------------------------------------------------------------
\* The invariant.

\* Who is closing the flow of c, against where handleConn and serve are.
FlowInv(c) ==
    /\ stage[c] \in {"new", "dial"} => life[c] = "none"
    /\ stage[c] \in {"controls", "serve", "closing", "wait"} => life[c] # "none"
    /\ stage[c] \in {"closing", "wait", "gone"} => life[c] # "open"
    /\ life[c] \in {"none", "open"} <=> closer[c] = None
    /\ life[c] \in {"none", "open"} <=> reason[c] = None
    /\ stage[c] = "closing" => closer[c] = "serve"
    /\ closer[c] = "serve" => stage[c] \in {"closing", "wait", "gone"}
    /\ closer[c] = "serve" /\ stage[c] # "closing" => life[c] = "closed"

\* The directions of c whose copy is in state s.
In(c, s) == (IF copy[c]["up"] = s THEN 1 ELSE 0) + (IF copy[c]["down"] = s THEN 1 ELSE 0)

\* No copy has failed so far, and none that failed has been collected: serve leaves its
\* loop when it collects a failure.
NoFailure(c) ==
    /\ stage[c] \notin {"closing", "wait", "gone"}
    /\ \A d \in Directions : copy[c][d] \notin {"error", "ctx"}

\* Every chunk read is held, written and not yet counted, or counted; a chunk is lost
\* only with a failed copy, and uncounted only when the flow is closed.
DataInv(c) ==
    /\ stage[c] \in {"new", "dial", "controls"} \/ life[c] = "none" =>
        \A d \in Directions : copy[c][d] = "none"
    /\ moved[c] + In(c, "held") <= read[c]
    /\ NoFailure(c) => moved[c] + In(c, "held") = read[c]
    /\ counter[c] + In(c, "written") <= moved[c]
    /\ life[c] # "closed" => counter[c] + In(c, "written") = moved[c]
    /\ life[c] = "closed" => summary[c] = counter[c]
    /\ reason[c] = "eof" =>
        /\ \A d \in Directions : copy[c][d] = "taken"
        /\ read[c] = moved[c] /\ counter[c] = moved[c]

ConnInv == \A c \in Conns : FlowInv(c) /\ DataInv(c)

\* A connection that does not exist yet satisfies its invariant.
LEMMA ConnInit ==
    ASSUME Init, NEW c \in Conns
    PROVE  FlowInv(c) /\ DataInv(c)
  <1>1. FlowInv(c)
    BY TCPAssumption, Zenon DEF Init, FlowInv, Reason
  <1>2. DataInv(c)
    BY TCPAssumption DEF Init, DataInv, In, NoFailure, Directions, Reason
  <1> QED
    BY <1>1, <1>2, Zenon

\* closeWithReason, called by who.
LEMMA CloseBeginAt ==
    ASSUME TCPTypes, NEW c \in Conns, NEW who, NEW why, CloseBegin(c, who, why)
    PROVE  IF life[c] = "open"
           THEN life'[c] = "marked" /\ closer'[c] = who /\ reason'[c] = why
           ELSE life'[c] = life[c] /\ closer'[c] = closer[c] /\ reason'[c] = reason[c]
  BY ZenonT(60) DEF TCPTypes, CloseBegin, flowVars

\* What the serving goroutine leaves of its own connection when it ends.
LEMMA ServeCloseAt ==
    ASSUME TCPTypes, NEW c \in Conns, NEW why, ServeClose(c, why)
    PROVE  /\ stage[c] = "serve"
           /\ IF life[c] = "open"
              THEN stage'[c] = "closing" /\ life'[c] = "marked" /\ closer'[c] = "serve" /\ reason'[c] = why
              ELSE stage'[c] = "wait" /\ life'[c] = life[c] /\ closer'[c] = closer[c] /\ reason'[c] = reason[c]
  BY CloseBeginAt, Zenon DEF TCPTypes, ServeClose, Goto

\* Every step keeps the flow of a connection in order.
LEMMA FlowStep ==
    ASSUME TCPTypes, [Next]_vars, NEW c \in Conns, FlowInv(c)
    PROVE  FlowInv(c)'
  <1> USE DEF flowVars, dataVars, stopVars
  <1>t. /\ stage[c] \in Stage /\ life[c] \in Life
        /\ closer[c] \in {"serve", "block", "stop", None} /\ reason[c] \in Reason \cup {None}
    BY Zenon DEF TCPTypes
  <1>n. None \notin Reason \cup {"block", "serve", "stop"}
    BY TCPAssumption, Zenon
  <1>1. ASSUME stage'[c] = stage[c], life'[c] = life[c], closer'[c] = closer[c], reason'[c] = reason[c]
        PROVE  FlowInv(c)'
    BY <1>1, Zenon DEF FlowInv
  <1>2. CASE OutsideClose(c)
    <2>1. PICK who \in {"block", "stop"}, why \in {"backend_blocked", "upstream_unusable"} :
            CloseBegin(c, who, why)
      BY <1>2, Zenon DEF OutsideClose
    <2>2. stage'[c] = stage[c]
      BY <1>2, Zenon DEF OutsideClose
    <2> QED
      BY <1>t, <1>n, <2>1, <2>2, CloseBeginAt DEF FlowInv, Reason, Stage, Life
  <1>3. ASSUME NEW why \in Reason, ServeClose(c, why)
        PROVE  FlowInv(c)'
    BY <1>3, <1>t, <1>n, ServeCloseAt DEF FlowInv, Stage, Life
  <1>4. CASE Accept(c) \/ HandleFail(c) \/ OpenFlow(c) \/ SetControls(c)
    BY <1>4, <1>t, <1>n, ZenonT(60) DEF TCPTypes, FlowInv, Accept, HandleFail, OpenFlow, SetControls, Goto, Stage, Life
  <1>5. ASSUME NEW d \in Directions, CopyNext(c, d) \/ WaitCopy(c, d)
        PROVE  FlowInv(c)'
    <2>1. UNCHANGED <<stage, flowVars>>
      BY <1>5, Zenon DEF CopyNext, CopyRead, CopyWrite, CopyTouch, CopyError, CopyContext, WaitCopy
    <2> QED
      BY <1>1, <2>1, Zenon
  <1>6. ASSUME NEW d \in Directions, ServeEOF(c, d) \/ ServeError(c, d)
        PROVE  FlowInv(c)'
    <2>1. UNCHANGED <<stage, flowVars>> \/ \E why \in Reason : ServeClose(c, why)
      BY <1>6, Zenon DEF ServeEOF, ServeError, Reason
    <2> QED
      BY <1>1, <1>3, <2>1, Zenon
  <1>7. CASE ServeContext(c) \/ ServeIdle(c)
    <2>1. \E why \in Reason : ServeClose(c, why)
      BY <1>7, Zenon DEF ServeContext, ServeIdle, Reason
    <2> QED
      BY <1>3, <2>1, Zenon
  <1>8. CASE ServeActivity(c) \/ ServeClosed(c) \/ HandleReturn(c)
    BY <1>8, <1>t, <1>n, ZenonT(60) DEF TCPTypes, FlowInv, ServeActivity, ServeClosed, HandleReturn, Goto, Stage, Life
  <1>9. CASE Sever(c) \/ Finalize(c)
    BY <1>9, <1>t, <1>n, Zenon DEF TCPTypes, FlowInv, Sever, Finalize, Life
  <1>10. CASE Same(c)
    BY <1>1, <1>10, Zenon DEF Same
  <1> QED
    BY <1>2, <1>4, <1>5, <1>6, <1>7, <1>8, <1>9, <1>10, LocalStep, Zenon DEF ConnNext, ServeNext

-----------------------------------------------------------------------------
\* The chunks.

\* The number of copies in a state is a natural number;
LEMMA InType == ASSUME NEW c, NEW s PROVE In(c, s) \in Nat
  BY DEF In

\* it stays while the copies stay,
LEMMA InSame ==
    ASSUME NEW c, NEW s, copy'[c] = copy[c]
    PROVE  In(c, s)' = In(c, s)
  BY Zenon DEF In

\* A copy moves from one state to another.
LEMMA CopyStepAt ==
    ASSUME TCPTypes, NEW c \in Conns, NEW d \in Directions, NEW from, NEW to, CopyStep(c, d, from, to)
    PROVE  copy[c][d] = from /\ copy'[c][d] = to /\ \A e \in Directions \ {d} : copy'[c][e] = copy[c][e]
  BY Zenon DEF TCPTypes, CopyStep, Directions

\* and a copy that moves counts one state down and the other up.
LEMMA InStep ==
    ASSUME TCPTypes, NEW c \in Conns, NEW d \in Directions, NEW from, NEW to, CopyStep(c, d, from, to),
           from # to
    PROVE  /\ In(c, to)' = In(c, to) + 1
           /\ In(c, from)' = In(c, from) - 1
           /\ \A s : s \notin {from, to} => In(c, s)' = In(c, s)
  BY CopyStepAt DEF In, Directions

\* What the steps of a copy leave alone.
CopyFrame(c) ==
    /\ stage'[c] = stage[c] /\ life'[c] = life[c] /\ reason'[c] = reason[c] /\ summary'[c] = summary[c]

\* The byte counts of a well-typed connection are numbers.
LEMMA DataTypes ==
    ASSUME TCPTypes, NEW c \in Conns
    PROVE  /\ stage[c] \in Stage /\ life[c] \in Life /\ reason[c] \in Reason \cup {None}
           /\ read[c] \in Nat /\ moved[c] \in Nat /\ counter[c] \in Nat
           /\ In(c, "held") \in Nat /\ In(c, "written") \in Nat
  BY InType, Zenon DEF TCPTypes

\* A read, a write and the count of an activity each keep the bytes accounted for.
LEMMA ReadStep ==
    ASSUME TCPTypes, NEW c \in Conns, NEW d \in Directions, DataInv(c), CopyRead(c, d)
    PROVE  DataInv(c)'
  <1>1. CopyFrame(c) /\ moved'[c] = moved[c] /\ counter'[c] = counter[c]
    BY Zenon DEF CopyRead, CopyFrame, flowVars
  <1>2. CASE CopyStep(c, d, "read", "held") /\ read' = [read EXCEPT ![c] = @ + 1]
    <2>1. read'[c] = read[c] + 1
      BY <1>2, Zenon DEF TCPTypes
    <2>2. In(c, "held")' = In(c, "held") + 1 /\ In(c, "written")' = In(c, "written")
      BY <1>2, InStep
    <2>3. copy[c][d] = "read" /\ copy'[c][d] = "held" /\ \A e \in Directions \ {d} : copy'[c][e] = copy[c][e]
      BY <1>2, CopyStepAt, ZenonT(60)
    <2> QED
      BY <1>1, <2>1, <2>2, <2>3, DataTypes DEF DataInv, CopyFrame, NoFailure
  <1>3. CASE CopyStep(c, d, "read", "eof") /\ UNCHANGED read
    <2>1. In(c, "held")' = In(c, "held") /\ In(c, "written")' = In(c, "written")
      BY <1>3, InStep
    <2>2. copy[c][d] = "read" /\ copy'[c][d] = "eof" /\ \A e \in Directions \ {d} : copy'[c][e] = copy[c][e]
      BY <1>3, CopyStepAt, Zenon
    <2> QED
      BY <1>1, <1>3, <2>1, <2>2, DataTypes, Zenon DEF DataInv, CopyFrame, NoFailure
  <1> QED
    BY <1>2, <1>3, Zenon DEF CopyRead

\* A write adds to what was moved what had been read.
LEMMA WriteStep ==
    ASSUME TCPTypes, NEW c \in Conns, NEW d \in Directions, DataInv(c), CopyWrite(c, d)
    PROVE  DataInv(c)'
  <1>1. CopyFrame(c) /\ read'[c] = read[c] /\ counter'[c] = counter[c]
    BY Zenon DEF CopyWrite, CopyFrame, flowVars
  <1>2. CopyStep(c, d, "held", "written") /\ moved'[c] = moved[c] + 1
    BY Zenon DEF TCPTypes, CopyWrite
  <1>3. In(c, "held")' = In(c, "held") - 1 /\ In(c, "written")' = In(c, "written") + 1
    BY <1>2, InStep
  <1>4. copy[c][d] = "held" /\ copy'[c][d] = "written" /\ \A e \in Directions \ {d} : copy'[c][e] = copy[c][e]
    BY <1>2, CopyStepAt, Zenon
  <1> QED
    BY <1>1, <1>2, <1>3, <1>4, DataTypes DEF DataInv, CopyFrame, NoFailure

\* Counting an activity leaves the bytes in flight alone.
LEMMA TouchStep ==
    ASSUME TCPTypes, NEW c \in Conns, NEW d \in Directions, DataInv(c), CopyTouch(c, d)
    PROVE  DataInv(c)'
  <1>1. CopyFrame(c) /\ read'[c] = read[c] /\ moved'[c] = moved[c]
    BY Zenon DEF CopyTouch, CopyFrame, flowVars
  <1>2. CopyStep(c, d, "written", "read")
    BY Zenon DEF CopyTouch
  <1>3. In(c, "held")' = In(c, "held") /\ In(c, "written")' = In(c, "written") - 1
    BY <1>2, InStep
  <1>4. copy[c][d] = "written" /\ copy'[c][d] = "read" /\ \A e \in Directions \ {d} : copy'[c][e] = copy[c][e]
    BY <1>2, CopyStepAt, Zenon
  <1>5. counter'[c] = IF life[c] \in {"closed", "none"} THEN counter[c] ELSE counter[c] + 1
    BY DataTypes, Zenon DEF TCPTypes, CopyTouch, Add, Registered, Life
  <1> QED
    BY <1>1, <1>3, <1>4, <1>5, DataTypes DEF DataInv, CopyFrame, NoFailure

\* A copy ends, or its end is collected: with chunks neither held nor written.
LEMMA EndStep ==
    ASSUME TCPTypes, NEW c \in Conns, NEW d \in Directions, DataInv(c),
           NEW from \in {"read", "held", "eof", "error", "ctx"}, NEW to \in {"error", "ctx", "taken"},
           from # to, CopyStep(c, d, from, to),
           to = "taken" => stage[c] \in {"closing", "wait", "gone"} \/ from = "eof",
           CopyFrame(c), read'[c] = read[c], moved'[c] = moved[c], counter'[c] = counter[c]
    PROVE  DataInv(c)'
  <1>1. In(c, "held")' <= In(c, "held") /\ In(c, "written")' = In(c, "written")
    BY InStep, InType
  <1>2. from # "held" => In(c, "held")' = In(c, "held")
    BY InStep
  <1>3. copy[c][d] = from /\ copy'[c][d] = to /\ \A e \in Directions \ {d} : copy'[c][e] = copy[c][e]
    BY CopyStepAt, Zenon
  <1>4. In(c, "held")' \in Nat
    BY DEF In
  <1> QED
    BY <1>1, <1>2, <1>3, <1>4, DataTypes DEF DataInv, CopyFrame, NoFailure

\* The flow is marked by somebody who does not say eof.
LEMMA MarkStep ==
    ASSUME TCPTypes, NEW c \in Conns, DataInv(c), NEW who, NEW why, why # "eof", CloseBegin(c, who, why),
           \/ stage'[c] = stage[c]
           \/ stage[c] = "serve" /\ stage'[c] \in {"closing", "wait"} /\ life[c] # "none",
           copy'[c] = copy[c], UNCHANGED dataVars
    PROVE  DataInv(c)'
  <1>1. In(c, "held")' = In(c, "held") /\ In(c, "written")' = In(c, "written")
    BY InSame, Zenon
  <1>2. \/ life[c] = "open" /\ life'[c] = "marked" /\ reason'[c] = why
        \/ life'[c] = life[c] /\ reason'[c] = reason[c]
    BY CloseBeginAt, Zenon
  <1>3. UNCHANGED <<read, moved, counter, summary>>
    BY Zenon DEF dataVars
  <1> QED
    BY <1>1, <1>2, <1>3, DataTypes, Zenon DEF DataInv, NoFailure

\* serve collects the end of a copy and closes the flow.
LEMMA CollectStep ==
    ASSUME TCPTypes, NEW c \in Conns, NEW d \in Directions, FlowInv(c), DataInv(c),
           NEW from \in {"eof", "error", "ctx"}, CopyStep(c, d, from, "taken"),
           NEW why \in Reason, why = "eof" => from = "eof" /\ copy[c][Other(d)] = "taken",
           ServeClose(c, why), UNCHANGED dataVars
    PROVE  DataInv(c)'
  <1>1. In(c, "held")' = In(c, "held") /\ In(c, "written")' = In(c, "written")
    BY InStep
  <1>2. copy[c][d] = from /\ copy'[c][d] = "taken" /\ \A e \in Directions \ {d} : copy'[c][e] = copy[c][e]
    BY CopyStepAt, Zenon
  <1>3. /\ stage[c] = "serve" /\ stage'[c] \in {"closing", "wait"} /\ life[c] # "none"
        /\ \/ life[c] = "open" /\ life'[c] = "marked" /\ reason'[c] = why
           \/ life'[c] = life[c] /\ reason'[c] = reason[c]
    BY ServeCloseAt, Zenon DEF FlowInv
  <1>4. UNCHANGED <<read, moved, counter, summary>>
    BY Zenon DEF dataVars
  <1>5. CASE reason'[c] = "eof" /\ reason[c] # "eof"
    <2>1. from = "eof" /\ copy[c][Other(d)] = "taken" /\ life[c] = "open"
      BY <1>3, <1>5, Zenon
    <2>2. \A e \in Directions : copy[c][e] \in {"eof", "taken"} /\ copy'[c][e] = "taken"
      BY <1>2, <2>1, Zenon DEF Directions, Other
    <2>3. In(c, "held") = 0 /\ In(c, "written") = 0
      BY <2>2 DEF In, Directions
    <2>4. read[c] = moved[c] /\ counter[c] = moved[c]
      BY <1>3, <2>1, <2>2, <2>3, DataTypes DEF DataInv, NoFailure
    <2> QED
      BY <1>1, <1>3, <1>4, <2>1, <2>2, <2>3, <2>4, DataTypes, Zenon DEF DataInv, NoFailure
  <1>6. CASE reason'[c] # "eof" \/ reason[c] = "eof"
    BY <1>1, <1>2, <1>3, <1>4, <1>6, DataTypes, Zenon DEF DataInv, NoFailure
  <1> QED
    BY <1>5, <1>6, Zenon

\* Steps of handleConn and of the closers that move no chunk.
LEMMA QuietStep ==
    ASSUME TCPTypes, NEW c \in Conns, FlowInv(c), DataInv(c),
           \/ Accept(c) \/ HandleFail(c) \/ OpenFlow(c) \/ ServeActivity(c) \/ ServeClosed(c)
           \/ HandleReturn(c) \/ Sever(c)
    PROVE  DataInv(c)'
  <1> USE DEF flowVars, dataVars
  <1>1. copy'[c] = copy[c] /\ reason'[c] = reason[c] /\ UNCHANGED <<read, moved, counter, summary>>
    BY Zenon DEF Accept, HandleFail, OpenFlow, ServeActivity, ServeClosed, HandleReturn, Sever
  <1>2. /\ stage'[c] = stage[c] \/ stage'[c] \in {"dial", "controls", "wait", "gone"}
        /\ stage'[c] \in {"dial", "controls"} /\ stage'[c] # stage[c] => stage[c] \in {"new", "dial"}
    BY Zenon DEF TCPTypes, Accept, HandleFail, OpenFlow, ServeActivity, ServeClosed, HandleReturn, Sever, Goto
  <1>3. life'[c] = life[c] \/ (life'[c] \in {"open", "severed"} /\ life[c] \in {"none", "marked"})
    BY Zenon DEF TCPTypes, FlowInv, Accept, HandleFail, OpenFlow, ServeActivity, ServeClosed, HandleReturn, Sever, Goto
  <1>4. In(c, "held")' = In(c, "held") /\ In(c, "written")' = In(c, "written")
    BY <1>1, InSame, Zenon
  <1> HIDE DEF flowVars, dataVars
  <1> QED
    BY <1>1, <1>2, <1>3, <1>4, DataTypes, Zenon DEF DataInv, NoFailure

\* Registering the controls leaves the byte counts alone,
LEMMA ControlsStep ==
    ASSUME TCPTypes, NEW c \in Conns, FlowInv(c), DataInv(c), SetControls(c)
    PROVE  DataInv(c)'
  <1>1. /\ stage[c] = "controls" /\ stage'[c] = "serve" /\ \A d \in Directions : copy'[c][d] = "read"
        /\ UNCHANGED <<life, reason, read, moved, counter, summary>>
    BY Zenon DEF TCPTypes, SetControls, Goto, flowVars, dataVars
  <1>2. \A d \in Directions : copy[c][d] = "none"
    BY <1>1, Zenon DEF DataInv
  <1>3. /\ In(c, "held") = 0 /\ In(c, "written") = 0 /\ In(c, "held")' = 0 /\ In(c, "written")' = 0
    BY <1>1, <1>2 DEF In, Directions
  <1>4. life[c] # "none"
    BY <1>1, Zenon DEF FlowInv
  <1>5. reason[c] # "eof"
    BY <1>2, Zenon DEF DataInv, Directions
  <1> QED
    BY <1>1, <1>2, <1>3, <1>4, <1>5, DataTypes, Zenon DEF DataInv, NoFailure

\* as does finalizing the flow.
LEMMA FinalizeStep ==
    ASSUME TCPTypes, NEW c \in Conns, DataInv(c), Finalize(c)
    PROVE  DataInv(c)'
  <1>1. /\ life[c] = "severed" /\ life'[c] = "closed" /\ summary'[c] = counter[c]
        /\ UNCHANGED <<stage, copy, reason, read, moved, counter>>
    BY Zenon DEF TCPTypes, Finalize
  <1>2. In(c, "held")' = In(c, "held") /\ In(c, "written")' = In(c, "written")
    BY <1>1, InSame, Zenon
  <1> QED
    BY <1>1, <1>2, DataTypes, Zenon DEF DataInv, NoFailure

\* Every step keeps the byte accounting of a connection.
LEMMA DataStep ==
    ASSUME TCPTypes, [Next]_vars, NEW c \in Conns, FlowInv(c), DataInv(c)
    PROVE  DataInv(c)'
  <1>1. CASE Same(c)
    <2>1. In(c, "held")' = In(c, "held") /\ In(c, "written")' = In(c, "written")
      BY <1>1, InSame, Zenon DEF Same
    <2> QED
      BY <1>1, <2>1, Zenon DEF Same, DataInv, NoFailure
  <1>2. CASE OutsideClose(c)
    BY <1>2, MarkStep, Zenon DEF OutsideClose
  <1>3. ASSUME NEW d \in Directions, CopyError(c, d) \/ CopyContext(c, d) \/ WaitCopy(c, d)
        PROVE  DataInv(c)'
    <2>1. CopyFrame(c) /\ read'[c] = read[c] /\ moved'[c] = moved[c] /\ counter'[c] = counter[c]
      BY <1>3, Zenon DEF CopyError, CopyContext, WaitCopy, CopyFrame, flowVars, dataVars
    <2>2. \/ \E from \in {"read", "held"}, to \in {"error", "ctx"} : CopyStep(c, d, from, to)
          \/ stage[c] = "wait" /\ \E from \in {"eof", "error", "ctx"} : CopyStep(c, d, from, "taken")
      BY <1>3, Zenon DEF CopyError, CopyContext, WaitCopy
    <2> QED
      BY <2>1, <2>2, EndStep, Zenon
  <1>4. ASSUME NEW d \in Directions, ServeEOF(c, d)
        PROVE  DataInv(c)'
    <2>1. CopyStep(c, d, "eof", "taken") /\ UNCHANGED dataVars
      BY <1>4, Zenon DEF ServeEOF
    <2>2. CASE UNCHANGED <<stage, flowVars>>
      <3>1. CopyFrame(c) /\ read'[c] = read[c] /\ moved'[c] = moved[c] /\ counter'[c] = counter[c]
        BY <2>1, <2>2, Zenon DEF CopyFrame, flowVars, dataVars
      <3> QED
        BY <2>1, <3>1, EndStep, Zenon
    <2>3. CASE copy[c][Other(d)] = "taken" /\ ServeClose(c, "eof")
      BY <2>1, <2>3, CollectStep, Zenon DEF Reason
    <2>4. CASE ServeClose(c, "write_error")
      BY <2>1, <2>4, CollectStep, Zenon DEF Reason
    <2> QED
      BY <1>4, <2>2, <2>3, <2>4, Zenon DEF ServeEOF
  <1>5. ASSUME NEW d \in Directions, ServeError(c, d)
        PROVE  DataInv(c)'
    <2>1. PICK why \in Reason, from \in {"error", "ctx"} :
            why # "eof" /\ ServeClose(c, why) /\ CopyStep(c, d, from, "taken") /\ UNCHANGED dataVars
      BY <1>5, Zenon DEF ServeError, Reason
    <2> QED
      BY <2>1, CollectStep, Zenon
  <1>6. CASE ServeContext(c) \/ ServeIdle(c)
    <2>1. PICK why \in Reason :
            why # "eof" /\ ServeClose(c, why) /\ copy'[c] = copy[c] /\ UNCHANGED dataVars
      BY <1>6, Zenon DEF ServeContext, ServeIdle, Reason
    <2>2. stage[c] = "serve" /\ stage'[c] \in {"closing", "wait"} /\ life[c] # "none"
      BY <2>1, ServeCloseAt, Zenon DEF FlowInv
    <2> QED
      BY <2>1, <2>2, MarkStep, Zenon DEF ServeClose
  <1> QED
    BY <1>1, <1>2, <1>3, <1>4, <1>5, <1>6, LocalStep, ReadStep, WriteStep, TouchStep, QuietStep,
       ControlsStep, FinalizeStep, Zenon
    DEF ConnNext, ServeNext, CopyNext

-----------------------------------------------------------------------------
\* What relates connections to each other.

Handled == {c \in Conns : stage[c] \notin {"new", "gone"}}

SemInv == IsFiniteSet(Handled) /\ sem = Cardinality(Handled) /\ sem <= MaxConnections

\* The answers of the Block requests against the reasons of the flows.
BlockInv ==
    /\ \A q \in Requests : requests[q].answer = "applied" =>
        requests[q].conn \in Conns /\ reason[requests[q].conn] = "backend_blocked"
    /\ \A q, r \in Requests :
        requests[q].answer = "applied" /\ requests[r].answer = "applied"
        /\ requests[q].conn = requests[r].conn => q = r
    /\ \A c \in Conns : reason[c] = "backend_blocked" =>
        \E q \in Requests : requests[q].conn = c /\ requests[q].answer = "applied"

TCPInv == TCPTypes /\ ConnInv /\ SemInv /\ BlockInv

-----------------------------------------------------------------------------
\* The semaphore.

\* No connection is handled and no token taken at the start.
LEMMA SemInit == Init => SemInv
  <1> SUFFICES ASSUME Init PROVE SemInv
    OBVIOUS
  <1>1. Handled = {}
    BY Zenon DEF Init, Handled
  <1> QED
    BY <1>1, FS_EmptySet, TCPAssumption DEF Init, SemInv

\* Three steps move a token; the others keep the set of handled connections.
LEMMA TokenSteps ==
    ASSUME TCPTypes, [Next]_vars
    PROVE  \/ UNCHANGED <<sem, Handled>>
           \/ \E c \in Conns : \/ /\ sem < MaxConnections /\ sem' = sem + 1
                                /\ c \notin Handled /\ Handled' = Handled \cup {c}
                             \/ /\ sem' = sem - 1
                                /\ c \in Handled /\ Handled' = Handled \ {c}
  <1> USE DEF flowVars, dataVars, stopVars
  <1>1. ASSUME NEW c \in Conns, Accept(c)
        PROVE  \/ UNCHANGED <<sem, Handled>>
               \/ /\ sem < MaxConnections /\ sem' = sem + 1
                  /\ c \notin Handled /\ Handled' = Handled \cup {c}
    BY <1>1 DEF TCPTypes, Accept, Goto, Handled
  <1>2. ASSUME NEW c \in Conns, HandleFail(c) \/ HandleReturn(c)
        PROVE  sem' = sem - 1 /\ c \in Handled /\ Handled' = Handled \ {c}
    BY <1>2, Zenon DEF TCPTypes, HandleFail, HandleReturn, Goto, Handled
  <1>3. ASSUME NEW c \in Conns, NEW from \in Stage \ {"new", "gone"}, NEW to \in Stage \ {"new", "gone"},
               Goto(c, from, to)
        PROVE  UNCHANGED Handled
    BY <1>3, Zenon DEF TCPTypes, Goto, Handled
  <1>4. ASSUME NEW c \in Conns, OpenFlow(c) \/ SetControls(c) \/ ServeClosed(c)
        PROVE  UNCHANGED <<sem, Handled>>
    BY <1>3, <1>4, Zenon DEF OpenFlow, SetControls, ServeClosed, Stage
  <1>5. ASSUME NEW c \in Conns, NEW why, ServeClose(c, why)
        PROVE  UNCHANGED Handled
    BY <1>3, <1>5, Zenon DEF ServeClose, Stage
  <1>6. ASSUME NEW c \in Conns, NEW d \in Directions, ServeEOF(c, d) \/ ServeError(c, d)
        PROVE  UNCHANGED <<sem, Handled>>
    <2>1. UNCHANGED sem /\ (UNCHANGED stage \/ \E why : ServeClose(c, why))
      BY <1>6, Zenon DEF ServeEOF, ServeError
    <2> QED
      BY <1>5, <2>1, Zenon DEF Handled
  <1>7. ASSUME NEW c \in Conns, ServeContext(c) \/ ServeIdle(c)
        PROVE  UNCHANGED <<sem, Handled>>
    BY <1>5, <1>7, Zenon DEF ServeContext, ServeIdle
  <1>8. ASSUME UNCHANGED <<sem, stage>>
        PROVE  UNCHANGED <<sem, Handled>>
    BY <1>8, Zenon DEF Handled
  <1>9. ASSUME NEW c \in Conns, NEW d \in Directions, CopyNext(c, d) \/ WaitCopy(c, d)
        PROVE  UNCHANGED <<sem, stage>>
    BY <1>9, Zenon DEF CopyNext, CopyRead, CopyWrite, CopyTouch, CopyError, CopyContext, WaitCopy
  <1>10. ASSUME NEW c \in Conns, ServeActivity(c) \/ Sever(c) \/ Finalize(c)
         PROVE  UNCHANGED <<sem, stage>>
    BY <1>10, Zenon DEF ServeActivity, Sever, Finalize
  <1>11. CASE \/ AcceptExit \/ \E c \in Conns, q \in Requests : BlockLookup(q, c)
              \/ \E q \in Requests : BlockApply(q)
              \/ Cancel \/ StopNext \/ UNCHANGED vars
    <2>1. UNCHANGED <<sem, stage>>
      BY <1>11, Zenon DEF AcceptExit, BlockLookup, BlockApply, Cancel, StopNext, CloseAll, CloseAllReturn,
                   CloseAllCall, CloseListener, Drained, vars
    <2> QED
      BY <1>8, <2>1, Zenon
  <1>12. ASSUME NEW c \in Conns, ConnNext(c)
         PROVE  \/ UNCHANGED <<sem, Handled>> \/ Accept(c) \/ HandleFail(c) \/ HandleReturn(c)
    BY <1>4, <1>6, <1>7, <1>8, <1>9, <1>10, <1>12, Zenon DEF ConnNext, ServeNext
  <1> QED
    BY <1>1, <1>2, <1>11, <1>12, Zenon DEF Next

\* Every step keeps the tokens equal to the connections that hold one.
LEMMA SemStep ==
    ASSUME TCPTypes, SemInv, [Next]_vars
    PROVE  SemInv'
  <1>1. sem \in Nat /\ IsFiniteSet(Handled) /\ sem = Cardinality(Handled) /\ sem <= MaxConnections
    BY FS_CardinalityType, Zenon DEF SemInv
  <1>2. CASE UNCHANGED <<sem, Handled>>
    BY <1>1, <1>2, Zenon DEF SemInv
  <1>3. ASSUME NEW c \in Conns, sem < MaxConnections, sem' = sem + 1,
               c \notin Handled, Handled' = Handled \cup {c}
        PROVE  SemInv'
    <2>1. IsFiniteSet(Handled') /\ Cardinality(Handled') = Cardinality(Handled) + 1
      BY <1>1, <1>3, FS_AddElement, Zenon
    <2> QED
      BY <1>1, <1>3, <2>1, TCPAssumption DEF SemInv
  <1>4. ASSUME NEW c \in Conns, sem' = sem - 1, c \in Handled, Handled' = Handled \ {c}
        PROVE  SemInv'
    <2>1. IsFiniteSet(Handled') /\ Cardinality(Handled') = Cardinality(Handled) - 1
      BY <1>1, <1>4, FS_RemoveElement, Zenon
    <2> QED
      BY <1>1, <1>4, <2>1, TCPAssumption DEF SemInv
  <1> QED
    BY <1>2, <1>3, <1>4, TokenSteps, Zenon

-----------------------------------------------------------------------------
\* The Block requests.

\* A reason is given once, and backend_blocked only by a Block request.
LEMMA ReasonStep ==
    ASSUME TCPTypes, [Next]_vars, NEW c \in Conns, FlowInv(c)
    PROVE  \/ reason'[c] = reason[c]
           \/ life[c] = "open" /\ reason'[c] # "backend_blocked"
           \/ \E q \in Requests : BlockApply(q) /\ requests[q].conn = c
  <1> USE DEF flowVars, dataVars, stopVars
  <1>1. ASSUME NEW why, why # "backend_blocked", NEW who, CloseBegin(c, who, why)
        PROVE  reason'[c] = reason[c] \/ (life[c] = "open" /\ reason'[c] # "backend_blocked")
    BY <1>1, CloseBeginAt, Zenon
  <1>2. ASSUME ConnNext(c)
        PROVE  \/ UNCHANGED reason
               \/ \E why \in Reason \ {"backend_blocked"} : CloseBegin(c, "serve", why)
    <2>1. ASSUME NEW d \in Directions, ServeEOF(c, d) \/ ServeError(c, d)
          PROVE  \/ UNCHANGED reason
                 \/ \E why \in Reason \ {"backend_blocked"} : CloseBegin(c, "serve", why)
      BY <2>1, Zenon DEF ServeEOF, ServeError, ServeClose, Reason
    <2>2. ASSUME ServeContext(c) \/ ServeIdle(c)
          PROVE  \E why \in Reason \ {"backend_blocked"} : CloseBegin(c, "serve", why)
      BY <2>2, Zenon DEF ServeContext, ServeIdle, ServeClose, Reason
    <2>3. ASSUME NEW d \in Directions, CopyNext(c, d) \/ WaitCopy(c, d)
          PROVE  UNCHANGED reason
      BY <2>3, Zenon DEF CopyNext, CopyRead, CopyWrite, CopyTouch, CopyError, CopyContext, WaitCopy
    <2>4. CASE \/ Accept(c) \/ HandleFail(c) \/ OpenFlow(c) \/ SetControls(c) \/ Sever(c) \/ Finalize(c)
               \/ ServeActivity(c) \/ ServeClosed(c) \/ HandleReturn(c)
      BY <2>4, Zenon DEF Accept, HandleFail, OpenFlow, SetControls, Sever, Finalize, ServeActivity, ServeClosed,
                  HandleReturn
    <2> QED
      BY <1>2, <2>1, <2>2, <2>3, <2>4, Zenon DEF ConnNext, ServeNext
  <1>3. ASSUME NEW b \in Conns, ConnNext(b)
        PROVE  reason'[c] = reason[c] \/ (life[c] = "open" /\ reason'[c] # "backend_blocked")
    <2>1. CASE b = c
      BY <1>1, <1>2, <1>3, <2>1, Zenon
    <2>2. CASE b # c
      BY <1>3, <2>2, OthersStep, Zenon DEF Same
    <2> QED
      BY <2>1, <2>2, Zenon
  <1>4. ASSUME NEW b \in Conns, CloseAllCall(b)
        PROVE  reason'[c] = reason[c] \/ (life[c] = "open" /\ reason'[c] # "backend_blocked")
    BY <1>1, <1>4, CloseBeginOther, Zenon DEF CloseAllCall
  <1>5. ASSUME NEW q \in Requests, BlockApply(q)
        PROVE  reason'[c] = reason[c] \/ requests[q].conn = c
    <2>1. requests[q].conn \in Conns /\ CloseBegin(requests[q].conn, "block", "backend_blocked")
      BY <1>5, Zenon DEF TCPTypes, BlockApply
    <2> QED
      BY <2>1, CloseBeginOther, Zenon
  <1>6. CASE \/ \E q \in Requests, b \in Conns : BlockLookup(q, b)
             \/ AcceptExit \/ Cancel \/ CloseAll \/ CloseAllReturn \/ CloseListener \/ Drained
             \/ UNCHANGED vars
    BY <1>6, Zenon DEF BlockLookup, AcceptExit, Cancel, CloseAll, CloseAllReturn, CloseListener, Drained, vars
  <1> QED
    BY <1>3, <1>4, <1>5, <1>6, Zenon DEF Next, StopNext

\* The steps that write a request.
LEMMA RequestSteps ==
    ASSUME [Next]_vars
    PROVE  \/ UNCHANGED requests
           \/ \E q \in Requests : BlockApply(q) \/ \E c \in Conns : BlockLookup(q, c)
  <1> USE DEF flowVars, dataVars, stopVars
  <1>1. ASSUME NEW c \in Conns, ConnNext(c)
        PROVE  UNCHANGED requests
    BY <1>1, Zenon DEF ConnNext, ServeNext, CopyNext, Accept, HandleFail, OpenFlow, SetControls, CopyRead, CopyWrite,
                CopyTouch, CopyError, CopyContext, ServeEOF, ServeError, WaitCopy, ServeContext, ServeIdle,
                ServeActivity, ServeClosed, HandleReturn, Sever, Finalize
  <1>2. CASE AcceptExit \/ Cancel \/ StopNext \/ UNCHANGED vars
    BY <1>2, Zenon DEF AcceptExit, Cancel, StopNext, CloseAll, CloseAllReturn, CloseAllCall, CloseListener, Drained, vars
  <1> QED
    BY <1>1, <1>2, Zenon DEF Next

\* Every step keeps the answers of Block and the reasons of the flows together.
LEMMA BlockStep ==
    ASSUME TCPTypes, ConnInv, BlockInv, [Next]_vars
    PROVE  BlockInv'
  <1>n. None \notin Reason /\ None \notin Conns
    BY TCPAssumption, Zenon
  <1>o. \A c \in Conns : life[c] = "open" => reason[c] = None
    BY Zenon DEF ConnInv, FlowInv
  <1>1. ASSUME \A q \in Requests : ~BlockApply(q)
        PROVE  \A c \in Conns : reason[c] = "backend_blocked" <=> reason'[c] = "backend_blocked"
    BY <1>1, <1>n, <1>o, ReasonStep, Zenon DEF ConnInv, Reason
  <1>2. CASE UNCHANGED requests
    <2>1. \A q \in Requests : ~BlockApply(q)
      BY <1>2 DEF TCPTypes, BlockApply, BlockAnswer
    <2> QED
      BY <1>1, <1>2, <2>1 DEF BlockInv, TCPTypes
  <1>3. ASSUME NEW q \in Requests, NEW c \in Conns, BlockLookup(q, c)
        PROVE  BlockInv'
    <2>1. /\ UNCHANGED reason /\ requests[q].answer # "applied"
          /\ requests'[q].answer = requests[q].answer
          /\ \A r \in Requests \ {q} : requests'[r] = requests[r]
      BY <1>3, <1>n DEF TCPTypes, BlockInv, BlockLookup, flowVars
    <2> QED
      BY <2>1 DEF BlockInv
  <1>4. ASSUME NEW q \in Requests, BlockApply(q)
        PROVE  BlockInv'
    <2> DEFINE c == requests[q].conn
    <2>1. /\ c \in Conns /\ requests[q].answer = "none"
          /\ requests'[q].conn = c
          /\ requests'[q].answer = IF life[c] = "open" THEN "applied" ELSE "refused"
          /\ \A r \in Requests \ {q} : requests'[r] = requests[r]
      BY <1>4, Zenon DEF TCPTypes, BlockApply, BlockAnswer
    <2>2. CloseBegin(c, "block", "backend_blocked")
      BY <1>4, Zenon DEF BlockApply
    <2> HIDE DEF c
    <2>3. \A b \in Conns \ {c} : reason'[b] = reason[b]
      BY <2>1, <2>2, CloseBeginOther, Zenon
    <2>4. CASE life[c] = "open"
      <3>1. reason[c] # "backend_blocked" /\ reason'[c] = "backend_blocked"
        BY <1>n, <1>o, <2>1, <2>2, <2>4, CloseBeginAt DEF Reason
      <3> QED
        BY <2>1, <2>3, <2>4, <3>1 DEF BlockInv
    <2>5. CASE life[c] # "open"
      <3>1. reason'[c] = reason[c]
        BY <2>1, <2>2, <2>5, CloseBeginAt, Zenon
      <3> QED
        BY <2>1, <2>3, <2>5, <3>1 DEF BlockInv
    <2> QED
      BY <2>4, <2>5, Zenon
  <1> QED
    BY <1>2, <1>3, <1>4, RequestSteps, Zenon

-----------------------------------------------------------------------------
\* The theorems.

\* The listener starts in its invariant
LEMMA InvInit == Init => TCPInv
  <1>1. Init => BlockInv
    BY TCPAssumption DEF Init, BlockInv, Reason
  <1> QED
    BY <1>1, TypesInit, ConnInit, SemInit, Zenon DEF TCPInv, ConnInv

\* and every step keeps it.
LEMMA InvStep == TCPInv /\ [Next]_vars => TCPInv'
  <1> SUFFICES ASSUME TCPInv, [Next]_vars PROVE TCPInv'
    OBVIOUS
  <1>1. TCPTypes' /\ SemInv' /\ BlockInv'
    BY TypesNext, SemStep, BlockStep, Zenon DEF TCPInv
  <1>2. ConnInv'
    BY <1>1, FlowStep, DataStep, Zenon DEF TCPInv, ConnInv
  <1> QED
    BY <1>1, <1>2, Zenon DEF TCPInv

\* The invariant of the listener.
THEOREM ListenerInvariant == Spec => []TCPInv
  BY InvInit, InvStep, PTL DEF Spec

\* For any number of connections and of Block requests: at most one request per flow is
\* answered as applied, and exactly then the reason of the flow is backend_blocked.
THEOREM BlockedOnce == Spec => []BlockExactlyOnce
  <1>1. TCPInv => BlockExactlyOnce
    <2> SUFFICES ASSUME TCPInv, NEW c \in Conns
                 PROVE  LET applied == {q \in Requests : requests[q].conn = c
                                                       /\ requests[q].answer = "applied"}
                        IN  /\ Cardinality(applied) <= 1
                            /\ applied # {} <=> reason[c] = "backend_blocked"
      BY Zenon DEF BlockExactlyOnce
    <2> DEFINE applied == {q \in Requests : requests[q].conn = c /\ requests[q].answer = "applied"}
    <2>1. applied # {} <=> reason[c] = "backend_blocked"
      BY DEF TCPInv, BlockInv
    <2>2. \A q, r \in applied : q = r
      BY DEF TCPInv, BlockInv
    <2>3. applied = {} \/ \E q : applied = {q}
      BY <2>2, ZenonT(60)
    <2> HIDE DEF applied
    <2>4. Cardinality(applied) <= 1
      <3>1. Cardinality({}) = 0 /\ \A q : Cardinality({q}) = 1
        BY FS_EmptySet, FS_Singleton, Zenon
      <3>2. Cardinality(applied) = 0 \/ Cardinality(applied) = 1
        BY <2>3, <3>1, Zenon
      <3> QED
        BY <3>2
    <2> QED
      BY <2>1, <2>4, Zenon DEF applied
  <1> QED
    BY <1>1, ListenerInvariant, PTL

\* For any number of chunks, the summary of a closed flow is its last counter, and the
\* summary of a flow that ended with eof counts every chunk that was read.
THEOREM SummaryComplete == Spec => []SummaryIsComplete
  <1>1. TCPInv => SummaryIsComplete
    BY Zenon DEF TCPInv, ConnInv, DataInv, SummaryIsComplete
  <1> QED
    BY <1>1, ListenerInvariant, PTL

\* For any connection limit, sem is the number of connections being handled, and a
\* connection gives its token back only when its flow is closed or somebody else closes it.
THEOREM TokensExact == Spec => []TokensCoverFlows
  <1>1. TCPInv => TokensCoverFlows
    <2> SUFFICES ASSUME TCPInv PROVE TokensCoverFlows
      OBVIOUS
    <2>1. sem = Cardinality({c \in Conns : stage[c] \notin {"new", "gone"}})
      BY Zenon DEF TCPInv, SemInv, Handled
    <2>2. \A c \in Conns : stage[c] = "gone" /\ life[c] # "none" =>
            life[c] = "closed" \/ (life[c] \in {"marked", "severed"} /\ closer[c] \in {"block", "stop"})
      <3> TAKE c \in Conns
      <3>1. FlowInv(c) /\ life[c] \in Life /\ closer[c] \in {"serve", "block", "stop", None}
        BY Zenon DEF TCPInv, TCPTypes, ConnInv
      <3> QED
        BY <3>1, Zenon DEF FlowInv, Life
    <2> QED
      BY <2>1, <2>2, Zenon DEF TokensCoverFlows
  <1> QED
    BY <1>1, ListenerInvariant, PTL

-----------------------------------------------------------------------------
\* The refinement of FlowLifecycle.

\* The part of the state that observers of the lifecycle see.
LifeSame == \A c \in Conns : /\ life[c] = "none" <=> life'[c] = "none"
                             /\ life[c] = "closed" <=> life'[c] = "closed"

\* A step that touches no flow record stutters in the lifecycle.
LEMMA StutterLife ==
    ASSUME TCPTypes, TCPTypes', LifeSame, UNCHANGED <<counter, summary, controls>>
    PROVE  UNCHANGED Lifecycle!vars
  <1>1. \A c \in Conns : life[c] \in Life /\ life'[c] \in Life
    BY Zenon DEF TCPTypes
  <1> QED
    BY <1>1, Zenon DEF LifeSame, Life, Lifecycle!vars, Registered

\* Beginning to close is such a step.
LEMMA CloseBeginLife ==
    ASSUME TCPTypes, NEW c \in Conns, NEW who, NEW why, CloseBegin(c, who, why)
    PROVE  LifeSame
  BY ZenonT(60) DEF TCPTypes, CloseBegin, LifeSame, flowVars

\* Every step of a connection is a step of its lifecycle or a stutter,
LEMMA LifecycleConn ==
    ASSUME TCPTypes, TCPTypes', ConnInv, NEW c \in Conns, ConnNext(c)
    PROVE  Lifecycle!Next \/ UNCHANGED Lifecycle!vars
  <1> USE DEF flowVars, dataVars, stopVars
  <1>1. CASE OpenFlow(c)
    <2>1. life[c] = "none"
      BY <1>1, Zenon DEF ConnInv, FlowInv, OpenFlow, Goto
    <2>2. Lifecycle!Open(c)
      BY <1>1, <2>1 DEF TCPTypes, OpenFlow, Lifecycle!Open, Registered
    <2> QED
      BY <2>2, Zenon DEF Lifecycle!Next
  <1>2. CASE SetControls(c)
    <2>1. CASE Registered(c)
      <3>1. Lifecycle!SetControls(c)
        BY <1>2, <2>1, Zenon DEF SetControls, Lifecycle!SetControls, Registered
      <3> QED
        BY <3>1, Zenon DEF Lifecycle!Next
    <2>2. CASE ~Registered(c)
      BY <1>2, <2>2, StutterLife, Zenon DEF SetControls, LifeSame
    <2> QED
      BY <2>1, <2>2, Zenon
  <1>3. ASSUME NEW d \in Directions, CopyTouch(c, d)
        PROVE  Lifecycle!Next \/ UNCHANGED Lifecycle!vars
    <2>1. CASE Registered(c)
      <3>1. Lifecycle!Add(c)
        BY <1>3, <2>1, Zenon DEF CopyTouch, Add, Lifecycle!Add, Registered
      <3> QED
        BY <3>1, Zenon DEF Lifecycle!Next
    <2>2. CASE ~Registered(c)
      BY <1>3, <2>2, StutterLife, Zenon DEF CopyTouch, Add, LifeSame
    <2> QED
      BY <2>1, <2>2, Zenon
  <1>4. CASE Finalize(c)
    <2>1. Lifecycle!Close(c)
      BY <1>4, ZenonT(60) DEF TCPTypes, Finalize, Lifecycle!Close, Registered
    <2> QED
      BY <2>1, Zenon DEF Lifecycle!Next
  <1>5. CASE Sever(c)
    BY <1>5, StutterLife, Zenon DEF TCPTypes, Sever, LifeSame
  <1>6. ASSUME NEW d \in Directions, ServeEOF(c, d) \/ ServeError(c, d)
        PROVE  UNCHANGED Lifecycle!vars
    <2>1. UNCHANGED life \/ \E why : CloseBegin(c, "serve", why)
      BY <1>6, Zenon DEF ServeEOF, ServeError, ServeClose
    <2>2. UNCHANGED <<counter, summary, controls>>
      BY <1>6, Zenon DEF ServeEOF, ServeError
    <2> QED
      BY <2>1, <2>2, CloseBeginLife, StutterLife, Zenon DEF LifeSame
  <1>7. CASE ServeContext(c) \/ ServeIdle(c)
    BY <1>7, CloseBeginLife, StutterLife, Zenon DEF ServeContext, ServeIdle, ServeClose
  <1>8. ASSUME UNCHANGED <<life, counter, summary, controls>>
        PROVE  UNCHANGED Lifecycle!vars
    BY <1>8, StutterLife, Zenon DEF LifeSame
  <1>9. ASSUME NEW d \in Directions,
               CopyRead(c, d) \/ CopyWrite(c, d) \/ CopyError(c, d) \/ CopyContext(c, d) \/ WaitCopy(c, d)
        PROVE  UNCHANGED <<life, counter, summary, controls>>
    BY <1>9, Zenon DEF CopyRead, CopyWrite, CopyError, CopyContext, WaitCopy
  <1>10. ASSUME Accept(c) \/ HandleFail(c) \/ ServeActivity(c) \/ ServeClosed(c) \/ HandleReturn(c)
         PROVE  UNCHANGED <<life, counter, summary, controls>>
    BY <1>10, Zenon DEF Accept, HandleFail, ServeActivity, ServeClosed, HandleReturn
  <1> QED
    BY <1>1, <1>2, <1>3, <1>4, <1>5, <1>6, <1>7, <1>8, <1>9, <1>10, Zenon DEF ConnNext, CopyNext, ServeNext

\* and so is every step of the listener.
LEMMA LifecycleStep ==
    ASSUME TCPTypes, TCPTypes', ConnInv, [Next]_vars
    PROVE  [Lifecycle!Next]_Lifecycle!vars
  <1> USE DEF flowVars, dataVars, stopVars
  <1>1. ASSUME NEW q \in Requests, BlockApply(q)
        PROVE  UNCHANGED Lifecycle!vars
    <2>1. requests[q].conn \in Conns /\ CloseBegin(requests[q].conn, "block", "backend_blocked")
      BY <1>1, Zenon DEF TCPTypes, BlockApply
    <2>2. UNCHANGED <<counter, summary, controls>>
      BY <1>1, Zenon DEF BlockApply
    <2> QED
      BY <2>1, <2>2, CloseBeginLife, StutterLife, Zenon
  <1>2. ASSUME NEW c \in Conns, CloseAllCall(c)
        PROVE  UNCHANGED Lifecycle!vars
    BY <1>2, CloseBeginLife, StutterLife, Zenon DEF CloseAllCall
  <1>3. CASE \/ \E q \in Requests, b \in Conns : BlockLookup(q, b)
             \/ AcceptExit \/ Cancel \/ CloseAll \/ CloseAllReturn \/ CloseListener \/ Drained
             \/ UNCHANGED vars
    <2>1. UNCHANGED <<life, counter, summary, controls>>
      BY <1>3, Zenon DEF BlockLookup, AcceptExit, Cancel, CloseAll, CloseAllReturn, CloseListener, Drained, vars
    <2> QED
      BY <2>1, StutterLife, Zenon DEF LifeSame
  <1> QED
    BY <1>1, <1>2, <1>3, LifecycleConn, Zenon DEF Next, StopNext

\* With its copies, serve loop and closers, a TCP stream implements the lifecycle of
\* lifecycle.go: Open once, cumulative updates between Open and Close, one summary.
THEOREM LifecycleRefined == Spec => ImplementsLifecycle
  <1>1. Init => Lifecycle!Init
    BY DEF Init, Lifecycle!Init, Registered
  <1>2. TCPInv /\ TCPInv' /\ [Next]_vars => [Lifecycle!Next]_Lifecycle!vars
    BY LifecycleStep, Zenon DEF TCPInv
  <1> QED
    BY <1>1, <1>2, ListenerInvariant, PTL DEF Spec, ImplementsLifecycle, Lifecycle!Spec

-----------------------------------------------------------------------------
\* The limiter of a Flow.

\* The smaller of two naturals.
LEMMA SmallerIs ==
    ASSUME NEW a \in Nat, NEW b \in Nat
    PROVE  /\ Smaller(a, b) \in Nat /\ Smaller(a, b) <= a /\ Smaller(a, b) <= b
           /\ a <= b => Smaller(a, b) = a
           /\ b <= a => Smaller(a, b) = b
BY DEF Smaller

\* What the proofs need of products.
LEMMA ProductIs ==
    ASSUME NEW a \in Nat, NEW r \in Nat
    PROVE  /\ a * r \in Nat /\ (a + 1) * r = a * r + r
           /\ 0 * r = 0 /\ a * 0 = 0
OBVIOUS

\* The size of the bucket.
LEMMA BurstIs == \A r \in Nat : Burst(r) \in Nat /\ Burst(0) = 0 /\ (r > 0 => Burst(r) > 0)
<1> SUFFICES ASSUME NEW r \in Nat PROVE Burst(r) \in Nat /\ Burst(0) = 0 /\ (r > 0 => Burst(r) > 0)
  OBVIOUS
<1>1. r * BurstWindow \in Nat /\ MinBurst \in Nat /\ MinBurst > 0
  BY ProductIs, LimiterAssumption
<1> QED BY <1>1 DEF Burst, Larger

\* recomputeLocked: an override can only tighten the limit of the policy.
LEMMA EffectiveIs ==
    ASSUME NEW b \in Limits, NEW o \in Limits
    PROVE  Effective(b, o) \in Limits /\ (b > 0 => Effective(b, o) \in 1..b)
<1>1. b \in Nat /\ o \in Nat
  BY LimiterAssumption, Zenon
<1> QED BY <1>1 DEF Effective

\* What the bucket holds is a natural number, no larger than the bucket.
LEMMA LevelIs ==
    ASSUME LimiterTypeOK
    PROVE  /\ Rate \in Limits /\ Rate \in Nat /\ Burst(Rate) \in Nat /\ Replenished \in 0..Burst(Rate)
           /\ age * Rate \in Nat /\ tokens \in Nat /\ age \in Nat /\ tokens <= Burst(Rate)
<1>1. Rate \in Limits /\ Rate \in Nat
  BY EffectiveIs, LimiterAssumption, Zenon DEF Rate, LimiterTypeOK
<1>2. Burst(Rate) \in Nat
  BY <1>1, BurstIs, Zenon
<1>3. age \in Nat /\ tokens \in 0..Burst(Rate)
  BY LimiterAssumption DEF LimiterTypeOK
<1>4. age * Rate \in Nat /\ tokens + age * Rate \in Nat
  <2> HIDE DEF Rate
  <2> QED BY <1>1, <1>2, <1>3, ProductIs
<1>5. Replenished \in 0..Burst(Rate)
  BY <1>2, <1>4, SmallerIs DEF Replenished
<1> QED BY <1>1, <1>2, <1>3, <1>4, <1>5

\* What it holds right after it was looked at.
LEMMA LevelAfter ==
    ASSUME NEW r \in Nat, NEW t \in Nat, t <= Burst(r)
    PROVE  Smaller(t + 0 * r, Burst(r)) = t
<1>1. 0 * r = 0 /\ Burst(r) \in Nat
  BY ProductIs, BurstIs, Zenon
<1> QED BY <1>1, SmallerIs

\* Integer division.
LEMMA DivIs ==
    ASSUME NEW x \in Int, NEW b \in Nat, b > 0
    PROVE  (x \div b) \in Int /\ (x \div b) * b <= x /\ x < ((x \div b) + 1) * b
OBVIOUS

\* A divisor more is one more.
LEMMA CeilingUp ==
    ASSUME NEW x \in Int, NEW b \in Nat, b > 0
    PROVE  Ceiling(x + b, b) = Ceiling(x, b) + 1
BY DivIs DEF Ceiling

\* More is no less.
LEMMA CeilingMonotone ==
    ASSUME NEW x \in Int, NEW y \in Int, NEW b \in Nat, b > 0, x <= y
    PROVE  Ceiling(x, b) <= Ceiling(y, b)
BY DivIs DEF Ceiling


\* A new override: the rate that results, and the tokens that are left.
LEMMA RecomputeLevel ==
    ASSUME LimiterTypeOK, NEW o \in Limits, Recompute(o)
    PROVE  /\ Rate' = Effective(base, o) /\ Rate' \in Limits /\ base' = base
           /\ tokens' \in 0..Burst(Rate)' /\ Replenished' = tokens'
           /\ tokens' = IF Rate = 0 THEN Burst(Rate') ELSE Smaller(Replenished, Burst(Rate'))
<1> DEFINE r == Effective(base, o)
<1>1. Rate' = r /\ base' = base /\ r \in Limits /\ r \in Nat
  BY EffectiveIs, LimiterAssumption, Zenon DEF Recompute, Rate, LimiterTypeOK
<1>2. /\ Burst(r) \in Nat /\ Burst(0) = 0 /\ age' = 0 /\ Replenished \in Nat /\ Rate \in Nat
      /\ tokens' = IF r = 0 THEN 0 ELSE IF Rate = 0 THEN Burst(r) ELSE Smaller(Replenished, Burst(r))
  BY <1>1, BurstIs, LevelIs DEF Recompute
<1>3. tokens' \in Nat /\ tokens' <= Burst(r)
  <2> HIDE DEF r
  <2> QED BY <1>2, SmallerIs
<1>4. Burst(Rate)' = Burst(r)
  BY <1>1, Zenon DEF Burst, Larger
<1>5. Replenished' = Smaller(tokens' + 0 * r, Burst(r))
  BY <1>1, <1>2, <1>4, Zenon DEF Replenished
<1>6. Replenished' = tokens'
  <2> HIDE DEF r
  <2> QED BY <1>1, <1>3, <1>5, LevelAfter, Zenon
<1>7. tokens' = IF Rate = 0 THEN Burst(r) ELSE Smaller(Replenished, Burst(r))
  <2> HIDE DEF r
  <2> QED BY <1>2, SmallerIs
<1> QED BY <1>1, <1>2, <1>3, <1>4, <1>6, <1>7

\* A step that leaves the limits alone leaves the rate and the size of the bucket alone.
LEMMA SameRate ==
    ASSUME UNCHANGED <<base, override>>
    PROVE  Rate' = Rate /\ Burst(Rate)' = Burst(Rate)
BY Zenon DEF Rate, Burst, Larger, Effective

\* Somebody looks at the bucket and leaves n tokens.
LEMMA LookedAt ==
    ASSUME LimiterTypeOK, UNCHANGED <<base, override>>, age' = 0,
           NEW n \in Nat, n <= Replenished, tokens' = n
    PROVE  Rate' = Rate /\ tokens' \in 0..Burst(Rate)' /\ age' \in 0..MaxAge /\ Replenished' = n
<1>1. /\ Rate \in Nat /\ Burst(Rate) \in Nat /\ n <= Burst(Rate)
  BY LevelIs
<1>2. Rate' = Rate /\ Burst(Rate)' = Burst(Rate)
  BY SameRate, Zenon
<1>3. Replenished' = Smaller(n + 0 * Rate, Burst(Rate))
  BY <1>2, Zenon DEF Replenished
<1>4. Replenished' = n
  BY <1>1, <1>3, LevelAfter, Zenon
<1> QED BY <1>1, <1>2, <1>4, LimiterAssumption

\* Nobody looks at it, and no time passes.
LEMMA NotLookedAt ==
    ASSUME UNCHANGED <<base, override, tokens, age>>
    PROVE  Rate' = Rate /\ Burst(Rate)' = Burst(Rate) /\ Replenished' = Replenished
BY Zenon DEF Rate, Burst, Larger, Effective, Replenished

\* A tick adds the rate, up to the size of the bucket: also when the age is not counted further.
LEMMA TickLevel ==
    ASSUME LimiterTypeOK, LimiterTick
    PROVE  /\ Rate' = Rate /\ Burst(Rate)' = Burst(Rate) /\ age' \in 0..MaxAge
           /\ Replenished' = Smaller(Replenished + Rate, Burst(Rate))
<1>1. Rate' = Rate /\ Burst(Rate)' = Burst(Rate) /\ tokens' = tokens
  BY SameRate, Zenon DEF LimiterTick
<1>2. /\ Rate \in Limits /\ Rate \in Nat /\ Burst(Rate) \in Nat /\ Replenished \in Nat /\ age * Rate \in Nat
      /\ tokens \in Nat /\ age \in Nat
  BY LevelIs
<1>3. age' = Smaller(age + 1, MaxAge) /\ MaxAge \in Nat /\ age <= MaxAge
  BY LimiterAssumption DEF LimiterTick, LimiterTypeOK
<1>4. age' \in 0..MaxAge
  BY <1>2, <1>3 DEF Smaller
<1>5. Replenished' = Smaller(tokens + age' * Rate, Burst(Rate))
  BY <1>1, Zenon DEF Replenished
<1>6. CASE age < MaxAge
  <2>1. age' = age + 1
    BY <1>2, <1>3, <1>6 DEF Smaller
  <2>2. age' * Rate = age * Rate + Rate
    BY <1>2, <2>1, ProductIs, Zenon
  <2>3. Replenished' = Smaller(tokens + age * Rate + Rate, Burst(Rate))
    <3>1. tokens + age' * Rate = tokens + age * Rate + Rate
      BY <1>2, <2>2
    <3> QED BY <1>5, <3>1, Zenon
  <2> HIDE DEF Rate, Burst
  <2> DEFINE x == age * Rate
  <2>4. x \in Nat /\ Replenished' = Smaller(tokens + x + Rate, Burst(Rate)) /\ Replenished = Smaller(tokens + x, Burst(Rate))
    BY <1>2, <2>3, Zenon DEF Replenished
  <2> HIDE DEF x
  <2>5. Replenished' = Smaller(Replenished + Rate, Burst(Rate))
    BY <1>2, <2>4 DEF Smaller
  <2> QED BY <1>1, <1>4, <2>5, Zenon
<1>7. CASE ~(age < MaxAge)
  <2>1. age = MaxAge /\ age' = MaxAge
    BY <1>2, <1>3, <1>7 DEF Smaller
  <2>2. age * Rate >= Burst(Rate)
    <3>1. CASE Rate = 0
      <4>1. Burst(Rate) = 0
        BY <3>1, BurstIs, Zenon
      <4> QED BY <4>1, <1>2
    <3>2. CASE Rate # 0
      BY <1>2, <2>1, <3>2, LimiterAssumption, Zenon
    <3> QED BY <3>1, <3>2, Zenon
  <2> HIDE DEF Rate, Burst
  <2> DEFINE x == age * Rate
  <2>3. x \in Nat /\ x >= Burst(Rate) /\ Replenished' = Smaller(tokens + x, Burst(Rate))
        /\ Replenished = Smaller(tokens + x, Burst(Rate))
    BY <1>2, <1>5, <2>1, <2>2, Zenon DEF Replenished
  <2> HIDE DEF x
  <2>4. Replenished' = Smaller(Replenished + Rate, Burst(Rate))
    BY <1>2, <2>3 DEF Smaller
  <2> QED BY <1>1, <1>4, <2>4, Zenon
<1> QED BY <1>6, <1>7, Zenon

\* The types of the directions.
CopierStates == [state : {"idle", "waiting", "sleeping"}, left : Nat, timer : Nat, woken : BOOLEAN]
Copiers == [Waiters -> CopierStates]

\* A chunk is a part of what is left.
LEMMA ChunkIs ==
    ASSUME LimiterTypeOK, NEW d \in Waiters
    PROVE  /\ copier[d].left \in Nat /\ Chunk(d) \in Nat /\ Chunk(d) <= copier[d].left
<1>1. copier[d].left \in Nat
  BY Zenon DEF LimiterTypeOK
<1> QED BY <1>1, LevelIs, SmallerIs, Zenon DEF Chunk

\* The time that the missing tokens take.
LEMMA NeedIs ==
    ASSUME LimiterTypeOK, NEW n \in Nat, Rate > 0
    PROVE  /\ Ceiling(n - Replenished, Rate) \in Int
           /\ Need(n) \in Nat /\ Need(n) >= 1 /\ Need(n) >= Ceiling(n - Replenished, Rate)
           /\ Need(n) > 1 => Need(n) = Ceiling(n - Replenished, Rate)
<1>1. Rate \in Nat /\ Replenished \in Nat
  BY LevelIs
<1>2. Ceiling(n - Replenished, Rate) \in Int
  <2> DEFINE x == n - Replenished + Rate - 1
  <2>1. x \in Int
    BY <1>1
  <2>2. (x \div Rate) \in Int
    <3> HIDE DEF x
    <3> QED BY <1>1, <2>1, DivIs, Zenon
  <2> QED BY <2>2, Zenon DEF Ceiling
<1> QED BY <1>2 DEF Need, Larger

\* A turn of waitChunk: the limit is gone, a chunk is taken, or the timer is set.
LEMMA TurnKinds ==
    ASSUME LimiterTypeOK, NEW d \in Waiters, WaitTurn(d)
    PROVE  /\ UNCHANGED <<protocol, calls, base, override>> /\ Rate' = Rate
           /\ tokens' \in 0..Burst(Rate)' /\ age' \in 0..MaxAge
           /\ \E n \in Nat : n <= Replenished /\ Replenished' = n
           /\ \/ Rate = 0 /\ copier' = [copier EXCEPT ![d] = IdleCopier]
              \/ Rate > 0 /\ copier' = [copier EXCEPT ![d] = IF copier[d].left = Chunk(d) THEN IdleCopier
                                                ELSE [copier[d] EXCEPT !.left = copier[d].left - Chunk(d)]]
              \/ /\ Rate > 0 /\ copier' = [copier EXCEPT ![d].state = "sleeping", ![d].timer = Need(Chunk(d))]
                 /\ Replenished' = Replenished
<1>1. UNCHANGED <<protocol, calls, base, override>>
  BY Zenon DEF WaitTurn
<1>2. Rate \in Nat /\ Replenished \in Nat /\ Chunk(d) \in Nat /\ Replenished <= Burst(Rate) /\ Burst(Rate) \in Nat
  BY LevelIs, ChunkIs
<1>3. CASE Rate = 0
  <2>1. copier' = [copier EXCEPT ![d] = IdleCopier] /\ UNCHANGED <<tokens, age>>
    BY <1>3, Zenon DEF WaitTurn
  <2>2. Rate' = Rate /\ Burst(Rate)' = Burst(Rate) /\ Replenished' = Replenished
    BY <1>1, <2>1, NotLookedAt, Zenon
  <2>3. tokens' \in 0..Burst(Rate)' /\ age' \in 0..MaxAge
    BY <2>1, <2>2, Zenon DEF LimiterTypeOK
  <2> QED BY <1>1, <1>2, <1>3, <2>1, <2>2, <2>3
<1>4. CASE Rate # 0 /\ Replenished >= Chunk(d)
  <2>1. /\ age' = 0 /\ tokens' = Replenished - Chunk(d)
        /\ copier' = [copier EXCEPT ![d] = IF copier[d].left = Chunk(d) THEN IdleCopier
                                           ELSE [copier[d] EXCEPT !.left = copier[d].left - Chunk(d)]]
    BY <1>4, Zenon DEF WaitTurn
  <2>2. Replenished - Chunk(d) \in Nat /\ Replenished - Chunk(d) <= Replenished
    BY <1>2, <1>4
  <2>3. Rate' = Rate /\ tokens' \in 0..Burst(Rate)' /\ age' \in 0..MaxAge /\ Replenished' = Replenished - Chunk(d)
    BY <1>1, <2>1, <2>2, LookedAt, Zenon
  <2> QED BY <1>1, <1>2, <1>4, <2>1, <2>2, <2>3
<1>5. CASE Rate # 0 /\ ~(Replenished >= Chunk(d))
  <2>1. /\ age' = 0 /\ tokens' = Replenished
        /\ copier' = [copier EXCEPT ![d].state = "sleeping", ![d].timer = Need(Chunk(d))]
    BY <1>5, Zenon DEF WaitTurn
  <2>3. Rate' = Rate /\ tokens' \in 0..Burst(Rate)' /\ age' \in 0..MaxAge /\ Replenished' = Replenished
    BY <1>1, <1>2, <2>1, LookedAt
  <2> QED BY <1>1, <1>2, <1>5, <2>1, <2>3
<1> QED BY <1>3, <1>4, <1>5, Zenon

\* A datagram takes tokens, or only looks.
LEMMA DatagramKinds ==
    ASSUME LimiterTypeOK, NEW n \in Writes, TakeDatagram(n)
    PROVE  /\ UNCHANGED <<protocol, calls, base, override, copier>> /\ Rate' = Rate
           /\ tokens' \in 0..Burst(Rate)' /\ age' \in 0..MaxAge
           /\ \E k \in Nat : k <= Replenished /\ Replenished' = k
<1>1. UNCHANGED <<protocol, calls, base, override, copier>> /\ age' = 0
  BY Zenon DEF TakeDatagram
<1>2. n \in Nat /\ Replenished \in Nat
  BY LevelIs, LimiterAssumption
<1>3. PICK k \in Nat : k <= Replenished /\ tokens' = k
  BY <1>2 DEF TakeDatagram
<1> QED BY <1>1, <1>3, LookedAt, Zenon

\* newByteRateLimiter fills the bucket.
LEMMA LimiterTypeInit == LimiterInit => LimiterTypeOK
<1> SUFFICES ASSUME LimiterInit PROVE LimiterTypeOK
  OBVIOUS
<1>1. base \in Limits /\ override = 0 /\ 0 \in Limits /\ base \in Nat
  BY LimiterAssumption, Zenon DEF LimiterInit
<1>2. Rate = base
  BY <1>1 DEF Rate, Effective
<1>3. tokens \in 0..Burst(Rate)
  BY <1>1, <1>2, BurstIs DEF LimiterInit
<1>4. copier \in Copiers
  BY Zenon DEF LimiterInit, IdleCopier, Copiers, CopierStates
<1> QED BY <1>1, <1>3, <1>4, LimiterAssumption DEF LimiterTypeOK, LimiterInit, Copiers, CopierStates

\* Every step keeps the types.
LEMMA LimiterTypeStep == LimiterTypeOK /\ [LimiterNext]_limiterVars => LimiterTypeOK'
<1> SUFFICES ASSUME LimiterTypeOK, [LimiterNext]_limiterVars PROVE LimiterTypeOK'
  OBVIOUS
<1>0. /\ protocol \in {"tcp", "udp"} /\ calls \in 0..MaxCalls /\ base \in Limits /\ override \in Limits
      /\ tokens \in 0..Burst(Rate) /\ age \in 0..MaxAge /\ copier \in Copiers /\ 0 \in Limits /\ MaxAge \in Nat /\ MaxCalls \in Nat
  BY LimiterAssumption, Zenon DEF LimiterTypeOK, Copiers, CopierStates
<1>1. ASSUME NEW o \in Limits, BackendCalls, Recompute(o) PROVE LimiterTypeOK'
  <2>1. calls' \in 0..MaxCalls
    BY <1>0, <1>1 DEF BackendCalls
  <2>2. copier' \in Copiers /\ override' = o /\ age' = 0 /\ UNCHANGED <<protocol, base>>
    BY <1>0, <1>1 DEF Recompute, Copiers, CopierStates
  <2>3. tokens' \in 0..Burst(Rate)'
    BY <1>1, RecomputeLevel, Zenon
  <2> QED BY <1>0, <2>1, <2>2, <2>3 DEF LimiterTypeOK, Copiers, CopierStates
<1>2. CASE SetLimitOverride \/ ClearLimitOverride
  BY <1>0, <1>1, <1>2, Zenon DEF SetLimitOverride, ClearLimitOverride
<1>3. CASE LimiterTick
  <2>1. copier' \in Copiers /\ UNCHANGED <<protocol, calls, base, override, tokens>>
    BY <1>0, <1>3 DEF LimiterTick, Copiers, CopierStates
  <2> QED BY <1>0, <1>3, <2>1, TickLevel, Zenon DEF LimiterTypeOK, Copiers, CopierStates
<1>4. ASSUME NEW n \in Writes, TakeDatagram(n) PROVE LimiterTypeOK'
  BY <1>0, <1>4, DatagramKinds, Zenon DEF LimiterTypeOK, Copiers, CopierStates
<1>5. ASSUME NEW d \in Waiters, WaitTurn(d) PROVE LimiterTypeOK'
  <2>1. copier[d].left - Chunk(d) \in Nat /\ (Rate > 0 => Need(Chunk(d)) \in Nat)
    BY ChunkIs, NeedIs
  <2>2. /\ copier \in [Waiters -> CopierStates] /\ IdleCopier \in CopierStates
        /\ [copier[d] EXCEPT !.left = copier[d].left - Chunk(d)] \in CopierStates
        /\ Rate > 0 => [copier[d] EXCEPT !.state = "sleeping", !.timer = Need(Chunk(d))] \in CopierStates
    BY <1>0, <2>1, Zenon DEF Copiers, CopierStates, IdleCopier
  <2>3. PICK r \in CopierStates : copier' = [copier EXCEPT ![d] = r]
    <3>1. CASE Rate = 0
      BY <1>5, <2>2, <3>1, TurnKinds, Zenon
    <3>2. CASE Rate # 0 /\ copier' = [copier EXCEPT ![d].state = "sleeping", ![d].timer = Need(Chunk(d))]
      <4>1. Rate > 0
        BY <3>2, LevelIs
      <4>2. copier' = [copier EXCEPT ![d] = [copier[d] EXCEPT !.state = "sleeping", !.timer = Need(Chunk(d))]]
        BY <3>2, <2>2, Zenon
      <4> QED BY <2>2, <4>1, <4>2, Zenon
    <3>3. CASE Rate # 0 /\ copier' # [copier EXCEPT ![d].state = "sleeping", ![d].timer = Need(Chunk(d))]
      <4>1. copier' = [copier EXCEPT ![d] = IF copier[d].left = Chunk(d) THEN IdleCopier
                                            ELSE [copier[d] EXCEPT !.left = copier[d].left - Chunk(d)]]
        BY <1>5, <3>3, TurnKinds, Zenon
      <4> QED BY <2>2, <4>1, Zenon
    <3> QED BY <3>1, <3>2, <3>3, Zenon
  <2>4. copier' \in Copiers
    BY <2>2, <2>3, Zenon DEF Copiers
  <2> QED BY <1>0, <1>5, <2>4, TurnKinds, Zenon DEF LimiterTypeOK, Copiers, CopierStates
<1>6. ASSUME NEW d \in Waiters, Wakes(d) \/ WaitCancelled(d) \/ \E n \in Writes : WaitBegins(d, n)
      PROVE  LimiterTypeOK'
  <2>1. UNCHANGED <<protocol, calls, base, override, tokens, age>>
    BY <1>6, Zenon DEF Wakes, WaitCancelled, WaitBegins
  <2>2. PICK r \in CopierStates : copier' = [copier EXCEPT ![d] = r]
    <3>1. /\ IdleCopier \in CopierStates
          /\ \A n \in Nat : [IdleCopier EXCEPT !.state = "waiting", !.left = n] \in CopierStates
      BY Zenon DEF IdleCopier, CopierStates
    <3>2. copier[d].left \in Nat /\ Writes \subseteq Nat
      BY ChunkIs, LimiterAssumption, Zenon
    <3>3. PICK n \in Nat : \/ copier' = [copier EXCEPT ![d] = IdleCopier]
                           \/ copier' = [copier EXCEPT ![d] = [IdleCopier EXCEPT !.state = "waiting", !.left = n]]
      BY <1>6, <3>2, Zenon DEF Wakes, WaitCancelled, WaitBegins
    <3> QED BY <3>1, <3>3, Zenon
  <2>3. copier' \in Copiers
    BY <1>0, <2>2, Zenon DEF Copiers
  <2> QED BY <1>0, <2>1, <2>3, NotLookedAt, Zenon DEF LimiterTypeOK, Copiers, CopierStates
<1>7. CASE UNCHANGED limiterVars
  BY <1>0, <1>7, NotLookedAt, Zenon DEF limiterVars, LimiterTypeOK, Copiers, CopierStates
<1> QED BY <1>2, <1>3, <1>4, <1>5, <1>6, <1>7, Zenon DEF LimiterNext, CopierStep

\* byteRateLimiter: the bucket never holds more than its size nor less than nothing, whatever
\* overrides, waits and datagrams come.
THEOREM LimiterTypeCorrect == LimiterSpec => []LimiterTypeOK
BY LimiterTypeInit, LimiterTypeStep, PTL DEF LimiterSpec

\* The size of the abstract bucket.
LEMMA BurstOfRate == \A r \in Limits : [x \in Limits |-> Burst(x)][r] = Burst(r)
OBVIOUS

\* Fewer tokens at the same rate: the abstract bucket lost what passed.
LEMMA FewerIsTake ==
    ASSUME LimiterTypeOK, UNCHANGED base, Rate' = Rate, NEW k \in Nat, k <= Replenished, Replenished' = k
    PROVE  [Abstract!Take]_<<base, Rate, Replenished>>
<1>1. Replenished \in Nat
  BY LevelIs
<1>2. CASE k = Replenished
  BY <1>2, Zenon
<1>3. CASE k # Replenished
  <2>1. Replenished - k \in 1..Replenished /\ Replenished' = Replenished - (Replenished - k)
    BY <1>1, <1>3
  <2> QED BY <2>1, Zenon DEF Abstract!Take
<1> QED BY <1>2, <1>3, Zenon

\* A new override changes the rate, or nothing.
LEMMA RecomputeIsChange ==
    ASSUME LimiterTypeOK, NEW o \in Limits, Recompute(o)
    PROVE  [Abstract!Change]_<<base, Rate, Replenished>>
<1>1. /\ Rate' = Effective(base, o) /\ Rate' \in Limits /\ base' = base
      /\ Replenished' = IF Rate = 0 THEN Burst(Rate') ELSE Smaller(Replenished, Burst(Rate'))
  BY RecomputeLevel, Zenon
<1>2. /\ Rate \in Limits /\ Rate \in Nat /\ Burst(Rate) \in Nat /\ Replenished \in 0..Burst(Rate)
      /\ base \in Limits /\ base \in Nat
  BY LevelIs, LimiterAssumption, Zenon DEF LimiterTypeOK
<1>3. CASE Rate' = Rate
  <2>1. Replenished' = Replenished
    <3>1. CASE Rate = 0
      <4>1. Burst(Rate) = 0 /\ Burst(Rate') = 0
        BY <1>3, <3>1, BurstIs, Zenon
      <4> QED BY <1>1, <1>2, <3>1, <4>1
    <3>2. CASE Rate # 0
      BY <1>1, <1>2, <1>3, <3>2, SmallerIs
    <3> QED BY <3>1, <3>2, Zenon
  <2> QED BY <1>1, <1>3, <2>1, Zenon
<1>4. CASE Rate' # Rate
  <2>1. base > 0 => Rate' \in 1..base
    BY <1>1, <1>2, EffectiveIs, Zenon
  <2>2. Smaller(Replenished, Burst(Rate')) = Abstract!Lesser(Replenished, [x \in Limits |-> Burst(x)][Rate'])
    BY <1>1, BurstOfRate, Zenon DEF Smaller, Abstract!Lesser
  <2>3. Replenished' = IF Rate = 0 THEN [x \in Limits |-> Burst(x)][Rate']
                       ELSE Abstract!Lesser(Replenished, [x \in Limits |-> Burst(x)][Rate'])
    BY <1>1, <2>2, BurstOfRate, Zenon
  <2> QED BY <1>1, <1>4, <2>1, <2>3, Zenon DEF Abstract!Change
<1> QED BY <1>3, <1>4, Zenon

\* A tick fills the abstract bucket.
LEMMA TickIsFill ==
    ASSUME LimiterTypeOK, LimiterTick
    PROVE  Abstract!Fill
<1>1. Rate' = Rate /\ base' = base /\ Replenished' = Smaller(Replenished + Rate, Burst(Rate)) /\ Rate \in Limits
  BY TickLevel, LevelIs, Zenon DEF LimiterTick
<1>2. Smaller(Replenished + Rate, Burst(Rate)) = Abstract!Lesser(Replenished + Rate, [x \in Limits |-> Burst(x)][Rate])
  BY <1>1, BurstOfRate, Zenon DEF Smaller, Abstract!Lesser
<1> QED BY <1>1, <1>2, Zenon DEF Abstract!Fill

\* The abstract bucket is full at first.
LEMMA BucketInitially == LimiterInit => Abstract!BucketInit
<1> SUFFICES ASSUME LimiterInit PROVE Abstract!BucketInit
  OBVIOUS
<1>1. base \in Limits /\ base \in Nat /\ override = 0 /\ age = 0 /\ tokens = Burst(base)
  BY LimiterAssumption, Zenon DEF LimiterInit
<1>2. Rate = base
  BY <1>1 DEF Rate, Effective
<1>3. Burst(base) \in Nat /\ Burst(base) <= Burst(base)
  BY <1>1, BurstIs
<1>4. Replenished = Burst(base)
  <2>1. Replenished = Smaller(Burst(base) + 0 * base, Burst(base))
    BY <1>1, <1>2, Zenon DEF Replenished
  <2> QED BY <1>1, <1>3, <2>1, LevelAfter, Zenon
<1> QED BY <1>1, <1>2, <1>4, BurstOfRate, Zenon DEF Abstract!BucketInit

\* Every step is one of the abstract bucket, or is not seen.
LEMMA BucketStep ==
    LimiterTypeOK /\ [LimiterNext]_limiterVars
        => [Abstract!Fill \/ Abstract!Take \/ Abstract!Change]_<<base, Rate, Replenished>>
<1> DEFINE Goal == [Abstract!Fill \/ Abstract!Take \/ Abstract!Change]_<<base, Rate, Replenished>>
<1> SUFFICES ASSUME LimiterTypeOK, [LimiterNext]_limiterVars PROVE Goal
  OBVIOUS
<1>1. CASE SetLimitOverride \/ ClearLimitOverride
  <2>1. PICK o \in Limits : Recompute(o)
    BY <1>1, LimiterAssumption, Zenon DEF SetLimitOverride, ClearLimitOverride
  <2>2. [Abstract!Change]_<<base, Rate, Replenished>>
    BY <2>1, RecomputeIsChange, Zenon
  <2> QED BY <2>2, Zenon
<1>2. CASE LimiterTick
  BY <1>2, TickIsFill, Zenon
<1>3. ASSUME NEW n \in Writes, TakeDatagram(n) PROVE Goal
  <2>1. [Abstract!Take]_<<base, Rate, Replenished>>
    BY <1>3, DatagramKinds, FewerIsTake, Zenon
  <2> QED BY <2>1, Zenon
<1>4. ASSUME NEW d \in Waiters, WaitTurn(d) PROVE Goal
  <2>1. [Abstract!Take]_<<base, Rate, Replenished>>
    BY <1>4, TurnKinds, FewerIsTake, Zenon
  <2> QED BY <2>1, Zenon
<1>5. CASE \/ UNCHANGED limiterVars
           \/ \E d \in Waiters : Wakes(d) \/ WaitCancelled(d) \/ \E n \in Writes : WaitBegins(d, n)
  <2>1. UNCHANGED <<base, override, tokens, age>>
    BY <1>5, Zenon DEF limiterVars, Wakes, WaitCancelled, WaitBegins
  <2> QED BY <2>1, NotLookedAt, Zenon
<1> QED BY <1>1, <1>2, <1>3, <1>4, <1>5, Zenon DEF LimiterNext, CopierStep

\* The lazily filled bucket of ratelimit.go lets through what a bucket filled at every tick
\* does, for every set of limits and writes: looking, waiting, and setting an override again
\* yield no tokens, and no override loosens the limit of the policy.
THEOREM LimiterIsBucket == LimiterSpec => ImplementsBucket
BY BucketInitially, BucketStep, LimiterTypeCorrect, PTL DEF LimiterSpec, ImplementsBucket, Abstract!Bucket


-----------------------------------------------------------------------------
\* How long a direction sleeps.

\* The ticks a wait for n tokens takes with l in the bucket, at rate r.
NeedOf(n, l, r) == Larger(1, Ceiling(n - l, r))

\* It is at least one tick.
LEMMA NeedOfType ==
    ASSUME NEW n \in Nat, NEW l \in Nat, NEW r \in Nat, r > 0
    PROVE  NeedOf(n, l, r) \in Nat /\ NeedOf(n, l, r) >= 1 /\ Ceiling(n - l, r) \in Int
<1>1. n - l \in Int /\ n - l + r - 1 \in Int
  OBVIOUS
<1>2. Ceiling(n - l, r) \in Int
  BY <1>1, DivIs, Zenon DEF Ceiling
<1> QED BY <1>2 DEF NeedOf, Larger

\* Fewer tokens, a longer wait.
LEMMA NeedGrows ==
    ASSUME NEW n \in Nat, NEW l \in Nat, NEW m \in Nat, NEW r \in Nat, r > 0, m <= l
    PROVE  NeedOf(n, l, r) <= NeedOf(n, m, r)
<1>1. n - l \in Int /\ n - m \in Int /\ n - l <= n - m
  OBVIOUS
<1>2. Ceiling(n - l, r) <= Ceiling(n - m, r)
  BY <1>1, CeilingMonotone, Zenon
<1>3. Ceiling(n - l, r) \in Int /\ Ceiling(n - m, r) \in Int
  BY NeedOfType, Zenon
<1> QED BY <1>2, <1>3 DEF NeedOf, Larger

\* With the tokens of one tick more it is shorter by at most that tick.
LEMMA NeedFalls ==
    ASSUME NEW n \in Nat, NEW l \in Nat, NEW m \in Nat, NEW r \in Nat, r > 0, m <= l + r
    PROVE  NeedOf(n, l, r) <= NeedOf(n, m, r) + 1
<1>1. n - l \in Int /\ n - m \in Int /\ n - l <= (n - m) + r /\ (n - m) + r \in Int
  OBVIOUS
<1>2. Ceiling(n - l, r) <= Ceiling((n - m) + r, r)
  BY <1>1, CeilingMonotone, Zenon
<1>3. Ceiling((n - m) + r, r) = Ceiling(n - m, r) + 1
  BY <1>1, CeilingUp, Zenon
<1>4. Ceiling(n - l, r) \in Int /\ Ceiling(n - m, r) \in Int
  BY NeedOfType, Zenon
<1> QED BY <1>2, <1>3, <1>4 DEF NeedOf, Larger

\* A sleeper that nobody touches, while the rate stays and the bucket gains nothing.
LEMMA SleeperKeeps ==
    ASSUME LimiterTypeOK, NeverOversleeps, NEW d \in Waiters,
           Rate' = Rate, Burst(Rate)' = Burst(Rate), Replenished' \in Nat, Replenished' <= Replenished,
           copier'[d].left = copier[d].left, copier'[d].timer = copier[d].timer,
           copier[d].state = "sleeping", ~copier[d].woken
    PROVE  (Rate > 0)' /\ copier'[d].timer <= Need(Chunk(d))'
<1>1. Rate > 0 /\ copier[d].timer <= Need(Chunk(d))
  BY Zenon DEF NeverOversleeps
<1>2. Rate \in Nat /\ Replenished \in Nat /\ Chunk(d) \in Nat /\ copier[d].timer \in Nat
  BY LevelIs, ChunkIs DEF LimiterTypeOK
<1>3. Chunk(d)' = Chunk(d)
  BY Zenon DEF Chunk
<1>4. Need(Chunk(d)) = NeedOf(Chunk(d), Replenished, Rate)
  BY Zenon DEF Need, NeedOf
<1>5. Need(Chunk(d))' = NeedOf(Chunk(d), Replenished', Rate)
  BY <1>3, Zenon DEF Need, NeedOf
<1>6. NeedOf(Chunk(d), Replenished, Rate) <= NeedOf(Chunk(d), Replenished', Rate)
  BY <1>1, <1>2, NeedGrows, Zenon
<1>7. NeedOf(Chunk(d), Replenished, Rate) \in Nat /\ NeedOf(Chunk(d), Replenished', Rate) \in Nat
  BY <1>1, <1>2, NeedOfType, Zenon
<1> QED BY <1>1, <1>2, <1>4, <1>5, <1>6, <1>7

\* A tick takes one from the timer, and at most one from the wait that is left.
LEMMA SleeperTicks ==
    ASSUME LimiterTypeOK, NeverOversleeps, LimiterTick, NEW d \in Waiters,
           copier'[d].state = "sleeping", ~copier'[d].woken
    PROVE  (Rate > 0)' /\ copier'[d].timer <= Need(Chunk(d))'
<1>0. copier'[d] = [copier[d] EXCEPT !.timer = IF copier[d].timer = 0 THEN 0 ELSE copier[d].timer - 1]
  BY Zenon DEF LimiterTick
<1>a. /\ copier[d].state = "sleeping" /\ ~copier[d].woken /\ copier'[d].left = copier[d].left
      /\ copier'[d].timer = IF copier[d].timer = 0 THEN 0 ELSE copier[d].timer - 1
  BY <1>0 DEF LimiterTypeOK
<1>1. Rate > 0 /\ copier[d].timer <= Need(Chunk(d))
  BY <1>a, Zenon DEF NeverOversleeps
<1>2. /\ Rate \in Nat /\ Replenished \in Nat /\ Chunk(d) \in Nat /\ copier[d].timer \in Nat /\ Burst(Rate) \in Nat
  BY LevelIs, ChunkIs DEF LimiterTypeOK
<1>3. Rate' = Rate /\ Burst(Rate)' = Burst(Rate) /\ Replenished' \in Nat /\ Replenished' <= Replenished + Rate
  <2>1. Rate' = Rate /\ Burst(Rate)' = Burst(Rate) /\ Replenished' = Smaller(Replenished + Rate, Burst(Rate))
    BY TickLevel, Zenon
  <2>2. Replenished + Rate \in Nat
    BY <1>2
  <2> QED BY <1>2, <2>1, <2>2, SmallerIs, Zenon
<1>b. Chunk(d)' = Chunk(d)
  BY <1>a, <1>3, Zenon DEF Chunk
<1>4. Need(Chunk(d)) = NeedOf(Chunk(d), Replenished, Rate)
  BY Zenon DEF Need, NeedOf
<1>5. Need(Chunk(d))' = NeedOf(Chunk(d), Replenished', Rate)
  BY <1>b, <1>3, Zenon DEF Need, NeedOf
<1>6. NeedOf(Chunk(d), Replenished, Rate) <= NeedOf(Chunk(d), Replenished', Rate) + 1
  BY <1>1, <1>2, <1>3, NeedFalls, Zenon
<1>7. /\ NeedOf(Chunk(d), Replenished, Rate) \in Nat /\ NeedOf(Chunk(d), Replenished', Rate) \in Nat
      /\ NeedOf(Chunk(d), Replenished', Rate) >= 1
  BY <1>1, <1>2, <1>3, NeedOfType, Zenon
<1> QED BY <1>a, <1>1, <1>2, <1>3, <1>4, <1>5, <1>6, <1>7

\* Every step leaves every sleeper a timer that is short enough, or wakes it.
LEMMA OversleepStep == LimiterTypeOK /\ NeverOversleeps /\ [LimiterNext]_limiterVars => NeverOversleeps'
<1> SUFFICES ASSUME LimiterTypeOK, NeverOversleeps, [LimiterNext]_limiterVars,
                    NEW d \in Waiters, copier'[d].state = "sleeping", ~copier'[d].woken
             PROVE  (Rate > 0)' /\ copier'[d].timer <= Need(Chunk(d))'
  BY Zenon DEF NeverOversleeps
<1> DEFINE Goal == (Rate > 0)' /\ copier'[d].timer <= Need(Chunk(d))'
<1>0. /\ copier \in [Waiters -> CopierStates] /\ copier[d] \in CopierStates /\ Replenished \in Nat
      /\ Rate \in Nat /\ Burst(Rate) \in Nat
  BY LevelIs DEF LimiterTypeOK, CopierStates
<1>1. CASE SetLimitOverride \/ ClearLimitOverride
  <2>1. PICK o \in Limits : Recompute(o)
    BY <1>1, LimiterAssumption, Zenon DEF SetLimitOverride, ClearLimitOverride
  <2>2. copier'[d] = [copier[d] EXCEPT !.woken = copier[d].woken \/ (copier[d].state = "sleeping" /\ Effective(base, o) # Rate)]
    BY <2>1, Zenon DEF Recompute
  <2>3. copier[d].state = "sleeping" /\ copier'[d].left = copier[d].left /\ copier'[d].timer = copier[d].timer
        /\ copier'[d].woken = (copier[d].woken \/ (copier[d].state = "sleeping" /\ Effective(base, o) # Rate))
    BY <1>0, <2>2, Zenon DEF CopierStates
  <2>4. ~copier[d].woken /\ Effective(base, o) = Rate
    BY <2>3, Zenon
  <2>5. Rate' = Rate /\ Burst(Rate)' = Burst(Rate)
    BY <2>1, <2>4, RecomputeLevel, Zenon DEF Burst, Larger
  <2>6. Rate > 0
    BY <2>3, <2>4, Zenon DEF NeverOversleeps
  <2>7. Replenished' = Smaller(Replenished, Burst(Rate))
    BY <1>0, <2>1, <2>5, <2>6, RecomputeLevel
  <2>8. Replenished' \in Nat /\ Replenished' <= Replenished
    BY <1>0, <2>7, SmallerIs, Zenon
  <2> QED BY <2>3, <2>4, <2>5, <2>8, SleeperKeeps, Zenon
<1>2. CASE LimiterTick
  BY <1>2, SleeperTicks, Zenon
<1>3. ASSUME NEW n \in Writes, TakeDatagram(n) PROVE Goal
  <2>1. UNCHANGED <<base, override, copier>> /\ Rate' = Rate
    BY <1>3, DatagramKinds, Zenon
  <2>2. Replenished' \in Nat /\ Replenished' <= Replenished
    BY <1>3, DatagramKinds, Zenon
  <2> QED BY <2>1, <2>2, SameRate, SleeperKeeps, Zenon
<1>4. ASSUME NEW e \in Waiters, WaitTurn(e), e # d PROVE Goal
  <2>1. Rate' = Rate /\ copier'[d] = copier[d] /\ UNCHANGED <<base, override>>
    BY <1>0, <1>4, TurnKinds, Zenon
  <2>2. Replenished' \in Nat /\ Replenished' <= Replenished
    BY <1>4, TurnKinds, Zenon
  <2> QED BY <2>1, <2>2, SameRate, SleeperKeeps, Zenon
<1>5. CASE WaitTurn(d)
  <2>1. copier[d].state = "waiting" /\ Rate' = Rate /\ UNCHANGED <<base, override>>
    BY <1>5, TurnKinds, Zenon DEF WaitTurn
  <2>2. CASE copier' = [copier EXCEPT ![d].state = "sleeping", ![d].timer = Need(Chunk(d))] /\ Rate > 0 /\ Replenished' = Replenished
    <3>1. copier'[d].left = copier[d].left /\ copier'[d].timer = Need(Chunk(d))
      BY <1>0, <2>2, Zenon DEF CopierStates
    <3>2. Burst(Rate)' = Burst(Rate)
      BY <2>1, SameRate, Zenon
    <3>3. Chunk(d)' = Chunk(d)
      BY <3>1, <3>2, Zenon DEF Chunk
    <3>4. Need(Chunk(d))' = Need(Chunk(d))
      BY <2>1, <2>2, <3>3, Zenon DEF Need
    <3>5. Need(Chunk(d)) \in Nat
      BY <2>2, ChunkIs, NeedIs, Zenon
    <3> QED BY <2>1, <2>2, <3>1, <3>4, <3>5
  <2>3. CASE copier' = [copier EXCEPT ![d] = IF copier[d].left = Chunk(d) THEN IdleCopier
                                             ELSE [copier[d] EXCEPT !.left = copier[d].left - Chunk(d)]]
    <3>1. copier'[d].state # "sleeping"
      BY <1>0, <2>1, <2>3, Zenon DEF IdleCopier, CopierStates
    <3> QED BY <3>1, Zenon
  <2>4. CASE copier' = [copier EXCEPT ![d] = IdleCopier]
    <3>1. copier'[d].state # "sleeping"
      BY <1>0, <2>4, Zenon DEF IdleCopier
    <3> QED BY <3>1, Zenon
  <2> QED BY <1>5, <2>2, <2>3, <2>4, TurnKinds, Zenon
<1>6. ASSUME NEW e \in Waiters, Wakes(e) \/ WaitCancelled(e) \/ \E n \in Writes : WaitBegins(e, n) PROVE Goal
  <2>1. UNCHANGED <<base, override, tokens, age>>
    BY <1>6, Zenon DEF Wakes, WaitCancelled, WaitBegins
  <2>2. e # d
    <3>1. \/ copier' = [copier EXCEPT ![e] = IdleCopier]
          \/ \E n : copier' = [copier EXCEPT ![e] = [IdleCopier EXCEPT !.state = "waiting", !.left = n]]
      BY <1>6, Zenon DEF Wakes, WaitCancelled, WaitBegins
    <3>2. CASE copier' = [copier EXCEPT ![e] = IdleCopier]
      BY <1>0, <3>2, Zenon DEF IdleCopier
    <3>3. ASSUME NEW n, copier' = [copier EXCEPT ![e] = [IdleCopier EXCEPT !.state = "waiting", !.left = n]]
          PROVE  e # d
      <4>1. [IdleCopier EXCEPT !.state = "waiting", !.left = n].state = "waiting"
        BY Zenon DEF IdleCopier
      <4>2. copier'[e].state = "waiting"
        BY <1>0, <3>3, <4>1, Zenon
      <4> QED BY <4>2, Zenon
    <3> QED BY <3>1, <3>2, <3>3, Zenon
  <2>3. copier'[d] = copier[d]
    BY <1>0, <1>6, <2>2, Zenon DEF Wakes, WaitCancelled, WaitBegins
  <2> QED BY <1>0, <2>1, <2>3, NotLookedAt, SleeperKeeps
<1>7. CASE UNCHANGED limiterVars
  <2>1. UNCHANGED <<base, override, tokens, age, copier>>
    BY <1>7, Zenon DEF limiterVars
  <2> QED BY <1>0, <2>1, NotLookedAt, SleeperKeeps
<1> QED BY <1>1, <1>2, <1>3, <1>4, <1>5, <1>6, <1>7, Zenon DEF LimiterNext, CopierStep

\* waitChunk: no direction sleeps longer than its missing tokens take at the rate in force, for
\* any number of directions that compete for them: a change of the rate wakes the sleepers.
THEOREM NeverOversleepsAlways == LimiterSpec => []NeverOversleeps
<1>1. LimiterInit => NeverOversleeps
  BY DEF LimiterInit, NeverOversleeps, IdleCopier
<1> QED BY <1>1, OversleepStep, LimiterTypeCorrect, PTL DEF LimiterSpec
=============================================================================
