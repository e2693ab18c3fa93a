------------------------ MODULE UpstreamClient_proofs ------------------------
(***************************************************************************)
(* Proofs about UpstreamClient for every number of calls, connections,     *)
(* attempts and restarts: the connection is never leaked, close is final,  *)
(* and tool calls get what AtMostOnceChannel promises.                     *)
(***************************************************************************)
EXTENDS UpstreamClient, TLAPS

(* The facts about the loop that make it a single flight, also around a    *)
(* close that has cleared the promise.                                     *)
OneLoop == \A o, p \in Calls : loop[o].phase # "off" /\ loop[p].phase # "off" => o = p

LoopIsPromised == \A o \in Calls : loop[o].phase # "off" => promise = o \/ Closed

DialsWithoutClient == \A o \in Calls : loop[o].phase \in {"dial", "failed"} => client = NoConn

ClosingIsQuiet == closer \in {"closing", "closed"} => NoLoopRuns /\ client = NoConn

ConnectionInv ==
  /\ TypeOK
  /\ OneLoop
  /\ LoopIsPromised
  /\ DialsWithoutClient
  /\ ClosingIsQuiet
  /\ ClientIsTheLiveConnection

(* Which requests a tool call can have made at its stage, and what became  *)
(* of the first when there is a second.                                    *)
Once(r) == r["retry"] # "none" => r["first"] = "refused"

Fits(s, r) ==
  /\ s.stage = "first" => r["retry"] = "none"
  /\ s.stage = "first" /\ s.pc \in {"idle", "joining", "ready"} => r["first"] = "none"
  /\ s.stage = "retry" => r["first"] = "refused"
  /\ s.stage = "retry" /\ s.pc \in {"joining", "ready", "closing"} => r["retry"] = "none"
  /\ s.pc = "idle" => s.stage = "first"
  /\ s.pc = "sent" => s.stage \in Attempts
  /\ s.pc = "closing" => s.stage # "first"

Tells(s, o, r) ==
  /\ s.pc = "done" <=> o # "none"
  /\ o = "ok" => \E a \in Attempts : r[a] = "executed"

(* The call that runs a loop waits for it.                                 *)
OwnersWait == \A o \in Calls : loop[o].phase # "off" => call[o].pc = "joining"

CallsFit ==
  \A c \in Tools : Once(req[c]) /\ Fits(call[c], req[c]) /\ Tells(call[c], outcome[c], req[c])

UpstreamInv == ConnectionInv /\ OwnersWait /\ CallsFit

-----------------------------------------------------------------------------
(* Types.                                                                  *)

LEMMA AtType ==
  ASSUME NEW pc \in {"idle", "joining", "ready", "sent", "closing", "done"},
         NEW stage \in Attempts \cup {"after"}, NEW on \in Calls \cup {NoCall}, NEW got \in Result
  PROVE  At(pc, stage, on, got) \in CallState
BY DEF At, CallState

LEMMA Stages == {"first", "retry", "after"} \subseteq Attempts \cup {"after"}
BY DEF Attempts

LEMMA NoLoopType == NoLoop \in LoopState
BY UpstreamAssumption DEF NoLoop, LoopState, Result

LEMMA ResultType == Conns \cup {NoConn} \subseteq Result /\ NoConn \in Result /\ Failure \in Result
BY DEF Result

LEMMA CallUpdate ==
  ASSUME call \in [Calls -> CallState], NEW c \in Calls, NEW s \in CallState
  PROVE  [call EXCEPT ![c] = s] \in [Calls -> CallState]
OBVIOUS

LEMMA ConnectType ==
  ASSUME TypeOK, NEW c \in Calls, NEW stage \in Attempts \cup {"after"}, Connect(c, stage)
  PROVE  /\ call' \in [Calls -> CallState]
         /\ promise' \in Calls \cup {NoCall}
         /\ loop' \in [Calls -> LoopState]
<1> USE DEF TypeOK
<1>1. ASSUME NEW r \in Result, Ready(c, stage, r) PROVE call' \in [Calls -> CallState]
  <2>1. At("ready", stage, NoCall, r) \in CallState
    BY AtType
  <2> QED
    BY <1>1, <2>1 DEF Ready
<1>2. ASSUME NEW o \in Calls, Joining(c, stage, o) PROVE call' \in [Calls -> CallState]
  <2>1. At("joining", stage, o, NoConn) \in CallState
    BY AtType, ResultType
  <2> QED
    BY <1>2, <2>1 DEF Joining
<1>3. CASE ThrowClosed(c, stage)
  BY <1>1, <1>3, ResultType DEF ThrowClosed
<1>4. CASE ReturnClient(c, stage)
  BY <1>1, <1>4, ResultType DEF ReturnClient
<1>5. CASE AwaitLoop(c, stage)
  <2>1. promise \in Calls
    BY <1>5 DEF AwaitLoop
  <2>2. loop[promise].result \in Result
    BY <2>1 DEF LoopState
  <2> QED
    BY <1>1, <1>2, <1>5, <2>1, <2>2 DEF AwaitLoop
<1>6. CASE StartLoop(c, stage)
  <2>1. [phase |-> "dial", attempt |-> 1, result |-> NoConn] \in LoopState
    BY UpstreamAssumption, ResultType DEF LoopState
  <2> QED
    BY <1>2, <1>6, <2>1 DEF StartLoop
<1> QED
  BY <1>3, <1>4, <1>5, <1>6 DEF Connect

LEMMA InvalidateType ==
  ASSUME TypeOK, Invalidate
  PROVE  conn' \in [Conns -> {"new", "open", "stale", "closed"}] /\ client' = NoConn
BY DEF TypeOK, Invalidate

LEMMA DoneType ==
  ASSUME TypeOK, NEW c \in Calls, NEW result \in {"ok", "failed"}, Done(c, result)
  PROVE  /\ call' \in [Calls -> CallState]
         /\ outcome' \in [Calls -> {"none", "ok", "failed"}]
<1>1. [call[c] EXCEPT !.pc = "done", !.got = NoConn] \in CallState
  <2>1. call[c] \in CallState /\ NoConn \in Result
    BY ResultType DEF TypeOK
  <2> QED
    BY <2>1 DEF CallState
<1> QED
  BY <1>1 DEF TypeOK, Done

LEMMA SettleType ==
  ASSUME TypeOK, NEW o \in Calls, NEW result \in Result, Settle(o, result)
  PROVE  /\ call' \in [Calls -> CallState]
         /\ loop' \in [Calls -> LoopState]
<1>1. ASSUME NEW c \in Calls PROVE At("ready", call[c].stage, NoCall, result) \in CallState
  <2>1. call[c].stage \in Attempts \cup {"after"}
    BY DEF TypeOK, CallState
  <2> QED
    BY <2>1, AtType
<1>2. [loop[o] EXCEPT !.phase = "settled", !.result = result] \in LoopState
  BY DEF TypeOK, LoopState
<1> QED
  BY <1>1, <1>2 DEF TypeOK, Settle

LEMMA FailToType ==
  ASSUME TypeOK, NEW c \in Calls, NEW stage \in Attempts \cup {"after"}, FailTo(c, stage)
  PROVE  /\ call' \in [Calls -> CallState]
         /\ conn' \in [Conns -> {"new", "open", "stale", "closed"}]
         /\ client' = NoConn
<1>1. At("closing", stage, NoCall, NoConn) \in CallState
  BY AtType, ResultType
<1> QED
  BY <1>1, InvalidateType DEF TypeOK, FailTo

LEMMA SentType ==
  ASSUME NEW k \in CallState
  PROVE  [k EXCEPT !.pc = "sent"] \in CallState
BY DEF CallState

LEMMA PhaseSetType ==
  ASSUME NEW l \in LoopState, NEW phase \in {"off", "dial", "logSuccess", "failed", "settled"}
  PROVE  [l EXCEPT !.phase = phase] \in LoopState
BY DEF LoopState

LEMMA TypeInit == Init => TypeOK
<1> SUFFICES ASSUME Init PROVE TypeOK
  OBVIOUS
<1>1. [pc |-> "idle", stage |-> "first", on |-> NoCall, got |-> NoConn] \in CallState
  BY Stages, ResultType DEF CallState
<1> QED
  BY <1>1, NoLoopType, UpstreamAssumption DEF Init, TypeOK, Attempts

LEMMA TypeNext == TypeOK /\ [Next]_vars => TypeOK'
<1> SUFFICES ASSUME TypeOK, [Next]_vars PROVE TypeOK'
  OBVIOUS
<1> USE DEF TypeOK
<1>1. ASSUME NEW c \in Calls, LoopStep(c) PROVE TypeOK'
  <2>1. ASSUME NEW k \in Conns, DialOk(c, k) PROVE TypeOK'
    <3>1. [loop[c] EXCEPT !.phase = "logSuccess"] \in LoopState
      BY PhaseSetType
    <3> QED
      BY <2>1, <3>1 DEF DialOk
  <2>2. CASE DialFail(c)
    <3>1. [loop[c] EXCEPT !.phase = "failed"] \in LoopState
      BY PhaseSetType
    <3> QED
      BY <2>2, <3>1 DEF DialFail
  <2>3. CASE LogSuccess(c)
    BY <2>3, SettleType, ResultType DEF LogSuccess
  <2>4. CASE NextAttempt(c)
    <3>1. [loop[c] EXCEPT !.phase = "dial", !.attempt = @ + 1] \in LoopState
      BY <2>4, UpstreamAssumption DEF LoopState, NextAttempt
    <3> QED
      BY <2>4, <3>1 DEF NextAttempt
  <2>5. CASE GiveUp(c)
    BY <2>5, SettleType, ResultType DEF GiveUp
  <2>6. CASE OwnerResumes(c)
    <3>1. At("ready", call[c].stage, NoCall, loop[c].result) \in CallState
      BY AtType DEF CallState, LoopState
    <3> QED
      BY <2>6, <3>1, NoLoopType DEF OwnerResumes, Ready
  <2> QED
    BY <1>1, <2>1, <2>2, <2>3, <2>4, <2>5, <2>6 DEF LoopStep
<1>2. ASSUME NEW c \in Calls, Begin(c) PROVE TypeOK'
  BY <1>2, ConnectType, Stages DEF Begin
<1>3. ASSUME NEW c \in Calls, CallStep(c) PROVE TypeOK'
  <2>0. call[c].stage \in Attempts \cup {"after"} /\ NextListStage(c) \in Attempts \cup {"after"}
    BY Stages DEF CallState, NextListStage
  <2>1. CASE ConnectThrew(c)
    BY <2>1, DoneType DEF ConnectThrew
  <2>2. CASE Send(c)
    <3>1. [call[c] EXCEPT !.pc = "sent"] \in CallState
      BY SentType
    <3>2. PICK v : /\ v \in {"none", "sent", "unknown"}
                   /\ req' = [req EXCEPT ![c][call[c].stage] = v]
      BY <2>2 DEF Send
    <3>3. [req[c] EXCEPT ![call[c].stage] = v] \in
            [Attempts -> {"none", "sent", "unknown", "executed", "refused"}]
      BY <3>2
    <3>4. req' \in [Calls -> [Attempts -> {"none", "sent", "unknown", "executed", "refused"}]]
      BY <3>2, <3>3
    <3> QED
      BY <2>2, <3>1, <3>4 DEF Send
  <2>3. CASE Answer(c)
    BY <2>3, DoneType DEF Answer
  <2>4. CASE Refuse(c)
    BY <2>0, <2>4, FailToType DEF Refuse
  <2>5. CASE Lose(c)
    <3>1. CASE c \in Lists
      BY <2>0, <2>5, <3>1, FailToType DEF Lose
    <3>2. CASE c \notin Lists
      BY <2>5, <3>2, FailToType DEF Lose
    <3> QED
      BY <3>1, <3>2
  <2>6. CASE Reconnect(c)
    BY <2>0, <2>6, ConnectType DEF Reconnect
  <2>7. CASE ListGivesUp(c)
    BY <2>7, DoneType DEF ListGivesUp
  <2>8. CASE ReportLoss(c)
    BY <2>8, DoneType DEF ReportLoss
  <2> QED
    BY <1>3, <2>1, <2>2, <2>3, <2>4, <2>5, <2>6, <2>7, <2>8 DEF CallStep
<1>4. ASSUME NEW c \in Calls, NEW a \in Attempts, Execute(c, a) PROVE TypeOK'
  BY <1>4 DEF Execute
<1>5. CASE ServerRestart
  BY <1>5, UpstreamAssumption DEF ServerRestart
<1>6. CASE Close
  BY <1>6, InvalidateType DEF Close
<1>7. CASE CloseWaited
  BY <1>7, InvalidateType DEF CloseWaited
<1>8. CASE CloseReturns
  BY <1>8 DEF CloseReturns
<1>9. CASE UNCHANGED vars
  BY <1>9 DEF vars
<1> QED
  BY <1>1, <1>2, <1>3, <1>4, <1>5, <1>6, <1>7, <1>8, <1>9 DEF Next

-----------------------------------------------------------------------------
(* The connection.                                                         *)

LoopFacts == OneLoop /\ LoopIsPromised /\ DialsWithoutClient /\ ClosingIsQuiet

LEMMA PhaseType == TypeOK => \A o \in Calls :
  loop[o].phase \in {"off", "dial", "logSuccess", "failed", "settled"}
BY DEF TypeOK, LoopState

LEMMA ConnectInv ==
  ASSUME ConnectionInv, NEW c \in Calls, NEW stage \in Attempts \cup {"after"}, Connect(c, stage),
         UNCHANGED <<conn, client, closer>>
  PROVE  LoopFacts' /\ ClientIsTheLiveConnection'
<1> USE DEF ConnectionInv, TypeOK
<1>1. ClientIsTheLiveConnection'
  BY DEF ClientIsTheLiveConnection, Live
<1>2. CASE UNCHANGED <<promise, loop>>
  BY <1>1, <1>2 DEF LoopFacts, OneLoop, LoopIsPromised, DialsWithoutClient, ClosingIsQuiet,
                    NoLoopRuns, Closed
<1>3. CASE ~Closed /\ client = NoConn /\ promise = NoCall /\ StartLoop(c, stage)
  <2>1. \A o \in Calls : loop[o].phase = "off"
    BY <1>3, UpstreamAssumption DEF LoopIsPromised
  <2>2. /\ promise' = c
        /\ loop' \in [Calls -> LoopState]
        /\ loop'[c].phase = "dial"
        /\ \A o \in Calls \ {c} : loop'[o] = loop[o]
    BY <1>3, ConnectType DEF StartLoop
  <2>3. closer' \notin {"closing", "closed"}
    BY <1>3 DEF Closed
  <2> QED
    BY <1>1, <1>3, <2>1, <2>2, <2>3
       DEF LoopFacts, OneLoop, LoopIsPromised, DialsWithoutClient, ClosingIsQuiet
<1> QED
  BY <1>2, <1>3 DEF Connect, ThrowClosed, ReturnClient, AwaitLoop

LEMMA InvalidateInv ==
  ASSUME ConnectionInv, Invalidate
  PROVE  ClientIsTheLiveConnection'
BY UpstreamAssumption DEF ConnectionInv, TypeOK, Invalidate, ClientIsTheLiveConnection, Live

(* A step that leaves the loops and promise, and at most clears the client.*)
LEMMA LoopsUnchanged ==
  ASSUME ConnectionInv, UNCHANGED <<loop, promise, closer>>, client' \in {client, NoConn}
  PROVE  LoopFacts'
BY DEF ConnectionInv, LoopFacts, OneLoop, LoopIsPromised, DialsWithoutClient, ClosingIsQuiet,
       NoLoopRuns, Closed

LEMMA SettleInv ==
  ASSUME ConnectionInv, NEW o \in Calls, NEW result \in Result, Settle(o, result),
         loop[o].phase \in {"logSuccess", "failed"}, UNCHANGED <<conn, client, promise, closer>>
  PROVE  LoopFacts' /\ ClientIsTheLiveConnection'
<1>1. /\ loop'[o].phase = "settled"
      /\ \A p \in Calls \ {o} : loop'[p] = loop[p]
  BY DEF Settle, ConnectionInv, TypeOK
<1> QED
  BY <1>1 DEF ConnectionInv, LoopFacts, OneLoop, LoopIsPromised, DialsWithoutClient, ClosingIsQuiet,
              NoLoopRuns, Closed, ClientIsTheLiveConnection, Live

LEMMA ConnectionNext == ConnectionInv /\ [Next]_vars => ConnectionInv'
<1> SUFFICES ASSUME ConnectionInv, [Next]_vars PROVE LoopFacts' /\ ClientIsTheLiveConnection'
  BY TypeNext DEF ConnectionInv, LoopFacts
<1>0. TypeOK /\ TypeOK'
  BY TypeNext DEF ConnectionInv
<1>1. ASSUME NEW c \in Calls, LoopStep(c) PROVE LoopFacts' /\ ClientIsTheLiveConnection'
  <2>1. ASSUME NEW k \in Conns, DialOk(c, k) PROVE LoopFacts' /\ ClientIsTheLiveConnection'
    <3>1. /\ loop'[c].phase = "logSuccess"
          /\ \A p \in Calls \ {c} : loop'[p] = loop[p] /\ loop'[p].phase = "off"
      BY <1>0, <2>1 DEF DialOk, TypeOK, ConnectionInv, OneLoop
    <3>2. client = NoConn /\ client' = k
      BY <2>1 DEF DialOk, ConnectionInv, DialsWithoutClient
    <3>3. ClientIsTheLiveConnection'
      BY <1>0, <2>1, <3>2, UpstreamAssumption
         DEF DialOk, ConnectionInv, ClientIsTheLiveConnection, Live, TypeOK
    <3>4. closer \notin {"closing", "closed"}
      BY <2>1 DEF DialOk, ConnectionInv, ClosingIsQuiet, NoLoopRuns
    <3> QED
      BY <2>1, <3>1, <3>2, <3>3, <3>4 DEF ConnectionInv, LoopFacts, OneLoop, LoopIsPromised,
         DialsWithoutClient, ClosingIsQuiet, DialOk, Closed
  <2>2. CASE DialFail(c) \/ NextAttempt(c)
    <3>1. /\ loop[c].phase \in {"dial", "failed"}
          /\ loop'[c].phase \in {"dial", "failed"}
          /\ \A p \in Calls \ {c} : loop'[p] = loop[p]
      BY <1>0, <2>2, UpstreamAssumption DEF DialFail, NextAttempt, TypeOK, LoopState
    <3>2. UNCHANGED <<conn, client, promise, closer>>
      BY <2>2 DEF DialFail, NextAttempt
    <3> QED
      BY <3>1, <3>2 DEF ConnectionInv, LoopFacts, OneLoop, LoopIsPromised, DialsWithoutClient,
         ClosingIsQuiet, NoLoopRuns, Closed, ClientIsTheLiveConnection, Live
  <2>3. CASE LogSuccess(c)
    BY <1>0, <2>3, SettleInv, ResultType DEF LogSuccess, TypeOK
  <2>4. CASE GiveUp(c)
    BY <2>4, SettleInv, ResultType DEF GiveUp
  <2>5. CASE OwnerResumes(c)
    <3>1. /\ loop'[c].phase = "off"
          /\ \A p \in Calls \ {c} : loop'[p] = loop[p] /\ loop'[p].phase = "off"
      BY <1>0, <2>5 DEF OwnerResumes, TypeOK, ConnectionInv, OneLoop, NoLoop
    <3> QED
      BY <2>5, <3>1 DEF OwnerResumes, ConnectionInv, LoopFacts, OneLoop, LoopIsPromised,
         DialsWithoutClient, ClosingIsQuiet, NoLoopRuns, ClientIsTheLiveConnection, Live
  <2> QED
    BY <1>1, <2>1, <2>2, <2>3, <2>4, <2>5 DEF LoopStep
<1>2. ASSUME NEW c \in Calls, Begin(c) PROVE LoopFacts' /\ ClientIsTheLiveConnection'
  BY <1>2, ConnectInv, Stages DEF Begin
<1>3. ASSUME NEW c \in Calls, CallStep(c) PROVE LoopFacts' /\ ClientIsTheLiveConnection'
  <2>1. CASE Refuse(c) \/ Lose(c)
    <3>1. Invalidate /\ UNCHANGED <<loop, promise, closer>>
      BY <2>1 DEF Refuse, Lose, FailTo
    <3> QED
      BY <3>1, InvalidateInv, LoopsUnchanged DEF Invalidate
  <2>2. CASE Reconnect(c)
    <3>1. call[c].stage \in Attempts \cup {"after"}
      BY <1>0 DEF TypeOK, CallState
    <3> QED
      BY <2>2, <3>1, ConnectInv DEF Reconnect
  <2>3. CASE ConnectThrew(c) \/ Send(c) \/ Answer(c) \/ ListGivesUp(c) \/ ReportLoss(c)
    <3>1. UNCHANGED <<conn, client, promise, loop, closer>>
      BY <2>3 DEF ConnectThrew, Send, Answer, ListGivesUp, ReportLoss
    <3> QED
      BY <3>1, LoopsUnchanged DEF ConnectionInv, ClientIsTheLiveConnection, Live
  <2> QED
    BY <1>3, <2>1, <2>2, <2>3 DEF CallStep
<1>4. ASSUME NEW c \in Calls, NEW a \in Attempts, Execute(c, a)
      PROVE  LoopFacts' /\ ClientIsTheLiveConnection'
  BY <1>4, LoopsUnchanged DEF Execute, ConnectionInv, ClientIsTheLiveConnection, Live
<1>5. CASE ServerRestart
  BY <1>0, <1>5, LoopsUnchanged
     DEF ServerRestart, ConnectionInv, ClientIsTheLiveConnection, Live, TypeOK
<1>6. CASE Close
  <2>1. CASE promise = NoCall
    <3>1. \A o \in Calls : loop[o].phase = "off"
      BY <1>6, <2>1, UpstreamAssumption DEF Close, ConnectionInv, LoopIsPromised, Closed
    <3> QED
      BY <1>6, <2>1, <3>1, InvalidateInv DEF Close, Invalidate, LoopFacts, OneLoop,
         LoopIsPromised, DialsWithoutClient, ClosingIsQuiet, NoLoopRuns
  <2>2. CASE promise # NoCall
    BY <1>6, <2>2 DEF Close, ConnectionInv, LoopFacts, OneLoop, LoopIsPromised,
       DialsWithoutClient, ClosingIsQuiet, Closed, ClientIsTheLiveConnection, Live
  <2> QED
    BY <2>1, <2>2
<1>7. CASE CloseWaited
  BY <1>7, InvalidateInv DEF CloseWaited, Invalidate, ConnectionInv, LoopFacts, OneLoop,
     LoopIsPromised, DialsWithoutClient, ClosingIsQuiet, NoLoopRuns, Closed
<1>8. CASE CloseReturns
  BY <1>8 DEF CloseReturns, ConnectionInv, LoopFacts, OneLoop, LoopIsPromised,
     DialsWithoutClient, ClosingIsQuiet, NoLoopRuns, Closed, ClientIsTheLiveConnection, Live
<1>9. CASE UNCHANGED vars
  BY <1>9, LoopsUnchanged DEF vars, ConnectionInv, ClientIsTheLiveConnection, Live
<1> QED
  BY <1>1, <1>2, <1>3, <1>4, <1>5, <1>6, <1>7, <1>8, <1>9 DEF Next

LEMMA ConnectionInit == Init => ConnectionInv
BY TypeInit, UpstreamAssumption DEF Init, ConnectionInv, OneLoop, LoopIsPromised,
   DialsWithoutClient, ClosingIsQuiet, ClientIsTheLiveConnection, Live, NoLoop

(* In every reachable state types, the single flight of the reconnect loop *)
(* and the connection itself are right.                                    *)
THEOREM ConnectionInvariant == Spec => []ConnectionInv
BY ConnectionInit, ConnectionNext, PTL DEF Spec

(* Every open connection is this.client and this.client is open, for any   *)
(* number of calls that fail, invalidate and reconnect around each other.  *)
THEOREM ClientIsAlwaysTheLiveConnection == Spec => []ClientIsTheLiveConnection
<1>1. ConnectionInv => ClientIsTheLiveConnection
  BY DEF ConnectionInv
<1> QED
  BY <1>1, ConnectionInvariant, PTL

(* Once close has returned nothing is open and no loop will open anything. *)
THEOREM ClosedIsForGood == Spec => []ClosedForGood
<1>1. ConnectionInv => ClosedForGood
  BY UpstreamAssumption DEF ConnectionInv, ClosedForGood, ClosingIsQuiet, ClientIsTheLiveConnection
<1> QED
  BY <1>1, ConnectionInvariant, PTL

-----------------------------------------------------------------------------
(* Tool calls.                                                             *)

CallFits(c) == Once(req[c]) /\ Fits(call[c], req[c]) /\ Tells(call[c], outcome[c], req[c])

LEMMA ToolsAreCalls == Tools \subseteq Calls /\ \A c \in Tools : c \notin Lists
BY DEF Tools

LEMMA ReqType == ASSUME TypeOK, NEW c \in Calls PROVE
  /\ req[c] \in [Attempts -> {"none", "sent", "unknown", "executed", "refused"}]
  /\ req[c]["first"] \in {"none", "sent", "unknown", "executed", "refused"}
  /\ req[c]["retry"] \in {"none", "sent", "unknown", "executed", "refused"}
BY DEF TypeOK, Attempts

LEMMA ConnectMoves ==
  ASSUME TypeOK, NEW c \in Calls, NEW stage, Connect(c, stage)
  PROVE  /\ call'[c].pc \in {"joining", "ready"} /\ call'[c].stage = stage
         /\ \A d \in Calls \ {c} : call'[d] = call[d]
<1>1. PICK pc, on, got : /\ pc \in {"joining", "ready"}
                       /\ call' = [call EXCEPT ![c] = At(pc, stage, on, got)]
  BY DEF Connect, ThrowClosed, ReturnClient, AwaitLoop, StartLoop, Ready, Joining
<1> QED
  BY <1>1 DEF TypeOK, At

LEMMA DoneMoves ==
  ASSUME TypeOK, NEW c \in Calls, NEW result, Done(c, result)
  PROVE  /\ call'[c].pc = "done" /\ call'[c].stage = call[c].stage /\ outcome'[c] = result
         /\ \A d \in Calls \ {c} : call'[d] = call[d] /\ outcome'[d] = outcome[d]
<1>1. call[c] \in CallState
  BY DEF TypeOK
<1> QED
  BY <1>1 DEF TypeOK, Done, CallState

(* What the wake-up of the waiting calls does to each of them.             *)
Woken(c) ==
  call'[c] = call[c] \/ (call[c].pc = "joining" /\ call'[c].pc = "ready" /\ call'[c].stage = call[c].stage)

LEMMA SettleMoves ==
  ASSUME TypeOK, NEW o \in Calls, NEW result, Settle(o, result), NEW c \in Calls
  PROVE  Woken(c)
BY DEF Settle, TypeOK, At, Woken

LEMMA WokenFits ==
  ASSUME CallsFit, NEW c \in Tools, Woken(c), UNCHANGED <<req, outcome>>
  PROVE  CallFits(c)'
BY DEF CallsFit, CallFits, Once, Fits, Tells, Woken

LEMMA StillFits ==
  ASSUME CallsFit, NEW c \in Tools, call'[c] = call[c], req'[c] = req[c], outcome'[c] = outcome[c]
  PROVE  CallFits(c)'
BY DEF CallsFit, CallFits, Once, Fits, Tells

LEMMA OwnersWaitNext == ConnectionInv /\ OwnersWait /\ [Next]_vars => OwnersWait'
<1> SUFFICES ASSUME ConnectionInv, OwnersWait, [Next]_vars, NEW o \in Calls, loop'[o].phase # "off"
             PROVE  call'[o].pc = "joining"
  BY DEF OwnersWait
<1>0. TypeOK
  BY DEF ConnectionInv
<1>1. ASSUME NEW c \in Calls, LoopStep(c) PROVE call'[o].pc = "joining"
  <2>1. CASE (\E k \in Conns : DialOk(c, k)) \/ DialFail(c) \/ NextAttempt(c)
    <3>1. call' = call /\ loop[c].phase # "off" /\ \A d \in Calls \ {c} : loop'[d] = loop[d]
      BY <1>0, <2>1 DEF DialOk, DialFail, NextAttempt, TypeOK
    <3> QED
      BY <3>1 DEF OwnersWait
  <2>2. CASE LogSuccess(c) \/ GiveUp(c)
    <3>1. PICK r : Settle(c, r) /\ loop[c].phase # "off"
      BY <2>2 DEF LogSuccess, GiveUp
    <3>2. \A d \in Calls \ {c} : loop'[d].phase = "off"
      BY <1>0, <3>1 DEF Settle, TypeOK, ConnectionInv, OneLoop
    <3>3. o = c /\ call'[c] = call[c]
      BY <1>0, <3>1, <3>2 DEF Settle, TypeOK
    <3> QED
      BY <3>1, <3>3 DEF OwnersWait
  <2>3. CASE OwnerResumes(c)
    <3>1. loop'[c].phase = "off"
      BY <1>0, <2>3 DEF OwnerResumes, TypeOK, NoLoop
    <3>2. o # c /\ loop[o] = loop'[o] /\ call'[o] = call[o]
      BY <1>0, <2>3, <3>1 DEF OwnerResumes, Ready, TypeOK
    <3> QED
      BY <3>2 DEF OwnersWait
  <2> QED
    BY <1>1, <2>1, <2>2, <2>3 DEF LoopStep
<1>2. ASSUME NEW c \in Calls, NEW stage, Connect(c, stage), call[c].pc # "joining"
      PROVE  call'[o].pc = "joining"
  <2>1. CASE UNCHANGED <<promise, loop>>
    BY <1>0, <1>2, <2>1, ConnectMoves DEF OwnersWait
  <2>2. CASE StartLoop(c, stage)
    <3>1. call'[c].pc = "joining" /\ \A d \in Calls \ {c} : loop'[d] = loop[d]
      BY <1>0, <2>2 DEF StartLoop, Joining, At, TypeOK
    <3> QED
      BY <1>0, <1>2, <3>1, ConnectMoves DEF OwnersWait
  <2> QED
    BY <1>2, <2>1, <2>2 DEF Connect, ThrowClosed, ReturnClient, AwaitLoop
<1>3. ASSUME NEW c \in Calls, Begin(c) PROVE call'[o].pc = "joining"
  BY <1>2, <1>3 DEF Begin
<1>4. ASSUME NEW c \in Calls, CallStep(c) PROVE call'[o].pc = "joining"
  <2>1. CASE Reconnect(c)
    BY <1>2, <2>1 DEF Reconnect
  <2>2. CASE ~Reconnect(c)
    <3>1. loop' = loop /\ call[c].pc # "joining" /\ \A d \in Calls \ {c} : call'[d] = call[d]
      BY <1>0, <1>4, <2>2 DEF CallStep, ConnectThrew, Send, Answer, Refuse, Lose, ListGivesUp,
         ReportLoss, FailTo, Done, Listening, TypeOK
    <3> QED
      BY <3>1 DEF OwnersWait
  <2> QED
    BY <2>1, <2>2
<1>5. CASE \/ \E c \in Calls, a \in Attempts : Execute(c, a)
           \/ ServerRestart \/ Close \/ CloseWaited \/ CloseReturns \/ UNCHANGED vars
  BY <1>5 DEF Execute, ServerRestart, Close, CloseWaited, CloseReturns, vars, OwnersWait
<1> QED
  BY <1>1, <1>3, <1>4, <1>5 DEF Next

LEMMA CallsFitNext == TypeOK /\ OwnersWait /\ CallsFit /\ [Next]_vars => CallsFit'
<1> SUFFICES ASSUME TypeOK, OwnersWait, CallsFit, [Next]_vars, NEW t \in Tools PROVE CallFits(t)'
  BY DEF CallsFit, CallFits
<1>0. t \in Calls /\ t \notin Lists /\ CallFits(t) /\ TypeOK'
  BY ToolsAreCalls, TypeNext DEF CallsFit, CallFits
<1>1. ASSUME NEW c \in Calls, LoopStep(c) PROVE CallFits(t)'
  <2>1. CASE \E k \in Conns : DialOk(c, k)
    BY <2>1, StillFits DEF DialOk
  <2>2. CASE DialFail(c) \/ NextAttempt(c)
    BY <2>2, StillFits DEF DialFail, NextAttempt
  <2>3. CASE LogSuccess(c) \/ GiveUp(c)
    BY <1>0, <2>3, SettleMoves, WokenFits DEF LogSuccess, GiveUp
  <2>4. CASE OwnerResumes(c)
    <3>1. CASE t = c
      <4>1. call'[t].pc = "ready" /\ call'[t].stage = call[t].stage
        BY <1>0, <2>4, <3>1 DEF OwnerResumes, Ready, At, TypeOK
      <4>2. call[t].pc = "joining"
        BY <1>0, <2>4, <3>1 DEF OwnersWait, OwnerResumes
      <4> QED
        BY <2>4, <4>1, <4>2, WokenFits DEF OwnerResumes, Woken
    <3>2. CASE t # c
      BY <1>0, <2>4, <3>2, StillFits DEF OwnerResumes, Ready, TypeOK
    <3> QED
      BY <3>1, <3>2
  <2> QED
    BY <1>1, <2>1, <2>2, <2>3, <2>4 DEF LoopStep
<1>2. ASSUME NEW c \in Calls, Begin(c) PROVE CallFits(t)'
  <2>1. call'[c].pc \in {"joining", "ready"} /\ call'[c].stage = "first" /\ call[c].pc = "idle"
        /\ (\A d \in Calls \ {c} : call'[d] = call[d]) /\ UNCHANGED <<req, outcome>>
    BY <1>2, ConnectMoves DEF Begin
  <2>2. CASE t = c
    BY <1>0, <2>1, <2>2 DEF CallFits, Once, Fits, Tells
  <2> QED
    BY <1>0, <2>1, <2>2, StillFits
<1>3. ASSUME NEW c \in Calls, CallStep(c), t = c PROVE CallFits(t)'
  <2>0. req[c]["first"] \in {"none", "sent", "unknown", "executed", "refused"}
        /\ req[c]["retry"] \in {"none", "sent", "unknown", "executed", "refused"}
    BY ReqType
  <2>1. CASE ConnectThrew(c) \/ ReportLoss(c)
    <3>1. call'[c].pc = "done" /\ call'[c].stage = call[c].stage /\ outcome'[c] = "failed"
          /\ req' = req /\ call[c].pc = "ready"
      BY <1>0, <2>1, DoneMoves DEF ConnectThrew, ReportLoss
    <3> QED
      BY <1>0, <1>3, <3>1 DEF CallFits, Once, Fits, Tells
  <2>2. CASE Send(c)
    <3>1. call'[c].pc = "sent" /\ call'[c].stage = call[c].stage /\ outcome' = outcome
          /\ call[c].pc = "ready" /\ call[c].stage \in Attempts
      BY <1>0, <2>2 DEF Send, TypeOK
    <3>2. \A a \in Attempts : a # call[c].stage => req'[c][a] = req[c][a]
      BY <1>0, <2>2 DEF Send, TypeOK
    <3>3. call[c].stage = "first" => req'[c]["retry"] = req[c]["retry"]
      BY <3>2 DEF Attempts
    <3>4. call[c].stage = "retry" => req'[c]["first"] = req[c]["first"]
      BY <3>2 DEF Attempts
    <3> QED
      BY <1>0, <1>3, <3>1, <3>3, <3>4 DEF CallFits, Once, Fits, Tells, Attempts
  <2>3. CASE Answer(c)
    <3>1. call'[c].pc = "done" /\ call'[c].stage = call[c].stage /\ outcome'[c] = "ok"
          /\ req' = req /\ call[c].pc = "sent" /\ req[c][call[c].stage] = "executed"
      BY <1>0, <2>3, DoneMoves DEF Answer, Listening
    <3> QED
      BY <1>0, <1>3, <3>1 DEF CallFits, Once, Fits, Tells
  <2>4. CASE Refuse(c)
    <3>1. call'[c].pc = "closing" /\ call'[c].stage = NextListStage(c) /\ outcome' = outcome
          /\ call[c].pc = "sent" /\ req'[c][call[c].stage] = "refused"
      BY <1>0, <2>4 DEF Refuse, FailTo, Listening, At, TypeOK, CallFits, Fits
    <3>2. \A a \in Attempts : a # call[c].stage => req'[c][a] = req[c][a]
      BY <1>0, <2>4 DEF Refuse, TypeOK
    <3> QED
      BY <1>0, <1>3, <3>1, <3>2 DEF CallFits, Once, Fits, Tells, Attempts, NextListStage
  <2>5. CASE Lose(c)
    <3>1. call'[c].pc = "closing" /\ call'[c].stage = "after" /\ outcome' = outcome
          /\ call[c].pc = "sent" /\ req' = req
      BY <1>0, <1>3, <2>5 DEF Lose, FailTo, At, TypeOK
    <3> QED
      BY <1>0, <1>3, <3>1 DEF CallFits, Once, Fits, Tells
  <2>6. CASE Reconnect(c)
    <3>1. call'[c].pc \in {"joining", "ready"} /\ call'[c].stage = call[c].stage
          /\ call[c].pc = "closing" /\ UNCHANGED <<req, outcome>>
      BY <2>6, ConnectMoves DEF Reconnect
    <3> QED
      BY <1>0, <1>3, <3>1 DEF CallFits, Once, Fits, Tells
  <2> QED
    BY <1>0, <1>3, <2>1, <2>2, <2>3, <2>4, <2>5, <2>6 DEF CallStep, ListGivesUp
<1>4. ASSUME NEW c \in Calls, CallStep(c), t # c PROVE CallFits(t)'
  <2>1. CASE Reconnect(c)
    BY <1>0, <1>4, <2>1, ConnectMoves, StillFits DEF Reconnect
  <2>2. CASE ~Reconnect(c)
    <3>1. call'[t] = call[t] /\ req'[t] = req[t] /\ outcome'[t] = outcome[t]
      BY <1>0, <1>4, <2>2 DEF CallStep, ConnectThrew, Send, Answer, Refuse, Lose, ListGivesUp,
         ReportLoss, FailTo, Done, TypeOK
    <3> QED
      BY <3>1, StillFits
  <2> QED
    BY <2>1, <2>2
<1>5. ASSUME NEW c \in Calls, NEW a \in Attempts, Execute(c, a) PROVE CallFits(t)'
  <2>1. CASE t = c
    <3>1. req[t][a] = "sent" /\ req'[t][a] = "executed" /\ UNCHANGED <<call, outcome>>
          /\ \A b \in Attempts : b # a => req'[t][b] = req[t][b]
      BY <1>0, <1>5, <2>1 DEF Execute, TypeOK
    <3> QED
      BY <1>0, <3>1 DEF CallFits, Once, Fits, Tells, Attempts
  <2>2. CASE t # c
    BY <1>0, <1>5, <2>2, StillFits DEF Execute, TypeOK
  <2> QED
    BY <2>1, <2>2
<1>6. CASE ServerRestart
  <2>1. UNCHANGED <<call, outcome>>
        /\ \A a \in Attempts : req'[t][a] = IF req[t][a] = "sent" THEN "unknown" ELSE req[t][a]
    BY <1>0, <1>6 DEF ServerRestart
  <2> QED
    BY <1>0, <2>1 DEF CallFits, Once, Fits, Tells, Attempts
<1>7. CASE Close \/ CloseWaited \/ CloseReturns \/ UNCHANGED vars
  BY <1>7, StillFits DEF Close, CloseWaited, CloseReturns, vars
<1> QED
  BY <1>1, <1>2, <1>3, <1>4, <1>5, <1>6, <1>7 DEF Next

LEMMA UpstreamInit == Init => UpstreamInv
<1> SUFFICES ASSUME Init PROVE OwnersWait /\ CallsFit
  BY ConnectionInit DEF UpstreamInv
<1>1. \A c \in Calls : /\ loop[c].phase = "off" /\ outcome[c] = "none"
                       /\ call[c].pc = "idle" /\ call[c].stage = "first"
                       /\ req[c]["first"] = "none" /\ req[c]["retry"] = "none"
  BY DEF Init, NoLoop, Attempts
<1> QED
  BY <1>1, ToolsAreCalls DEF OwnersWait, CallsFit, Once, Fits, Tells

LEMMA UpstreamNext == UpstreamInv /\ [Next]_vars => UpstreamInv'
BY ConnectionNext, OwnersWaitNext, CallsFitNext DEF UpstreamInv, ConnectionInv

(* The requests of a tool call fit what its caller knows, in every         *)
(* reachable state: a second one only after the first was refused.         *)
THEOREM UpstreamInvariant == Spec => []UpstreamInv
BY UpstreamInit, UpstreamNext, PTL DEF Spec

-----------------------------------------------------------------------------
(* The refinement: a step is a step of one call of the channel, or none.   *)

Moves(t, s, e) ==
  /\ \A d \in Tools \ {t} : Status(d)' = Status(d) /\ Effects(d)' = Effects(d)
  /\ Status(t)' = s /\ Effects(t)' = e

LEMMA Stutter ==
  ASSUME \A d \in Tools : Status(d)' = Status(d) /\ Effects(d)' = Effects(d)
  PROVE  [Channel!Next]_(Channel!vars)
BY DEF Channel!vars

LEMMA Submits ==
  ASSUME NEW t \in Tools, Status(t) = "idle", Moves(t, "pending", Effects(t))
  PROVE  [Channel!Next]_(Channel!vars)
BY DEF Moves, Channel!vars, Channel!Next, Channel!Submit

LEMMA CarriesOut ==
  ASSUME NEW t \in Tools, Status(t) \in {"pending", "failed"}, Effects(t) = 0, Moves(t, Status(t), 1)
  PROVE  [Channel!Next]_(Channel!vars)
BY DEF Moves, Channel!vars, Channel!Next, Channel!CarryOut

LEMMA Answers ==
  ASSUME NEW t \in Tools, Status(t) = "pending", Effects(t) = 1, Moves(t, "ok", Effects(t))
  PROVE  [Channel!Next]_(Channel!vars)
BY DEF Moves, Channel!vars, Channel!Next, Channel!Answer

LEMMA Fails ==
  ASSUME NEW t \in Tools, Status(t) = "pending", Moves(t, "failed", Effects(t))
  PROVE  [Channel!Next]_(Channel!vars)
BY DEF Moves, Channel!vars, Channel!Next, Channel!Fail

(* What a step of call c leaves alone of call d.                           *)
Seen(d) ==
  /\ call'[d].pc = "idle" <=> call[d].pc = "idle"
  /\ outcome'[d] = outcome[d]

SameReq(d) == \A a \in Attempts : req'[d][a] = "executed" <=> req[d][a] = "executed"

LEMMA SeenStatus == ASSUME NEW d, Seen(d) PROVE Status(d)' = Status(d)
BY DEF Seen, Status

LEMMA SameReqEffects == ASSUME NEW d, SameReq(d) PROVE Effects(d)' = Effects(d)
BY DEF SameReq, Effects, Carried, Attempts

LEMMA Unseen ==
  ASSUME \A d \in Tools : Seen(d) /\ SameReq(d)
  PROVE  [Channel!Next]_(Channel!vars)
BY Stutter, SeenStatus, SameReqEffects

LEMMA ToolFacts ==
  ASSUME UpstreamInv, NEW t \in Tools
  PROVE  /\ Once(req[t]) /\ Fits(call[t], req[t]) /\ Tells(call[t], outcome[t], req[t])
         /\ outcome[t] \in {"none", "ok", "failed"}
         /\ Status(t) = "pending" <=> call[t].pc \notin {"idle", "done"}
         /\ Effects(t) \in {0, 1}
         /\ (\E a \in Attempts : req[t][a] = "executed") => Effects(t) = 1
<1>1. /\ Once(req[t]) /\ Fits(call[t], req[t]) /\ Tells(call[t], outcome[t], req[t])
      /\ outcome[t] \in {"none", "ok", "failed"}
  BY ToolsAreCalls DEF UpstreamInv, CallsFit, ConnectionInv, TypeOK
<1>2. Status(t) = "pending" <=> call[t].pc \notin {"idle", "done"}
  BY <1>1 DEF Tells, Status
<1>3. ~(req[t]["first"] = "executed" /\ req[t]["retry"] = "executed")
  BY <1>1 DEF Once
<1> QED
  BY <1>1, <1>2, <1>3 DEF Effects, Carried, Attempts

LEMMA DoneChannel ==
  ASSUME UpstreamInv, NEW c \in Calls, NEW result \in {"ok", "failed"}, Done(c, result),
         call[c].pc \notin {"idle", "done"}, UNCHANGED req,
         c \in Tools /\ result = "ok" => \E a \in Attempts : req[c][a] = "executed"
  PROVE  [Channel!Next]_(Channel!vars)
<1>0. TypeOK
  BY DEF UpstreamInv, ConnectionInv
<1>1. \A d \in Tools \ {c} : Seen(d) /\ SameReq(d)
  BY <1>0, DoneMoves, ToolsAreCalls DEF Seen, SameReq
<1>2. CASE c \notin Tools
  BY <1>1, <1>2, Unseen
<1>3. CASE c \in Tools
  <2>1. SameReq(c) /\ Effects(c)' = Effects(c)
    BY SameReqEffects DEF SameReq
  <2>2. Status(c)' = result
    BY <1>0, DoneMoves DEF Status
  <2>3. Moves(c, result, Effects(c))
    BY <1>1, <2>1, <2>2, SeenStatus, SameReqEffects DEF Moves
  <2>4. Status(c) = "pending" /\ (result = "ok" => Effects(c) = 1)
    BY <1>3, ToolFacts
  <2>5. CASE result = "ok"
    BY <1>3, <2>3, <2>4, <2>5, Answers
  <2>6. CASE result = "failed"
    BY <1>3, <2>3, <2>4, <2>6, Fails
  <2> QED
    BY <2>5, <2>6
<1> QED
  BY <1>2, <1>3

LEMMA NextChannel == UpstreamInv /\ [Next]_vars => [Channel!Next]_(Channel!vars)
<1> SUFFICES ASSUME UpstreamInv, [Next]_vars PROVE [Channel!Next]_(Channel!vars)
  OBVIOUS
<1>0. TypeOK /\ Tools \subseteq Calls /\ \A c \in Tools : c \notin Lists
  BY ToolsAreCalls DEF UpstreamInv, ConnectionInv
<1>1. ASSUME NEW c \in Calls, LoopStep(c) PROVE \A d \in Tools : Seen(d) /\ SameReq(d)
  <2>1. UNCHANGED <<req, outcome>>
    BY <1>1 DEF LoopStep, DialOk, DialFail, LogSuccess, NextAttempt, GiveUp, OwnerResumes
  <2>2. CASE (\E k \in Conns : DialOk(c, k)) \/ DialFail(c) \/ NextAttempt(c)
    BY <2>1, <2>2 DEF DialOk, DialFail, NextAttempt, Seen, SameReq
  <2>3. CASE LogSuccess(c) \/ GiveUp(c)
    BY <1>0, <2>1, <2>3, SettleMoves DEF LogSuccess, GiveUp, Woken, Seen, SameReq
  <2>4. CASE OwnerResumes(c)
    <3>1. call[c].pc = "joining" /\ call'[c].pc = "ready"
          /\ \A d \in Calls \ {c} : call'[d] = call[d]
      BY <1>0, <2>4 DEF OwnerResumes, Ready, At, TypeOK, UpstreamInv, OwnersWait
    <3> QED
      BY <1>0, <2>1, <3>1 DEF Seen, SameReq
  <2> QED
    BY <1>1, <2>2, <2>3, <2>4 DEF LoopStep
<1>2. ASSUME NEW c \in Calls, Begin(c) PROVE [Channel!Next]_(Channel!vars)
  <2>1. call[c].pc = "idle" /\ call'[c].pc \in {"joining", "ready"} /\ UNCHANGED <<req, outcome>>
        /\ \A d \in Calls \ {c} : call'[d] = call[d]
    BY <1>0, <1>2, ConnectMoves DEF Begin
  <2>2. \A d \in Tools \ {c} : Seen(d) /\ SameReq(d)
    BY <1>0, <2>1 DEF Seen, SameReq
  <2>3. CASE c \in Tools
    <3>1. outcome[c] = "none"
      BY <2>1, <2>3, ToolFacts DEF Tells
    <3>2. Status(c) = "idle" /\ Status(c)' = "pending" /\ SameReq(c)
      BY <2>1, <3>1 DEF Status, SameReq
    <3>3. Moves(c, "pending", Effects(c))
      BY <2>2, <3>2, SeenStatus, SameReqEffects DEF Moves
    <3> QED
      BY <2>3, <3>2, <3>3, Submits
  <2> QED
    BY <2>2, <2>3, Unseen
<1>3. ASSUME NEW c \in Calls, CallStep(c) PROVE [Channel!Next]_(Channel!vars)
  <2>1. CASE ConnectThrew(c) \/ ReportLoss(c) \/ ListGivesUp(c)
    BY <2>1, DoneChannel DEF ConnectThrew, ReportLoss, ListGivesUp
  <2>2. CASE Answer(c)
    <3>1. c \in Tools => \E a \in Attempts : req[c][a] = "executed"
      BY <2>2, ToolFacts DEF Answer, Listening, Fits
    <3> QED
      BY <2>2, <3>1, DoneChannel DEF Answer, Listening
  <2>3. CASE Send(c) \/ Refuse(c) \/ Lose(c) \/ Reconnect(c)
    <3>1. /\ call[c].pc # "idle" /\ call'[c].pc # "idle"
          /\ outcome' = outcome
          /\ \A d \in Calls \ {c} : call'[d] = call[d] /\ req'[d] = req[d]
      <4>1. CASE Reconnect(c)
        BY <1>0, <4>1, ConnectMoves DEF Reconnect
      <4>2. CASE Send(c)
        BY <1>0, <4>2 DEF Send, TypeOK, CallState
      <4>3. CASE Refuse(c) \/ Lose(c)
        <5>1. call'[c].pc = "closing" /\ \A d \in Calls \ {c} : call'[d] = call[d]
          BY <1>0, <4>3 DEF Refuse, Lose, FailTo, At, TypeOK
        <5> QED
          BY <1>0, <4>3, <5>1 DEF Refuse, Lose, Listening, TypeOK
      <4> QED
        BY <2>3, <4>1, <4>2, <4>3
    <3>2. \A d \in Tools \ {c} : Seen(d) /\ SameReq(d)
      BY <1>0, <3>1 DEF Seen, SameReq
    <3>3. CASE c \in Tools
      <4>1. req[c] \in [Attempts -> {"none", "sent", "unknown", "executed", "refused"}]
        BY ReqType, <1>0
      <4>2. ASSUME Send(c) PROVE SameReq(c)
        <5>1. req[c][call[c].stage] = "none"
          BY <2>3, <3>3, <4>2, ToolFacts DEF Send, Fits, Attempts
        <5>2. req'[c][call[c].stage] # "executed"
              /\ \A a \in Attempts : a # call[c].stage => req'[c][a] = req[c][a]
          BY <1>0, <4>1, <4>2 DEF Send, TypeOK
        <5> QED
          BY <5>1, <5>2 DEF SameReq
      <4>3. ASSUME Refuse(c) PROVE SameReq(c)
        <5>1. req[c][call[c].stage] = "unknown" /\ req'[c][call[c].stage] # "executed"
              /\ \A a \in Attempts : a # call[c].stage => req'[c][a] = req[c][a]
          <6>1. call[c].stage \in Attempts
            BY <3>3, <4>3, ToolFacts DEF Refuse, Listening, Fits
          <6> QED
            BY <1>0, <4>1, <4>3, <6>1 DEF Refuse, TypeOK
        <5> QED
          BY <5>1 DEF SameReq
      <4>4. ASSUME Lose(c) \/ Reconnect(c) PROVE SameReq(c)
        BY <4>4 DEF Lose, Reconnect, SameReq
      <4> QED
        BY <2>3, <3>1, <3>2, <4>2, <4>3, <4>4, Unseen DEF Seen
    <3> QED
      BY <3>2, <3>3, Unseen
  <2> QED
    BY <1>3, <2>1, <2>2, <2>3 DEF CallStep
<1>4. ASSUME NEW c \in Calls, NEW a \in Attempts, Execute(c, a)
      PROVE  [Channel!Next]_(Channel!vars)
  <2>1. /\ req[c][a] = "sent" /\ req'[c][a] = "executed" /\ UNCHANGED <<call, outcome>>
        /\ \A b \in Attempts : b # a => req'[c][b] = req[c][b]
        /\ \A d \in Calls \ {c} : req'[d] = req[d]
    BY <1>0, <1>4 DEF Execute, TypeOK
  <2>2. \A d \in Tools \ {c} : Seen(d) /\ SameReq(d)
    BY <1>0, <2>1 DEF Seen, SameReq
  <2>3. CASE c \in Tools
    <3>1. \A b \in Attempts : req[c][b] # "executed"
      BY <2>1, <2>3, ToolFacts DEF Once, Attempts
    <3>2. Effects(c) = 0 /\ Effects(c)' = 1
      BY <2>1, <3>1 DEF Effects, Carried, Attempts
    <3>3. Status(c)' = Status(c)
      BY <2>1, SeenStatus DEF Seen
    <3>4. Status(c) \in {"pending", "failed"}
      <4>1. call[c].pc # "idle"
        BY <2>1, <2>3, ToolFacts DEF Fits, Attempts
      <4>2. outcome[c] \in {"none", "failed"}
        BY <2>3, <3>1, ToolFacts DEF Tells
      <4> QED
        BY <4>1, <4>2 DEF Status
    <3>5. Moves(c, Status(c), 1)
      BY <2>2, <3>2, <3>3, SeenStatus, SameReqEffects DEF Moves
    <3> QED
      BY <2>3, <3>2, <3>4, <3>5, CarriesOut
  <2> QED
    BY <2>2, <2>3, Unseen
<1>5. CASE ServerRestart
  <2>1. \A d \in Tools : Seen(d) /\ SameReq(d)
    BY <1>0, <1>5 DEF ServerRestart, Seen, SameReq
  <2> QED
    BY <2>1, Unseen
<1>6. CASE Close \/ CloseWaited \/ CloseReturns \/ UNCHANGED vars
  <2>1. \A d \in Tools : Seen(d) /\ SameReq(d)
    BY <1>6 DEF Close, CloseWaited, CloseReturns, vars, Seen, SameReq
  <2> QED
    BY <2>1, Unseen
<1> QED
  BY <1>1, <1>2, <1>3, <1>4, <1>5, <1>6, Unseen DEF Next

LEMMA InitChannel == Init => Channel!Init
<1> SUFFICES ASSUME Init PROVE Channel!Init
  OBVIOUS
<1>1. \A c \in Tools : call[c].pc = "idle" /\ req[c]["first"] = "none" /\ req[c]["retry"] = "none"
  BY ToolsAreCalls DEF Init, Attempts
<1>2. \A c \in Tools : Status(c) = "idle" /\ Effects(c) = 0
  BY <1>1 DEF Status, Effects, Carried
<1> QED
  BY <1>2 DEF Channel!Init

(* Whatever fails, reconnects or restarts, a tool call is carried out at   *)
(* most once and an answer means that it was: every step is one of         *)
(* AtMostOnceChannel or changes nothing a caller sees.                     *)
THEOREM UpstreamImplementsChannel == Spec => ImplementsChannel
<1>1. UpstreamInv /\ [Next]_vars => [Channel!Next]_(Channel!vars)
  BY NextChannel
<1> QED
  BY <1>1, InitChannel, UpstreamInvariant, PTL DEF Spec, ImplementsChannel, Channel!Spec

-----------------------------------------------------------------------------
(* What the channel promises, and the client keeps by the refinement.      *)

(* The server carries a tool call out once at most, and one that was       *)
(* answered exactly once, however often connections break and calls are    *)
(* repeated (callTool, 212).                                               *)
THEOREM ToolCallsAreMadeOnce == Spec => []Channel!AtMostOnce
<1>1. Channel!Init => Channel!AtMostOnce
  BY DEF Channel!Init, Channel!AtMostOnce
<1>2. Channel!AtMostOnce /\ [Channel!Next]_(Channel!vars) => Channel!AtMostOnce'
  <2> SUFFICES ASSUME Channel!AtMostOnce, [Channel!Next]_(Channel!vars) PROVE Channel!AtMostOnce'
    OBVIOUS
  <2> QED
    BY DEF Channel!AtMostOnce, Channel!Next, Channel!vars, Channel!Submit, Channel!CarryOut,
       Channel!Answer, Channel!Fail
<1> QED
  BY <1>1, <1>2, UpstreamImplementsChannel, PTL DEF ImplementsChannel, Channel!Spec

(* What callTool has returned or thrown is not contradicted by what the    *)
(* server or a later connection does (callTool, 212).                      *)
THEOREM ToolAnswersStand == Spec => [][Channel!AnswersStand]_(Channel!vars)
<1>1. ASSUME Channel!AtMostOnce, Channel!Next PROVE Channel!AnswersStand
  <2>1. PICK s, r, e, f :
          /\ s = [c \in Tools |-> Status(c)] /\ r = [c \in Tools |-> Status(c)]'
          /\ e = [c \in Tools |-> Effects(c)] /\ f = [c \in Tools |-> Effects(c)]'
    OBVIOUS
  <2>2. DOMAIN s = Tools /\ DOMAIN e = Tools
    BY <2>1
  <2>3. \A c \in Tools : e[c] \in {0, 1}
    BY <1>1, <2>1 DEF Channel!AtMostOnce
  <2>4. \E c \in Tools :
          \/ s[c] \in {"idle", "pending"} /\ (\E x : r = [s EXCEPT ![c] = x]) /\ f = e
          \/ e[c] = 0 /\ f = [e EXCEPT ![c] = 1] /\ r = s
    <3>1. PICK c \in Tools : Channel!Submit(c) \/ Channel!CarryOut(c) \/ Channel!Answer(c) \/ Channel!Fail(c)
      BY <1>1 DEF Channel!Next
    <3>2. CASE Channel!Submit(c)
      BY <2>1, <3>2 DEF Channel!Submit
    <3>3. CASE Channel!CarryOut(c)
      BY <2>1, <3>3 DEF Channel!CarryOut
    <3>4. CASE Channel!Answer(c)
      BY <2>1, <3>4 DEF Channel!Answer
    <3>5. CASE Channel!Fail(c)
      BY <2>1, <3>5 DEF Channel!Fail
    <3> QED
      BY <3>1, <3>2, <3>3, <3>4, <3>5
  <2>5. \A c \in Tools : (s[c] \in {"ok", "failed"} => r[c] = s[c]) /\ f[c] >= e[c]
    BY <2>2, <2>3, <2>4
  <2> QED
    BY <2>1, <2>5 DEF Channel!AnswersStand
<1> QED
  BY <1>1, ToolCallsAreMadeOnce, UpstreamImplementsChannel, PTL DEF ImplementsChannel, Channel!Spec
=============================================================================
