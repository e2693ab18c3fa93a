---------------------------- MODULE UpstreamClient ----------------------------
(***************************************************************************)
(* The client of the upstream pty-mcp server, src/upstream-pty.mjs: one    *)
(* connection shared by all calls, a single-flight reconnect loop, the     *)
(* invalidation of a connection by whichever call fails, the one retry     *)
(* after a definite session-not-found, and close.                          *)
(*                                                                         *)
(* A call is at call[c].pc between two awaits; `stage' tells which         *)
(* connect() of callTool or listTools it last made and `got' what that     *)
(* gave it: a connection, the null this.client, or an exception.  Waiting  *)
(* times are choices: an attempt, a request and a log entry take any time. *)
(***************************************************************************)
EXTENDS Naturals

CONSTANTS
  Calls,        \* calls of callTool and listTools
  Lists,        \* those of listTools
  MaxConns,     \* bound: connections made
  NoConn,       \* the null of this.client
  Failure,      \* an exception of connect
  NoCall,
  MaxAttempts,  \* reconnect.maxAttempts
  MaxRestarts   \* bound: restarts of the upstream server

VARIABLES
  conn,       \* conn[k]: "new", "open", "stale" (the server forgot it) or "closed"
  client,     \* this.client; this.transport is set and cleared with it
  promise,    \* this.reconnectPromise: the call that started it, which will clear it
  loop,       \* loop[c]: the reconnectLoop c started: its step, attempt and result
  call,       \* call[c]: the state of a call
  outcome,    \* outcome[c]: "none", "ok" or "failed"
  req,        \* req[c][a]: what became of the request of attempt a
  closer,     \* progress of close: "open", "waiting", "closing", "closed"
  restarts    \* restarts of the upstream server so far

vars == <<conn, client, promise, loop, call, outcome, req, closer, restarts>>

Conns == 1..MaxConns

ASSUME UpstreamAssumption ==
  /\ Lists \subseteq Calls
  /\ MaxConns \in Nat
  /\ NoConn \notin Conns
  /\ Failure \notin Conns \cup {NoConn}
  /\ NoCall \notin Calls
  /\ MaxAttempts \in Nat \ {0}
  /\ MaxRestarts \in Nat

Tools == Calls \ Lists
Attempts == {"first", "retry"}
Result == Conns \cup {NoConn, Failure}

CallState == [pc : {"idle", "joining", "ready", "sent", "closing", "done"},
              stage : Attempts \cup {"after"},
              on : Calls \cup {NoCall},
              got : Result]
LoopState == [phase : {"off", "dial", "logSuccess", "failed", "settled"},
              attempt : 1..MaxAttempts,
              result : Result]

TypeOK ==
  /\ conn \in [Conns -> {"new", "open", "stale", "closed"}]
  /\ client \in Conns \cup {NoConn}
  /\ promise \in Calls \cup {NoCall}
  /\ loop \in [Calls -> LoopState]
  /\ call \in [Calls -> CallState]
  /\ outcome \in [Calls -> {"none", "ok", "failed"}]
  /\ req \in [Calls -> [Attempts -> {"none", "sent", "unknown", "executed", "refused"}]]
  /\ closer \in {"open", "waiting", "closing", "closed"}
  /\ restarts \in 0..MaxRestarts

NoLoop == [phase |-> "off", attempt |-> 1, result |-> NoConn]

Init ==
  /\ conn = [k \in Conns |-> "new"]
  /\ client = NoConn
  /\ promise = NoCall
  /\ loop = [c \in Calls |-> NoLoop]
  /\ call = [c \in Calls |-> [pc |-> "idle", stage |-> "first", on |-> NoCall, got |-> NoConn]]
  /\ outcome = [c \in Calls |-> "none"]
  /\ req = [c \in Calls |-> [a \in Attempts |-> "none"]]
  /\ closer = "open"
  /\ restarts = 0

Live(k) == conn[k] \in {"open", "stale"}
Closed == closer # "open"

At(pc, stage, on, got) == [pc |-> pc, stage |-> stage, on |-> on, got |-> got]

Ready(c, stage, result) == call' = [call EXCEPT ![c] = At("ready", stage, NoCall, result)]
Joining(c, stage, owner) == call' = [call EXCEPT ![c] = At("joining", stage, owner, NoConn)]

ThrowClosed(c, stage) ==
  Closed /\ Ready(c, stage, Failure) /\ UNCHANGED <<promise, loop>>

ReturnClient(c, stage) ==
  client # NoConn /\ Ready(c, stage, client) /\ UNCHANGED <<promise, loop>>

(* The promise of a loop that has settled is still there until the call    *)
(* that started it goes on.                                                *)
AwaitLoop(c, stage) ==
  /\ client = NoConn /\ promise # NoCall
  /\ IF loop[promise].phase = "settled"
       THEN Ready(c, stage, loop[promise].result) ELSE Joining(c, stage, promise)
  /\ UNCHANGED <<promise, loop>>

StartLoop(c, stage) ==
  /\ Joining(c, stage, c)
  /\ promise' = c
  /\ loop' = [loop EXCEPT ![c] = [phase |-> "dial", attempt |-> 1, result |-> NoConn]]

(* Mutant: a connect without a client always starts a loop.                *)
Connect_NoSingleFlight(c, stage) ==
  \/ ThrowClosed(c, stage)
  \/ ~Closed /\ ReturnClient(c, stage)
  \/ ~Closed /\ client = NoConn /\ StartLoop(c, stage)

(* connect up to its first await, as the continuation of call c runs it.   *)
Connect(c, stage) ==
  \/ ThrowClosed(c, stage)
  \/ ~Closed /\ ReturnClient(c, stage)
  \/ ~Closed /\ AwaitLoop(c, stage)
  \/ ~Closed /\ client = NoConn /\ promise = NoCall /\ StartLoop(c, stage)

(* The synchronous part of invalidate: this.client is cleared and whatever *)
(* connection it was, also one made since the failed request, is closed.   *)
Invalidate ==
  /\ client' = NoConn
  /\ conn' = [k \in Conns |-> IF k = client THEN "closed" ELSE conn[k]]

-----------------------------------------------------------------------------
(* The reconnect loop.                                                     *)

(* A loop that settles wakes every call that awaits it; the one that       *)
(* started it clears the promise when it goes on.                          *)
Settle(o, result) ==
  /\ loop' = [loop EXCEPT ![o].phase = "settled", ![o].result = result]
  /\ call' = [c \in Calls |->
       IF call[c].pc = "joining" /\ call[c].on = o /\ c # o
         THEN At("ready", call[c].stage, NoCall, result) ELSE call[c]]

(* The log entry of an attempt and the attempt itself are one wait.        *)
DialOk(o, k) ==
  /\ loop[o].phase = "dial"
  /\ conn[k] = "new"
  /\ \A j \in Conns : conn[j] = "new" => k <= j
  /\ conn' = [conn EXCEPT ![k] = "open"]
  /\ client' = k
  /\ loop' = [loop EXCEPT ![o].phase = "logSuccess"]
  /\ UNCHANGED <<promise, call, outcome, req, closer, restarts>>

(* A failed attempt closes what it opened, before it is anyone's client.   *)
DialFail(o) ==
  /\ loop[o].phase = "dial"
  /\ loop' = [loop EXCEPT ![o].phase = "failed"]
  /\ UNCHANGED <<conn, client, promise, call, outcome, req, closer, restarts>>

(* The loop returns this.client as it is after the log entry, which may be *)
(* the null that an invalidate left.                                       *)
LogSuccess(o) ==
  /\ loop[o].phase = "logSuccess"
  /\ Settle(o, client)
  /\ UNCHANGED <<conn, client, promise, outcome, req, closer, restarts>>

(* After the log entry of a failed attempt, and the backoff.               *)
NextAttempt(o) ==
  /\ loop[o].phase = "failed"
  /\ loop[o].attempt < MaxAttempts
  /\ loop' = [loop EXCEPT ![o].phase = "dial", ![o].attempt = @ + 1]
  /\ UNCHANGED <<conn, client, promise, call, outcome, req, closer, restarts>>

(* Mutant: the attempts end without a result.                              *)
GiveUp_Unsettled(o) ==
  /\ loop[o].phase = "failed"
  /\ loop[o].attempt >= MaxAttempts
  /\ loop' = [loop EXCEPT ![o] = NoLoop]
  /\ UNCHANGED <<conn, client, promise, call, outcome, req, closer, restarts>>

GiveUp(o) ==
  /\ loop[o].phase = "failed"
  /\ loop[o].attempt >= MaxAttempts
  /\ Settle(o, Failure)
  /\ UNCHANGED <<conn, client, promise, outcome, req, closer, restarts>>

(* The finally of connect.                                                 *)
OwnerResumes(o) ==
  /\ loop[o].phase = "settled"
  /\ promise' = NoCall
  /\ Ready(o, call[o].stage, loop[o].result)
  /\ loop' = [loop EXCEPT ![o] = NoLoop]
  /\ UNCHANGED <<conn, client, outcome, req, closer, restarts>>

-----------------------------------------------------------------------------
(* callTool and listTools.                                                 *)

Begin(c) ==
  /\ call[c].pc = "idle"
  /\ Connect(c, "first")
  /\ UNCHANGED <<conn, client, outcome, req, closer, restarts>>

Done(c, result) ==
  /\ call' = [call EXCEPT ![c].pc = "done", ![c].got = NoConn]
  /\ outcome' = [outcome EXCEPT ![c] = result]

(* connect threw, outside the try of the request.                          *)
ConnectThrew(c) ==
  /\ call[c].pc = "ready"
  /\ call[c].stage \in Attempts
  /\ call[c].got = Failure
  /\ Done(c, "failed")
  /\ UNCHANGED <<conn, client, promise, loop, req, closer, restarts>>

(* A request on a connection that was closed meanwhile, or on null, throws *)
(* without leaving the process; on a stale one it will be refused.         *)
Send(c) ==
  LET k == call[c].got IN
  /\ call[c].pc = "ready"
  /\ call[c].stage \in Attempts
  /\ k # Failure
  /\ call' = [call EXCEPT ![c].pc = "sent"]
  /\ req' = [req EXCEPT ![c][call[c].stage] =
       IF k = NoConn THEN "none"
       ELSE IF conn[k] = "open" THEN "sent"
       ELSE IF conn[k] = "stale" THEN "unknown" ELSE "none"]
  /\ UNCHANGED <<conn, client, promise, loop, outcome, closer, restarts>>

(* The upstream server carries a request out, also when its caller has     *)
(* given up on it or closed the connection.  Listing has no effects, so    *)
(* late listings are left out.                                             *)
Execute(c, a) ==
  /\ c \in Lists => call[c].pc = "sent" /\ call[c].stage = a
  /\ req[c][a] = "sent"
  /\ req' = [req EXCEPT ![c][a] = "executed"]
  /\ UNCHANGED <<conn, client, promise, loop, call, outcome, closer, restarts>>

(* The upstream server restarts and knows none of its sessions any more;   *)
(* what it has not carried out is refused or lost.                         *)
ServerRestart ==
  /\ restarts < MaxRestarts
  /\ restarts' = restarts + 1
  /\ conn' = [k \in Conns |-> IF conn[k] = "open" THEN "stale" ELSE conn[k]]
  /\ req' = [c \in Calls |-> [a \in Attempts |->
       IF req[c][a] = "sent" THEN "unknown" ELSE req[c][a]]]
  /\ UNCHANGED <<client, promise, loop, call, outcome, closer>>

Listening(c) ==
  /\ call[c].pc = "sent"
  /\ call[c].got # NoConn
  /\ Live(call[c].got)

Answer(c) ==
  /\ Listening(c)
  /\ req[c][call[c].stage] = "executed"
  /\ Done(c, "ok")
  /\ UNCHANGED <<conn, client, promise, loop, req, closer, restarts>>

FailTo(c, stage) ==
  /\ Invalidate
  /\ call' = [call EXCEPT ![c] = At("closing", stage, NoCall, NoConn)]

(* A list is asked for again after any error, once.  After its second one  *)
(* it fails, which the model does when invalidate has returned.            *)
NextListStage(c) == IF call[c].stage = "first" THEN "retry" ELSE "after"

(* Session-not-found: the request was not dispatched.  The first time the  *)
(* call is made again.                                                     *)
Refuse(c) ==
  /\ Listening(c)
  /\ req[c][call[c].stage] = "unknown"
  /\ req' = [req EXCEPT ![c][call[c].stage] = "refused"]
  /\ FailTo(c, NextListStage(c))
  /\ UNCHANGED <<promise, loop, outcome, closer, restarts>>

(* Mutant: any error of a request is taken to mean that it was not done.   *)
Lose_Replayed(c) ==
  /\ call[c].pc = "sent"
  /\ FailTo(c, NextListStage(c))
  /\ UNCHANGED <<promise, loop, outcome, req, closer, restarts>>

(* Any other error: a lost connection or answer, a timeout, a connection   *)
(* that another call closed, a null client.                                *)
Lose(c) ==
  /\ call[c].pc = "sent"
  /\ FailTo(c, IF c \in Lists THEN NextListStage(c) ELSE "after")
  /\ UNCHANGED <<promise, loop, outcome, req, closer, restarts>>

(* invalidate has returned: the call connects again, to retry or just for  *)
(* the next request; a list that failed twice gives up.                    *)
Reconnect(c) ==
  /\ call[c].pc = "closing"
  /\ ~(c \in Lists /\ call[c].stage = "after")
  /\ Connect(c, call[c].stage)
  /\ UNCHANGED <<conn, client, outcome, req, closer, restarts>>

ListGivesUp(c) ==
  /\ call[c].pc = "closing"
  /\ c \in Lists
  /\ call[c].stage = "after"
  /\ Done(c, "failed")
  /\ UNCHANGED <<conn, client, promise, loop, req, closer, restarts>>

(* What the reconnect after a lost call gave is ignored, errors included.  *)
ReportLoss(c) ==
  /\ call[c].pc = "ready"
  /\ call[c].stage = "after"
  /\ Done(c, "failed")
  /\ UNCHANGED <<conn, client, promise, loop, req, closer, restarts>>

-----------------------------------------------------------------------------
(* close.                                                                  *)

(* Mutant: close does not wait for a running reconnect.                    *)
Close_NoWait ==
  /\ closer = "open"
  /\ promise' = NoCall
  /\ closer' = "closing"
  /\ Invalidate
  /\ UNCHANGED <<loop, call, outcome, req, restarts>>

Close ==
  /\ closer = "open"
  /\ promise' = NoCall
  /\ IF promise # NoCall
       THEN closer' = "waiting" /\ UNCHANGED <<conn, client>>
       ELSE closer' = "closing" /\ Invalidate
  /\ UNCHANGED <<loop, call, outcome, req, restarts>>

NoLoopRuns == \A c \in Calls : loop[c].phase \in {"settled", "off"}

CloseWaited ==
  /\ closer = "waiting"
  /\ NoLoopRuns
  /\ closer' = "closing"
  /\ Invalidate
  /\ UNCHANGED <<promise, loop, call, outcome, req, restarts>>

CloseReturns ==
  /\ closer = "closing"
  /\ closer' = "closed"
  /\ UNCHANGED <<conn, client, promise, loop, call, outcome, req, restarts>>

-----------------------------------------------------------------------------
LoopStep(o) ==
  \/ \E k \in Conns : DialOk(o, k)
  \/ DialFail(o)
  \/ LogSuccess(o)
  \/ NextAttempt(o)
  \/ GiveUp(o)
  \/ OwnerResumes(o)

CallStep(c) ==
  \/ ConnectThrew(c)
  \/ Send(c)
  \/ Answer(c)
  \/ Refuse(c)
  \/ Lose(c)
  \/ Reconnect(c)
  \/ ListGivesUp(c)
  \/ ReportLoss(c)

Next ==
  \/ \E c \in Calls : LoopStep(c) \/ Begin(c) \/ CallStep(c)
  \/ \E c \in Calls, a \in Attempts : Execute(c, a)
  \/ ServerRestart
  \/ Close
  \/ CloseWaited
  \/ CloseReturns

Spec == Init /\ [][Next]_vars

(* What the process itself does goes on: promises that resolve are         *)
(* resumed, attempts and requests end (the MCP client times them out), log *)
(* entries are written or fail.  Nothing is assumed of the server.         *)
FairSpec ==
  /\ Spec
  /\ \A c \in Calls : WF_vars(LoopStep(c)) /\ WF_vars(CallStep(c))
  /\ WF_vars(CloseWaited)
  /\ WF_vars(CloseReturns)

-----------------------------------------------------------------------------
(* Properties.                                                             *)

(* Every connection that is open is this.client and this.client is open:   *)
(* no interleaving of reconnects, failures and close leaks a connection or *)
(* keeps a closed one (reconnectLoop, 154; invalidate, 116).               *)
ClientIsTheLiveConnection == \A k \in Conns : Live(k) <=> client = k

(* Once close has returned no connection is open and no loop will open one *)
(* (close, 253).                                                           *)
ClosedForGood ==
  closer = "closed" => NoLoopRuns /\ \A k \in Conns : ~Live(k)

(* The server carries a tool call out at most once, an answer means that   *)
(* it did, and this although a call is made twice after session-not-found  *)
(* (callTool, 212).                                                        *)
Carried(c, a) == IF req[c][a] = "executed" THEN 1 ELSE 0
Effects(c) == Carried(c, "first") + Carried(c, "retry")
Status(c) == IF call[c].pc = "idle" THEN "idle"
             ELSE IF outcome[c] = "none" THEN "pending" ELSE outcome[c]

Channel == INSTANCE AtMostOnceChannel WITH
  status <- [c \in Tools |-> Status(c)],
  effects <- [c \in Tools |-> Effects(c)]

ImplementsChannel == Channel!Spec

(* Every call returns, however the others fail around it, and so does      *)
(* close (callTool, 212; listTools, 190; reconnectLoop, 141).              *)
CallsReturn ==
  /\ \A c \in Calls : call[c].pc # "idle" ~> call[c].pc = "done"
  /\ closer = "waiting" ~> closer = "closed"
=============================================================================
