------------------------------ MODULE Ssh_proofs ------------------------------
(***************************************************************************)
(* Proofs about what the program does over SSH.                            *)
(*                                                                         *)
(* SshMultiplex, for every number of calls and targets: the single flight  *)
(* of acquireCore, that whoever waits for an acquire waits for one that    *)
(* still runs, that the map of masters stays within maxTargets, and that   *)
(* no master is out of reach or out of the map.                            *)
(*                                                                         *)
(* Transfers, for every number of calls on the two paths: what a transfer  *)
(* that reports a verification, or success, says of the two files.         *)
(***************************************************************************)
EXTENDS SshMultiplex, Transfers, TLAPS

Going == {"check", "path", "rm", "exit", "evict", "create", "postcheck", "cleanup"}

CallStates == [pc : {"idle", "acquiring", "ready", "running", "done"},
               target : Targets \cup {NoTarget},
               on : Calls \cup {NoCall},
               via : {"none", "master", "direct", "error"}]

OpType ==
  /\ op = [c \in Calls |-> [phase |-> op[c].phase, victim |-> op[c].victim]]
  /\ \A c \in Calls : op[c].phase \in Going \cup {"off"}

(* The part of the types that the flight of acquireCore needs.             *)
FlightType ==
  /\ pending \in [Targets -> Calls \cup {NoCall}]
  /\ OpType
  /\ call \in [Calls -> CallStates]

(* An acquireCore is the pending one of its target, and the call that      *)
(* started it waits for it.                                                *)
OpIsPending ==
  \A c \in Calls : op[c].phase # "off" =>
    /\ call[c].pc = "acquiring" /\ call[c].on = c
    /\ Target(c) \in Targets /\ pending[Target(c)] = c

(* What is pending runs, for that target.                                  *)
PendingRuns ==
  \A t \in Targets : pending[t] # NoCall => op[pending[t]].phase # "off" /\ Target(pending[t]) = t

(* Nobody waits for an acquire that is over.                               *)
WaitsForARunningOne ==
  \A c \in Calls : call[c].pc = "acquiring" =>
    call[c].on \in Calls /\ op[call[c].on].phase # "off" /\ Target(call[c].on) = Target(c)

FlightInv == FlightType /\ OpIsPending /\ PendingRuns /\ WaitsForARunningOne

-----------------------------------------------------------------------------
LEMMA FlightInit == Init => FlightInv
<1> SUFFICES ASSUME Init PROVE FlightInv
  OBVIOUS
<1>1. OpType
  BY DEF Init, NoOp, OpType
<1>2. call \in [Calls -> CallStates]
  BY DEF Init, CallStates
<1>3. pending \in [Targets -> Calls \cup {NoCall}]
  BY DEF Init
<1>4. \A c \in Calls : op[c].phase = "off" /\ call[c].pc = "idle"
  BY DEF Init, NoOp
<1>5. \A t \in Targets : pending[t] = NoCall
  BY DEF Init
<1> QED
  BY <1>1, <1>2, <1>3, <1>4, <1>5
     DEF FlightInv, FlightType, OpIsPending, PendingRuns, WaitsForARunningOne

(* A step that leaves all acquires where they are, or moves one of them    *)
(* from phase to phase.                                                    *)
LEMMA FlightKept ==
  ASSUME FlightInv, OpType', UNCHANGED <<pending, call>>,
         \A c \in Calls : op[c].phase # "off" <=> op'[c].phase # "off"
  PROVE  FlightInv'
<1>1. \A t \in Targets : pending[t] # NoCall => pending[t] \in Calls
  BY DEF FlightInv, FlightType
<1>2. FlightType' /\ OpIsPending'
  BY DEF FlightInv, FlightType, OpIsPending, Target
<1>3. PendingRuns'
  BY <1>1 DEF FlightInv, PendingRuns, Target
<1>4. WaitsForARunningOne'
  BY DEF FlightInv, WaitsForARunningOne, Target
<1> QED
  BY <1>2, <1>3, <1>4 DEF FlightInv

LEMMA OpUpdate ==
  ASSUME OpType, NEW c \in Calls, NEW p \in Going \cup {"off"}, NEW v,
         op' = [op EXCEPT ![c] = [phase |-> p, victim |-> v]]
  PROVE  /\ OpType'
         /\ op'[c].phase = p
         /\ \A d \in Calls \ {c} : op'[d] = op[d]
<1>1. DOMAIN op = Calls
  BY DEF OpType
<1>2. op'[c] = [phase |-> p, victim |-> v] /\ \A d \in Calls \ {c} : op'[d] = op[d]
  BY <1>1
<1>3. \A d \in Calls : op[d] = [phase |-> op[d].phase, victim |-> op[d].victim]
  BY DEF OpType
<1>4. \A d \in Calls : op'[d] = [phase |-> op'[d].phase, victim |-> op'[d].victim]
  BY <1>2, <1>3
<1>5. op' = [d \in Calls |-> op'[d]]
  BY <1>1
<1>6. op' = [d \in Calls |-> [phase |-> op'[d].phase, victim |-> op'[d].victim]]
  BY <1>4, <1>5
<1>7. \A d \in Calls : op'[d].phase \in Going \cup {"off"}
  BY <1>2 DEF OpType
<1> QED
  BY <1>2, <1>6, <1>7 DEF OpType

LEMMA GotoKeeps ==
  ASSUME FlightInv, NEW c \in Calls, op[c].phase # "off", UNCHANGED <<pending, call>>,
         NEW p \in Going, NEW v,
         op' = [op EXCEPT ![c] = [phase |-> p, victim |-> v]]
  PROVE  FlightInv'
<1>1. OpType' /\ op'[c].phase # "off" /\ \A d \in Calls \ {c} : op'[d] = op[d]
  BY OpUpdate DEF FlightInv, FlightType, Going
<1> QED
  BY <1>1, FlightKept

LEMMA GotoAsUpdate ==
  ASSUME FlightInv, NEW c \in Calls, NEW p, Goto(c, p)
  PROVE  op' = [op EXCEPT ![c] = [phase |-> p, victim |-> op[c].victim]]
<1>1. op[c] = [phase |-> op[c].phase, victim |-> op[c].victim]
  BY DEF FlightInv, FlightType, OpType
<1>2. [op[c] EXCEPT !.phase = p] = [phase |-> p, victim |-> op[c].victim]
  BY <1>1
<1> QED
  BY <1>2 DEF Goto

LEMMA CallType == ASSUME FlightInv, NEW c \in Calls PROVE
  call[c] \in CallStates /\ call[c].target \in Targets \cup {NoTarget}
<1>1. call[c] \in CallStates
  BY DEF FlightInv, FlightType
<1> QED
  BY <1>1 DEF CallStates

LEMMA SettleKeeps ==
  ASSUME FlightInv, NEW c \in Calls, NEW via \in {"none", "master", "direct", "error"}, Settle(c, via)
  PROVE  FlightInv'
<1> DEFINE Woken(d) == [call[d] EXCEPT !.pc = "ready", !.on = NoCall, !.via = via]
<1>1. ASSUME NEW d \in Calls
      PROVE  Woken(d) \in CallStates /\ Woken(d).pc = "ready" /\ Woken(d).target = call[d].target
  BY <1>1, CallType DEF CallStates
<1>2. \A d \in Calls : IF call[d].pc = "acquiring" /\ call[d].on = c
                         THEN call'[d] = Woken(d) ELSE call'[d] = call[d]
  BY DEF Settle
<1>3. call' \in [Calls -> CallStates]
  BY <1>1, CallType DEF Settle
<1>4. OpType' /\ op'[c].phase = "off" /\ \A d \in Calls \ {c} : op'[d] = op[d]
  BY OpUpdate DEF Settle, NoOp, FlightInv, FlightType
<1>5. /\ pending' \in [Targets -> Calls \cup {NoCall}]
      /\ \A t \in Targets : pending'[t] = IF pending[t] = c THEN NoCall ELSE pending[t]
  BY DEF Settle, FlightInv, FlightType
<1>6. \A d \in Calls : Target(d)' = Target(d)
  BY <1>1, <1>2 DEF Target
<1>7. FlightType'
  BY <1>3, <1>4, <1>5 DEF FlightType
<1>8. OpIsPending'
  <2> SUFFICES ASSUME NEW d \in Calls, op'[d].phase # "off"
               PROVE  /\ call'[d].pc = "acquiring" /\ call'[d].on = d
                      /\ Target(d)' \in Targets /\ pending'[Target(d)'] = d
    BY DEF OpIsPending
  <2>1. d # c /\ op[d].phase # "off"
    BY <1>4
  <2>2. call[d].pc = "acquiring" /\ call[d].on = d /\ Target(d) \in Targets /\ pending[Target(d)] = d
    BY <2>1 DEF FlightInv, OpIsPending
  <2> QED
    BY <1>2, <1>5, <1>6, <2>1, <2>2
<1>9. PendingRuns'
  <2> SUFFICES ASSUME NEW t \in Targets, pending'[t] # NoCall
               PROVE  (op[pending[t]].phase # "off" /\ Target(pending[t]) = t)'
    BY DEF PendingRuns
  <2>1. pending'[t] = pending[t] /\ pending[t] # c /\ pending[t] \in Calls
    BY <1>5 DEF FlightInv, FlightType
  <2>2. op[pending[t]].phase # "off" /\ Target(pending[t]) = t
    BY <2>1 DEF FlightInv, PendingRuns
  <2> QED
    BY <1>4, <1>6, <2>1, <2>2
<1>10. WaitsForARunningOne'
  <2> SUFFICES ASSUME NEW d \in Calls, call'[d].pc = "acquiring"
               PROVE  (/\ call[d].on \in Calls /\ op[call[d].on].phase # "off"
                       /\ Target(call[d].on) = Target(d))'
    BY DEF WaitsForARunningOne
  <2>1. call'[d] = call[d] /\ call[d].on # c
    BY <1>1, <1>2
  <2>2. call[d].on \in Calls /\ op[call[d].on].phase # "off" /\ Target(call[d].on) = Target(d)
    BY <2>1 DEF FlightInv, WaitsForARunningOne
  <2> QED
    BY <1>4, <1>6, <2>1, <2>2
<1> QED
  BY <1>7, <1>8, <1>9, <1>10 DEF FlightInv

LEMMA AcquireKeeps ==
  ASSUME FlightInv, NEW c \in Calls, NEW t \in Targets, Acquire(c, t)
  PROVE  FlightInv'
<1>0. call[c].pc = "idle" /\ op[c].phase = "off"
  BY DEF Acquire, FlightInv, OpIsPending
<1>1. \A d \in Calls : op[d].phase # "off" =>
        /\ call[d].pc = "acquiring" /\ call[d].on = d
        /\ Target(d) \in Targets /\ pending[Target(d)] = d
  BY DEF FlightInv, OpIsPending
<1>2. \A u \in Targets : pending[u] # NoCall =>
        pending[u] \in Calls /\ op[pending[u]].phase # "off" /\ Target(pending[u]) = u
  BY DEF FlightInv, FlightType, PendingRuns
<1>3. \A d \in Calls : call[d].pc = "acquiring" =>
        call[d].on \in Calls /\ op[call[d].on].phase # "off" /\ Target(call[d].on) = Target(d)
  BY DEF FlightInv, WaitsForARunningOne
<1>4. ASSUME NEW o \in Calls, call' = [call EXCEPT ![c] =
               [pc |-> "acquiring", target |-> t, on |-> o, via |-> "none"]]
      PROVE  /\ call' \in [Calls -> CallStates]
             /\ call'[c].pc = "acquiring" /\ call'[c].on = o /\ Target(c)' = t
             /\ \A d \in Calls \ {c} : call'[d] = call[d] /\ Target(d)' = Target(d)
  <2>1. [pc |-> "acquiring", target |-> t, on |-> o, via |-> "none"] \in CallStates
    BY DEF CallStates
  <2>2. call \in [Calls -> CallStates]
    BY DEF FlightInv, FlightType
  <2> QED
    BY <1>4, <2>1, <2>2 DEF Target
<1>5. CASE JoinAcquire(c, t)
  <2>0. /\ UNCHANGED <<pending, op>>
        /\ pending[t] \in Calls /\ op[pending[t]].phase # "off" /\ Target(pending[t]) = t /\ pending[t] # c
        /\ call' = [call EXCEPT ![c] = [pc |-> "acquiring", target |-> t, on |-> pending[t], via |-> "none"]]
    BY <1>0, <1>2, <1>5 DEF JoinAcquire
  <2>1. /\ call' \in [Calls -> CallStates]
        /\ call'[c].pc = "acquiring" /\ call'[c].on = pending[t] /\ Target(c)' = t
        /\ \A d \in Calls \ {c} : call'[d] = call[d] /\ Target(d)' = Target(d)
    BY <1>4, <2>0
  <2>2. FlightType'
    BY <2>0, <2>1 DEF FlightInv, FlightType, OpType
  <2>3. OpIsPending'
    BY <1>0, <1>1, <2>0, <2>1 DEF OpIsPending
  <2>4. PendingRuns'
    BY <1>0, <1>2, <2>0, <2>1 DEF PendingRuns
  <2>5. WaitsForARunningOne'
    BY <1>0, <1>3, <2>0, <2>1 DEF WaitsForARunningOne
  <2> QED
    BY <2>2, <2>3, <2>4, <2>5 DEF FlightInv
<1>6. CASE pending[t] = NoCall /\ StartAcquire(c, t)
  <2>1. /\ call' \in [Calls -> CallStates]
        /\ call'[c].pc = "acquiring" /\ call'[c].on = c /\ Target(c)' = t
        /\ \A d \in Calls \ {c} : call'[d] = call[d] /\ Target(d)' = Target(d)
    BY <1>4, <1>6 DEF StartAcquire
  <2>2. OpType' /\ op'[c].phase # "off" /\ \A d \in Calls \ {c} : op'[d] = op[d]
    <3>1. op' = [op EXCEPT ![c] = [phase |-> "check", victim |-> NoTarget]]
      BY <1>6 DEF StartAcquire
    <3>2. "check" \in Going \cup {"off"} /\ OpType
      BY DEF Going, FlightInv, FlightType
    <3> QED
      BY <3>1, <3>2, OpUpdate
  <2>3. /\ pending' \in [Targets -> Calls \cup {NoCall}]
        /\ pending'[t] = c
        /\ \A u \in Targets \ {t} : pending'[u] = pending[u]
    BY <1>6 DEF StartAcquire, FlightInv, FlightType
  <2>4. \A d \in Calls : op[d].phase # "off" => d # c /\ Target(d) # t
    BY <1>0, <1>1, <1>6, MultiplexAssumption
  <2>5. FlightType'
    BY <2>1, <2>2, <2>3 DEF FlightType
  <2>6. OpIsPending'
    BY <1>1, <2>1, <2>2, <2>3, <2>4 DEF OpIsPending
  <2>7. PendingRuns'
    BY <1>0, <1>2, <2>1, <2>2, <2>3 DEF PendingRuns
  <2>8. WaitsForARunningOne'
    BY <1>0, <1>3, <2>1, <2>2 DEF WaitsForARunningOne
  <2> QED
    BY <2>5, <2>6, <2>7, <2>8 DEF FlightInv
<1> QED
  BY <1>5, <1>6 DEF Acquire

(* The call that settled its own acquire, or never had one, moves on.      *)
LEMMA CallMovesOn ==
  ASSUME FlightInv, NEW c \in Calls, call[c].pc \in {"ready", "running"},
         NEW s \in CallStates, s.pc \in {"running", "done"},
         call' = [call EXCEPT ![c] = s], UNCHANGED <<pending, op>>
  PROVE  FlightInv'
<1>1. /\ call' \in [Calls -> CallStates]
      /\ call'[c].pc \in {"running", "done"}
      /\ \A d \in Calls \ {c} : call'[d] = call[d] /\ Target(d)' = Target(d)
  BY DEF FlightInv, FlightType, Target
<1>2. op[c].phase = "off"
  BY DEF FlightInv, OpIsPending
<1>3. FlightType'
  BY <1>1 DEF FlightInv, FlightType, OpType
<1>4. OpIsPending'
  BY <1>1, <1>2 DEF FlightInv, OpIsPending
<1>5. PendingRuns'
  BY <1>1, <1>2 DEF FlightInv, FlightType, PendingRuns
<1>6. WaitsForARunningOne'
  BY <1>1, <1>2 DEF FlightInv, WaitsForARunningOne
<1> QED
  BY <1>3, <1>4, <1>5, <1>6 DEF FlightInv

LEMMA FlightNext == FlightInv /\ [Next]_vars => FlightInv'
<1> SUFFICES ASSUME FlightInv, [Next]_vars PROVE FlightInv'
  OBVIOUS
<1>0. UNCHANGED <<pending, op, call>> => FlightInv'
  BY FlightKept DEF FlightInv, FlightType, OpType
<1>1. ASSUME NEW c \in Calls, CallStep(c) PROVE FlightInv'
  <2>1. CASE \E t \in Targets : Acquire(c, t)
    BY <2>1, AcquireKeeps
  <2>2. CASE AcquireFails(c) \/ Hit(c) \/ Created(c) \/ Fallback(c)
    BY <2>2, SettleKeeps DEF AcquireFails, Hit, Created, Fallback
  <2>3. ASSUME NEW p \in Going, Goto(c, p), op[c].phase # "off", UNCHANGED <<pending, call>>
        PROVE  FlightInv'
    BY <2>3, GotoAsUpdate, GotoKeeps
  <2>4. CASE Miss(c) \/ EvictExit(c) \/ CreateOk(c) \/ CreateFails(c) \/ PostcheckFails(c)
    BY <2>3, <2>4 DEF Going, Miss, EvictExit, CreateOk, CreateFails, PostcheckFails
  <2>5. CASE EvictRemove(c)
    BY <2>5, GotoKeeps DEF Going, EvictRemove
  <2>6. ASSUME NEW map \in {Without(Target(c)), masters}, EvictOrCreate(c, map), op[c].phase # "off",
               UNCHANGED <<pending, call>>
        PROVE  FlightInv'
    <3>1. CASE Len(map) >= MaxTargets
      <4>1. op' = [op EXCEPT ![c] = [phase |-> "exit", victim |-> map[1]]]
        BY <2>6, <3>1 DEF EvictOrCreate
      <4> QED
        BY <2>6, <4>1, GotoKeeps DEF Going
    <3>2. CASE ~(Len(map) >= MaxTargets)
      <4>1. op' = [op EXCEPT ![c] = [phase |-> "create", victim |-> NoTarget]]
        BY <2>6, <3>2 DEF EvictOrCreate
      <4> QED
        BY <2>6, <4>1, GotoKeeps DEF Going
    <3> QED
      BY <3>1, <3>2
  <2>7. CASE ForgetStale(c) \/ RemoveStale(c)
    BY <2>3, <2>6, <2>7 DEF Going, ForgetStale, RemoveStale
  <2>8. CASE Start(c)
    <3> DEFINE via == IF call[c].via = "master" /\ socket[Target(c)] = "live" THEN "master" ELSE "direct"
               s == [call[c] EXCEPT !.pc = "running", !.via = via]
    <3>1. s \in CallStates /\ s.pc = "running"
      BY CallType DEF CallStates
    <3>2. call' = [call EXCEPT ![c] = s]
      BY <2>8 DEF Start
    <3> QED
      BY <2>8, <3>1, <3>2, CallMovesOn DEF Start
  <2>9. CASE End(c)
    <3> DEFINE s == [call[c] EXCEPT !.pc = "done", !.target = NoTarget, !.via = "none"]
    <3>1. s \in CallStates /\ s.pc = "done"
      BY CallType DEF CallStates
    <3>2. call' = [call EXCEPT ![c] = s]
      BY <2>9 DEF End
    <3> QED
      BY <2>9, <3>1, <3>2, CallMovesOn DEF End
  <2> QED
    BY <1>1, <2>1, <2>2, <2>4, <2>5, <2>7, <2>8, <2>9 DEF CallStep
<1>2. CASE \/ CloseIdle \/ CloseAll
           \/ \E t \in Targets : \/ IdleCheck(t) \/ SweepExit(t) \/ SweepRemove(t)
                                \/ MasterDies(t) \/ MasterExpires(t) \/ LostExpires(t)
           \/ UNCHANGED vars
  BY <1>0, <1>2 DEF CloseIdle, CloseAll, Sweep, IdleCheck, SweepExit, SweepRemove, MasterDies,
     MasterExpires, LostExpires, vars
<1> QED
  BY <1>1, <1>2 DEF Next

(* Whoever waits for an acquire waits for one that runs for its target and *)
(* that is the pending one.                                                *)
THEOREM FlightInvariant == Spec => []FlightInv
BY FlightInit, FlightNext, PTL DEF Spec

(* One target never has two acquireCore at work, for any number of calls.  *)
THEOREM AcquiresAreSingleFlight == Spec => []SingleFlight
<1>1. FlightInv => SingleFlight
  BY DEF FlightInv, OpIsPending, SingleFlight
<1> QED
  BY <1>1, FlightInvariant, PTL

-----------------------------------------------------------------------------
(* The map of records: removing and appending.                             *)

MapInv ==
  /\ masters \in Seq(Targets)
  /\ \A i, j \in 1..Len(masters) : masters[i] = masters[j] => i = j

LEMMA PlaceIs ==
  ASSUME MapInv, NEW t \in Tracked
  PROVE  Place(t) \in 1..Len(masters) /\ masters[Place(t)] = t
<1>1. \E i \in 1..Len(masters) : masters[i] = t
  BY DEF Tracked
<1> QED
  BY <1>1 DEF Place

(* Tracked, for a map that is not yet in place.                            *)
Listed(map) == {map[i] : i \in 1..Len(map)}

LEMMA WithoutIs ==
  ASSUME MapInv, NEW t
  PROVE  /\ Without(t) \in Seq(Targets)
         /\ \A i, j \in 1..Len(Without(t)) : Without(t)[i] = Without(t)[j] => i = j
         /\ Listed(Without(t)) = Tracked \ {t}
         /\ Len(Without(t)) = IF t \in Tracked THEN Len(masters) - 1 ELSE Len(masters)
<1>1. CASE t \notin Tracked
  BY <1>1 DEF Without, MapInv, Listed, Tracked
<1>2. CASE t \in Tracked
  <2> DEFINE n == Len(masters)
             k == Place(t)
             From(i) == IF i < k THEN i ELSE i + 1
             w == [i \in 1..(n - 1) |-> IF i < k THEN masters[i] ELSE masters[i + 1]]
  <2>1. n \in Nat /\ k \in 1..n /\ masters[k] = t
    BY <1>2, PlaceIs DEF MapInv
  <2>2. \A i \in 1..n : masters[i] \in Targets
    BY DEF MapInv
  <2>3. \A i \in 1..(n - 1) : From(i) \in 1..n /\ From(i) # k /\ w[i] = masters[From(i)]
    BY <2>1
  <2>4. \A i \in 1..n : i # k => \E j \in 1..(n - 1) : From(j) = i
    <3> TAKE i \in 1..n
    <3> HAVE i # k
    <3>1. CASE i < k
      BY <2>1, <3>1
    <3>2. CASE i > k
      <4>1. i - 1 \in 1..(n - 1) /\ From(i - 1) = i
        BY <2>1, <3>2
      <4> QED
        BY <4>1
    <3> QED
      BY <2>1, <3>1, <3>2
  <2>5. \A i, j \in 1..(n - 1) : From(i) = From(j) => i = j
    BY <2>1
  <2>6. w \in [1..(n - 1) -> Targets]
    BY <2>2, <2>3
  <2>7. w \in Seq(Targets) /\ Len(w) = n - 1
    BY <2>1, <2>6, n - 1 \in Nat
  <2>8. \A i, j \in 1..(n - 1) : w[i] = w[j] => i = j
    BY <2>3, <2>5 DEF MapInv
  <2>9. Listed(w) = Tracked \ {t}
    <3>1. \A i \in 1..(n - 1) : w[i] \in Tracked /\ w[i] # t
      BY <2>1, <2>3 DEF MapInv, Tracked
    <3>2. ASSUME NEW u \in Tracked \ {t} PROVE \E j \in 1..(n - 1) : w[j] = u
      <4>1. PICK i \in 1..n : masters[i] = u
        BY <3>2 DEF Tracked
      <4>2. PICK j \in 1..(n - 1) : From(j) = i
        BY <2>1, <2>4, <3>2, <4>1
      <4> QED
        BY <2>3, <4>1, <4>2
    <3> HIDE DEF w
    <3> QED
      BY <2>7, <3>1, <3>2 DEF Listed
  <2>10. Without(t) = w
    BY <1>2 DEF Without
  <2> HIDE DEF w
  <2> QED
    BY <1>2, <2>7, <2>8, <2>9, <2>10
<1> QED
  BY <1>1, <1>2

LEMMA UsedIs ==
  ASSUME MapInv, NEW t \in Targets
  PROVE  /\ Used(t) \in Seq(Targets)
         /\ \A i, j \in 1..Len(Used(t)) : Used(t)[i] = Used(t)[j] => i = j
         /\ Listed(Used(t)) = Tracked \cup {t}
         /\ Len(Used(t)) = IF t \in Tracked THEN Len(masters) ELSE Len(masters) + 1
<1> DEFINE w == Without(t)
           u == Used(t)
<1>1. /\ w \in Seq(Targets)
      /\ \A i, j \in 1..Len(w) : w[i] = w[j] => i = j
      /\ Listed(w) = Tracked \ {t}
      /\ Len(w) = IF t \in Tracked THEN Len(masters) - 1 ELSE Len(masters)
  BY WithoutIs
<1>2. Len(masters) \in Nat /\ Len(w) \in Nat
  BY <1>1 DEF MapInv
<1> HIDE DEF w
<1>3. u = Append(w, t)
  BY DEF Used, w
<1>4. u \in Seq(Targets) /\ Len(u) = Len(w) + 1
      /\ (\A i \in 1..Len(w) : u[i] = w[i]) /\ u[Len(w) + 1] = t
  BY <1>1, <1>3
<1>5. \A i \in 1..Len(w) : w[i] # t
  BY <1>1 DEF Listed
<1>6. \A i, j \in 1..Len(u) : u[i] = u[j] => i = j
  BY <1>1, <1>2, <1>4, <1>5
<1>7. Listed(u) = Tracked \cup {t}
  <2>1. \A i \in 1..Len(u) : u[i] \in Tracked \cup {t}
    BY <1>1, <1>2, <1>4 DEF Listed
  <2>2. ASSUME NEW v \in Tracked \cup {t} PROVE \E i \in 1..Len(u) : u[i] = v
    <3>1. CASE v = t
      BY <1>2, <1>4, <3>1
    <3>2. CASE v # t
      <4>1. PICK i \in 1..Len(w) : w[i] = v
        BY <1>1, <2>2, <3>2 DEF Listed
      <4> QED
        BY <1>2, <1>4, <4>1
    <3> QED
      BY <3>1, <3>2
  <2> HIDE DEF u
  <2> QED
    BY <2>1, <2>2 DEF Listed
<1> QED
  BY <1>1, <1>2, <1>4, <1>6, <1>7

-----------------------------------------------------------------------------
(* What is true of records and sockets.                                    *)

Shapes ==
  /\ socket = [t \in Targets |-> socket[t]]
  /\ sweep = [t \in Targets |-> sweep[t]]
  /\ \A c \in Calls : op[c].phase \in {"exit", "evict"} => op[c].victim \in Targets

(* One acquire at a time adds a target, and has room for it when the       *)
(* record of its victim is gone.                                           *)
Roomy == mishaps \cap {"crowded", "adopted"} = {}
HasRoom(c) ==
  /\ op[c].phase \in {"exit", "evict"} => op[c].victim \in Tracked \/ Len(masters) < MaxTargets
  /\ op[c].phase \in {"create", "postcheck"} => Len(masters) < MaxTargets
OneAdds == \A c, d \in Calls : op[c].phase \in Adding /\ op[d].phase \in Adding => c = d
Room == Len(masters) <= MaxTargets /\ OneAdds /\ \A c \in Calls : HasRoom(c)

(* Nothing live is behind a control path that is about to be removed or    *)
(* taken, and no target is closed and acquired at once.                    *)
Careful == mishaps \cap {"raced", "flaked", "unended"} = {}
Dialling == {"path", "rm", "exit", "evict", "create", "cleanup"}
Known(t) == t \in Tracked \/ \E c \in Calls : Target(c) = t /\ op[c].phase = "postcheck"
DeadEnds(c) ==
  /\ op[c].phase \in Dialling => socket[Target(c)] # "live"
  /\ op[c].phase = "evict" => socket[op[c].victim] # "live"
  /\ op[c].phase # "off" => ~BeingClosed(Target(c))
AllKnown ==
  /\ lost = {}
  /\ \A t \in Targets \ Inherited : socket[t] = "live" => Known(t)
  /\ \A c \in Calls : DeadEnds(c)
  /\ \A t \in Targets : sweep[t] \in {"rmIdle", "rm"} => socket[t] # "live"

SshInv == FlightInv /\ MapInv /\ Shapes /\ (Roomy => Room) /\ (Careful => AllKnown)

Shrunk ==
  /\ Len(masters') <= Len(masters)
  /\ \A t \in Tracked : t \in Tracked' \/ Len(masters') < Len(masters)

(* What a step of the acquire of c must do for Room and AllKnown.          *)
RoomStep(c) ==
  \/ /\ Shrunk
     /\ HasRoom(c)'
     /\ op'[c].phase \in Adding => op[c].phase \in Adding \/ \A d \in Calls \ {c} : op[d].phase \notin Adding
  \/ op[c].phase = "postcheck" /\ op'[c].phase = "off" /\ Len(masters') <= Len(masters) + 1

KnownStep(c) ==
  /\ lost' = {}
  /\ \A t \in Targets : socket'[t] = "live" =>
       \/ t \in Tracked' \cup Inherited
       \/ t = Target(c) /\ op'[c].phase = "postcheck"
       \/ t # Target(c) /\ t \notin Tracked
  /\ \A t \in Targets : socket'[t] = "live" =>
       socket[t] = "live" \/ (t = Target(c) /\ op'[c].phase = "postcheck")
  /\ op'[c].phase \in Dialling => socket'[Target(c)] # "live"
  /\ op'[c].phase = "evict" => socket'[op'[c].victim] # "live" /\ op[c].phase = "exit"
  /\ op'[c].phase \in {"exit", "evict"} =>
       \/ op[c].phase \in {"exit", "evict"} /\ op'[c].victim = op[c].victim
       \/ ~Acquiring(op'[c].victim)

LEMMA RoomMoves ==
  ASSUME SshInv, NEW c \in Calls, MapInv', Room, RoomStep(c),
         \A d \in Calls \ {c} : op'[d] = op[d]
  PROVE  Room'
<1>0. Len(masters) \in Nat /\ Len(masters') \in Nat /\ MaxTargets \in Nat
  BY MultiplexAssumption DEF SshInv, MapInv
<1>1. CASE /\ Shrunk
           /\ HasRoom(c)'
           /\ op'[c].phase \in Adding => op[c].phase \in Adding \/ \A d \in Calls \ {c} : op[d].phase \notin Adding
  <2>1. \A d \in Calls \ {c} : HasRoom(d)'
    BY <1>0, <1>1 DEF Room, HasRoom, Shrunk
  <2>2. OneAdds'
    BY <1>1 DEF Room, OneAdds, Adding
  <2> QED
    BY <1>0, <1>1, <2>1, <2>2 DEF Room, Shrunk
<1>2. CASE op[c].phase = "postcheck" /\ op'[c].phase = "off" /\ Len(masters') <= Len(masters) + 1
  <2>1. Len(masters) < MaxTargets
    BY <1>2 DEF Room, HasRoom
  <2>2. \A d \in Calls : op'[d].phase \notin Adding
    BY <1>2 DEF Room, OneAdds, Adding
  <2> QED
    BY <1>0, <1>2, <2>1, <2>2 DEF Room, OneAdds, HasRoom, Adding
<1> QED
  BY <1>1, <1>2 DEF RoomStep

LEMMA KnownMoves ==
  ASSUME SshInv, NEW c \in Calls, AllKnown, KnownStep(c), op[c].phase # "off",
         \A d \in Calls \ {c} : op'[d] = op[d],
         \A d \in Calls : op[d].phase # "off" => Target(d)' = Target(d),
         UNCHANGED sweep
  PROVE  AllKnown'
<1>0. \A d \in Calls : op[d].phase # "off" => Target(d) \in Targets /\ (d # c => Target(d) # Target(c))
  BY DEF SshInv, FlightInv, OpIsPending
<1>1. \A d \in Calls : op[d].phase # "off" => ~BeingClosed(Target(d))
  BY DEF AllKnown, DeadEnds
<1>2. ASSUME NEW d \in Calls, op[d].phase # "off" PROVE ~BeingClosed(Target(d))'
  <2>1. \A e \in Calls \ {c} : ~(op'[e].phase \in {"exit", "evict"} /\ op'[e].victim = Target(d))
    BY <1>1, <1>2 DEF BeingClosed
  <2>2. ~(op'[c].phase \in {"exit", "evict"} /\ op'[c].victim = Target(d))
    BY <1>1, <1>2 DEF KnownStep, BeingClosed, Acquiring
  <2>3. sweep'[Target(d)] = "off"
    BY <1>1, <1>2 DEF BeingClosed
  <2> QED
    BY <1>2, <2>1, <2>2, <2>3 DEF BeingClosed
<1>3. ASSUME NEW d \in Calls \ {c} PROVE DeadEnds(d)'
  <2>1. CASE op[d].phase = "off"
    BY <2>1 DEF DeadEnds, Dialling
  <2>2. CASE op[d].phase # "off"
    <3>1. Target(d)' = Target(d) /\ Target(d) \in Targets /\ Target(d) # Target(c) /\ op'[d] = op[d]
      BY <1>0, <2>2
    <3>2. op[d].phase = "evict" => op[d].victim \in Targets /\ op[d].victim # Target(c)
      BY <1>1 DEF SshInv, Shapes, BeingClosed
    <3> QED
      BY <1>2, <2>2, <3>1, <3>2 DEF KnownStep, AllKnown, DeadEnds
  <2> QED
    BY <2>1, <2>2
<1>4. DeadEnds(c)'
  BY <1>2 DEF KnownStep, DeadEnds
<1>5. ASSUME NEW t \in Targets, sweep[t] \in {"rmIdle", "rm"} PROVE socket'[t] # "live"
  <2>1. socket[t] # "live" /\ t # Target(c)
    BY <1>1, <1>5 DEF AllKnown, BeingClosed
  <2> QED
    BY <2>1 DEF KnownStep
<1>6. ASSUME NEW t \in Targets \ Inherited, socket'[t] = "live" PROVE Known(t)'
  <2>1. CASE t \in Tracked'
    BY <2>1 DEF Known
  <2>2. CASE t = Target(c) /\ op'[c].phase = "postcheck"
    BY <2>2 DEF Known
  <2>3. CASE t # Target(c) /\ t \notin Tracked
    <3>1. socket[t] = "live"
      BY <1>6, <2>3 DEF KnownStep
    <3>2. PICK d \in Calls : Target(d) = t /\ op[d].phase = "postcheck"
      BY <2>3, <3>1 DEF AllKnown, Known
    <3>3. op'[d].phase = "postcheck" /\ Target(d)' = t
      BY <2>3, <3>2
    <3> QED
      BY <3>3 DEF Known
  <2> QED
    BY <1>6, <2>1, <2>2, <2>3 DEF KnownStep
<1> QED
  BY <1>3, <1>4, <1>5, <1>6 DEF AllKnown, KnownStep

LEMMA AcquireMoves ==
  ASSUME SshInv, NEW c \in Calls, op[c].phase # "off", FlightInv', MapInv', Shapes',
         \A d \in Calls \ {c} : op'[d] = op[d],
         \A d \in Calls : op[d].phase # "off" => Target(d)' = Target(d),
         UNCHANGED sweep, mishaps \subseteq mishaps',
         Roomy' /\ Roomy /\ Room => RoomStep(c),
         Careful' /\ Careful /\ AllKnown => KnownStep(c)
  PROVE  SshInv'
<1>1. (Roomy' => Roomy) /\ (Careful' => Careful)
  BY DEF Roomy, Careful
<1>2. Roomy' => Room'
  BY <1>1, RoomMoves DEF SshInv
<1>3. Careful' => AllKnown'
  BY <1>1, KnownMoves DEF SshInv
<1> QED
  BY <1>2, <1>3 DEF SshInv

LEMMA OpSet ==
  ASSUME FlightInv, NEW c \in Calls, NEW p, NEW v, op' = [op EXCEPT ![c] = [phase |-> p, victim |-> v]]
  PROVE  op'[c].phase = p /\ op'[c].victim = v /\ \A d \in Calls \ {c} : op'[d] = op[d]
<1>1. DOMAIN op = Calls
  BY DEF FlightInv, FlightType, OpType
<1> QED
  BY <1>1

LEMMA GotoIs ==
  ASSUME FlightInv, NEW c \in Calls, NEW p, Goto(c, p)
  PROVE  op'[c].phase = p /\ op'[c].victim = op[c].victim /\ \A d \in Calls \ {c} : op'[d] = op[d]
BY GotoAsUpdate, OpSet

LEMMA SettleIs ==
  ASSUME FlightInv, NEW c \in Calls, NEW via, Settle(c, via)
  PROVE  /\ op'[c].phase = "off" /\ \A d \in Calls \ {c} : op'[d] = op[d]
         /\ \A d \in Calls : Target(d)' = Target(d)
<1>1. op'[c].phase = "off" /\ \A d \in Calls \ {c} : op'[d] = op[d]
  BY OpSet DEF Settle, NoOp
<1>2. ASSUME NEW d \in Calls PROVE Target(d)' = Target(d)
  <2>1. call[d] \in CallStates
    BY CallType
  <2>2. [call[d] EXCEPT !.pc = "ready", !.on = NoCall, !.via = via].target = call[d].target
    BY <2>1 DEF CallStates
  <2>3. call'[d] = [call[d] EXCEPT !.pc = "ready", !.on = NoCall, !.via = via] \/ call'[d] = call[d]
    BY DEF Settle
  <2> QED
    BY <2>2, <2>3 DEF Target
<1> QED
  BY <1>1, <1>2

(* The next phase of an acquire that will add its target.                  *)
LEMMA EvictOrCreateIs ==
  ASSUME FlightInv, NEW c \in Calls, NEW map \in Seq(Targets), EvictOrCreate(c, map)
  PROVE  /\ \A d \in Calls \ {c} : op'[d] = op[d]
         /\ mishaps \subseteq mishaps'
         /\ (\E d \in Calls \ {c} : op[d].phase \in Adding) => "crowded" \in mishaps'
         /\ \/ /\ op'[c].phase = "exit"
               /\ op'[c].victim \in Listed(map) /\ op'[c].victim \in Targets
               /\ Acquiring(op'[c].victim) => "raced" \in mishaps'
            \/ op'[c].phase = "create" /\ Len(map) < MaxTargets
<1>0. Len(map) \in Nat /\ MaxTargets \in Nat \ {0}
  BY MultiplexAssumption
<1>1. /\ mishaps \subseteq mishaps'
      /\ (\E d \in Calls \ {c} : op[d].phase \in Adding) => "crowded" \in mishaps'
  BY DEF EvictOrCreate
<1>2. CASE Len(map) >= MaxTargets
  <2>1. op' = [op EXCEPT ![c] = [phase |-> "exit", victim |-> map[1]]]
    BY <1>2 DEF EvictOrCreate
  <2>2. op'[c].phase = "exit" /\ op'[c].victim = map[1] /\ \A d \in Calls \ {c} : op'[d] = op[d]
    BY <2>1, OpSet
  <2>3. 1 \in 1..Len(map)
    BY <1>0, <1>2
  <2>4. map[1] \in Listed(map) /\ map[1] \in Targets
    BY <2>3 DEF Listed
  <2>5. Acquiring(map[1]) => "raced" \in mishaps'
    BY <1>2 DEF EvictOrCreate
  <2> QED
    BY <1>1, <2>2, <2>4, <2>5
<1>3. CASE ~(Len(map) >= MaxTargets)
  <2>1. op' = [op EXCEPT ![c] = [phase |-> "create", victim |-> NoTarget]]
    BY <1>3 DEF EvictOrCreate
  <2>2. op'[c].phase = "create" /\ \A d \in Calls \ {c} : op'[d] = op[d]
    BY <2>1, OpSet
  <2> QED
    BY <1>0, <1>1, <1>3, <2>2
<1> QED
  BY <1>2, <1>3

(* Taking a record out of the map.                                         *)
LEMMA Removed ==
  ASSUME MapInv, NEW t, masters' = Without(t)
  PROVE  MapInv' /\ Shrunk /\ Tracked' = Tracked \ {t}
<1>1. Tracked' = Listed(masters')
  BY DEF Tracked, Listed
<1>2. Len(masters) \in Nat
  BY DEF MapInv
<1> QED
  BY <1>1, <1>2, WithoutIs DEF MapInv, Shrunk

LEMMA Kept ==
  ASSUME MapInv, UNCHANGED masters
  PROVE  MapInv' /\ Shrunk /\ Tracked' = Tracked /\ Len(masters') = Len(masters)
<1>1. Len(masters) \in Nat
  BY DEF MapInv
<1> QED
  BY <1>1 DEF MapInv, Shrunk, Tracked

LEMMA Added ==
  ASSUME MapInv, NEW t \in Targets, masters' = Used(t)
  PROVE  /\ MapInv' /\ Tracked' = Tracked \cup {t} /\ Len(masters') <= Len(masters) + 1
         /\ t \in Tracked => Shrunk
<1>1. Tracked' = Listed(masters')
  BY DEF Tracked, Listed
<1>2. Len(masters) \in Nat
  BY DEF MapInv
<1> QED
  BY <1>1, <1>2, UsedIs DEF MapInv, Shrunk

(* A control path after rm -f, and after ssh -O exit.                      *)
LEMMA RemoveIs ==
  ASSUME Shapes, NEW t \in Targets, TryRemove(t)
  PROVE  /\ socket' = [u \in Targets |-> socket'[u]]
         /\ socket'[t] \in {"none", socket[t]}
         /\ \A u \in Targets \ {t} : socket'[u] = socket[u]
         /\ socket[t] # "live" => lost' = lost
<1>1. DOMAIN socket = Targets /\ socket = [u \in Targets |-> socket[u]]
  BY DEF Shapes
<1> QED
  BY <1>1 DEF TryRemove, Remove

LEMMA ExitIs ==
  ASSUME Shapes, NEW t \in Targets, Exit(t)
  PROVE  /\ socket' = [u \in Targets |-> socket'[u]]
         /\ socket'[t] = "live" => socket[t] = "live" /\ "unended" \in mishaps'
         /\ \A u \in Targets \ {t} : socket'[u] = socket[u]
         /\ mishaps \subseteq mishaps'
<1>1. DOMAIN socket = Targets /\ socket = [u \in Targets |-> socket[u]]
  BY DEF Shapes
<1> QED
  BY <1>1 DEF Exit, Note

(* While an acquire runs for a target, a live socket of it is known only   *)
(* by its record or by that acquire.                                       *)
LEMMA OwnSocket ==
  ASSUME FlightInv, AllKnown, NEW c \in Calls, op[c].phase # "off"
  PROVE  /\ Target(c) \in Targets
         /\ socket[Target(c)] = "live" => Target(c) \in Tracked \cup Inherited \/ op[c].phase = "postcheck"
<1>1. Target(c) \in Targets /\ \A d \in Calls : op[d].phase # "off" /\ Target(d) = Target(c) => d = c
  BY DEF FlightInv, OpIsPending
<1>2. Target(c) \notin Inherited /\ socket[Target(c)] = "live" => Known(Target(c))
  BY <1>1 DEF AllKnown
<1> QED
  BY <1>1, <1>2 DEF Known

(* The steps of an acquire that leave the map alone and no socket alive    *)
(* that was not.                                                           *)
LEMMA SettlesUnadded ==
  ASSUME SshInv, NEW c \in Calls, FlightInv', AcquireFails(c) \/ Fallback(c)
  PROVE  SshInv'
<1>1. PICK via : Settle(c, via)
  BY DEF AcquireFails, Fallback
<1>2. /\ op'[c].phase = "off" /\ \A d \in Calls \ {c} : op'[d] = op[d]
      /\ \A d \in Calls : Target(d)' = Target(d)
  BY <1>1, SettleIs DEF SshInv
<1>3. /\ op[c].phase \in {"check", "path", "rm", "cleanup"}
      /\ UNCHANGED <<masters, sweep, mishaps>>
      /\ UNCHANGED <<socket, lost>> \/ (op[c].phase = "cleanup" /\ TryRemove(Target(c)))
  BY DEF AcquireFails, Fallback
<1>4. Target(c) \in Targets
  BY <1>3 DEF SshInv, FlightInv, OpIsPending
<1>5. MapInv' /\ Shrunk /\ Tracked' = Tracked
  BY <1>3, Kept DEF SshInv
<1>6. /\ socket' = [t \in Targets |-> socket'[t]]
      /\ \A t \in Targets : socket'[t] = "live" => socket[t] = "live"
      /\ socket[Target(c)] # "live" \/ op[c].phase # "cleanup" => lost' = lost
  BY <1>3, <1>4, RemoveIs DEF SshInv, Shapes
<1>7. Shapes'
  BY <1>2, <1>3, <1>6 DEF SshInv, Shapes
<1>8. RoomStep(c)
  BY <1>2, <1>5 DEF RoomStep, HasRoom, Adding
<1>9. ASSUME AllKnown PROVE KnownStep(c)
  <2>1. lost' = {}
    BY <1>3, <1>6, <1>9 DEF AllKnown, DeadEnds, Dialling
  <2>2. socket[Target(c)] = "live" => Target(c) \in Tracked \cup Inherited
    BY <1>3, <1>9, OwnSocket DEF SshInv
  <2> QED
    BY <1>2, <1>5, <1>6, <2>1, <2>2 DEF KnownStep, Dialling
<1> QED
  BY <1>2, <1>3, <1>5, <1>7, <1>8, <1>9, AcquireMoves

LEMMA SettlesAdded ==
  ASSUME SshInv, NEW c \in Calls, FlightInv', Hit(c) \/ Created(c)
  PROVE  SshInv'
<1>1. Settle(c, "master") /\ masters' = Used(Target(c)) /\ UNCHANGED <<socket, lost, sweep>>
  BY DEF Hit, Created
<1>2. /\ op'[c].phase = "off" /\ \A d \in Calls \ {c} : op'[d] = op[d]
      /\ \A d \in Calls : Target(d)' = Target(d)
  BY <1>1, SettleIs DEF SshInv
<1>3. /\ op[c].phase \in {"check", "postcheck"} /\ mishaps \subseteq mishaps'
      /\ op[c].phase = "check" /\ Target(c) \notin Tracked => "adopted" \in mishaps'
  BY DEF Hit, Created, Note
<1>4. Target(c) \in Targets
  BY <1>3 DEF SshInv, FlightInv, OpIsPending
<1>5. /\ MapInv' /\ Tracked' = Tracked \cup {Target(c)} /\ Len(masters') <= Len(masters) + 1
      /\ Target(c) \in Tracked => Shrunk
  BY <1>1, <1>4, Added DEF SshInv
<1>6. Shapes'
  BY <1>1, <1>2 DEF SshInv, Shapes
<1>7. ASSUME Roomy' PROVE RoomStep(c)
  <2>1. CASE op[c].phase = "check"
    BY <1>2, <1>3, <1>5, <1>7, <2>1 DEF RoomStep, HasRoom, Adding, Roomy
  <2>2. CASE op[c].phase = "postcheck"
    BY <1>2, <1>5, <2>2 DEF RoomStep
  <2> QED
    BY <1>3, <2>1, <2>2
<1>8. ASSUME AllKnown PROVE KnownStep(c)
  BY <1>1, <1>2, <1>5, <1>8 DEF KnownStep, AllKnown, Dialling
<1> QED
  BY <1>1, <1>2, <1>3, <1>5, <1>6, <1>7, <1>8, AcquireMoves

(* The steps that only go on, or end a victim.                             *)
LEMMA GoesOn ==
  ASSUME SshInv, NEW c \in Calls, FlightInv',
         Miss(c) \/ EvictExit(c) \/ CreateOk(c) \/ CreateFails(c) \/ PostcheckFails(c)
  PROVE  SshInv'
<1> DEFINE p == op'[c].phase
<1>1. /\ \/ op[c].phase = "check" /\ Goto(c, "path")
         \/ op[c].phase = "exit" /\ Goto(c, "evict")
         \/ op[c].phase = "create" /\ Goto(c, "postcheck")
         \/ op[c].phase \in {"create", "postcheck"} /\ Goto(c, "cleanup")
      /\ UNCHANGED <<masters, lost, sweep, pending, call>>
      /\ mishaps \subseteq mishaps'
  BY DEF Miss, EvictExit, CreateOk, CreateFails, PostcheckFails, CheckFalse, Exit, Note
<1>2. /\ \/ op[c].phase = "check" /\ p = "path"
         \/ op[c].phase = "exit" /\ p = "evict"
         \/ op[c].phase = "create" /\ p = "postcheck"
         \/ op[c].phase \in {"create", "postcheck"} /\ p = "cleanup"
      /\ op'[c].victim = op[c].victim /\ \A d \in Calls \ {c} : op'[d] = op[d]
  BY <1>1, GotoIs DEF SshInv
<1>3. op[c].phase # "off" /\ Target(c) \in Targets /\ \A d \in Calls : Target(d)' = Target(d)
  BY <1>1, <1>2 DEF SshInv, FlightInv, OpIsPending, Target
<1>4. MapInv' /\ Shrunk /\ Tracked' = Tracked /\ Len(masters') = Len(masters)
  BY <1>1, Kept DEF SshInv
<1>5. op[c].phase = "exit" => op[c].victim \in Targets
  BY DEF SshInv, Shapes
<1>6. /\ socket' = [t \in Targets |-> socket'[t]]
      /\ \A t \in Targets : socket'[t] = "live" => socket[t] = "live" \/ (t = Target(c) /\ p = "postcheck")
      /\ p = "evict" => socket'[op[c].victim] # "live" \/ "unended" \in mishaps'
      /\ p \in {"path", "cleanup"} => UNCHANGED socket
  <2>1. CASE EvictExit(c)
    BY <1>2, <1>5, <2>1, ExitIs DEF EvictExit, SshInv
  <2>2. CASE CreateOk(c)
    <3>1. op[c].phase = "create" /\ p = "postcheck"
      BY <1>2, <2>2, GotoIs DEF CreateOk, SshInv
    <3>2. socket' = [socket EXCEPT ![Target(c)] = "live"] /\ DOMAIN socket = Targets
      BY <2>2 DEF CreateOk, SshInv, Shapes
    <3> QED
      BY <3>1, <3>2
  <2>3. CASE Miss(c) \/ CreateFails(c) \/ PostcheckFails(c)
    <3>1. UNCHANGED socket /\ op[c].phase # "exit"
      BY <2>3 DEF Miss, CreateFails, PostcheckFails
    <3> QED
      BY <1>2, <3>1 DEF SshInv, Shapes
  <2> QED
    BY <2>1, <2>2, <2>3
<1>7. Shapes'
  BY <1>1, <1>2, <1>5, <1>6 DEF SshInv, Shapes
<1>8. ASSUME Room PROVE RoomStep(c)
  <2>1. HasRoom(c)'
    BY <1>2, <1>4, <1>8 DEF Room, HasRoom
  <2> QED
    BY <1>2, <1>4, <2>1 DEF RoomStep, Adding
<1>9. ASSUME AllKnown, Careful' PROVE KnownStep(c)
  <2>1. p \in {"path", "evict", "cleanup"} => socket'[Target(c)] # "live"
    <3>1. CASE op[c].phase \in {"exit", "create"}
      BY <1>2, <1>3, <1>6, <1>9, <3>1 DEF AllKnown, DeadEnds, Dialling
    <3>2. CASE op[c].phase = "check"
      <4>1. Miss(c)
        BY <3>2 DEF Miss, EvictExit, CreateOk, CreateFails, PostcheckFails
      <4>2. socket[Target(c)] = "live" => "flaked" \in mishaps'
        BY <4>1 DEF Miss, CheckFalse, Note
      <4> QED
        BY <1>9, <4>1, <4>2 DEF Careful, Miss
    <3>3. CASE op[c].phase = "postcheck"
      <4>1. PostcheckFails(c)
        BY <3>3 DEF Miss, EvictExit, CreateOk, CreateFails, PostcheckFails
      <4>2. socket[Target(c)] = "live" => "flaked" \in mishaps'
        BY <4>1 DEF PostcheckFails, CheckFalse, Note
      <4> QED
        BY <1>9, <4>1, <4>2 DEF Careful, PostcheckFails
    <3> QED
      BY <1>2, <3>1, <3>2, <3>3
  <2>2. \A t \in Targets \ {Target(c)} : t \in Tracked' \cup Inherited \/ t \notin Tracked
    BY <1>4
  <2>3. lost' = {}
    BY <1>1, <1>9 DEF AllKnown
  <2>4. p = "evict" => socket'[op[c].victim] # "live"
    BY <1>6, <1>9 DEF Careful
  <2> QED
    BY <1>2, <1>3, <1>6, <2>1, <2>2, <2>3, <2>4 DEF KnownStep, Dialling
<1> QED
  BY <1>1, <1>2, <1>3, <1>4, <1>7, <1>8, <1>9, AcquireMoves

(* The way to a master of its own: what is stale goes first, then the      *)
(* oldest record if there is no room.                                      *)
LEMMA MakesRoom ==
  ASSUME SshInv, NEW c \in Calls, FlightInv', ForgetStale(c) \/ RemoveStale(c)
  PROVE  SshInv'
<1> DEFINE p == op'[c].phase
           v == op'[c].victim
<1>1. /\ op[c].phase \in {"path", "rm"}
      /\ masters' = Without(Target(c)) \/ UNCHANGED masters
      /\ (Goto(c, "rm") /\ UNCHANGED mishaps) \/ EvictOrCreate(c, masters')
      /\ TryRemove(Target(c))
      /\ UNCHANGED <<sweep, call>>
  BY DEF ForgetStale, RemoveStale, TryRemove
<1>2. /\ Target(c) \in Targets /\ \A d \in Calls : Target(d)' = Target(d)
  BY <1>1 DEF SshInv, FlightInv, OpIsPending, Target
<1>3. MapInv' /\ Shrunk /\ Tracked' \in {Tracked, Tracked \ {Target(c)}}
  BY <1>1, Removed, Kept DEF SshInv
<1>4. /\ \A d \in Calls \ {c} : op'[d] = op[d]
      /\ mishaps \subseteq mishaps'
      /\ \/ p = "rm"
         \/ /\ (\E d \in Calls \ {c} : op[d].phase \in Adding) => "crowded" \in mishaps'
            /\ \/ p = "exit" /\ v \in Tracked' /\ v \in Targets /\ (Acquiring(v) => "raced" \in mishaps')
               \/ p = "create" /\ Len(masters') < MaxTargets
  <2>1. CASE Goto(c, "rm") /\ UNCHANGED mishaps
    BY <2>1, GotoIs DEF SshInv
  <2>2. CASE EvictOrCreate(c, masters')
    <3>1. masters' \in Seq(Targets) /\ Listed(masters') = Tracked'
      BY <1>3 DEF MapInv, Listed, Tracked
    <3> QED
      BY <2>2, <3>1, EvictOrCreateIs DEF SshInv
  <2> QED
    BY <1>1, <2>1, <2>2
<1>5. /\ socket' = [t \in Targets |-> socket'[t]]
      /\ \A t \in Targets : socket'[t] = "live" => socket[t] = "live"
      /\ socket[Target(c)] # "live" => lost' = lost
  BY <1>1, <1>2, RemoveIs DEF SshInv, Shapes
<1>6. Shapes'
  BY <1>1, <1>4, <1>5 DEF SshInv, Shapes
<1>7. ASSUME Roomy' PROVE RoomStep(c)
  <2>1. HasRoom(c)'
    BY <1>4 DEF HasRoom
  <2>2. p \in Adding => \A d \in Calls \ {c} : op[d].phase \notin Adding
    BY <1>4, <1>7 DEF Roomy, Adding
  <2> QED
    BY <1>3, <2>1, <2>2 DEF RoomStep
<1>8. ASSUME AllKnown, Careful' PROVE KnownStep(c)
  <2>1. socket[Target(c)] # "live" /\ lost' = {}
    BY <1>1, <1>5, <1>8 DEF AllKnown, DeadEnds, Dialling
  <2>2. p = "exit" => ~Acquiring(v)
    BY <1>4, <1>8 DEF Careful
  <2>3. \A t \in Targets \ {Target(c)} : t \in Tracked' \/ t \notin Tracked
    BY <1>3
  <2> QED
    BY <1>2, <1>4, <1>5, <2>1, <2>2, <2>3 DEF KnownStep
<1> QED
  BY <1>1, <1>2, <1>3, <1>4, <1>6, <1>7, <1>8, AcquireMoves

LEMMA VictimGoes ==
  ASSUME SshInv, NEW c \in Calls, FlightInv', EvictRemove(c)
  PROVE  SshInv'
<1> DEFINE v == op[c].victim
<1>1. /\ op[c].phase = "evict" /\ TryRemove(v) /\ masters' = Without(v)
      /\ UNCHANGED <<sweep, call, mishaps>>
  BY DEF EvictRemove
<1>2. op'[c].phase = "create" /\ \A d \in Calls \ {c} : op'[d] = op[d]
  BY OpSet DEF EvictRemove, SshInv
<1>3. v \in Targets /\ Target(c) \in Targets /\ \A d \in Calls : Target(d)' = Target(d)
  BY <1>1 DEF SshInv, Shapes, FlightInv, OpIsPending, Target
<1>4. MapInv' /\ Shrunk /\ Tracked' = Tracked \ {v}
  BY <1>1, Removed DEF SshInv
<1>5. /\ socket' = [t \in Targets |-> socket'[t]]
      /\ socket'[v] \in {"none", socket[v]} /\ \A t \in Targets \ {v} : socket'[t] = socket[t]
      /\ socket[v] # "live" => lost' = lost
  BY <1>1, <1>3, RemoveIs DEF SshInv
<1>6. Shapes'
  BY <1>1, <1>2, <1>5 DEF SshInv, Shapes
<1>7. ASSUME Room PROVE RoomStep(c)
  <2>1. Len(masters) \in Nat /\ Len(masters') \in Nat /\ MaxTargets \in Nat
    BY <1>4, MultiplexAssumption DEF SshInv, MapInv
  <2>2. v \in Tracked \/ Len(masters) < MaxTargets
    BY <1>1, <1>7 DEF Room, HasRoom
  <2>3. Len(masters) <= MaxTargets
    BY <1>7 DEF Room
  <2>4. Len(masters') < MaxTargets
    BY <1>4, <2>1, <2>2, <2>3 DEF Shrunk
  <2>5. HasRoom(c)'
    BY <1>2, <2>4 DEF HasRoom
  <2> QED
    BY <1>1, <1>4, <2>5 DEF RoomStep, Adding
<1>8. ASSUME AllKnown PROVE KnownStep(c)
  <2>1. socket[v] # "live" /\ socket[Target(c)] # "live" /\ lost' = {}
    BY <1>1, <1>3, <1>5, <1>8 DEF AllKnown, DeadEnds, Dialling
  <2> QED
    BY <1>2, <1>3, <1>4, <1>5, <2>1 DEF KnownStep
<1> QED
  BY <1>1, <1>2, <1>3, <1>4, <1>6, <1>7, <1>8, AcquireMoves

(* Steps of the host and of closeIdle and closeAll: no acquire moves, and  *)
(* no socket comes alive.                                                  *)
LEMMA OthersMove ==
  ASSUME SshInv, FlightInv', MapInv', Shrunk, UNCHANGED <<op, call>>, mishaps \subseteq mishaps',
         socket' = [t \in Targets |-> socket'[t]],
         sweep' = [t \in Targets |-> sweep'[t]],
         \A t \in Targets : socket'[t] = "live" => socket[t] = "live",
         Careful' /\ AllKnown =>
           /\ lost' = {}
           /\ \A t \in Targets : socket'[t] = "live" /\ t \in Tracked => t \in Tracked' \cup Inherited
           /\ \A t \in Targets : sweep'[t] \in {"rmIdle", "rm"} => socket'[t] # "live"
           /\ \A t \in Targets : sweep'[t] # "off" => sweep[t] # "off" \/ ~Acquiring(t)
  PROVE  SshInv'
<1>1. (Roomy' => Roomy) /\ (Careful' => Careful) /\ Shapes'
  BY DEF Roomy, Careful, SshInv, Shapes
<1>2. ASSUME Room PROVE Room'
  <2>1. Len(masters) \in Nat /\ Len(masters') \in Nat /\ MaxTargets \in Nat
    BY MultiplexAssumption DEF SshInv, MapInv
  <2>2. \A c \in Calls : HasRoom(c)'
    BY <1>2, <2>1 DEF Room, HasRoom, Shrunk
  <2> QED
    BY <1>2, <2>1, <2>2 DEF Room, OneAdds, Shrunk
<1>3. ASSUME AllKnown, Careful' PROVE AllKnown'
  <2>1. \A c \in Calls : op[c].phase # "off" => Target(c) \in Targets
    BY DEF SshInv, FlightInv, OpIsPending
  <2>2. ASSUME NEW c \in Calls PROVE DeadEnds(c)'
    <3>1. op[c].phase # "off" => ~BeingClosed(Target(c))'
      BY <1>3, <2>1 DEF AllKnown, DeadEnds, BeingClosed, Acquiring, Target
    <3>2. op[c].phase = "evict" => op[c].victim \in Targets
      BY DEF SshInv, Shapes
    <3> QED
      BY <1>3, <2>1, <3>1, <3>2 DEF AllKnown, DeadEnds, Dialling, Target
  <2>3. ASSUME NEW t \in Targets \ Inherited, socket'[t] = "live" PROVE Known(t)'
    BY <1>3, <2>3 DEF AllKnown, Known, Target
  <2> QED
    BY <1>3, <2>2, <2>3 DEF AllKnown
<1> QED
  BY <1>1, <1>2, <1>3 DEF SshInv

(* Steps of a call that has no acquire of its own.                         *)
LEMMA CallsMove ==
  ASSUME SshInv, FlightInv', UNCHANGED <<socket, lost, masters, sweep>>, mishaps \subseteq mishaps',
         NEW c \in Calls, op[c].phase = "off", op'[c].phase \in {"off", "check"},
         \A d \in Calls \ {c} : op'[d] = op[d] /\ Target(d)' = Target(d),
         op'[c].phase = "check" /\ BeingClosed(Target(c)') => "raced" \in mishaps'
  PROVE  SshInv'
<1>1. (Roomy' => Roomy) /\ (Careful' => Careful)
  BY DEF Roomy, Careful
<1>2. MapInv' /\ Shapes'
  BY DEF SshInv, MapInv, Shapes
<1>3. ASSUME Room PROVE Room'
  BY <1>3 DEF Room, OneAdds, HasRoom, Adding, Tracked
<1>4. ASSUME AllKnown, Careful' PROVE AllKnown'
  <2>1. \A t \in Targets : BeingClosed(t)' <=> BeingClosed(t)
    BY DEF BeingClosed
  <2>2. ASSUME NEW d \in Calls \ {c} PROVE DeadEnds(d)'
    <3>1. op[d].phase # "off" => Target(d) \in Targets
      BY DEF SshInv, FlightInv, OpIsPending
    <3>2. DeadEnds(d) /\ op'[d] = op[d] /\ Target(d)' = Target(d)
      BY <1>4 DEF AllKnown
    <3>3. op[d].phase # "off" => ~BeingClosed(Target(d))'
      BY <2>1, <3>1, <3>2 DEF DeadEnds, BeingClosed
    <3> QED
      BY <3>2, <3>3 DEF DeadEnds
  <2>3. DeadEnds(c)'
    <3>1. op'[c].phase # "off" => Target(c)' \in Targets
      BY DEF FlightInv, OpIsPending
    <3>2. op'[c].phase # "off" => ~BeingClosed(Target(c)')
      BY <1>4 DEF Careful
    <3>3. op'[c].phase # "off" => ~BeingClosed(Target(c))'
      BY <2>1, <3>1, <3>2 DEF BeingClosed
    <3> QED
      BY <3>3 DEF DeadEnds, Dialling
  <2>4. ASSUME NEW t \in Targets \ Inherited, socket'[t] = "live" PROVE Known(t)'
    <3>1. Known(t)
      BY <1>4, <2>4 DEF AllKnown
    <3>2. CASE t \in Tracked
      BY <3>2 DEF Known, Tracked
    <3>3. CASE \E d \in Calls : Target(d) = t /\ op[d].phase = "postcheck"
      <4>1. PICK d \in Calls : Target(d) = t /\ op[d].phase = "postcheck"
        BY <3>3
      <4>2. Target(d)' = t /\ op'[d].phase = "postcheck"
        BY <4>1
      <4> QED
        BY <4>2 DEF Known
    <3> QED
      BY <3>1, <3>2, <3>3 DEF Known
  <2> QED
    BY <1>4, <2>2, <2>3, <2>4 DEF AllKnown
<1> QED
  BY <1>1, <1>2, <1>3, <1>4 DEF SshInv

LEMMA Acquires ==
  ASSUME SshInv, NEW c \in Calls, NEW t \in Targets, FlightInv', Acquire(c, t)
  PROVE  SshInv'
<1>1. /\ op[c].phase = "off"
      /\ UNCHANGED <<socket, lost, masters, sweep>>
      /\ \A d \in Calls \ {c} : op'[d] = op[d] /\ Target(d)' = Target(d)
  BY DEF SshInv, FlightInv, OpIsPending, Acquire, JoinAcquire, StartAcquire, FlightType, OpType, Target
<1>2. CASE JoinAcquire(c, t)
  BY <1>1, <1>2, CallsMove DEF JoinAcquire
<1>3. CASE StartAcquire(c, t)
  <2>1. op'[c].phase = "check"
    BY <1>3, OpSet DEF StartAcquire, SshInv
  <2>2. Target(c)' = t
    BY <1>3 DEF StartAcquire, Target, SshInv, FlightInv, FlightType
  <2>3. mishaps \subseteq mishaps' /\ (BeingClosed(t) => "raced" \in mishaps')
    BY <1>3 DEF StartAcquire, Note
  <2> QED
    BY <1>1, <2>1, <2>2, <2>3, CallsMove
<1> QED
  BY <1>2, <1>3 DEF Acquire

LEMMA Runs ==
  ASSUME SshInv, NEW c \in Calls, FlightInv', Start(c) \/ End(c)
  PROVE  SshInv'
<1>1. op[c].phase = "off" /\ UNCHANGED <<socket, lost, masters, op, sweep, mishaps>>
  BY DEF SshInv, FlightInv, OpIsPending, Start, End
<1>2. \A d \in Calls \ {c} : Target(d)' = Target(d)
  BY DEF Start, End, Target, SshInv, FlightInv, FlightType
<1> QED
  BY <1>1, <1>2, CallsMove

LEMMA Sweeps ==
  ASSUME SshInv, FlightInv', CloseIdle \/ CloseAll
  PROVE  SshInv'
<1>1. /\ UNCHANGED <<socket, lost, masters, op, call>> /\ mishaps \subseteq mishaps'
      /\ (\E t \in Tracked : Acquiring(t)) => "raced" \in mishaps'
  BY DEF CloseIdle, CloseAll, Sweep, Note
<1>2. /\ sweep' = [t \in Targets |-> sweep'[t]]
      /\ \A t \in Targets : sweep'[t] \in {"check", "exit", "off"} /\ (sweep'[t] # "off" => t \in Tracked)
  BY DEF CloseIdle, CloseAll, Sweep
<1>3. MapInv' /\ Shrunk /\ Tracked' = Tracked
  BY <1>1, Kept DEF SshInv
<1>4. socket' = [t \in Targets |-> socket'[t]]
  BY <1>1 DEF SshInv, Shapes
<1>5. ASSUME Careful', AllKnown
      PROVE  /\ lost' = {}
             /\ \A t \in Targets : sweep'[t] \in {"rmIdle", "rm"} => socket'[t] # "live"
             /\ \A t \in Targets : sweep'[t] # "off" => ~Acquiring(t)
  BY <1>1, <1>2, <1>5 DEF Careful, AllKnown
<1> QED
  BY <1>1, <1>2, <1>3, <1>4, <1>5, OthersMove

LEMMA SweepsOn ==
  ASSUME SshInv, NEW t \in Targets, FlightInv', IdleCheck(t) \/ SweepExit(t) \/ SweepRemove(t)
  PROVE  SshInv'
<1>1. UNCHANGED <<op, call>> /\ mishaps \subseteq mishaps' /\ sweep[t] # "off"
  BY DEF IdleCheck, CheckFalse, Note, SweepExit, Exit, SweepRemove
<1>2. /\ sweep' = [u \in Targets |-> sweep'[u]]
      /\ \A u \in Targets \ {t} : sweep'[u] = sweep[u]
  BY DEF IdleCheck, SweepExit, SweepRemove, SshInv, Shapes
<1>3. /\ socket' = [u \in Targets |-> socket'[u]]
      /\ \A u \in Targets : socket'[u] = "live" => socket[u] = "live"
  BY ExitIs, RemoveIs DEF IdleCheck, SweepExit, SweepRemove, SshInv, Shapes
<1>4. \/ MapInv' /\ Shrunk /\ Tracked' = Tracked
      \/ SweepRemove(t) /\ MapInv' /\ Shrunk /\ Tracked' = Tracked \ {t}
  BY Kept, Removed DEF IdleCheck, SweepExit, SweepRemove, SshInv
<1>5. ASSUME Careful', AllKnown
      PROVE  /\ lost' = {}
             /\ sweep'[t] \in {"rmIdle", "rm"} => socket'[t] # "live"
             /\ SweepRemove(t) => socket'[t] # "live"
  <2>1. CASE IdleCheck(t)
    <3>1. lost' = {} /\ UNCHANGED socket /\ ~SweepRemove(t)
      BY <1>5, <2>1 DEF IdleCheck, SweepRemove, AllKnown
    <3>2. CASE sweep' = [sweep EXCEPT ![t] = "off"]
      <4>1. sweep'[t] = "off"
        BY <3>2 DEF SshInv, Shapes
      <4> QED
        BY <3>1, <4>1
    <3>3. CASE CheckFalse(t)
      <4>1. socket[t] # "live"
        BY <1>5, <3>3 DEF CheckFalse, Note, Careful
      <4> QED
        BY <3>1, <4>1
    <3> QED
      BY <2>1, <3>2, <3>3 DEF IdleCheck
  <2>2. CASE SweepExit(t)
    <3>1. lost' = {} /\ socket'[t] # "live"
      BY <1>5, <2>2, ExitIs DEF SweepExit, AllKnown, Careful, SshInv
    <3> QED
      BY <3>1
  <2>3. CASE SweepRemove(t)
    <3>1. socket[t] # "live" /\ lost = {}
      BY <1>5, <2>3 DEF SweepRemove, AllKnown
    <3>2. socket'[t] # "live" /\ lost' = lost
      BY <2>3, <3>1, RemoveIs DEF SweepRemove, SshInv
    <3> QED
      BY <3>1, <3>2
  <2> QED
    BY <2>1, <2>2, <2>3
<1>6. ASSUME Careful', AllKnown
      PROVE  /\ lost' = {}
             /\ \A u \in Targets : socket'[u] = "live" /\ u \in Tracked => u \in Tracked' \cup Inherited
             /\ \A u \in Targets : sweep'[u] \in {"rmIdle", "rm"} => socket'[u] # "live"
             /\ \A u \in Targets : sweep'[u] # "off" => sweep[u] # "off" \/ ~Acquiring(u)
  <2>1. \A u \in Targets : sweep[u] \in {"rmIdle", "rm"} => socket[u] # "live"
    BY <1>6 DEF AllKnown
  <2>2. \A u \in Targets : socket'[u] = "live" /\ u \in Tracked => u \in Tracked'
    BY <1>4, <1>5, <1>6
  <2> QED
    BY <1>1, <1>2, <1>3, <1>5, <1>6, <2>1, <2>2
<1> QED
  BY <1>1, <1>2, <1>3, <1>4, <1>6, OthersMove

LEMMA MastersEnd ==
  ASSUME SshInv, NEW t \in Targets, FlightInv', MasterDies(t) \/ MasterExpires(t) \/ LostExpires(t)
  PROVE  SshInv'
<1>1. UNCHANGED <<masters, op, call, sweep, mishaps>>
  BY DEF MasterDies, MasterExpires, LostExpires
<1>2. /\ socket' = [u \in Targets |-> socket'[u]]
      /\ \A u \in Targets : socket'[u] = "live" => socket[u] = "live"
  BY DEF MasterDies, MasterExpires, LostExpires, SshInv, Shapes
<1>3. MapInv' /\ Shrunk /\ Tracked' = Tracked /\ sweep' = [u \in Targets |-> sweep'[u]]
  BY <1>1, Kept DEF SshInv, Shapes
<1>4. lost = {} => lost' = {}
  BY DEF MasterDies, MasterExpires, LostExpires
<1>5. ASSUME AllKnown
      PROVE  /\ lost' = {}
             /\ \A u \in Targets : sweep'[u] \in {"rmIdle", "rm"} => socket'[u] # "live"
  BY <1>1, <1>2, <1>4, <1>5 DEF AllKnown
<1> QED
  BY <1>1, <1>2, <1>3, <1>5, OthersMove

LEMMA SshStart == Init => SshInv
<1> SUFFICES ASSUME Init PROVE SshInv
  OBVIOUS
<1>1. \A c \in Calls : op[c].phase = "off"
  BY DEF Init, NoOp
<1>2. MapInv /\ Tracked = {} /\ Len(masters) = 0
  BY DEF Init, MapInv, Tracked
<1>3. Shapes
  BY <1>1 DEF Init, Shapes
<1>4. Room
  BY <1>1, <1>2, MultiplexAssumption DEF Room, OneAdds, HasRoom, Adding
<1>5. AllKnown
  <2>1. \A c \in Calls : DeadEnds(c)
    BY <1>1 DEF DeadEnds, Dialling
  <2>2. lost = {} /\ \A t \in Targets : sweep[t] = "off" /\ (t \notin Inherited => socket[t] = "none")
    BY DEF Init
  <2> QED
    BY <2>1, <2>2 DEF AllKnown
<1> QED
  BY <1>2, <1>3, <1>4, <1>5, FlightInit DEF SshInv

LEMMA SshNext == SshInv /\ [Next]_vars => SshInv'
<1> SUFFICES ASSUME SshInv, [Next]_vars PROVE SshInv'
  OBVIOUS
<1>1. FlightInv'
  BY FlightNext DEF SshInv
<1>2. ASSUME NEW c \in Calls, CallStep(c) PROVE SshInv'
  BY <1>1, <1>2, Acquires, SettlesUnadded, SettlesAdded, GoesOn, MakesRoom, VictimGoes, Runs DEF CallStep
<1>3. CASE CloseIdle \/ CloseAll
  BY <1>1, <1>3, Sweeps
<1>4. ASSUME NEW t \in Targets,
             \/ IdleCheck(t) \/ SweepExit(t) \/ SweepRemove(t)
             \/ MasterDies(t) \/ MasterExpires(t) \/ LostExpires(t)
      PROVE  SshInv'
  BY <1>1, <1>4, SweepsOn, MastersEnd
<1>5. CASE UNCHANGED vars
  <2>1. UNCHANGED <<socket, lost, masters, op, call, sweep, mishaps>>
    BY <1>5 DEF vars
  <2>2. MapInv' /\ Shrunk /\ Tracked' = Tracked
    BY <2>1, Kept DEF SshInv
  <2>3. /\ socket' = [t \in Targets |-> socket'[t]]
        /\ sweep' = [t \in Targets |-> sweep'[t]]
    BY <2>1 DEF SshInv, Shapes
  <2>4. ASSUME AllKnown
        PROVE  lost' = {} /\ \A t \in Targets : sweep'[t] \in {"rmIdle", "rm"} => socket'[t] # "live"
    BY <2>1, <2>4 DEF AllKnown
  <2> QED
    BY <1>1, <2>1, <2>2, <2>3, <2>4, OthersMove
<1> QED
  BY <1>2, <1>3, <1>4, <1>5 DEF Next

(* Whatever evictions, cleanups and dying masters do, an acquire that adds *)
(* a record has room for it, and nothing live is behind a control path     *)
(* that is about to be removed or taken, as far as the two promises below  *)
(* go.                                                                     *)
THEOREM SshInvariant == Spec => []SshInv
BY SshStart, SshNext, PTL DEF Spec

(* The map stays within maxTargets for any number of targets and calls,    *)
(* unless two are added at once or a master without a record is taken over *)
(* (evictOldestIfNeeded).                                                  *)
THEOREM MastersStayBounded == Spec => []MastersAreBounded
<1>1. SshInv => MastersAreBounded
  BY DEF SshInv, Roomy, Room, MastersAreBounded
<1> QED
  BY <1>1, SshInvariant, PTL

(* No master that this process started is ever out of reach or out of the  *)
(* map, unless a record is closed while its target is acquired, or a check *)
(* or an exit fails of a master that is there (closeRecord, acquireCore,   *)
(* closeIdle).                                                             *)
THEOREM MastersStayKnown == Spec => []MastersAreKnown
<1>1. SshInv => MastersAreKnown
  BY DEF SshInv, Careful, AllKnown, Known, MastersAreKnown
<1> QED
  BY <1>1, SshInvariant, PTL

-----------------------------------------------------------------------------
(* Transfers.                                                              *)

(* The process of scp or rsync runs while its call waits for it, and a     *)
(* call has a result when it is over.                                      *)
CallFits(c) ==
  /\ proc[c].at # "off" <=> transfer[c].pc = "transfer"
  /\ proc[c].at = "copying" => proc[c].source # Absent
  /\ transfer[c].result # "none" => transfer[c].pc = "done"

TransferTypeInv == TransferTypeOK /\ \A c \in TransferCalls : CallFits(c)

Same == file["local"] = file["remote"]
FolderThere == \E side \in Sides : IsFolder(file[side])

(* What a call has hashed is there until somebody else changes it.         *)
HashedIsThere(c) ==
  /\ transfer[c].pc \notin {"idle", "verify", "done"} => digest[c] = NotHashed
  /\ transfer[c].pc = "verify" /\ quiet[c] # "no" =>
       \A side \in Sides : digest[c][side] \in {Absent, file[side]}
  /\ transfer[c].result = "verified" /\ quiet[c] # "no" => Same

(* What the process of an undisturbed call copies is what is at its        *)
(* source; once it has copied, both sides are the same.                    *)
Skipped(c) == transfer[c].method = "rsync" /\ transfer[c].skipped

CopiedIsThere(c) ==
  quiet[c] = "always" /\ ~transfer[c].request.dry /\ ~Skipped(c) =>
    /\ proc[c].at = "copying" => proc[c].source = file[Source(c)]
    /\ proc[c].at = "copied" \/ transfer[c].pc = "look" \/ transfer[c].result = "ok" =>
         FolderThere \/ Same

Knows(c) == HashedIsThere(c) /\ CopiedIsThere(c)

TransferInv == TransferTypeInv /\ \A c \in TransferCalls : Knows(c)

(* What a step of c is for the other calls: their own state stays, and     *)
(* they are disturbed unless the two paths stay too.                       *)
Apart(c, d) ==
  /\ transfer'[d] = transfer[d] /\ proc'[d] = proc[d] /\ digest'[d] = digest[d]
  /\ quiet'[d] = "no" \/ (quiet'[d] = quiet[d] /\ file' = file)

LEMMA TransferStart == TransferInit => TransferInv
<1> SUFFICES ASSUME TransferInit PROVE TransferInv
  OBVIOUS
<1>1. TransferTypeOK
  <2>1. (CHOOSE r \in Requests : TRUE) \in Requests
    BY TransfersAssumption
  <2>2. transfer \in [TransferCalls -> Transfer]
    BY <2>1 DEF TransferInit, Asked, Transfer
  <2>3. proc \in [TransferCalls -> Process]
    BY DEF TransferInit, NoProcess, Process, Contents
  <2>4. digest \in [TransferCalls -> [Sides -> Contents]]
    BY DEF TransferInit, NotHashed, Contents
  <2>5. file \in [Sides -> Contents]
    BY DEF TransferInit, Contents
  <2> QED
    BY <2>2, <2>3, <2>4, <2>5, TransfersAssumption DEF TransferInit, TransferTypeOK
<1>2. ASSUME NEW c \in TransferCalls PROVE CallFits(c) /\ Knows(c)
  BY DEF TransferInit, Asked, NoProcess, CallFits, Knows, HashedIsThere, CopiedIsThere
<1> QED
  BY <1>1, <1>2 DEF TransferInv, TransferTypeInv

LEMMA PieceType == ASSUME NEW x \in Present PROVE Piece(x) \in Present /\ Piece(x).text = x.text
BY DEF Piece, Present

LEMMA CallTypes ==
  ASSUME TransferTypeInv, NEW c \in TransferCalls
  PROVE  /\ transfer[c] \in Transfer /\ transfer[c].request \in Request
         /\ transfer[c].request \in Requests
         /\ proc[c] \in Process
         /\ Source(c) \in Sides /\ Dest(c) \in Sides /\ Source(c) # Dest(c)
         /\ file[Source(c)] \in Contents /\ file[Dest(c)] \in Contents
         /\ \A side \in Sides : side = Source(c) \/ side = Dest(c)
<1>1. transfer[c] \in Transfer /\ proc[c] \in Process
  BY DEF TransferTypeInv, TransferTypeOK
<1>2. transfer[c].request \in Requests
  BY <1>1 DEF Transfer
<1>3. transfer[c].request \in Request
  BY <1>2, TransfersAssumption
<1>4. Source(c) \in Sides /\ Dest(c) \in Sides /\ Source(c) # Dest(c)
      /\ \A side \in Sides : side = Source(c) \/ side = Dest(c)
  BY <1>3 DEF Source, Dest, Sides, Request
<1> QED
  BY <1>1, <1>2, <1>3, <1>4 DEF TransferTypeInv, TransferTypeOK

-----------------------------------------------------------------------------
(* What the steps make of a call's own state.                              *)
LEMMA TransferSet ==
  ASSUME TransferTypeOK, NEW c \in TransferCalls, NEW new \in Transfer,
         transfer' = [transfer EXCEPT ![c] = new]
  PROVE  transfer' \in [TransferCalls -> Transfer] /\ transfer'[c] = new
BY DEF TransferTypeOK

LEMMA ReturnOfCall ==
  ASSUME TransferTypeOK, NEW c \in TransferCalls,
         NEW result \in {"ok", "verified", "failed"}, Return(c, result)
  PROVE  /\ transfer' \in [TransferCalls -> Transfer]
         /\ transfer'[c].pc = "done" /\ transfer'[c].result = result
         /\ transfer'[c].request = transfer[c].request
         /\ transfer'[c].method = transfer[c].method /\ transfer'[c].skipped = transfer[c].skipped
<1> DEFINE new == [transfer[c] EXCEPT !.pc = "done", !.result = result]
<1>1. transfer[c] \in Transfer
  BY DEF TransferTypeOK
<1>2. /\ new \in Transfer /\ new.pc = "done" /\ new.result = result
      /\ new.request = transfer[c].request
      /\ new.method = transfer[c].method /\ new.skipped = transfer[c].skipped
  BY <1>1 DEF Transfer
<1>3. transfer' = [transfer EXCEPT ![c] = new]
  BY DEF Return
<1> HIDE DEF new
<1> QED
  BY <1>2, <1>3, TransferSet

LEMMA AdvanceOfCall ==
  ASSUME TransferTypeOK, NEW c \in TransferCalls,
         NEW pc \in {"spawn", "transfer", "look", "verify"}, Advance(c, pc)
  PROVE  /\ transfer' \in [TransferCalls -> Transfer]
         /\ transfer'[c].pc = pc /\ transfer'[c].result = transfer[c].result
         /\ transfer'[c].request = transfer[c].request
         /\ transfer'[c].method = transfer[c].method /\ transfer'[c].skipped = transfer[c].skipped
<1> DEFINE new == [transfer[c] EXCEPT !.pc = pc]
<1>1. transfer[c] \in Transfer
  BY DEF TransferTypeOK
<1>2. new \in Transfer /\ new.pc = pc /\ new.result = transfer[c].result
      /\ new.request = transfer[c].request
      /\ new.method = transfer[c].method /\ new.skipped = transfer[c].skipped
  BY <1>1 DEF Transfer
<1>3. transfer' = [transfer EXCEPT ![c] = new]
  BY DEF Advance
<1> HIDE DEF new
<1> QED
  BY <1>2, <1>3, TransferSet

LEMMA BeginOfCall ==
  ASSUME TransferTypeOK, NEW c \in TransferCalls, Begin(c)
  PROVE  /\ transfer' \in [TransferCalls -> Transfer]
         /\ transfer'[c].pc \in {"stat", "detect"} /\ transfer'[c].result = "none"
<1>1. PICK r \in Requests : transfer' =
        [transfer EXCEPT ![c] = Asked(r, IF r.name = "upload" THEN "stat" ELSE "detect")]
  BY DEF Begin
<1> DEFINE new == Asked(r, IF r.name = "upload" THEN "stat" ELSE "detect")
<1>2. new \in Transfer /\ new.pc \in {"stat", "detect"} /\ new.result = "none"
  BY DEF Asked, Transfer
<1> HIDE DEF new
<1> QED
  BY <1>1, <1>2, TransferSet DEF new

LEMMA PassOverOfCall ==
  ASSUME TransferTypeOK, NEW c \in TransferCalls, PassOver(c)
  PROVE  /\ transfer' \in [TransferCalls -> Transfer]
         /\ transfer'[c].pc = transfer[c].pc /\ transfer'[c].result = transfer[c].result
         /\ transfer'[c].method = "rsync" /\ transfer'[c].skipped
<1> DEFINE new == [transfer[c] EXCEPT !.skipped = TRUE]
<1>1. transfer[c] \in Transfer /\ transfer[c].method = "rsync"
  BY DEF TransferTypeOK, PassOver
<1>2. /\ new \in Transfer /\ new.pc = transfer[c].pc /\ new.result = transfer[c].result
      /\ new.method = "rsync" /\ new.skipped
  BY <1>1 DEF Transfer
<1>3. transfer' = [transfer EXCEPT ![c] = new]
  BY DEF PassOver
<1> HIDE DEF new
<1> QED
  BY <1>2, <1>3, TransferSet

LEMMA StatOfCall ==
  ASSUME TransferTypeOK, NEW c \in TransferCalls, Stat(c)
  PROVE  /\ transfer' \in [TransferCalls -> Transfer]
         /\ \/ transfer'[c].result = transfer[c].result /\ transfer'[c].pc = "detect"
            \/ transfer'[c].result = "failed" /\ transfer'[c].pc = "done"
<1>1. CASE Return(c, "failed")
  BY <1>1, ReturnOfCall
<1>2. CASE transfer' = [transfer EXCEPT ![c].pc = "detect", ![c].folder = IsFolder(file["local"])]
  <2> DEFINE new == [transfer[c] EXCEPT !.pc = "detect", !.folder = IsFolder(file["local"])]
  <2>1. transfer[c] \in Transfer /\ IsFolder(file["local"]) \in BOOLEAN
    BY DEF TransferTypeOK, IsFolder
  <2>2. new \in Transfer /\ new.pc = "detect" /\ new.result = transfer[c].result
    BY <2>1 DEF Transfer
  <2>3. transfer' = [transfer EXCEPT ![c] = new]
    BY <1>2
  <2> HIDE DEF new
  <2> QED
    BY <2>2, <2>3, TransferSet
<1> QED
  BY <1>1, <1>2 DEF Stat

LEMMA DetectOfCall ==
  ASSUME TransferTypeOK, NEW c \in TransferCalls, Detect(c)
  PROVE  /\ transfer' \in [TransferCalls -> Transfer]
         /\ \/ transfer'[c].result = transfer[c].result /\ transfer'[c].pc \in {"observe", "spawn"}
            \/ transfer'[c].result = "failed" /\ transfer'[c].pc = "done"
<1>1. CASE Return(c, "failed")
  BY <1>1, ReturnOfCall
<1>2. ASSUME NEW method \in {"scp", "rsync"}, NEW pc \in {"observe", "spawn"},
             transfer' = [transfer EXCEPT ![c].method = method, ![c].pc = pc]
      PROVE  /\ transfer' \in [TransferCalls -> Transfer]
             /\ transfer'[c].result = transfer[c].result /\ transfer'[c].pc = pc
  <2> DEFINE new == [transfer[c] EXCEPT !.method = method, !.pc = pc]
  <2>1. transfer[c] \in Transfer
    BY DEF TransferTypeOK
  <2>2. new \in Transfer /\ new.pc = pc /\ new.result = transfer[c].result
    BY <2>1 DEF Transfer
  <2>3. transfer' = [transfer EXCEPT ![c] = new]
    BY <1>2
  <2> HIDE DEF new
  <2> QED
    BY <2>2, <2>3, TransferSet
<1>3. Method(transfer[c].request) \in {"none", "scp", "rsync"}
  BY DEF Method
<1> QED
  BY <1>1, <1>2, <1>3 DEF Detect

-----------------------------------------------------------------------------
(* The steps of a call keep the types and its own control.                 *)
LEMMA TransferTypeKept ==
  ASSUME TransferTypeInv, NEW c \in TransferCalls, TransferStep(c)
  PROVE  TransferTypeOK' /\ CallFits(c)'
<1> USE DEF TransferTypeInv
<1>0. TransferTypeOK /\ CallFits(c)
  OBVIOUS
<1>f. ASSUME Fault PROVE faults' \in 0..MaxFaults
  <2>1. faults \in 0..MaxFaults /\ MaxFaults \in Nat
    BY <1>0, TransfersAssumption DEF TransferTypeOK
  <2> QED
    BY <1>f, <2>1 DEF Fault
<1>r. ASSUME NEW result \in {"ok", "verified", "failed"}, Return(c, result)
      PROVE  transfer' \in [TransferCalls -> Transfer] /\ transfer'[c].pc = "done"
  BY <1>0, <1>r, ReturnOfCall
<1>g. ASSUME NEW pc \in {"spawn", "transfer", "look", "verify"}, Advance(c, pc)
      PROVE  /\ transfer' \in [TransferCalls -> Transfer]
             /\ transfer'[c].pc = pc /\ transfer'[c].result = transfer[c].result
  BY <1>0, <1>g, AdvanceOfCall
<1>q. ASSUME NEW who, DisturbAllBut(who)
      PROVE  quiet' \in [TransferCalls -> {"always", "since its process", "no"}]
  BY <1>0, <1>q DEF DisturbAllBut, TransferTypeOK
<1>w. ASSUME NEW x \in Contents, file' = [file EXCEPT ![Dest(c)] = x]
      PROVE  file' \in [Sides -> Contents]
  BY <1>0, <1>w DEF TransferTypeOK
<1>p. ASSUME NEW x \in Process, proc' = [proc EXCEPT ![c] = x]
      PROVE  proc' \in [TransferCalls -> Process] /\ proc'[c] = x
  BY <1>0, <1>p DEF TransferTypeOK
<1>1. CASE Begin(c)
  <2>1. transfer' \in [TransferCalls -> Transfer]
    BY <1>0, <1>1, BeginOfCall
  <2>2. transfer'[c].pc \in {"stat", "detect"} /\ transfer'[c].result = "none"
    BY <1>0, <1>1, BeginOfCall
  <2>3. NotHashed \in [Sides -> Contents]
    BY DEF NotHashed, Contents
  <2>4. quiet' \in [TransferCalls -> {"always", "since its process", "no"}]
    BY <1>0, <1>1 DEF Begin, TransferTypeOK
  <2>5. digest' \in [TransferCalls -> [Sides -> Contents]]
    BY <1>0, <1>1, <2>3 DEF Begin, TransferTypeOK
  <2>6. UNCHANGED <<file, tools, proc, stray, edits, faults>> /\ transfer[c].pc \in {"idle", "done"}
    BY <1>1 DEF Begin
  <2> QED
    BY <1>0, <2>1, <2>2, <2>4, <2>5, <2>6 DEF TransferTypeOK, CallFits
<1>2. CASE Stat(c)
  <2>1. transfer[c].pc = "stat" /\ OnlyTheCallMoves /\ UNCHANGED faults
    BY <1>2 DEF Stat
  <2> QED
    BY <1>0, <1>2, <2>1, StatOfCall DEF OnlyTheCallMoves, TransferTypeOK, CallFits
<1>3. CASE Detect(c)
  <2>1. transfer[c].pc = "detect" /\ OnlyTheCallMoves /\ UNCHANGED faults
    BY <1>3 DEF Detect
  <2> QED
    BY <1>0, <1>3, <2>1, DetectOfCall DEF OnlyTheCallMoves, TransferTypeOK, CallFits
<1>4. CASE DetectFails(c) \/ SpawnFails(c)
  <2>1. /\ transfer[c].pc \in {"detect", "spawn"} /\ OnlyTheCallMoves
        /\ Fault /\ Return(c, "failed")
    BY <1>4 DEF DetectFails, SpawnFails
  <2> QED
    BY <1>0, <1>f, <1>r, <2>1 DEF OnlyTheCallMoves, TransferTypeOK, CallFits
<1>5. CASE Observe(c)
  <2>1. /\ transfer[c].pc = "observe" /\ Advance(c, "spawn")
        /\ OnlyTheCallMoves /\ UNCHANGED faults
    BY <1>5 DEF Observe
  <2> QED
    BY <1>0, <1>g, <2>1 DEF OnlyTheCallMoves, TransferTypeOK, CallFits
<1>6. CASE Spawn(c)
  <2>1. /\ transfer[c].pc = "spawn" /\ Advance(c, "transfer")
        /\ proc' = [proc EXCEPT ![c] = [at |-> "started", source |-> Absent]]
        /\ UNCHANGED <<file, tools, stray, digest, quiet, edits, faults>>
    BY <1>6 DEF Spawn
  <2>2. [at |-> "started", source |-> Absent] \in Process
    BY DEF Process, Contents
  <2>3. proc' \in [TransferCalls -> Process] /\ proc'[c].at = "started"
    BY <1>p, <2>1, <2>2
  <2> QED
    BY <1>0, <1>g, <2>1, <2>3 DEF TransferTypeOK, CallFits
<1>7. CASE Copy(c)
  <2> DEFINE source == file[Source(c)]
             at == IF Inside(c) THEN "copied" ELSE "copying"
  <2>1. /\ proc[c].at = "started"
        /\ proc' = [proc EXCEPT ![c] = [at |-> at, source |-> source]]
        /\ UNCHANGED <<tools, transfer, stray, digest, edits, faults>>
    BY <1>7 DEF Copy
  <2>2. source # Absent /\ source \in Present
    BY <1>7, CallTypes DEF Copy, Impossible, Contents
  <2>3. [at |-> at, source |-> source] \in Process
    BY <2>2 DEF Process, Contents
  <2>4. /\ proc' \in [TransferCalls -> Process] /\ proc'[c].at \in {"copying", "copied"}
        /\ proc'[c].source # Absent
    BY <1>p, <2>1, <2>2, <2>3
  <2>5. file' \in [Sides -> Contents] /\ quiet' \in [TransferCalls -> {"always", "since its process", "no"}]
    <3>1. CASE UNCHANGED <<file, quiet>>
      BY <1>0, <3>1 DEF TransferTypeOK
    <3>2. CASE file' = [file EXCEPT ![Dest(c)] = Piece(source)] /\ DisturbAllBut({c})
      BY <1>q, <1>w, <2>2, <3>2, PieceType DEF Contents
    <3> QED
      BY <1>7, <3>1, <3>2 DEF Copy
  <2> QED
    BY <1>0, <2>1, <2>4, <2>5 DEF TransferTypeOK, CallFits
<1>8. CASE Complete(c)
  <2> DEFINE source == proc[c].source
             new == IF file[Source(c)] = source THEN source ELSE Piece(source)
  <2>1. /\ proc[c].at = "copying" /\ proc' = [proc EXCEPT ![c].at = "copied"]
        /\ UNCHANGED <<tools, transfer, stray, digest, edits, faults>>
    BY <1>8 DEF Complete
  <2>2. source \in Present
    BY <1>0, <2>1, CallTypes DEF CallFits, Process, Contents
  <2>3. proc' \in [TransferCalls -> Process] /\ proc'[c].at = "copied"
    BY <1>0, <2>1 DEF TransferTypeOK, Process
  <2>4. file' \in [Sides -> Contents] /\ quiet' \in [TransferCalls -> {"always", "since its process", "no"}]
    <3>1. CASE UNCHANGED <<file, quiet>>
      BY <1>0, <3>1 DEF TransferTypeOK
    <3>2. CASE file' = [file EXCEPT ![Dest(c)] = new] /\ DisturbAllBut({c})
      <4>1. new \in Contents
        BY <2>2, PieceType DEF Contents
      <4> QED
        BY <1>q, <1>w, <3>2, <4>1
    <3> QED
      BY <1>8, <3>1, <3>2 DEF Complete
  <2> QED
    BY <1>0, <2>1, <2>3, <2>4 DEF TransferTypeOK, CallFits
<1>9. CASE ProcessFails(c)
  <2>1. Breaks(c) /\ Return(c, "failed")
    BY <1>9 DEF ProcessFails
  <2>2. /\ proc[c].at # "off" /\ proc' = [proc EXCEPT ![c] = NoProcess]
        /\ stray' = stray \cup MayStillLand(c)
        /\ UNCHANGED <<tools, digest, edits>>
    BY <2>1 DEF Breaks
  <2>3. NoProcess \in Process /\ NoProcess.at = "off"
    BY DEF NoProcess, Process, Contents
  <2>4. proc' \in [TransferCalls -> Process] /\ proc'[c].at = "off"
    BY <1>p, <2>2, <2>3
  <2>5. proc[c].at = "copying" => proc[c].source \in Contents /\ Piece(proc[c].source) \in Contents
    BY <1>0, CallTypes, PieceType DEF CallFits, Process, Contents
  <2>6. stray' \subseteq Contents
    BY <1>0, <2>2, <2>5 DEF MayStillLand, TransferTypeOK
  <2>7. file' \in [Sides -> Contents]
    <3>1. PICK x \in Left(c) : file' = [file EXCEPT ![Dest(c)] = x]
      BY <2>1 DEF Breaks
    <3>2. x \in Contents
      BY <2>5, <3>1, CallTypes DEF Left
    <3> QED
      BY <1>w, <3>1, <3>2
  <2>8. quiet' \in [TransferCalls -> {"always", "since its process", "no"}]
    BY <1>0, <1>q, <2>1 DEF Breaks, TransferTypeOK
  <2>9. faults' \in 0..MaxFaults
    BY <1>0, <1>f, <2>1 DEF Breaks, TransferTypeOK
  <2> QED
    BY <1>0, <1>r, <2>1, <2>2, <2>4, <2>6, <2>7, <2>8, <2>9 DEF TransferTypeOK, CallFits
<1>10. CASE ProcessSucceeds(c)
  <2>1. /\ proc[c].at = "copied" /\ proc' = [proc EXCEPT ![c] = NoProcess]
        /\ quiet' = [quiet EXCEPT ![c] = IF @ = "no" THEN "since its process" ELSE @]
        /\ UNCHANGED <<file, tools, stray, digest, edits, faults>>
    BY <1>10 DEF ProcessSucceeds
  <2>2. NoProcess \in Process /\ NoProcess.at = "off"
    BY DEF NoProcess, Process, Contents
  <2>3. proc' \in [TransferCalls -> Process] /\ proc'[c].at = "off"
    BY <1>p, <2>1, <2>2
  <2>4. quiet' \in [TransferCalls -> {"always", "since its process", "no"}]
    BY <1>0, <2>1 DEF TransferTypeOK
  <2>5. CASE Return(c, "ok")
    BY <1>0, <1>r, <2>1, <2>3, <2>4, <2>5 DEF TransferTypeOK, CallFits
  <2>6. ASSUME NEW pc \in {"look", "verify"}, Advance(c, pc)
        PROVE  TransferTypeOK' /\ CallFits(c)'
    BY <1>0, <1>g, <2>1, <2>3, <2>4, <2>6 DEF TransferTypeOK, CallFits
  <2> QED
    BY <1>10, <2>5, <2>6 DEF ProcessSucceeds
<1>11. CASE Look(c)
  <2>1. transfer[c].pc = "look" /\ OnlyTheCallMoves /\ UNCHANGED faults
    BY <1>11 DEF Look
  <2>2. ASSUME NEW result \in {"ok", "failed"}, Return(c, result)
        PROVE  TransferTypeOK' /\ CallFits(c)'
    BY <1>0, <1>r, <2>1, <2>2 DEF OnlyTheCallMoves, TransferTypeOK, CallFits
  <2>3. CASE Advance(c, "verify")
    BY <1>0, <1>g, <2>1, <2>3 DEF OnlyTheCallMoves, TransferTypeOK, CallFits
  <2> QED
    BY <1>11, <2>2, <2>3 DEF Look
<1>12. CASE \E side \in Sides : Hash(c, side)
  <2>1. PICK side \in Sides : Hash(c, side)
    BY <1>12
  <2>2. /\ digest' = [digest EXCEPT ![c][side] = file[side]]
        /\ UNCHANGED <<file, tools, transfer, proc, stray, quiet, edits, faults>>
    BY <2>1 DEF Hash
  <2>3. digest' \in [TransferCalls -> [Sides -> Contents]]
    BY <1>0, <2>2 DEF TransferTypeOK
  <2> QED
    BY <1>0, <2>2, <2>3 DEF TransferTypeOK, CallFits
<1>13. CASE \E side \in Sides : HashFails(c, side)
  <2>1. /\ transfer[c].pc = "verify" /\ OnlyTheCallMoves /\ Return(c, "failed")
        /\ UNCHANGED faults \/ Fault
    BY <1>13 DEF HashFails
  <2>2. faults' \in 0..MaxFaults
    BY <1>0, <1>f, <2>1 DEF TransferTypeOK
  <2> QED
    BY <1>0, <1>r, <2>1, <2>2 DEF OnlyTheCallMoves, TransferTypeOK, CallFits
<1>14. CASE Compare(c)
  <2>1. PICK result \in {"verified", "failed"} : Return(c, result)
    BY <1>14 DEF Compare
  <2>2. transfer[c].pc = "verify" /\ OnlyTheCallMoves /\ UNCHANGED faults
    BY <1>14 DEF Compare
  <2> QED
    BY <1>0, <1>r, <2>1, <2>2 DEF OnlyTheCallMoves, TransferTypeOK, CallFits
<1>15. CASE PassOver(c)
  <2>1. /\ proc[c].at = "started" /\ file[Source(c)] # Absent
        /\ proc' = [proc EXCEPT ![c] = [at |-> "copied", source |-> file[Source(c)]]]
        /\ UNCHANGED <<file, tools, stray, digest, quiet, edits, faults>>
    BY <1>15 DEF PassOver
  <2>2. [at |-> "copied", source |-> file[Source(c)]] \in Process
    BY CallTypes DEF Process
  <2>3. proc' \in [TransferCalls -> Process] /\ proc'[c].at = "copied"
    BY <1>p, <2>1, <2>2
  <2> QED
    BY <1>0, <1>15, <2>1, <2>3, PassOverOfCall DEF TransferTypeOK, CallFits
<1> QED
  BY <1>1, <1>2, <1>3, <1>4, <1>5, <1>6, <1>7, <1>8, <1>9, <1>10, <1>11, <1>12, <1>13, <1>14, <1>15
     DEF TransferStep

-----------------------------------------------------------------------------
(* The other calls.                                                        *)
LEMMA OthersStay ==
  ASSUME TransferTypeInv, NEW c \in TransferCalls, TransferStep(c),
         NEW d \in TransferCalls, d # c
  PROVE  Apart(c, d)
<1>0. TransferTypeOK
  BY DEF TransferTypeInv
<1>1. transfer'[d] = transfer[d] /\ proc'[d] = proc[d] /\ digest'[d] = digest[d]
  BY <1>0 DEF TransferTypeOK, TransferStep, Begin, Stat, Detect, DetectFails, Observe, Spawn, SpawnFails,
         Copy, PassOver, Complete, ProcessFails, Breaks, ProcessSucceeds, Look, Hash, HashFails, Compare,
         Return, Advance, OnlyTheCallMoves
<1>2. quiet'[d] = "no" \/ (quiet'[d] = quiet[d] /\ file' = file)
  BY <1>0 DEF TransferTypeOK, TransferStep, Begin, Stat, Detect, DetectFails, Observe, Spawn, SpawnFails,
         Copy, PassOver, Complete, ProcessFails, Breaks, ProcessSucceeds, Look, Hash, HashFails, Compare,
         DisturbAllBut, OnlyTheCallMoves
<1> QED
  BY <1>1, <1>2 DEF Apart

LEMMA ApartKeeps ==
  ASSUME TransferInv, NEW c, NEW d \in TransferCalls, Apart(c, d)
  PROVE  CallFits(d)' /\ Knows(d)'
<1>1. CallFits(d)'
  BY DEF Apart, TransferInv, TransferTypeInv, CallFits
<1>2. CASE quiet'[d] = "no"
  BY <1>1, <1>2 DEF Apart, TransferInv, Knows, HashedIsThere, CopiedIsThere
<1>3. CASE quiet'[d] = quiet[d] /\ file' = file
  BY <1>1, <1>3 DEF Apart, TransferInv, Knows, HashedIsThere, CopiedIsThere, Skipped, Same, FolderThere,
     Source
<1> QED
  BY <1>1, <1>2, <1>3 DEF Apart

-----------------------------------------------------------------------------
(* What a call knows after a step of its own.                              *)
LEMMA HashedStays ==
  ASSUME TransferInv, NEW c \in TransferCalls, TransferStep(c)
  PROVE  HashedIsThere(c)'
<1>0. TransferTypeOK /\ CallFits(c) /\ HashedIsThere(c)
  BY DEF TransferInv, TransferTypeInv, Knows
<1>1. CASE Begin(c)
  <2>1. digest'[c] = NotHashed
    BY <1>0, <1>1 DEF Begin, TransferTypeOK
  <2> QED
    BY <1>0, <1>1, <2>1, BeginOfCall DEF HashedIsThere
<1>2. CASE \/ Stat(c) \/ Detect(c) \/ DetectFails(c) \/ Observe(c) \/ SpawnFails(c) \/ Look(c)
  <2>1. /\ transfer[c].pc \in {"stat", "detect", "observe", "spawn", "look"}
        /\ UNCHANGED <<file, digest, quiet>>
        /\ transfer'[c].result = "verified" => transfer[c].result = "verified"
    <3>1. CASE Stat(c) \/ Detect(c)
      BY <1>0, <3>1, StatOfCall, DetectOfCall DEF Stat, Detect, OnlyTheCallMoves
    <3>2. CASE DetectFails(c) \/ Observe(c) \/ SpawnFails(c)
      BY <1>0, <3>2, ReturnOfCall, AdvanceOfCall DEF DetectFails, Observe, SpawnFails, OnlyTheCallMoves
    <3>3. CASE Look(c)
      BY <1>0, <3>3, ReturnOfCall, AdvanceOfCall DEF Look, OnlyTheCallMoves
    <3> QED
      BY <1>2, <3>1, <3>2, <3>3
  <2>2. digest[c] = NotHashed /\ transfer[c].result = "none"
    BY <1>0, <2>1 DEF CallFits, HashedIsThere, TransferTypeOK, Transfer
  <2> QED
    BY <2>1, <2>2 DEF HashedIsThere, NotHashed
<1>3. CASE Spawn(c) \/ Copy(c) \/ PassOver(c) \/ Complete(c) \/ ProcessFails(c) \/ ProcessSucceeds(c)
  <2>1. /\ transfer[c].pc \in {"spawn", "transfer"}
        /\ UNCHANGED digest
        /\ transfer'[c].result = "verified" => transfer[c].result = "verified"
    <3>1. CASE Copy(c) \/ Complete(c)
      BY <1>0, <3>1 DEF CallFits, Copy, Complete
    <3>2. CASE Spawn(c)
      BY <1>0, <3>2, AdvanceOfCall DEF Spawn
    <3>3. CASE ProcessFails(c)
      BY <1>0, <3>3, ReturnOfCall DEF CallFits, ProcessFails, Breaks
    <3>4. CASE ProcessSucceeds(c)
      <4>1. proc[c].at = "copied" /\ UNCHANGED digest
        BY <3>4 DEF ProcessSucceeds
      <4>2. \/ Return(c, "ok")
            \/ Advance(c, "look")
            \/ Advance(c, "verify")
        BY <3>4 DEF ProcessSucceeds
      <4> QED
        BY <1>0, <4>1, <4>2, ReturnOfCall, AdvanceOfCall DEF CallFits
    <3>5. CASE PassOver(c)
      BY <1>0, <3>5, PassOverOfCall DEF CallFits, PassOver
    <3> QED
      BY <1>3, <3>1, <3>2, <3>3, <3>4, <3>5
  <2>2. digest[c] = NotHashed /\ transfer[c].result = "none"
    BY <1>0, <2>1 DEF CallFits, HashedIsThere, TransferTypeOK, Transfer
  <2> QED
    BY <2>1, <2>2 DEF HashedIsThere, NotHashed
<1>4. CASE \E side \in Sides : Hash(c, side)
  <2>1. PICK side \in Sides : Hash(c, side)
    BY <1>4
  <2>2. /\ transfer[c].pc = "verify" /\ digest' = [digest EXCEPT ![c][side] = file[side]]
        /\ UNCHANGED <<file, transfer, quiet>>
    BY <2>1 DEF Hash
  <2>3. digest'[c] = [digest[c] EXCEPT ![side] = file[side]] /\ digest[c] \in [Sides -> Contents]
    BY <1>0, <2>2 DEF TransferTypeOK
  <2>4. transfer[c].result = "none"
    BY <1>0, <2>2 DEF CallFits, TransferTypeOK, Transfer
  <2> QED
    BY <1>0, <2>2, <2>3, <2>4 DEF HashedIsThere
<1>5. CASE \E side \in Sides : HashFails(c, side)
  <2>1. Return(c, "failed")
    BY <1>5 DEF HashFails
  <2>2. transfer'[c].pc = "done" /\ transfer'[c].result = "failed"
    BY <1>0, <2>1 DEF Return, TransferTypeOK, Transfer
  <2> QED
    BY <2>2 DEF HashedIsThere
<1>6. CASE Compare(c)
  <2>1. /\ transfer[c].pc = "verify" /\ UNCHANGED <<file, digest, quiet>>
        /\ \A side \in Sides : digest[c][side] # Absent
        /\ Return(c, IF digest[c]["local"] = digest[c]["remote"] THEN "verified" ELSE "failed")
    BY <1>6 DEF Compare, OnlyTheCallMoves
  <2>2. /\ transfer'[c].pc = "done"
        /\ transfer'[c].result = "verified" => digest[c]["local"] = digest[c]["remote"]
    BY <1>0, <2>1 DEF Return, TransferTypeOK, Transfer
  <2>3. quiet[c] # "no" => \A side \in Sides : digest[c][side] = file[side]
    BY <1>0, <2>1 DEF HashedIsThere
  <2> QED
    BY <2>1, <2>2, <2>3 DEF HashedIsThere, Same, Sides
<1> QED
  BY <1>1, <1>2, <1>3, <1>4, <1>5, <1>6 DEF TransferStep

LEMMA CopiedStays ==
  ASSUME TransferInv, NEW c \in TransferCalls, TransferStep(c)
  PROVE  CopiedIsThere(c)'
<1>0. TransferTypeOK /\ CallFits(c) /\ CopiedIsThere(c)
  BY DEF TransferInv, TransferTypeInv, Knows
<1>t. TransferTypeOK' /\ CallFits(c)'
  BY TransferTypeKept DEF TransferInv
<1>1. CASE Begin(c)
  <2>1. /\ transfer'[c].pc \in {"stat", "detect"} /\ transfer'[c].result = "none"
        /\ UNCHANGED proc /\ transfer[c].pc \in {"idle", "done"}
    BY <1>0, <1>1, BeginOfCall DEF Begin
  <2> QED
    BY <1>0, <2>1 DEF CallFits, CopiedIsThere
<1>2. CASE \/ Stat(c) \/ Detect(c) \/ DetectFails(c) \/ Observe(c) \/ Spawn(c) \/ SpawnFails(c)
           \/ ProcessFails(c) \/ Compare(c)
           \/ \E side \in Sides : HashFails(c, side)
  <2>1. transfer'[c].pc # "look" /\ transfer'[c].result \in {transfer[c].result, "failed", "verified"}
    <3>1. CASE Stat(c) \/ Detect(c)
      BY <1>0, <3>1, StatOfCall, DetectOfCall
    <3>2. CASE Observe(c) \/ Spawn(c)
      BY <1>0, <3>2, AdvanceOfCall DEF Observe, Spawn
    <3>3. CASE \/ DetectFails(c) \/ SpawnFails(c) \/ ProcessFails(c) \/ Compare(c)
               \/ \E side \in Sides : HashFails(c, side)
      BY <1>0, <3>3, ReturnOfCall DEF DetectFails, SpawnFails, ProcessFails, Compare, HashFails
    <3> QED
      BY <1>2, <3>1, <3>2, <3>3
  <2>2. transfer[c].pc # "done"
    BY <1>0, <1>2 DEF CallFits, Stat, Detect, DetectFails, Observe, Spawn, SpawnFails,
                      ProcessFails, Breaks, Compare, HashFails
  <2>3. proc'[c].at \in {"off", "started"}
    <3>1. CASE Spawn(c) \/ ProcessFails(c)
      <4>1. PICK x \in {NoProcess, [at |-> "started", source |-> Absent]} : proc' = [proc EXCEPT ![c] = x]
        BY <3>1 DEF Spawn, ProcessFails, Breaks
      <4>2. proc'[c] = x
        BY <1>0, <4>1 DEF TransferTypeOK
      <4> QED
        BY <4>1, <4>2 DEF NoProcess
    <3>2. CASE ~(Spawn(c) \/ ProcessFails(c))
      <4>1. UNCHANGED proc /\ transfer[c].pc # "transfer"
        BY <1>2, <3>2 DEF Stat, Detect, DetectFails, Observe, SpawnFails, Compare, HashFails, OnlyTheCallMoves
      <4> QED
        BY <1>0, <4>1 DEF CallFits
    <3> QED
      BY <3>1, <3>2
  <2> QED
    BY <1>0, <2>1, <2>2, <2>3 DEF CallFits, CopiedIsThere
<1>3. CASE Copy(c)
  <2>1. /\ proc[c].at = "started" /\ UNCHANGED transfer
        /\ proc'[c].at = IF Inside(c) THEN "copied" ELSE "copying"
        /\ proc'[c].source = file[Source(c)]
    BY <1>0, <1>3 DEF Copy, TransferTypeOK
  <2>2. file'[Source(c)] = file[Source(c)]
    BY <1>0, <1>3, CallTypes DEF Copy, TransferInv, TransferTypeOK
  <2>3. transfer[c].pc = "transfer" /\ transfer[c].result # "ok"
    BY <1>0, <2>1 DEF CallFits
  <2>4. Inside(c) => FolderThere'
    <3>1. Inside(c) => UNCHANGED file
      BY <1>3 DEF Copy
    <3> QED
      BY <3>1, CallTypes DEF Inside, FolderThere, TransferInv
  <2> QED
    BY <2>1, <2>2, <2>3, <2>4 DEF CopiedIsThere, Skipped, Source
<1>4. CASE Complete(c)
  <2>1. /\ proc[c].at = "copying" /\ UNCHANGED transfer /\ proc'[c].at = "copied"
    BY <1>0, <1>4 DEF Complete, TransferTypeOK, Process
  <2>2. quiet'[c] = quiet[c]
    BY <1>4 DEF Complete, DisturbAllBut
  <2>3. ASSUME quiet[c] = "always", ~transfer[c].request.dry, ~Skipped(c)
        PROVE  Same'
    <3>1. proc[c].source = file[Source(c)]
      BY <1>0, <2>1, <2>3 DEF CopiedIsThere
    <3>2. file' = [file EXCEPT ![Dest(c)] = file[Source(c)]]
      BY <1>4, <2>3, <3>1 DEF Complete
    <3>3. file'[Source(c)] = file'[Dest(c)]
      BY <1>0, <3>2, CallTypes DEF TransferTypeOK, TransferInv
    <3> QED
      BY <3>3 DEF Same, Source, Dest
  <2> QED
    BY <2>1, <2>2, <2>3 DEF CopiedIsThere, Skipped
<1>5. CASE ProcessSucceeds(c) \/ Look(c)
  <2>1. /\ UNCHANGED file
        /\ quiet'[c] = "always" => quiet[c] = "always"
        /\ proc'[c].at = "off"
        /\ proc[c].at = "copied" \/ transfer[c].pc = "look"
    <3>1. CASE Look(c)
      BY <1>0, <3>1 DEF CallFits, Look, OnlyTheCallMoves
    <3>2. CASE ProcessSucceeds(c)
      <4>1. /\ proc[c].at = "copied" /\ UNCHANGED file
            /\ proc' = [proc EXCEPT ![c] = NoProcess]
            /\ quiet' = [quiet EXCEPT ![c] = IF @ = "no" THEN "since its process" ELSE @]
        BY <3>2 DEF ProcessSucceeds
      <4>2. proc'[c] = NoProcess
        BY <1>0, <4>1 DEF TransferTypeOK
      <4>3. quiet'[c] = "always" => quiet[c] = "always"
        BY <1>0, <4>1 DEF TransferTypeOK
      <4>4. proc'[c].at = "off"
        BY <4>2 DEF NoProcess
      <4> QED
        BY <4>1, <4>3, <4>4
    <3> QED
      BY <1>5, <3>1, <3>2
  <2>2. transfer'[c].request = transfer[c].request /\ Skipped(c)' = Skipped(c)
    BY <1>0, <1>5, ReturnOfCall, AdvanceOfCall DEF ProcessSucceeds, Look, Skipped
  <2> QED
    BY <1>0, <2>1, <2>2 DEF CopiedIsThere, Same, FolderThere
<1>6. CASE \E side \in Sides : Hash(c, side)
  <2>1. UNCHANGED <<file, transfer, proc, quiet>>
    BY <1>6 DEF Hash
  <2> QED
    BY <1>0, <2>1 DEF CopiedIsThere, Skipped, Same, FolderThere, Source
<1>7. CASE PassOver(c)
  BY <1>0, <1>7, PassOverOfCall DEF CopiedIsThere, Skipped
<1> QED
  BY <1>1, <1>2, <1>3, <1>4, <1>5, <1>6, <1>7 DEF TransferStep

-----------------------------------------------------------------------------
(* What others do to the two paths.                                        *)
LEMMA TouchedByOthers ==
  ASSUME TransferInv, UNCHANGED <<tools, transfer, proc, digest>>,
         file' \in [Sides -> Contents], stray' \subseteq Contents,
         edits' \in 0..MaxEdits, faults' \in 0..MaxFaults,
         DisturbAllBut({}) \/ UNCHANGED <<file, quiet>>
  PROVE  TransferInv'
<1>0. TransferTypeOK
  BY DEF TransferInv, TransferTypeInv
<1>1. TransferTypeOK'
  BY <1>0 DEF TransferTypeOK, DisturbAllBut
<1>2. ASSUME NEW c \in TransferCalls PROVE CallFits(c)' /\ Knows(c)'
  <2>1. Apart(c, c)
    BY DEF Apart, DisturbAllBut
  <2> QED
    BY <2>1, ApartKeeps
<1> QED
  BY <1>1, <1>2 DEF TransferInv, TransferTypeInv

LEMMA TransferKept ==
  ASSUME TransferInv, [TransferNext]_transferVars
  PROVE  TransferInv'
<1>0. TransferTypeOK /\ TransferTypeInv
  BY DEF TransferInv, TransferTypeInv
<1>1. CASE \E c \in TransferCalls : TransferStep(c)
  <2>1. PICK c \in TransferCalls : TransferStep(c)
    BY <1>1
  <2>2. TransferTypeOK' /\ CallFits(c)' /\ Knows(c)'
    BY <1>0, <2>1, TransferTypeKept, HashedStays, CopiedStays DEF Knows
  <2>3. ASSUME NEW d \in TransferCalls, d # c PROVE CallFits(d)' /\ Knows(d)'
    BY <1>0, <2>1, <2>3, OthersStay, ApartKeeps
  <2> QED
    BY <2>2, <2>3 DEF TransferInv, TransferTypeInv
<1>2. CASE \E x \in stray : StrayLands(x) \/ StrayEnds(x)
  <2>1. PICK x \in stray : StrayLands(x) \/ StrayEnds(x)
    BY <1>2
  <2>2. x \in Contents
    BY <1>0, <2>1 DEF TransferTypeOK
  <2>3. file' \in [Sides -> Contents] /\ stray' \subseteq Contents
    BY <1>0, <2>1, <2>2 DEF StrayLands, StrayEnds, TransferTypeOK
  <2> QED
    BY <1>0, <2>1, <2>3, TouchedByOthers DEF StrayLands, StrayEnds, TransferTypeOK
<1>3. CASE \E side \in Sides, x \in Contents : Edit(side, x)
  <2>1. PICK side \in Sides, x \in Contents : Edit(side, x)
    BY <1>3
  <2>2. file' \in [Sides -> Contents]
    BY <1>0, <2>1 DEF Edit, TransferTypeOK
  <2>3. edits' \in 0..MaxEdits
    <3>1. edits \in 0..MaxEdits /\ MaxEdits \in Nat
      BY <1>0, TransfersAssumption DEF TransferTypeOK
    <3> QED
      BY <2>1, <3>1 DEF Edit
  <2> QED
    BY <1>0, <2>1, <2>2, <2>3, TouchedByOthers DEF Edit, TransferTypeOK
<1>4. CASE UNCHANGED transferVars
  BY <1>0, <1>4, TouchedByOthers DEF transferVars, TransferTypeOK
<1> QED
  BY <1>1, <1>2, <1>3, <1>4 DEF TransferNext

(* What holds of the transfers at every moment, for any number of calls on *)
(* the two paths, whatever is edited and whatever breaks.                  *)
THEOREM TransferInvariant == TransferSpec => []TransferInv
BY TransferStart, TransferKept, PTL DEF TransferSpec

(* A transfer whose digests were compared leaves the same file on both     *)
(* sides unless somebody else touched them after its process               *)
(* (verifyTransferSha256 in callTransferTool).                             *)
THEOREM VerifiedIsAlwaysSame == TransferSpec => []VerifiedMeansSame
<1>1. TransferInv => VerifiedMeansSame
  BY DEF TransferInv, Knows, HashedIsThere, Same, VerifiedMeansSame
<1> QED
  BY <1>1, TransferInvariant, PTL

(* A file transfer that reports success and was not disturbed has copied   *)
(* the whole file, whichever program did it, unless rsync has passed over  *)
(* its source (runTransferProcess).                                        *)
THEOREM SuccessIsAlwaysCopied == TransferSpec => []SuccessMeansCopied
<1>1. TransferInv => SuccessMeansCopied
  BY DEF TransferInv, Knows, CopiedIsThere, Skipped, Same, FolderThere, SuccessMeansCopied
<1> QED
  BY <1>1, TransferInvariant, PTL
=============================================================================
