----------------------------- MODULE SshMultiplex -----------------------------
(***************************************************************************)
(* Shared SSH connections: src/ssh-multiplex-manager.mjs and the start and *)
(* end of the commands of src/ssh-runner.mjs that use them.  Acquires,     *)
(* evictions, closeIdle and closeAll interleave at every ssh -O command    *)
(* and file operation, and master processes end by themselves.             *)
(*                                                                         *)
(* socket[t] is the control path of target t: nothing, a live master's, or *)
(* the remains of a dead one.  A master whose socket was removed cannot be *)
(* reached any more and is `lost' until ControlPersist ends it.            *)
(***************************************************************************)
EXTENDS Naturals, Sequences, FiniteSets

CONSTANTS
  Calls,        \* calls of runSshCommand, each made once
  Targets,
  NoTarget,
  NoCall,
  MaxTargets,   \* config.maxTargets
  Required,     \* config.mode is "required", not "auto"
  Inherited     \* targets whose master an earlier process left running

VARIABLES
  socket,    \* socket[t]: "none", "live" or "dead"
  lost,      \* targets with a running master that has no socket
  masters,   \* the map of records, least recently used first
  pending,   \* pending[t]: the call whose acquireCore runs for t
  op,        \* op[c]: the acquireCore that c started
  call,      \* call[c]: a command on its way
  sweep,     \* sweep[t]: progress of closeIdle and closeAll with t's record
  mishaps    \* ghost: what has happened that the promises below leave out

vars == <<socket, lost, masters, pending, op, call, sweep, mishaps>>

ASSUME MultiplexAssumption ==
  /\ NoTarget \notin Targets
  /\ NoCall \notin Calls
  /\ MaxTargets \in Nat \ {0}
  /\ Required \in BOOLEAN
  /\ Inherited \subseteq Targets

Tracked == {masters[i] : i \in 1..Len(masters)}

(* A record is closed while its target is acquired; two targets are added  *)
(* at once; a check fails although the master is there; so does an exit; a *)
(* master without a record is taken over, of an earlier process or given   *)
(* up by this one.                                                         *)
Mishaps == {"raced", "crowded", "flaked", "unended", "adopted"}

TypeOK ==
  /\ socket \in [Targets -> {"none", "live", "dead"}]
  /\ lost \in SUBSET Targets
  /\ masters \in Seq(Targets)
  /\ pending \in [Targets -> Calls \cup {NoCall}]
  /\ op \in [Calls -> [phase : {"off", "check", "path", "rm", "exit", "evict", "create", "postcheck", "cleanup"},
                       victim : Targets \cup {NoTarget}]]
  /\ call \in [Calls -> [pc : {"idle", "acquiring", "ready", "running", "done"},
                         target : Targets \cup {NoTarget},
                         on : Calls \cup {NoCall},
                         via : {"none", "master", "direct", "error"}]]
  /\ sweep \in [Targets -> {"off", "check", "rmIdle", "exit", "rm"}]
  /\ mishaps \in SUBSET Mishaps

NoOp == [phase |-> "off", victim |-> NoTarget]

Init ==
  /\ socket = [t \in Targets |-> IF t \in Inherited THEN "live" ELSE "none"]
  /\ lost = {}
  /\ masters = <<>>
  /\ pending = [t \in Targets |-> NoCall]
  /\ op = [c \in Calls |-> NoOp]
  /\ call = [c \in Calls |-> [pc |-> "idle", target |-> NoTarget, on |-> NoCall, via |-> "none"]]
  /\ sweep = [t \in Targets |-> "off"]
  /\ mishaps = {}

-----------------------------------------------------------------------------
(* masters.delete; a target has one record.                                *)
Place(t) == CHOOSE i \in 1..Len(masters) : masters[i] = t
Without(t) ==
  IF t \in Tracked
    THEN [i \in 1..(Len(masters) - 1) |-> IF i < Place(t) THEN masters[i] ELSE masters[i + 1]]
    ELSE masters
Used(t) == Append(Without(t), t)

Target(c) == call[c].target
Acquiring(t) == \E c \in Calls : op[c].phase # "off" /\ Target(c) = t
BeingClosed(t) == sweep[t] # "off" \/ \E c \in Calls : op[c].phase \in {"exit", "evict"} /\ op[c].victim = t

Goto(c, phase) == op' = [op EXCEPT ![c].phase = phase]

Note(kind, happened) == mishaps' = IF happened THEN mishaps \cup {kind} ELSE mishaps

(* ssh -O check says no for any error.                                     *)
CheckTrue(t) == socket[t] = "live"
CheckFalse(t) == Note("flaked", socket[t] = "live")

(* rm -f of a control path; a master behind it goes on without one.        *)
Remove(t) ==
  /\ socket' = [socket EXCEPT ![t] = "none"]
  /\ lost' = IF socket[t] = "live" THEN lost \cup {t} ELSE lost

(* Where its failure is swallowed: .catch(() => {}).                       *)
TryRemove(t) == Remove(t) \/ UNCHANGED <<socket, lost>>

-----------------------------------------------------------------------------
(* acquire: calls for one target share one acquireCore (313).              *)

JoinAcquire(c, t) ==
  /\ pending[t] # NoCall
  /\ call' = [call EXCEPT ![c] = [pc |-> "acquiring", target |-> t, on |-> pending[t], via |-> "none"]]
  /\ UNCHANGED <<pending, op, mishaps>>

StartAcquire(c, t) ==
  /\ pending' = [pending EXCEPT ![t] = c]
  /\ op' = [op EXCEPT ![c] = [phase |-> "check", victim |-> NoTarget]]
  /\ call' = [call EXCEPT ![c] = [pc |-> "acquiring", target |-> t, on |-> c, via |-> "none"]]
  /\ Note("raced", BeingClosed(t))

(* Mutant: every acquire runs for itself.                                  *)
Acquire_NoSharing(c, t) ==
  /\ call[c].pc = "idle"
  /\ StartAcquire(c, t)
  /\ UNCHANGED <<socket, lost, masters, sweep>>

Acquire(c, t) ==
  /\ call[c].pc = "idle"
  /\ JoinAcquire(c, t) \/ (pending[t] = NoCall /\ StartAcquire(c, t))
  /\ UNCHANGED <<socket, lost, masters, sweep>>

(* The operation ends: pending is cleared and every call on it goes on.    *)
Settle(c, via) ==
  /\ op' = [op EXCEPT ![c] = NoOp]
  /\ pending' = [t \in Targets |-> IF pending[t] = c THEN NoCall ELSE pending[t]]
  /\ call' = [d \in Calls |-> IF call[d].pc = "acquiring" /\ call[d].on = c
       THEN [call[d] EXCEPT !.pc = "ready", !.on = NoCall, !.via = via] ELSE call[d]]

-----------------------------------------------------------------------------
(* acquireCore (271).                                                      *)

(* The directory, the resolution of the target or a file operation fails.  *)
AcquireFails(c) ==
  /\ op[c].phase \in {"check", "path", "rm"}
  /\ Settle(c, "error")
  /\ UNCHANGED <<socket, lost, masters, sweep, mishaps>>

Hit(c) ==
  /\ op[c].phase = "check"
  /\ CheckTrue(Target(c))
  /\ masters' = Used(Target(c))
  /\ Settle(c, "master")
  /\ Note("adopted", Target(c) \notin Tracked)
  /\ UNCHANGED <<socket, lost, sweep>>

Miss(c) ==
  /\ op[c].phase = "check"
  /\ CheckFalse(Target(c))
  /\ Goto(c, "path")
  /\ UNCHANGED <<socket, lost, masters, pending, call, sweep>>

(* evictOldestIfNeeded as the map is now: the next step is a closeRecord   *)
(* or the master itself.                                                   *)
Adding == {"exit", "evict", "create", "postcheck"}
EvictOrCreate(c, map) ==
  /\ op' = [op EXCEPT ![c] =
       IF Len(map) >= MaxTargets THEN [phase |-> "exit", victim |-> map[1]]
       ELSE [phase |-> "create", victim |-> NoTarget]]
  /\ mishaps' = mishaps
       \cup {m \in {"raced"} : Len(map) >= MaxTargets /\ Acquiring(map[1])}
       \cup {m \in {"crowded"} : \E d \in Calls \ {c} : op[d].phase \in Adding}

(* pathExists and the record's removal from the map; what is there of the  *)
(* socket is removed first.                                                *)
ForgetStale(c) ==
  LET t == Target(c) IN
  /\ op[c].phase = "path"
  /\ masters' = Without(t)
  /\ IF socket[t] # "none"
       THEN Goto(c, "rm") /\ UNCHANGED mishaps
       ELSE EvictOrCreate(c, Without(t))
  /\ UNCHANGED <<socket, lost, pending, call, sweep>>

RemoveStale(c) ==
  /\ op[c].phase = "rm"
  /\ Remove(Target(c))
  /\ EvictOrCreate(c, masters)
  /\ UNCHANGED <<masters, pending, call, sweep>>

(* ssh -O exit ends the master and with it every command that runs over    *)
(* it.  Its failure is swallowed, of a live master too.                    *)
Exit(t) ==
  \/ /\ socket' = [socket EXCEPT ![t] = IF @ = "live" THEN "none" ELSE @]
     /\ UNCHANGED mishaps
  \/ UNCHANGED socket /\ Note("unended", socket[t] = "live")

EvictExit(c) ==
  /\ op[c].phase = "exit"
  /\ Exit(op[c].victim)
  /\ Goto(c, "evict")
  /\ UNCHANGED <<lost, masters, pending, call, sweep>>

(* Mutant: the record of the evicted master stays in the map.              *)
EvictRemove_KeepRecord(c) ==
  /\ op[c].phase = "evict"
  /\ TryRemove(op[c].victim)
  /\ op' = [op EXCEPT ![c] = [phase |-> "create", victim |-> NoTarget]]
  /\ UNCHANGED <<masters, pending, call, sweep, mishaps>>

EvictRemove(c) ==
  /\ op[c].phase = "evict"
  /\ TryRemove(op[c].victim)
  /\ masters' = Without(op[c].victim)
  /\ op' = [op EXCEPT ![c] = [phase |-> "create", victim |-> NoTarget]]
  /\ UNCHANGED <<pending, call, sweep, mishaps>>

CreateOk(c) ==
  /\ op[c].phase = "create"
  /\ socket' = [socket EXCEPT ![Target(c)] = "live"]
  /\ Goto(c, "postcheck")
  /\ UNCHANGED <<lost, masters, pending, call, sweep, mishaps>>

CreateFails(c) ==
  /\ op[c].phase = "create"
  /\ Goto(c, "cleanup")
  /\ UNCHANGED <<socket, lost, masters, pending, call, sweep, mishaps>>

(* Mutant: the record of a new master is not kept.                         *)
Created_Untracked(c) ==
  /\ op[c].phase = "postcheck"
  /\ CheckTrue(Target(c))
  /\ Settle(c, "master")
  /\ UNCHANGED <<socket, lost, masters, sweep, mishaps>>

Created(c) ==
  /\ op[c].phase = "postcheck"
  /\ CheckTrue(Target(c))
  /\ masters' = Used(Target(c))
  /\ Settle(c, "master")
  /\ UNCHANGED <<socket, lost, sweep, mishaps>>

PostcheckFails(c) ==
  /\ op[c].phase = "postcheck"
  /\ CheckFalse(Target(c))
  /\ Goto(c, "cleanup")
  /\ UNCHANGED <<socket, lost, masters, pending, call, sweep>>

(* No master: a connection of its own in mode auto, an error otherwise.    *)
Fallback(c) ==
  /\ op[c].phase = "cleanup"
  /\ TryRemove(Target(c))
  /\ Settle(c, IF Required THEN "error" ELSE "direct")
  /\ UNCHANGED <<masters, sweep, mishaps>>

-----------------------------------------------------------------------------
(* runSshCommand (ssh-runner, 76) with what acquire gave it.  An ssh that  *)
(* finds no master behind its ControlPath connects by itself.              *)

Start(c) ==
  /\ call[c].pc = "ready"
  /\ call[c].via # "error"
  /\ call' = [call EXCEPT ![c].pc = "running",
                          ![c].via = IF @ = "master" /\ socket[Target(c)] = "live" THEN "master" ELSE "direct"]
  /\ UNCHANGED <<socket, lost, masters, pending, op, sweep, mishaps>>

(* The command ends, is cut off with its master, or never started.         *)
End(c) ==
  /\ call[c].pc = "running" \/ (call[c].pc = "ready" /\ call[c].via = "error")
  /\ call' = [call EXCEPT ![c].pc = "done", ![c].target = NoTarget, ![c].via = "none"]
  /\ UNCHANGED <<socket, lost, masters, pending, op, sweep, mishaps>>

-----------------------------------------------------------------------------
(* closeIdle and closeAll, on the records there are when they are called.  *)
(* closeIdle takes them one after the other, the model in any order.       *)

Sweep(first) ==
  /\ \A t \in Targets : sweep[t] = "off"
  /\ masters # <<>>
  /\ sweep' = [t \in Targets |-> IF t \in Tracked THEN first ELSE "off"]
  /\ Note("raced", \E t \in Tracked : Acquiring(t))
  /\ UNCHANGED <<socket, lost, masters, pending, op, call>>

CloseIdle == Sweep("check")
CloseAll == Sweep("exit")

IdleCheck(t) ==
  /\ sweep[t] = "check"
  /\ \/ CheckTrue(t) /\ sweep' = [sweep EXCEPT ![t] = "off"] /\ UNCHANGED mishaps
     \/ CheckFalse(t) /\ sweep' = [sweep EXCEPT ![t] = "rmIdle"]
  /\ UNCHANGED <<socket, lost, masters, pending, op, call>>

SweepExit(t) ==
  /\ sweep[t] = "exit"
  /\ Exit(t)
  /\ sweep' = [sweep EXCEPT ![t] = "rm"]
  /\ UNCHANGED <<lost, masters, pending, op, call>>

SweepRemove(t) ==
  /\ sweep[t] \in {"rmIdle", "rm"}
  /\ TryRemove(t)
  /\ masters' = Without(t)
  /\ sweep' = [sweep EXCEPT ![t] = "off"]
  /\ UNCHANGED <<pending, op, call, mishaps>>

-----------------------------------------------------------------------------
(* Masters end: killed, leaving the socket, or idle for ControlPersist     *)
(* seconds, removing it.                                                   *)

MasterDies(t) ==
  /\ socket[t] = "live"
  /\ socket' = [socket EXCEPT ![t] = "dead"]
  /\ UNCHANGED <<lost, masters, pending, op, call, sweep, mishaps>>

MasterExpires(t) ==
  /\ socket[t] = "live"
  /\ \A c \in Calls : ~(call[c].pc = "running" /\ call[c].via = "master" /\ Target(c) = t)
  /\ socket' = [socket EXCEPT ![t] = "none"]
  /\ UNCHANGED <<lost, masters, pending, op, call, sweep, mishaps>>

LostExpires(t) ==
  /\ t \in lost
  /\ lost' = lost \ {t}
  /\ UNCHANGED <<socket, masters, pending, op, call, sweep, mishaps>>

-----------------------------------------------------------------------------
CallStep(c) ==
  \/ \E t \in Targets : Acquire(c, t)
  \/ AcquireFails(c) \/ Hit(c) \/ Miss(c) \/ ForgetStale(c) \/ RemoveStale(c)
  \/ EvictExit(c) \/ EvictRemove(c) \/ CreateOk(c) \/ CreateFails(c)
  \/ Created(c) \/ PostcheckFails(c) \/ Fallback(c)
  \/ Start(c) \/ End(c)

Next ==
  \/ \E c \in Calls : CallStep(c)
  \/ CloseIdle \/ CloseAll
  \/ \E t \in Targets :
       IdleCheck(t) \/ SweepExit(t) \/ SweepRemove(t)
       \/ MasterDies(t) \/ MasterExpires(t) \/ LostExpires(t)

Spec == Init /\ [][Next]_vars

-----------------------------------------------------------------------------
(* Properties.                                                             *)

(* However calls, evictions and cleanups interleave, one target never has  *)
(* two acquireCore at work, so no control path gets two masters            *)
(* (acquire, 313).                                                         *)
SingleFlight ==
  \A c, d \in Calls : op[c].phase # "off" /\ op[d].phase # "off" /\ Target(c) = Target(d) => c = d

(* Unless two targets are added at once or a master without a record is    *)
(* taken over, there are never records of more than maxTargets masters     *)
(* (evictOldestIfNeeded, 234).                                             *)
MastersAreBounded ==
  mishaps \cap {"crowded", "adopted"} = {} => Len(masters) <= MaxTargets

(* Unless a record is closed while its target is acquired, or a check or   *)
(* an exit fails although the master is there, every master that this      *)
(* process started can be reached and is in the map or about to be         *)
(* (closeRecord, 215; acquireCore, 271; closeIdle, 333).                   *)
MastersAreKnown ==
  mishaps \cap {"raced", "flaked", "unended"} = {} =>
    /\ lost = {}
    /\ \A t \in Targets \ Inherited : socket[t] = "live" =>
         t \in Tracked \/ \E c \in Calls : Target(c) = t /\ op[c].phase = "postcheck"

=============================================================================
