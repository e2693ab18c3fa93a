---------------------------- MODULE ForwardManager ----------------------------
(***************************************************************************)
(* Managed SSH forwards: src/forward-manager.mjs, src/forward-model.mjs    *)
(* and forward_create and forward_close of src/forward-tools.mjs, as calls *)
(* that interleave with each other, with processes that exit by themselves *)
(* and with an operating system that gives their PIDs to others.           *)
(*                                                                         *)
(* at[p] is the process behind a PID: nothing, a stranger, or the ssh of a *)
(* forward.  Start time and command line (the recorded identity) tell the  *)
(* ssh of one forward from every other process, so reading the identity of *)
(* p and comparing it with the record of f is asking whether at[p] = f.    *)
(* A definition is a name and a listening port: the other fields behave    *)
(* like the port.                                                          *)
(*                                                                         *)
(* PIDs are handed out in turn, so the model never reuses one between a    *)
(* look at it and the step of the same call that acts on what it saw; at   *)
(* any other time it may.                                                  *)
(***************************************************************************)
EXTENDS Naturals

CONSTANTS
  Calls,         \* concurrent tool calls
  Fwds,          \* forward ids, each drawn once
  Pids,
  NoPid,
  Names,
  NoName,        \* a forward without a name
  Ports,
  Free,          \* at[p] of a PID without a process
  Stranger,      \* a process that is no managed forward
  NoFwd,
  MaxChecks,     \* HEALTH_RETRY_ATTEMPTS
  MaxCrashes     \* bound: restarts of the extension

VARIABLES
  at,          \* at[p]: the process behind p
  listener,    \* listener[q]: the forward whose ssh listens on port q
  def,         \* def[f]: the definition f was made with
  rec,         \* rec[f]: the pid of the persisted record, NoPid without one
  call,        \* call[c]: the state of a call
  closed,      \* forwards whose record a close deleted
  abandoned,   \* ghost: forwards whose ssh an error or a restart left alone
  signalled,   \* ghost: forwards whose ssh was sent a signal
  harmed,      \* ghost: a signal went to another process
  raced,       \* ghost: two creates of one name overlapped
  crashes

vars == <<at, listener, def, rec, call, closed, abandoned, signalled, harmed, raced, crashes>>
world == <<at, listener, def>>
ghosts == <<closed, abandoned, signalled, harmed, raced>>

ASSUME ForwardAssumption ==
  /\ NoFwd \notin Fwds /\ Free \notin Fwds /\ Stranger \notin Fwds
  /\ Free # Stranger
  /\ NoPid \notin Pids
  /\ NoName \notin Names
  /\ MaxChecks \in Nat \ {0} /\ MaxCrashes \in Nat

Definition == [name : Names \cup {NoName}, port : Ports]

\* job: what the call is doing; "giveUp" is the close that ends a failed create.
CallState ==
  [pc : {"idle", "spawn", "startup", "identify", "put", "putFailed", "undo", "healthId", "healthProbe",
         "find", "before", "term", "afterTerm", "beforeKill", "kill", "afterKill", "delete"},
   job : {"create", "reuse", "giveUp", "close"},
   f : Fwds \cup {NoFwd},
   pid : Pids \cup {NoPid},
   checks : 0..MaxChecks]

TypeOK ==
  /\ at \in [Pids -> Fwds \cup {Free, Stranger}]
  /\ listener \in [Ports -> Fwds \cup {NoFwd}]
  /\ def \in [Fwds -> Definition]
  /\ rec \in [Fwds -> Pids \cup {NoPid}]
  /\ call \in [Calls -> CallState]
  /\ closed \in SUBSET Fwds
  /\ abandoned \in SUBSET Fwds
  /\ signalled \in SUBSET Fwds
  /\ harmed \in BOOLEAN
  /\ raced \in BOOLEAN
  /\ crashes \in 0..MaxCrashes

Idle == [pc |-> "idle", job |-> "create", f |-> NoFwd, pid |-> NoPid, checks |-> 0]
AnyDefinition == CHOOSE d \in Definition : d.name = NoName

Init ==
  /\ at \in [Pids -> {Free, Stranger}]
  /\ listener = [q \in Ports |-> NoFwd]
  /\ def = [f \in Fwds |-> AnyDefinition]
  /\ rec = [f \in Fwds |-> NoPid]
  /\ call = [c \in Calls |-> Idle]
  /\ closed = {} /\ abandoned = {} /\ signalled = {}
  /\ harmed = FALSE /\ raced = FALSE
  /\ crashes = 0

-----------------------------------------------------------------------------
Recorded(f) == rec[f] # NoPid
Runs(f) == \E p \in Pids : at[p] = f
InHand(f) == \E c \in Calls : call[c].f = f
\* Drawn by randomBytes: one that was never used.
Fresh(f) == ~Recorded(f) /\ ~Runs(f) /\ ~InHand(f) /\ f \notin closed \cup abandoned \cup signalled

(* identityMatches for the process and forward that call c has in hand.    *)
Matches(c) == at[call[c].pid] = call[c].f

(* A PID a new process may get.                                            *)
Available(p) ==
  /\ at[p] = Free
  /\ \A c \in Calls : call[c].pc \in {"identify", "undo", "term", "kill"} => call[c].pid # p

Goto(c, pc) == call' = [call EXCEPT ![c].pc = pc]
Return(c) == call' = [call EXCEPT ![c] = Idle]
OnlyTheCallMoves == UNCHANGED <<world, rec, ghosts, crashes>>

(* What a call that has started ssh and recorded nothing leaves behind     *)
(* when it fails without a signal.                                         *)
Abandon(c) ==
  /\ abandoned' = abandoned \cup {call[c].f}
  /\ UNCHANGED <<closed, signalled, harmed, raced>>

(* process.kill: the signal goes to whatever has the PID now; the failure  *)
(* ESRCH of a PID that is free is ignored.                                 *)
Signal(c) ==
  /\ signalled' = IF Matches(c) THEN signalled \cup {call[c].f} ELSE signalled
  /\ harmed' = (harmed \/ at[call[c].pid] \notin {Free, call[c].f})
  /\ UNCHANGED <<closed, abandoned, raced>>

-----------------------------------------------------------------------------
(* forward_create (forward-tools, 414), create (forward-manager, 166).     *)

(* Calls that have found no forward of this name and not yet recorded one. *)
Making(n) == {d \in Calls : /\ call[d].job = "create"
                            /\ call[d].pc \in {"spawn", "startup", "identify", "put"}
                            /\ def[call[d].f].name = n}

Named(n) == {f \in Fwds : Recorded(f) /\ def[f].name = n /\ n # NoName}

(* Mutant: the existing definitions are not looked at.                     *)
CreateAnew_AnyName(c, f, n, q) ==
  /\ Fresh(f)
  /\ def' = [def EXCEPT ![f] = [name |-> n, port |-> q]]
  /\ call' = [call EXCEPT ![c] = [Idle EXCEPT !.pc = "spawn", !.f = f]]
  /\ raced' = (raced \/ (n # NoName /\ Making(n) # {}))
  /\ UNCHANGED <<at, listener, rec, closed, abandoned, signalled, harmed, crashes>>

(* listRecords resolves: a forward of this name with this definition will  *)
(* be reused if healthy; without one an id is drawn.                       *)
CreateAnew(c, f, n, q) ==
  /\ Named(n) = {}
  /\ Fresh(f)
  /\ def' = [def EXCEPT ![f] = [name |-> n, port |-> q]]
  /\ call' = [call EXCEPT ![c] = [Idle EXCEPT !.pc = "spawn", !.f = f]]
  /\ raced' = (raced \/ (n # NoName /\ Making(n) # {}))
  /\ UNCHANGED <<at, listener, rec, closed, abandoned, signalled, harmed, crashes>>

CreateByReuse(c, f, n, q) ==
  /\ Named(n) = {f}
  /\ def[f].port = q
  /\ call' = [call EXCEPT ![c] =
       [Idle EXCEPT !.pc = "healthId", !.job = "reuse", !.f = f, !.pid = rec[f]]]
  /\ OnlyTheCallMoves

Create(c) ==
  /\ call[c].pc = "idle"
  /\ \E f \in Fwds, n \in Names \cup {NoName}, q \in Ports :
       CreateAnew(c, f, n, q) \/ CreateByReuse(c, f, n, q)

Spawn(c) ==
  /\ call[c].pc = "spawn"
  /\ \E p \in Pids :
       /\ Available(p)
       /\ at' = [at EXCEPT ![p] = call[c].f]
       /\ call' = [call EXCEPT ![c].pc = "startup", ![c].pid = p]
  /\ UNCHANGED <<listener, def, rec, ghosts, crashes>>

SpawnFails(c) ==
  /\ call[c].pc = "spawn"
  /\ Return(c)
  /\ OnlyTheCallMoves

(* The startup grace ends; an exit during it is an error.                  *)
StartupEnds(c) ==
  /\ call[c].pc = "startup"
  /\ IF Matches(c) THEN Goto(c, "identify") ELSE Return(c)
  /\ OnlyTheCallMoves

(* Without a process create fails.                                         *)
Identify(c) ==
  /\ call[c].pc = "identify"
  /\ IF Matches(c) THEN Goto(c, "put") ELSE Return(c)
  /\ OnlyTheCallMoves

(* ps fails: create throws and nothing will ever stop the ssh it started.  *)
IdentifyFails(c) ==
  /\ call[c].pc = "identify"
  /\ Return(c)
  /\ Abandon(c)
  /\ UNCHANGED <<world, rec, crashes>>

Put(c) ==
  /\ call[c].pc = "put"
  /\ rec' = [rec EXCEPT ![call[c].f] = call[c].pid]
  /\ Goto(c, "healthId")
  /\ UNCHANGED <<world, ghosts, crashes>>

(* Mutant: a record that cannot be persisted is only reported.             *)
PutFails_NoKill(c) ==
  /\ call[c].pc = "put"
  /\ Return(c)
  /\ OnlyTheCallMoves

PutFails(c) ==
  /\ call[c].pc = "put"
  /\ Goto(c, "putFailed")
  /\ OnlyTheCallMoves

(* The catch of create: the process is stopped if it can be identified.    *)
LookBeforeUndo(c) ==
  /\ call[c].pc = "putFailed"
  /\ IF Matches(c) THEN Goto(c, "undo") ELSE Return(c)
  /\ OnlyTheCallMoves

LookBeforeUndoFails(c) ==
  /\ call[c].pc = "putFailed"
  /\ Return(c)
  /\ Abandon(c)
  /\ UNCHANGED <<world, rec, crashes>>

Undo(c) ==
  /\ call[c].pc = "undo"
  /\ Return(c)
  /\ Signal(c)
  /\ UNCHANGED <<world, rec, crashes>>

(* A create that ends with a stale or unhealthy forward closes it.         *)
GiveUp(c) ==
  call' = [call EXCEPT ![c] = [Idle EXCEPT !.pc = "find", !.job = "giveUp", !.f = call[c].f]]

(* checkForwardHealth (278), first the process, for a new forward and for  *)
(* one that may be reused.                                                 *)
HealthId(c) ==
  /\ call[c].pc = "healthId"
  /\ IF Matches(c) THEN Goto(c, "healthProbe")
     ELSE IF call[c].job = "create" THEN GiveUp(c) ELSE Return(c)
  /\ OnlyTheCallMoves

(* Then the port: some process listens there.  Both answers end the call   *)
(* unless waitForHealthy (346) has attempts left.                          *)
Healthy(c) ==
  /\ call[c].pc = "healthProbe"
  /\ listener[def[call[c].f].port] # NoFwd
  /\ Return(c)
  /\ OnlyTheCallMoves

Unhealthy(c) ==
  /\ call[c].pc = "healthProbe"
  /\ IF call[c].job = "reuse" THEN Return(c)
     ELSE IF call[c].checks + 1 < MaxChecks
       THEN call' = [call EXCEPT ![c].pc = "healthId", ![c].checks = @ + 1]
     ELSE GiveUp(c)
  /\ OnlyTheCallMoves

(* The record is there, so an error of a check leaves the forward to later *)
(* calls.                                                                  *)
HealthFails(c) ==
  /\ call[c].pc \in {"healthId", "healthProbe"}
  /\ Return(c)
  /\ OnlyTheCallMoves

-----------------------------------------------------------------------------
(* close (forward-manager, 226), for forward_close and for GiveUp.         *)

(* findRecord: by id, or by name among all records.  (The tool looks the   *)
(* forward up once more before, for its answer.)                           *)
Close(c) ==
  /\ call[c].pc = "idle"
  /\ \E f \in Fwds :
       /\ Recorded(f)
       /\ call' = [call EXCEPT ![c] =
            [Idle EXCEPT !.pc = "before", !.job = "close", !.f = f, !.pid = rec[f]]]
  /\ OnlyTheCallMoves

Find(c) ==
  /\ call[c].pc = "find"
  /\ IF Recorded(call[c].f)
       THEN call' = [call EXCEPT ![c].pc = "before", ![c].pid = rec[call[c].f]]
       ELSE Return(c)
  /\ OnlyTheCallMoves

(* Mutant: the recorded PID is trusted.                                    *)
LookBefore_Trusting(c) ==
  /\ call[c].pc = "before"
  /\ Goto(c, "term")
  /\ OnlyTheCallMoves

(* A record whose process is gone is refused, and stays.                   *)
LookBefore(c) ==
  /\ call[c].pc = "before"
  /\ IF Matches(c) THEN Goto(c, "term") ELSE Return(c)
  /\ OnlyTheCallMoves

Terminate(c) ==
  /\ call[c].pc = "term"
  /\ Goto(c, "afterTerm")
  /\ Signal(c)
  /\ UNCHANGED <<world, rec, crashes>>

LookAfterTerm(c) ==
  /\ call[c].pc = "afterTerm"
  /\ Goto(c, IF Matches(c) THEN "beforeKill" ELSE "delete")
  /\ OnlyTheCallMoves

LookBeforeKill(c) ==
  /\ call[c].pc = "beforeKill"
  /\ Goto(c, IF Matches(c) THEN "kill" ELSE "delete")
  /\ OnlyTheCallMoves

Kill(c) ==
  /\ call[c].pc = "kill"
  /\ Goto(c, "afterKill")
  /\ Signal(c)
  /\ UNCHANGED <<world, rec, crashes>>

(* Mutant: SIGKILL is taken for the end of the process.                    *)
LookAfterKill_Trusting(c) ==
  /\ call[c].pc = "afterKill"
  /\ Goto(c, "delete")
  /\ OnlyTheCallMoves

(* A process that survives SIGKILL keeps its record.                       *)
LookAfterKill(c) ==
  /\ call[c].pc = "afterKill"
  /\ IF Matches(c) THEN Return(c) ELSE Goto(c, "delete")
  /\ OnlyTheCallMoves

(* A look (ps), a signal (EPERM) or the store fails.                       *)
CloseFails(c) ==
  /\ call[c].pc \in {"find", "before", "term", "afterTerm", "beforeKill", "kill", "afterKill", "delete"}
  /\ Return(c)
  /\ OnlyTheCallMoves

Delete(c) ==
  /\ call[c].pc = "delete"
  /\ rec' = [rec EXCEPT ![call[c].f] = NoPid]
  /\ closed' = closed \cup {call[c].f}
  /\ Return(c)
  /\ UNCHANGED <<world, abandoned, signalled, harmed, raced, crashes>>

-----------------------------------------------------------------------------
(* The host and the extension's restarts.                                  *)

(* The ssh of a forward connects and listens, unless its port is taken.    *)
Listen(f) ==
  /\ Runs(f)
  /\ listener[def[f].port] = NoFwd
  /\ listener' = [listener EXCEPT ![def[f].port] = f]
  /\ UNCHANGED <<at, def, rec, call, ghosts, crashes>>

(* A process ends: killed, disconnected, or because it could not listen    *)
(* (ExitOnForwardFailure).                                                 *)
Exit(p) ==
  /\ at[p] # Free
  /\ at' = [at EXCEPT ![p] = Free]
  /\ listener' = [q \in Ports |-> IF listener[q] = at[p] THEN NoFwd ELSE listener[q]]
  /\ UNCHANGED <<def, rec, call, ghosts, crashes>>

PidReused(p) ==
  /\ Available(p)
  /\ at' = [at EXCEPT ![p] = Stranger]
  /\ UNCHANGED <<listener, def, rec, call, ghosts, crashes>>

(* The ssh processes survive the extension.                                *)
Crash ==
  /\ crashes < MaxCrashes
  /\ crashes' = crashes + 1
  /\ abandoned' = abandoned \cup {call[c].f : c \in {d \in Calls :
                    call[d].job = "create" /\ call[d].pc # "idle"}}
  /\ call' = [c \in Calls |-> Idle]
  /\ UNCHANGED <<world, rec, closed, signalled, harmed, raced>>

-----------------------------------------------------------------------------
Step(c) ==
  \/ Create(c) \/ Spawn(c) \/ SpawnFails(c) \/ StartupEnds(c) \/ Identify(c) \/ IdentifyFails(c)
  \/ Put(c) \/ PutFails(c) \/ LookBeforeUndo(c) \/ LookBeforeUndoFails(c) \/ Undo(c)
  \/ HealthId(c) \/ Healthy(c) \/ Unhealthy(c) \/ HealthFails(c)
  \/ Close(c) \/ Find(c) \/ LookBefore(c) \/ Terminate(c) \/ LookAfterTerm(c)
  \/ LookBeforeKill(c) \/ Kill(c) \/ LookAfterKill(c) \/ CloseFails(c) \/ Delete(c)

Next ==
  \/ \E c \in Calls : Step(c)
  \/ \E f \in Fwds : Listen(f)
  \/ \E p \in Pids : Exit(p) \/ PidReused(p)
  \/ Crash

Spec == Init /\ [][Next]_vars

-----------------------------------------------------------------------------
(* Properties.                                                             *)

(* However old its records and whatever has their PIDs now, the manager    *)
(* signals only the process it started for the forward (close, 252).       *)
OnlyOwnProcessesAreSignalled == ~harmed

(* A forward whose record a close deleted has no process any more, and no  *)
(* other call writes the record again (close, 287).                        *)
ClosedMeansGone == \A f \in closed : ~Runs(f) /\ ~Recorded(f)

(* An ssh process that nothing records and no call works on was stopped    *)
(* (and is about to end), or an error or restart interrupted its creation  *)
(* (create, 203).                                                          *)
NoOrphanProcess ==
  \A f \in Fwds : Runs(f) => Recorded(f) \/ InHand(f) \/ f \in signalled \cup abandoned

(* Two records have one name only if their creates overlapped              *)
(* (callForwardTool, 425).                                                 *)
NamesAreUnique ==
  raced \/ \A f, g \in Fwds :
    Recorded(f) /\ Recorded(g) /\ def[f].name = def[g].name /\ def[f].name # NoName => f = g
=============================================================================
