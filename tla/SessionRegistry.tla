---------------------------- MODULE SessionRegistry ----------------------------
(***************************************************************************)
(* The named sessions of src/session-registry.mjs and src/session-tools.mjs*)
(* : concurrent calls of ensure_session, named_session_detach and          *)
(* named_session_close in one process, interleaved at every await, with    *)
(* restarts of the process.  An ensure keeps the entry it read first and   *)
(* writes a whole entry at its end.  The store itself is atomic (see       *)
(* StateStore).                                                            *)
(*                                                                         *)
(* External, from how the code uses it: the upstream PTY server (handles   *)
(* onto remote sessions) and the persistent sessions of the remote hosts.  *)
(***************************************************************************)
CONSTANTS
  Calls,             \* concurrent tool calls
  Requests,          \* operations that clients call
  Names, Targets,
  Remotes,           \* persistent sessions of the remote hosts
  Home,              \* Home[r]: the target on which r lives
  Handles,           \* local session ids of the upstream server
  NoEntry, NoHandle, NoRemote, NoName, NoTarget,
  OneCallPerName,    \* whether clients wait for a name's call to return
  ReportsRemoteId,   \* whether create_ssh_session returns remote_session_id
  MayCrash,          \* whether this process may restart
  MayFail,           \* whether upstream calls and writes may fail
  MayBreak,          \* whether the connection behind a handle may break
  Mortal             \* remote sessions that may end by themselves

Ops == {"ensure", "detach", "close"}

ASSUME ParametersAssumption ==
  /\ Requests \subseteq Ops
  /\ Home \in [Remotes -> Targets]
  /\ Mortal \subseteq Remotes
  /\ {OneCallPerName, ReportsRemoteId, MayCrash, MayFail, MayBreak} \subseteq BOOLEAN

VARIABLES
  sessions,   \* sessions[n]: the persisted entry of name n
  status,     \* status[r]: "free", "alive", "dead" but still listed, or "gone"
  onto,       \* onto[h]: the remote session behind handle h
  up,         \* handles the upstream server still holds
  call        \* call[c]: the progress of call c

vars == <<sessions, status, onto, up, call>>
links == <<onto, up>>

(* An entry under construction may not know its remote session yet.        *)
Draft == [target : Targets, local : Handles \cup {NoHandle},
          remote : Remotes \cup {NoRemote}]
Entry == {e \in Draft : e.remote \in Remotes}

ASSUME SentinelAssumption ==
  /\ NoHandle \notin Handles
  /\ NoRemote \notin Remotes
  /\ NoEntry \notin Draft
  /\ NoEntry \notin [target : Targets, remote : Remotes]
  /\ NoName \notin Names
  /\ NoTarget \notin Targets

EnsureLabels == {"read", "probe", "forget", "list", "attach", "create", "cwd",
                 "identify", "undo", "write"}
Labels == {"idle"} \cup EnsureLabels \cup
          {"findDetach", "detach", "forgetDetached", "findClose", "close", "remove"}

Call == [pc : Labels, name : Names \cup {NoName}, target : Targets \cup {NoTarget},
         entry : Draft \cup {NoEntry}, before : SUBSET Remotes]

TypeOK ==
  /\ sessions \in [Names -> Entry \cup {NoEntry}]
  /\ status \in [Remotes -> {"free", "alive", "dead", "gone"}]
  /\ onto \in [Handles -> Remotes \cup {NoRemote}]
  /\ up \in SUBSET Handles
  /\ call \in [Calls -> Call]

Idle == [pc |-> "idle", name |-> NoName, target |-> NoTarget, entry |-> NoEntry,
         before |-> {}]

Init ==
  /\ sessions = [n \in Names |-> NoEntry]
  /\ status = [r \in Remotes |-> "free"]
  /\ onto = [h \in Handles |-> NoRemote]
  /\ up = {}
  /\ call = [c \in Calls |-> Idle]

-----------------------------------------------------------------------------
(* Helpers: control of a call, the upstream calls.                         *)

At(c, label) == call[c].pc = label
Goto(c, label) == call' = [call EXCEPT ![c].pc = label]
GotoWith(c, label, entry) == call' = [call EXCEPT ![c].pc = label, ![c].entry = entry]
Return(c) == call' = [call EXCEPT ![c] = Idle]

(* A new call for name n; a well-behaved client waits for the earlier one. *)
Begin(c, n, t, label) ==
  /\ At(c, "idle")
  /\ OneCallPerName => \A d \in Calls : call[d].name # n
  /\ call' = [call EXCEPT ![c] = [Idle EXCEPT !.pc = label, !.name = n, !.target = t]]
  /\ UNCHANGED <<sessions, status, links>>

(* list_remote_sessions, dead ones included.                               *)
remoteSessions(t) == {r \in Remotes : Home[r] = t /\ status[r] \in {"alive", "dead"}}

(* create_ssh_session makes handle h onto r.                               *)
Connect(h, r) ==
  /\ onto[h] = NoRemote
  /\ onto' = [onto EXCEPT ![h] = r]
  /\ up' = up \cup {h}

(* create_ssh_session is refused, as it is when the model has no handle or *)
(* remote session left.                                                    *)
NoHandleLeft == \A h \in Handles : onto[h] # NoRemote
CannotCreate(t) == MayFail \/ NoHandleLeft \/ \A r \in Remotes : Home[r] = t => status[r] # "free"

(* close_session ends the remote session and its handle.                   *)
CloseSession(h) ==
  /\ h \in up
  /\ up' = up \ {h}
  /\ status' = [status EXCEPT ![onto[h]] = "gone"]
  /\ UNCHANGED onto

-----------------------------------------------------------------------------
(* ensure_session.  The entry read first, then the one under construction, *)
(* is call[c].entry.                                                       *)

EnsureCall(c, n, t) == "ensure" \in Requests /\ Begin(c, n, t, "read")

(* A name that is mapped to another target is refused.                     *)
Read(c) ==
  /\ At(c, "read")
  /\ LET existing == sessions[call[c].name] IN
       IF existing = NoEntry
         THEN Goto(c, "list")
         ELSE IF existing.target # call[c].target
           THEN Return(c)
           ELSE GotoWith(c, IF existing.local = NoHandle THEN "list" ELSE "probe", existing)
  /\ UNCHANGED <<sessions, status, links>>

(* A handle the upstream server holds may be taken for dead, because its   *)
(* session is, or because the probe failed.                                *)
Probe(c) ==
  /\ At(c, "probe")
  /\ LET h == call[c].entry.local IN
       \/ h \in up /\ Return(c)
       \/ (MayFail \/ h \notin up \/ status[onto[h]] # "alive") /\ Goto(c, "forget")
  /\ UNCHANGED <<sessions, status, links>>

(* forgetLocalSessionHandle: in every entry that has this handle.          *)
Forgotten(h) ==
  [n \in Names |->
     IF sessions[n] # NoEntry /\ sessions[n].local = h
       THEN [sessions[n] EXCEPT !.local = NoHandle]
       ELSE sessions[n]]

Forget(c) ==
  /\ call[c].pc \in {"forget", "forgetDetached"}
  /\ sessions' = Forgotten(call[c].entry.local)
  /\ IF At(c, "forget") THEN Goto(c, "list") ELSE Return(c)
  /\ UNCHANGED <<status, links>>

(* Mutant: any session of the target stands in for one that is gone.       *)
List_Adopts(c) ==
  /\ At(c, "list")
  /\ LET entry == call[c].entry
         listed == remoteSessions(call[c].target)
     IN \/ /\ entry # NoEntry
           /\ \E r \in listed : GotoWith(c, "attach", [entry EXCEPT !.remote = r])
        \/ /\ entry = NoEntry \/ listed = {}
           /\ call' = [call EXCEPT ![c].pc = "create", ![c].before = listed]
  /\ UNCHANGED <<sessions, status, links>>

(* The recorded session is looked for; a new one is made only if it is not *)
(* listed.  The list also tells the new session from the older ones.       *)
List(c) ==
  /\ At(c, "list")
  /\ LET listed == remoteSessions(call[c].target) IN
       IF call[c].entry # NoEntry /\ call[c].entry.remote \in listed
         THEN Goto(c, "attach")
         ELSE call' = [call EXCEPT ![c].pc = "create", ![c].before = listed]
  /\ UNCHANGED <<sessions, status, links>>

(* Mutant: any living session of the target is attached.                   *)
Attach_AnySession(c) ==
  /\ At(c, "attach")
  /\ \E r \in remoteSessions(call[c].target), h \in Handles :
       /\ Connect(h, r)
       /\ GotoWith(c, "write", [call[c].entry EXCEPT !.local = h])
  /\ UNCHANGED <<sessions, status>>

(* A new handle is attached to the recorded session.                       *)
Attach(c) ==
  /\ At(c, "attach")
  /\ LET r == call[c].entry.remote IN
       \/ /\ status[r] = "alive"
          /\ \E h \in Handles :
               /\ Connect(h, r)
               /\ GotoWith(c, "write", [call[c].entry EXCEPT !.local = h])
       \/ (status[r] # "alive" \/ NoHandleLeft) /\ Return(c) /\ UNCHANGED links
  /\ UNCHANGED <<sessions, status>>

(* Where a new session goes once its working directory is set.             *)
Made == IF ReportsRemoteId THEN "write" ELSE "identify"

(* create_ssh_session; there may be a working directory to change to.  A   *)
(* lost response leaves the code no session id to close.                   *)
Create(c) ==
  /\ At(c, "create")
  /\ LET t == call[c].target IN
       \/ \E r \in Remotes, h \in Handles, label \in {"cwd", Made} :
            /\ Home[r] = t /\ status[r] = "free"
            /\ status' = [status EXCEPT ![r] = "alive"]
            /\ Connect(h, r)
            /\ \/ GotoWith(c, label, [target |-> t, local |-> h,
                                      remote |-> IF ReportsRemoteId THEN r ELSE NoRemote])
               \/ MayFail /\ Return(c)
       \/ CannotCreate(t) /\ Return(c) /\ UNCHANGED <<status, links>>
  /\ UNCHANGED sessions

Cwd(c) ==
  /\ At(c, "cwd")
  /\ LET h == call[c].entry.local IN
       \/ h \in up /\ status[onto[h]] = "alive" /\ Goto(c, Made)
       \/ (MayFail \/ h \notin up \/ status[onto[h]] # "alive") /\ Goto(c, "undo")
  /\ UNCHANGED <<sessions, status, links>>

(* Mutants: any of several new sessions is taken; an ambiguous create      *)
(* leaves its session behind.                                              *)
Identify_AnyNew(c) ==
  /\ At(c, "identify")
  /\ \E r \in remoteSessions(call[c].target) \ call[c].before :
       GotoWith(c, "write", [call[c].entry EXCEPT !.remote = r])
  /\ UNCHANGED <<sessions, status, links>>

Identify_NoUndo(c) ==
  /\ At(c, "identify")
  /\ LET new == remoteSessions(call[c].target) \ call[c].before IN
       IF \E r \in new : new = {r}
         THEN GotoWith(c, "write", [call[c].entry EXCEPT !.remote = CHOOSE r \in new : TRUE])
         ELSE Return(c)
  /\ UNCHANGED <<sessions, status, links>>

(* Without a reported id, exactly one session must have appeared.          *)
Identify(c) ==
  /\ At(c, "identify")
  /\ LET new == remoteSessions(call[c].target) \ call[c].before IN
       \/ \E r \in new :
            /\ new = {r}
            /\ GotoWith(c, "write", [call[c].entry EXCEPT !.remote = r])
       \/ /\ MayFail \/ \A r \in new : new # {r}
          /\ Goto(c, "undo")
  /\ UNCHANGED <<sessions, status, links>>

(* The catch block closes the new session; a failure of it is swallowed.   *)
Undo(c) ==
  /\ At(c, "undo")
  /\ LET h == call[c].entry.local IN
       \/ CloseSession(h)
       \/ (MayFail \/ h \notin up) /\ UNCHANGED <<status, links>>
  /\ Return(c)
  /\ UNCHANGED sessions

(* Mutant: an entry that is there keeps its target.                        *)
Write_KeepsTarget(c) ==
  /\ At(c, "write")
  /\ LET existing == sessions[call[c].name]
         entry == call[c].entry
     IN sessions' = [sessions EXCEPT ![call[c].name] =
                       IF existing = NoEntry THEN entry
                       ELSE [entry EXCEPT !.target = existing.target]]
  /\ Return(c)
  /\ UNCHANGED <<status, links>>

(* writeSession puts the whole entry, whatever is there by now.            *)
Write(c) ==
  /\ At(c, "write")
  /\ sessions' = [sessions EXCEPT ![call[c].name] = call[c].entry]
  /\ Return(c)
  /\ UNCHANGED <<status, links>>

-----------------------------------------------------------------------------
(* named_session_detach and named_session_close.                           *)

ReleaseCall(c, n, op) ==
  /\ op \in Requests \cap {"detach", "close"}
  /\ Begin(c, n, NoTarget, IF op = "detach" THEN "findDetach" ELSE "findClose")

(* findNamedSession; a name without a local handle can only be reported.   *)
Find(c) ==
  /\ call[c].pc \in {"findDetach", "findClose"}
  /\ LET entry == sessions[call[c].name] IN
       IF entry = NoEntry \/ (entry # NoEntry /\ entry.local = NoHandle)
         THEN Return(c)
         ELSE GotoWith(c, IF At(c, "findDetach") THEN "detach" ELSE "close", entry)
  /\ UNCHANGED <<sessions, status, links>>

(* detach_session drops the handle and leaves the session alone.           *)
Detach(c) ==
  /\ At(c, "detach")
  /\ LET h == call[c].entry.local IN
       IF h \in up
         THEN up' = up \ {h} /\ Goto(c, "forgetDetached")
         ELSE Return(c) /\ UNCHANGED up
  /\ UNCHANGED <<sessions, status, onto>>

Close(c) ==
  /\ At(c, "close")
  /\ LET h == call[c].entry.local IN
       \/ CloseSession(h) /\ Goto(c, "remove")
       \/ h \notin up /\ Return(c) /\ UNCHANGED <<status, links>>
  /\ UNCHANGED sessions

(* removeNamedSession deletes whatever entry the name has by now.          *)
Remove(c) ==
  /\ At(c, "remove")
  /\ sessions' = [sessions EXCEPT ![call[c].name] = NoEntry]
  /\ Return(c)
  /\ UNCHANGED <<status, links>>

(* Any other upstream call or store access may fail, which ends the tool   *)
(* call with an error; what the call did before stays.                     *)
Fail(c) ==
  /\ MayFail
  /\ call[c].pc \in Labels \ {"idle", "probe", "create", "cwd", "identify", "undo"}
  /\ Return(c)
  /\ UNCHANGED <<sessions, status, links>>

-----------------------------------------------------------------------------
(* The upstream server, the remote hosts and this process.                 *)

(* A remote session dies; it may go on being listed for a while.           *)
RemoteDies(r) ==
  /\ r \in Mortal
  /\ status[r] \in {"alive", "dead"}
  /\ \E s \in {"dead", "gone"} : status' = [status EXCEPT ![r] = s]
  /\ UNCHANGED <<sessions, links, call>>

(* The connection behind a handle breaks, or the upstream server restarts. *)
HandleDies(h) ==
  /\ MayBreak
  /\ h \in up
  /\ up' = up \ {h}
  /\ UNCHANGED <<sessions, status, onto, call>>

(* The extension process dies and is started again: what is not persisted  *)
(* is the progress of its calls.                                           *)
Crash ==
  /\ MayCrash
  /\ call' = [c \in Calls |-> Idle]
  /\ UNCHANGED <<sessions, status, links>>

EnsureStep(c) ==
  \/ Read(c) \/ Probe(c) \/ Forget(c) \/ List(c) \/ Attach(c) \/ Create(c)
  \/ Cwd(c) \/ Identify(c) \/ Undo(c) \/ Write(c)

ReleaseStep(c) == Find(c) \/ Detach(c) \/ Close(c) \/ Remove(c)

Environment ==
  \/ \E r \in Remotes : RemoteDies(r)
  \/ \E h \in Handles : HandleDies(h)
  \/ Crash

Next ==
  \/ \E c \in Calls, n \in Names, t \in Targets : EnsureCall(c, n, t)
  \/ \E c \in Calls, n \in Names, op \in {"detach", "close"} : ReleaseCall(c, n, op)
  \/ \E c \in Calls : EnsureStep(c) \/ ReleaseStep(c) \/ Fail(c)
  \/ Environment

Spec == Init /\ [][Next]_vars

-----------------------------------------------------------------------------
(* A session id that is handed out reaches the target the name is mapped   *)
(* to, whatever calls ran at once: input never goes to another host.       *)
HandleReachesTarget ==
  \A n \in Names :
    sessions[n] # NoEntry /\ sessions[n].local # NoHandle =>
      Home[onto[sessions[n].local]] = sessions[n].target

(* and, when create_ssh_session names the session it made, that very       *)
(* session, also after reattaching.                                        *)
HandleReachesSession ==
  ReportsRemoteId =>
    \A n \in Names :
      sessions[n] # NoEntry /\ sessions[n].local # NoHandle =>
        onto[sessions[n].local] = sessions[n].remote

(* Two names never share a persistent session.                             *)
NamesHaveOwnSessions ==
  ReportsRemoteId =>
    \A m, n \in Names :
      sessions[m] # NoEntry /\ sessions[n] # NoEntry
        /\ sessions[m].remote = sessions[n].remote => m = n

(* What the three rest on, together an inductive invariant.  Which fields  *)
(* of a call are set where:                                                *)
CallShape ==
  \A c \in Calls :
    /\ call[c].pc # "idle" => call[c].name \in Names
    /\ call[c].pc \in EnsureLabels => call[c].target \in Targets
    /\ call[c].pc = "identify" => ~ReportsRemoteId
    /\ call[c].pc \notin {"idle", "read", "list", "create", "findDetach", "findClose"} =>
         call[c].entry # NoEntry
    /\ call[c].entry # NoEntry =>
         /\ call[c].pc # "idle"
         /\ \/ call[c].entry.remote \in Remotes
            \/ ~ReportsRemoteId /\ call[c].pc \in {"cwd", "identify", "undo"}
         /\ call[c].pc \in EnsureLabels => call[c].entry.target = call[c].target
    /\ call[c].pc \in {"probe", "forget", "cwd", "identify", "undo", "write"} =>
         call[c].entry.local \in Handles

(* what is true of an entry, persisted or in flight,                       *)
EntryIsSound(e) ==
  /\ e.remote \in Remotes => Home[e.remote] = e.target /\ status[e.remote] # "free"
  /\ e.local \in Handles =>
       /\ onto[e.local] \in Remotes
       /\ Home[onto[e.local]] = e.target
  /\ ReportsRemoteId /\ e.local \in Handles => onto[e.local] = e.remote

(* and that the entries with one session, however stale, are of one name.  *)
EntriesAreSound ==
  /\ \A n \in Names : sessions[n] # NoEntry => EntryIsSound(sessions[n])
  /\ \A c \in Calls : call[c].entry # NoEntry => EntryIsSound(call[c].entry)

SessionsHaveOneName ==
  ReportsRemoteId =>
    /\ \A m, n \in Names :
         sessions[m] # NoEntry /\ sessions[n] # NoEntry
           /\ sessions[m].remote = sessions[n].remote => m = n
    /\ \A c \in Calls, n \in Names :
         call[c].entry # NoEntry /\ sessions[n] # NoEntry
           /\ call[c].entry.remote = sessions[n].remote => call[c].name = n
    /\ \A c, d \in Calls :
         call[c].entry # NoEntry /\ call[d].entry # NoEntry
           /\ call[c].entry.remote = call[d].entry.remote => call[c].name = call[d].name

SessionsAreFresh ==
  /\ \A h \in up : onto[h] \in Remotes
  /\ \A r \in Remotes : status[r] = "free" => \A h \in Handles : onto[h] # r

SessionInv ==
  TypeOK /\ CallShape /\ EntriesAreSound /\ SessionsHaveOneName /\ SessionsAreFresh

(* As long as closing works and connections hold, every living session has *)
(* a name or a call still at work on it, also when ensures of different    *)
(* names cannot tell their new sessions apart.                             *)
NoOrphanSession ==
  \A r \in {s \in Remotes : status[s] = "alive"} :
    \/ \E n \in Names : sessions[n] # NoEntry /\ sessions[n].remote = r
    \/ \E c \in Calls :
         call[c].entry # NoEntry /\ call[c].entry.local # NoHandle
           /\ onto[call[c].entry.local] = r

(* For clients that make one call per name at a time, a name keeps its     *)
(* session until that has ended, on one target, and is given up only after *)
(* its session is closed.                                                  *)
Registry == INSTANCE SessionNames WITH
  Unbound <- NoEntry,
  bound <- [n \in Names |->
              IF sessions[n] = NoEntry THEN NoEntry
              ELSE [target |-> sessions[n].target, remote |-> sessions[n].remote]],
  over <- {r \in Remotes : status[r] \in {"dead", "gone"}}

ImplementsSessionNames == Registry!NamesSpec

=============================================================================
