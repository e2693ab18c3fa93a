----------------------------- MODULE TaskManager -----------------------------
(***************************************************************************)
(* The persistent task manager of src/task-manager.mjs: concurrent calls   *)
(* of task_start, task_status, task_output, task_wait and task_cancel in   *)
(* one process, interleaved at every await, with restarts of the process.  *)
(*                                                                         *)
(* A call keeps the record it loaded in rec and writes that record back    *)
(* whole (stateStore.putTask), so what it writes may be stale.  The store  *)
(* itself is atomic (see StateStore).                                      *)
(*                                                                         *)
(* External, from how the code uses it: the upstream PTY server (handles   *)
(* onto remote sessions) and the remote host (persistent sessions, the     *)
(* command in them, its output).  Output is counted in chunks; the         *)
(* completion marker is the last two of them, so that a bounded read can   *)
(* split it.                                                               *)
(***************************************************************************)
EXTENDS TaskStates, Naturals

CONSTANTS
  Calls,                  \* concurrent tool calls
  Requests,               \* operations that clients call
  Tasks,                  \* task ids, drawn at random by the code
  Remotes,                \* persistent sessions of the remote host
  Handles,                \* local session ids of the upstream server
  NoTask, NoRecord, NoRemote,
  MAX_BUFFER_DRAIN_READS, \* bound of the drain loops
  MaxBody,                \* bound: chunks of output before the marker
  ReportsRemoteId,        \* whether create_ssh_session returns remote_session_id
  MayCrash,               \* whether this process may restart
  MayFail,                \* whether upstream calls and writes may fail
  MayBreak,               \* whether the connection behind a handle may break
  MayTruncate             \* whether a response may leave out output that it should begin with

Ops == {"start", "status", "output", "wait", "cancel", "terminate"}

ASSUME BoundsAssumption ==
  /\ Requests \subseteq Ops
  /\ MAX_BUFFER_DRAIN_READS \in Nat \ {0}
  /\ MaxBody \in Nat
  /\ {ReportsRemoteId, MayCrash, MayFail, MayBreak, MayTruncate} \subseteq BOOLEAN

VARIABLES
  tasks,      \* tasks[t]: the persisted record
  used,       \* task ids drawn so far
  status,     \* status[r]: "free", "alive" or "gone"
  job,        \* job[r]: the task whose command was typed into r
  body,       \* body[r]: chunks the command has printed
  ended,      \* ended[r]: "no", "aborted" without a marker, or its exit
  hit,        \* hit[r]: a Ctrl-C or a close reached r
  onto,       \* onto[h]: the remote session behind handle h
  base,       \* base[h]: where in r's output the buffer of h begins
  up,         \* handles the upstream server still holds
  call        \* call[c]: the progress of call c

vars == <<tasks, used, status, job, body, ended, hit, onto, base, up, call>>
host == <<status, job, body, ended, hit>>
links == <<onto, base, up>>

(* What marker_fragment holds: nothing, a beginning of the marker line (or *)
(* what looks like one) that ends at the cursor, or one that was read      *)
(* somewhere else than just before the cursor.                             *)
Fragments == {"none", "kept", "torn"}

(* A record under construction may not know its remote session yet.  The   *)
(* field guessed is not the code's: it remembers an exit code that was     *)
(* read off a torn fragment and what follows the cursor.                   *)
Draft == [state : TaskState, exit_code : Exits \cup {NoExit}, cursor : Nat,
          fragment : Fragments, guessed : BOOLEAN,
          session : Handles, remote : Remotes \cup {NoRemote}]
Record == {rec \in Draft : rec.remote \in Remotes}

StartLabels == {"sList", "sCreate", "sDiff", "sPutQueued", "sSend", "sPutRunning",
                "sClose", "sUndo", "sDelete"}
PutLabels == {"putLost", "putRecovered", "putChunk", "putExit", "putCancelled"}
Labels == {"idle", "load", "list", "probe", "attach", "read", "waitFor", "ctrlC",
           "cancelWait", "close"} \cup StartLabels \cup PutLabels

ASSUME SentinelAssumption ==
  /\ NoTask \notin Tasks
  /\ NoRemote \notin Remotes
  /\ NoRecord \notin Draft

Call == [pc : Labels, op : Ops, task : Tasks \cup {NoTask},
         rec : Draft \cup {NoRecord}, stage : {"enter", "drain", "final"},
         more : BOOLEAN, reads : Nat, before : SUBSET Remotes]

TypeOK ==
  /\ tasks \in [Tasks -> Record \cup {NoRecord}]
  /\ used \in SUBSET Tasks
  /\ status \in [Remotes -> {"free", "alive", "gone"}]
  /\ job \in [Remotes -> Tasks \cup {NoTask}]
  /\ body \in [Remotes -> Nat]
  /\ ended \in [Remotes -> Exits \cup {"no", "aborted"}]
  /\ hit \in [Remotes -> BOOLEAN]
  /\ onto \in [Handles -> Remotes \cup {NoRemote}]
  /\ base \in [Handles -> Nat]
  /\ up \in SUBSET Handles
  /\ call \in [Calls -> Call]

Idle == [pc |-> "idle", op |-> "status", task |-> NoTask, rec |-> NoRecord,
         stage |-> "enter", more |-> FALSE, reads |-> 0, before |-> {}]

Init ==
  /\ tasks = [t \in Tasks |-> NoRecord]
  /\ used = {}
  /\ status = [r \in Remotes |-> "free"]
  /\ job = [r \in Remotes |-> NoTask]
  /\ body = [r \in Remotes |-> 0]
  /\ ended = [r \in Remotes |-> "no"]
  /\ hit = [r \in Remotes |-> FALSE]
  /\ onto = [h \in Handles |-> NoRemote]
  /\ base = [h \in Handles |-> 0]
  /\ up = {}
  /\ call = [c \in Calls |-> Idle]

-----------------------------------------------------------------------------
(* Helpers: control of a call, the remote output, the upstream calls.      *)

At(c, label) == call[c].pc = label
Goto(c, label) == call' = [call EXCEPT ![c].pc = label]
GotoWith(c, label, rec) == call' = [call EXCEPT ![c].pc = label, ![c].rec = rec]
Return(c) == call' = [call EXCEPT ![c] = Idle]

(* list_remote_sessions, without the entries that are not alive.           *)
listRemoteSessionIds == {r \in Remotes : status[r] = "alive"}

OutputLength(r) == body[r] + IF ended[r] \in Exits THEN 2 ELSE 0
BufferLength(h) == OutputLength(onto[h]) - base[h]

(* The whole marker line of task t is in the buffer of handle h.           *)
MarkerInBuffer(h, t) ==
  /\ job[onto[h]] = t
  /\ ended[onto[h]] \in Exits
  /\ base[h] <= body[onto[h]]

(* create_ssh_session makes handle h onto r; the buffer of a reattached    *)
(* handle begins wherever the remote replay does.                          *)
Connect(h, r, start) ==
  /\ onto[h] = NoRemote
  /\ onto' = [onto EXCEPT ![h] = r]
  /\ base' = [base EXCEPT ![h] = start]
  /\ up' = up \cup {h}

(* create_ssh_session is refused, as it is when the model has no handle or *)
(* remote session left.                                                    *)
NoHandleLeft == \A h \in Handles : onto[h] # NoRemote
CannotCreate == MayFail \/ NoHandleLeft \/ \A r \in Remotes : status[r] # "free"

(* close_session ends the remote session and its handle.                   *)
CloseSession(h) ==
  /\ h \in up
  /\ up' = up \ {h}
  /\ status' = [status EXCEPT ![onto[h]] = "gone"]
  /\ hit' = [hit EXCEPT ![onto[h]] = TRUE]
  /\ UNCHANGED <<job, body, ended, onto, base>>

(* A close whose failure the code swallows: .catch(() => {}).              *)
TryClose(h) ==
  \/ CloseSession(h)
  \/ (MayFail \/ h \notin up) /\ UNCHANGED <<host, links>>

Put(c, t) == tasks' = [tasks EXCEPT ![t] = call[c].rec]

-----------------------------------------------------------------------------
(* task_start.  The record under construction is call[c].rec.              *)

StartCall(c, t) ==
  /\ "start" \in Requests
  /\ At(c, "idle")
  /\ t \notin used
  /\ used' = used \cup {t}
  /\ call' = [call EXCEPT ![c] = [Idle EXCEPT !.pc = "sList", !.op = "start", !.task = t]]
  /\ UNCHANGED <<tasks, host, links>>

StartList(c) ==
  /\ At(c, "sList")
  /\ call' = [call EXCEPT ![c].pc = "sCreate", ![c].before = listRemoteSessionIds]
  /\ UNCHANGED <<tasks, used, host, links>>

Queued(h, r) ==
  [state |-> "queued", exit_code |-> NoExit, cursor |-> 0,
   fragment |-> "none", guessed |-> FALSE, session |-> h, remote |-> r]

(* Mutant: the session a response does not name is not looked for.         *)
StartCreate_NoDiff(c) ==
  /\ At(c, "sCreate")
  /\ \E r \in Remotes, h \in Handles :
       /\ status[r] = "free"
       /\ status' = [status EXCEPT ![r] = "alive"]
       /\ Connect(h, r, 0)
       /\ GotoWith(c, "sPutQueued", Queued(h, IF ReportsRemoteId THEN r ELSE NoRemote))
  /\ UNCHANGED <<tasks, used, job, body, ended, hit>>

(* create_ssh_session; the response may or may not name the remote session.*)
(* A lost response leaves the code no session id to close.                 *)
StartCreate(c) ==
  /\ At(c, "sCreate")
  /\ \/ \E r \in Remotes, h \in Handles :
          /\ status[r] = "free"
          /\ status' = [status EXCEPT ![r] = "alive"]
          /\ Connect(h, r, 0)
          /\ \/ IF ReportsRemoteId
                  THEN GotoWith(c, "sPutQueued", Queued(h, r))
                  ELSE GotoWith(c, "sDiff", Queued(h, NoRemote))
             \/ MayFail /\ Return(c)
     \/ CannotCreate /\ Return(c) /\ UNCHANGED <<status, links>>
  /\ UNCHANGED <<tasks, used, job, body, ended, hit>>

(* Mutants: an ambiguous start forgets to close its session; a start takes *)
(* any of several new sessions; a start ignores the list taken before.     *)
StartDiff_NoClose(c) ==
  /\ At(c, "sDiff")
  /\ LET new == listRemoteSessionIds \ call[c].before IN
       IF \E r \in new : new = {r}
         THEN GotoWith(c, "sPutQueued", [call[c].rec EXCEPT !.remote = CHOOSE r \in new : TRUE])
         ELSE Return(c)
  /\ UNCHANGED <<tasks, used, host, links>>

StartDiff_AnyNew(c) ==
  /\ At(c, "sDiff")
  /\ \E r \in listRemoteSessionIds \ call[c].before :
       GotoWith(c, "sPutQueued", [call[c].rec EXCEPT !.remote = r])
  /\ UNCHANGED <<tasks, used, host, links>>

(* Without a reported id, exactly one session must have appeared.          *)
StartDiff(c) ==
  /\ At(c, "sDiff")
  /\ LET new == listRemoteSessionIds \ call[c].before IN
       \/ \E r \in new :
            /\ new = {r}
            /\ GotoWith(c, "sPutQueued", [call[c].rec EXCEPT !.remote = r])
       \/ /\ MayFail \/ \A r \in new : new # {r}
          /\ Goto(c, "sClose")
  /\ UNCHANGED <<tasks, used, host, links>>

StartPutQueued(c) ==
  /\ At(c, "sPutQueued")
  /\ \/ Put(c, call[c].task) /\ Goto(c, "sSend")
     \/ MayFail /\ UNCHANGED tasks /\ Goto(c, "sClose")
  /\ UNCHANGED <<used, host, links>>

(* send_input types the wrapped command; a failure may come after the      *)
(* command has reached the session.                                        *)
StartSend(c) ==
  /\ At(c, "sSend")
  /\ LET h == call[c].rec.session
         r == onto[h]
     IN \/ /\ h \in up /\ status[r] = "alive"
           /\ job' = [job EXCEPT ![r] = call[c].task]
           /\ \/ GotoWith(c, "sPutRunning", transitionTask(call[c].rec, "started", NoExit))
              \/ MayFail /\ Goto(c, "sUndo")
        \/ /\ MayFail \/ h \notin up \/ status[r] # "alive"
           /\ Goto(c, "sUndo")
           /\ job' = job
  /\ UNCHANGED <<tasks, used, status, body, ended, hit, links>>

StartPutRunning(c) ==
  /\ At(c, "sPutRunning")
  /\ \/ Put(c, call[c].task) /\ Return(c)
     \/ MayFail /\ UNCHANGED tasks /\ Goto(c, "sUndo")
  /\ UNCHANGED <<used, host, links>>

(* The catch blocks: close the new session, and remove the record if it    *)
(* was written.  Failures of both are swallowed.                           *)
StartClose(c) ==
  /\ call[c].pc \in {"sClose", "sUndo"}
  /\ TryClose(call[c].rec.session)
  /\ IF At(c, "sClose") THEN Return(c) ELSE Goto(c, "sDelete")
  /\ UNCHANGED <<tasks, used>>

StartDelete(c) ==
  /\ At(c, "sDelete")
  /\ \/ tasks' = [tasks EXCEPT ![call[c].task] = NoRecord]
     \/ MayFail /\ UNCHANGED tasks
  /\ Return(c)
  /\ UNCHANGED <<used, host, links>>

-----------------------------------------------------------------------------
(* task_status, task_output, task_wait and task_cancel on a known task.    *)

Begin(c, op, t) ==
  /\ At(c, "idle")
  /\ tasks[t] # NoRecord
  /\ call' = [call EXCEPT ![c] = [Idle EXCEPT !.pc = "load", !.op = op, !.task = t,
                                    !.stage = IF op = "output" THEN "drain" ELSE "enter"]]
  /\ UNCHANGED <<tasks, used, host, links>>

(* loadTask.  task_status, task_wait and task_cancel return a terminal     *)
(* record as it is; wait and cancel then load again in readTaskOutput,     *)
(* which goes on with a terminal record unless it is lost.                 *)
Load(c) ==
  /\ At(c, "load")
  /\ LET task == tasks[call[c].task]
         stage == call[c].stage
     IN IF \/ task = NoRecord
           \/ stage = "enter" /\ task.state \notin ActiveStates
           \/ task.state = "lost"
          THEN Return(c)
          ELSE IF stage = "enter" /\ call[c].op # "status"
            THEN call' = [call EXCEPT ![c].stage = "drain"]
            ELSE GotoWith(c, "list", task)
  /\ UNCHANGED <<tasks, used, host, links>>

(* Mutant: a task whose local handle is gone counts as lost.               *)
List_ByHandle(c) ==
  /\ At(c, "list")
  /\ LET rec == call[c].rec IN
       IF rec.session \in up
         THEN Goto(c, "probe")
         ELSE IF rec.state \in ActiveStates
           THEN GotoWith(c, "putLost", transitionTask(rec, "lost", NoExit))
           ELSE Return(c)
  /\ UNCHANGED <<tasks, used, host, links>>

(* ensureTaskSession: the recorded remote session must be alive ...        *)
List(c) ==
  /\ At(c, "list")
  /\ LET rec == call[c].rec IN
       IF rec.remote \in listRemoteSessionIds
         THEN Goto(c, "probe")
         ELSE IF rec.state \in ActiveStates
           THEN GotoWith(c, "putLost", transitionTask(rec, "lost", NoExit))
           ELSE Return(c)
  /\ UNCHANGED <<tasks, used, host, links>>

(* What the caller of ensureTaskSession does with the session.             *)
Ensured(c) ==
  \/ call[c].op = "status" /\ Return(c)
  \/ call[c].op # "status" /\ call[c].stage = "drain" /\ Goto(c, "read")
  \/ call[c].op = "wait" /\ call[c].stage = "final" /\ Goto(c, "waitFor")
  \/ call[c].op \in {"cancel", "terminate"} /\ call[c].stage = "final" /\ Goto(c, "ctrlC")

(* ... and so must the local handle, which a failing probe takes for dead; *)
Probe(c) ==
  /\ At(c, "probe")
  /\ \/ call[c].rec.session \in up /\ Ensured(c)
     \/ (MayFail \/ call[c].rec.session \notin up) /\ Goto(c, "attach")
  /\ UNCHANGED <<tasks, used, host, links>>

(* otherwise a new handle is attached to the recorded remote session only. *)
(* The record keeps cursor and fragment, wherever the new buffer begins.   *)
Reattached(rec, h, start) ==
  [rec EXCEPT !.session = h,
              !.fragment = IF @ = "kept" /\ start # base[rec.session] THEN "torn" ELSE @]

Attach(c) ==
  /\ At(c, "attach")
  /\ LET r == call[c].rec.remote IN
       \/ /\ status[r] = "alive"
          /\ \E h \in Handles, start \in 0..OutputLength(r) :
               /\ Connect(h, r, start)
               /\ GotoWith(c, "putRecovered", Reattached(call[c].rec, h, start))
       \/ (status[r] # "alive" \/ NoHandleLeft) /\ Return(c) /\ UNCHANGED links
  /\ UNCHANGED <<tasks, used, host>>

PutRecovered(c) ==
  /\ At(c, "putRecovered")
  /\ Put(c, call[c].task)
  /\ Ensured(c)
  /\ UNCHANGED <<used, host, links>>

(* transitionWithExit: an exit is also accepted from queued, and ignored   *)
(* once the task is terminal.                                              *)
transitionWithExit(rec, exit) ==
  IF rec.state \notin ActiveStates THEN rec
  ELSE LET running == IF rec.state = "queued"
                        THEN transitionTask(rec, "started", NoExit) ELSE rec
       IN transitionTask(running, "exited", exit)

(* What applyOutputChunk makes of output from..n of a buffer, the cursor   *)
(* being n: it looks for the marker line of task t in the fragment glued   *)
(* to that output.  Glued to what does not follow it, a fragment may read  *)
(* as any exit, as a longer fragment, or as nothing; a marker line that is *)
(* whole in the output is found all the same, but after the glued line.    *)
Chunks(rec, t, from, n) ==
  LET r == onto[rec.session]
      first == base[rec.session] + from
      last == base[rec.session] + n
      printed == job[r] = t /\ ended[r] \in Exits
      torn == rec.fragment = "torn" \/ (rec.fragment = "kept" /\ from # rec.cursor)
      whole == printed /\ first <= body[r] /\ last = body[r] + 2
      joined == printed /\ rec.fragment = "kept" /\ first = body[r] + 1 /\ last = body[r] + 2
      tail == IF printed /\ first <= body[r] /\ last = body[r] + 1 THEN {"kept"}
              ELSE IF last <= body[r] THEN {"none", "kept"} ELSE {"none"}
      Completed(e) == [transitionWithExit(rec, e) EXCEPT !.cursor = n, !.fragment = "none"]
      Guessed(e) == [Completed(e) EXCEPT !.guessed = @ \/ rec.state \in ActiveStates]
      Pending(f) == [rec EXCEPT !.cursor = n, !.fragment = f]
  IN CASE first = last -> {Pending(IF torn THEN "torn" ELSE rec.fragment)}
       [] first # last /\ torn ->
            {Guessed(e) : e \in Exits} \cup
            IF whole THEN {Completed(ended[r])}
                     ELSE {Pending(f) : f \in tail \cup {"none", "torn"}}
       [] first # last /\ ~torn /\ (whole \/ joined) -> {Completed(ended[r])}
       [] OTHER -> {Pending(f) : f \in tail}

(* Mutant: a cursor behind the recorded one is accepted.                   *)
Read_AnyCursor(c) ==
  /\ At(c, "read")
  /\ LET rec == call[c].rec IN
       \E n \in 0..BufferLength(rec.session) :
         /\ rec.session \in up
         /\ \E next \in Chunks(rec, call[c].task, n, n) :
              call' = [call EXCEPT ![c].pc = "putChunk", ![c].rec = next,
                                     ![c].more = n < BufferLength(rec.session)]
  /\ UNCHANGED <<tasks, used, host, links>>

(* read_output since the stored cursor; a truncated response begins later. *)
(* A response whose cursor is behind the recorded one is refused.          *)
Read(c) ==
  /\ At(c, "read")
  /\ LET rec == call[c].rec
         h == rec.session
     IN IF h \in up
          THEN \E n \in 0..BufferLength(h) :
                 /\ n >= rec.cursor \/ n = BufferLength(h)
                 /\ IF n < rec.cursor
                      THEN Return(c)
                      ELSE \E from \in IF MayTruncate THEN rec.cursor..n ELSE {rec.cursor} :
                             \E next \in Chunks(rec, call[c].task, from, n) :
                               call' = [call EXCEPT
                                          ![c].pc = "putChunk",
                                          ![c].rec = next,
                                          ![c].more = n < BufferLength(h)]
          ELSE Return(c)
  /\ UNCHANGED <<tasks, used, host, links>>

(* Mutant: the drain loop goes on for as long as there is more.            *)
PutChunk_NoBound(c) ==
  /\ At(c, "putChunk")
  /\ Put(c, call[c].task)
  /\ IF call[c].op = "output" \/ call[c].rec.state \notin ActiveStates
       THEN Return(c)
       ELSE IF call[c].more
         THEN Goto(c, "load")
         ELSE call' = [call EXCEPT ![c].pc = "list", ![c].stage = "final"]
  /\ UNCHANGED <<used, host, links>>

(* putTask, then the drain loop of wait and cancel: reload and read again  *)
(* while there is more, but not more than MAX_BUFFER_DRAIN_READS times.    *)
PutChunk(c) ==
  /\ At(c, "putChunk")
  /\ Put(c, call[c].task)
  /\ IF call[c].op = "output" \/ call[c].rec.state \notin ActiveStates
       THEN Return(c)
       ELSE LET reads == call[c].reads + 1 IN
            IF call[c].more /\ reads < MAX_BUFFER_DRAIN_READS
              THEN call' = [call EXCEPT ![c].pc = "load", ![c].reads = reads, ![c].more = FALSE]
              ELSE call' = [call EXCEPT ![c].pc = "list", ![c].stage = "final",
                                          ![c].reads = 0, ![c].more = FALSE]
  /\ UNCHANGED <<used, host, links>>

(* Mutant: a wait that timed out counts as a match.                        *)
WaitFor_NoMatch(c) ==
  /\ At(c, "waitFor")
  /\ GotoWith(c, "putExit", transitionWithExit(call[c].rec, "zero"))
  /\ UNCHANGED <<tasks, used, host, links>>

(* The bounded wait_for on the marker: matched, or timed out.              *)
WaitFor(c) ==
  /\ At(c, "waitFor")
  /\ LET rec == call[c].rec
         h == rec.session
     IN \/ /\ h \in up /\ MarkerInBuffer(h, call[c].task)
           /\ GotoWith(c, "putExit", transitionWithExit(rec, ended[onto[h]]))
        \/ Return(c)
  /\ UNCHANGED <<tasks, used, host, links>>

(* Mutant: a Ctrl-C that could not be sent is ignored.                     *)
CtrlC_Unchecked(c) ==
  /\ At(c, "ctrlC")
  /\ Goto(c, "cancelWait")
  /\ LET r == onto[call[c].rec.session] IN hit' = hit \/ hit' = [hit EXCEPT ![r] = TRUE]
  /\ UNCHANGED <<tasks, used, status, job, body, ended, links>>

(* Ctrl-C: the command may die with its marker, die without one, or go on. *)
CtrlC(c) ==
  /\ At(c, "ctrlC")
  /\ LET h == call[c].rec.session
         r == onto[h]
     IN IF h \in up
          THEN /\ hit' = [hit EXCEPT ![r] = TRUE]
               /\ \/ ended' = ended
                  \/ /\ ended[r] = "no" /\ job[r] # NoTask /\ status[r] = "alive"
                     /\ \E e \in {"nonzero", "aborted"} : ended' = [ended EXCEPT ![r] = e]
               /\ Goto(c, "cancelWait")
          ELSE Return(c) /\ UNCHANGED <<hit, ended>>
  /\ UNCHANGED <<tasks, used, status, job, body, links>>

Cancelled(c) ==
  GotoWith(c, "putCancelled", transitionTask(call[c].rec, "cancelled", NoExit))

(* A timeout without terminate_session is an error and writes nothing.     *)
CancelWait(c) ==
  /\ At(c, "cancelWait")
  /\ LET h == call[c].rec.session IN
       \/ h \in up /\ MarkerInBuffer(h, call[c].task) /\ Cancelled(c)
       \/ IF call[c].op = "terminate" /\ h \in up THEN Goto(c, "close") ELSE Return(c)
  /\ UNCHANGED <<tasks, used, host, links>>

Close(c) ==
  /\ At(c, "close")
  /\ LET h == call[c].rec.session IN
       \/ CloseSession(h) /\ Cancelled(c)
       \/ h \notin up /\ Return(c) /\ UNCHANGED <<host, links>>
  /\ UNCHANGED <<tasks, used>>

(* The last write of a call.                                               *)
PutLast(c) ==
  /\ call[c].pc \in {"putLost", "putExit", "putCancelled"}
  /\ Put(c, call[c].task)
  /\ Return(c)
  /\ UNCHANGED <<used, host, links>>

(* Any other upstream call or write may fail, which ends the tool call     *)
(* with an error; what the call did before stays.                          *)
Fail(c) ==
  /\ MayFail
  /\ call[c].pc \in Labels \ ({"idle", "load", "sDiff", "sPutQueued", "sSend"} \cup
                              {"sPutRunning", "sClose", "sUndo", "sDelete"})
  /\ Return(c)
  /\ UNCHANGED <<tasks, used, host, links>>

-----------------------------------------------------------------------------
(* The remote host and the upstream server.                                *)

Running(r) == status[r] = "alive" /\ job[r] # NoTask /\ ended[r] = "no"

PrintOutput(r) ==
  /\ Running(r)
  /\ body[r] < MaxBody
  /\ body' = [body EXCEPT ![r] = @ + 1]
  /\ UNCHANGED <<tasks, used, status, job, ended, hit, links, call>>

Exit(r) ==
  /\ Running(r)
  /\ \E e \in Exits : ended' = [ended EXCEPT ![r] = e]
  /\ UNCHANGED <<tasks, used, status, job, body, hit, links, call>>

(* A remote session dies; the local handles onto it may outlive it.        *)
RemoteDies(r) ==
  /\ status[r] = "alive"
  /\ status' = [status EXCEPT ![r] = "gone"]
  /\ UNCHANGED <<tasks, used, job, body, ended, hit, links, call>>

(* The connection behind a handle breaks, or the upstream server, a process *)
(* of its own, restarts and forgets its handles.                           *)
HandleDies(h) ==
  /\ MayBreak
  /\ h \in up
  /\ up' = up \ {h}
  /\ UNCHANGED <<tasks, used, host, onto, base, call>>

(* The extension process dies and is started again: the persisted records, *)
(* the remote sessions and the upstream server survive, the calls do not.  *)
Crash ==
  /\ MayCrash
  /\ call' = [c \in Calls |-> Idle]
  /\ UNCHANGED <<tasks, used, host, links>>

-----------------------------------------------------------------------------
StartStep(c) ==
  \/ StartList(c) \/ StartCreate(c) \/ StartDiff(c) \/ StartPutQueued(c)
  \/ StartSend(c) \/ StartPutRunning(c) \/ StartClose(c) \/ StartDelete(c)

TaskStep(c) ==
  \/ Load(c) \/ List(c) \/ Probe(c) \/ Attach(c) \/ PutRecovered(c)
  \/ Read(c) \/ PutChunk(c) \/ WaitFor(c) \/ CtrlC(c) \/ CancelWait(c)
  \/ Close(c) \/ PutLast(c)

Step(c) == StartStep(c) \/ TaskStep(c) \/ Fail(c)

Environment ==
  \/ \E r \in Remotes : PrintOutput(r) \/ Exit(r) \/ RemoteDies(r)
  \/ \E h \in Handles : HandleDies(h)
  \/ Crash

Next ==
  \/ \E c \in Calls, t \in Tasks : StartCall(c, t)
  \/ \E c \in Calls, t \in Tasks, op \in Requests \ {"start"} : Begin(c, op, t)
  \/ \E c \in Calls : Step(c)
  \/ Environment

Spec == Init /\ [][Next]_vars

(* Every upstream call and every write is answered: requests carry a       *)
(* timeout, and the store answers every update (see StateStore).           *)
FairSpec == Spec /\ \A c \in Calls : WF_vars(Step(c))

-----------------------------------------------------------------------------
(* succeeded and failed are claimed only for a task whose command really   *)
(* ended with that exit, whatever marker halves, stale cursors and stale   *)
(* records the reads went through, but for one case, which the record is   *)
(* held to have guessed: a reattach or a truncated read moved the cursor   *)
(* away from the fragment, and the code glued the two.                     *)
ExitStateIsTruthful ==
  \A t \in Tasks :
    tasks[t] # NoRecord /\ tasks[t].state \in {"succeeded", "failed"} =>
      /\ tasks[t].state = mapExitCodeToTaskState(tasks[t].exit_code)
      /\ tasks[t].guessed \/ \E r \in Remotes :
                               job[r] = t /\ ended[r] = tasks[t].exit_code

(* lost is claimed only for a task whose remote session is gone for good,  *)
(* never for one that merely lost its local handle.                        *)
LostMeansGone ==
  \A t \in Tasks :
    tasks[t] # NoRecord /\ tasks[t].state = "lost" => status[tasks[t].remote] = "gone"

(* cancelled is claimed of a command that was typed only after a Ctrl-C or *)
(* a close reached the session it was typed into.                          *)
CancelledWasInterrupted ==
  \A t \in Tasks, r \in Remotes :
    tasks[t] # NoRecord /\ tasks[t].state = "cancelled" /\ job[r] = t => hit[r]

(* A command that was typed runs in the persistent session its record      *)
(* names.  A record may name the session of an overlapping start, but only *)
(* when its own died before it was listed: its command is never typed.     *)
RunsInRecordedSession ==
  \A r \in Remotes, t \in Tasks :
    job[r] = t /\ tasks[t] # NoRecord => tasks[t].remote = r

(* What the first two promises above rest on, an inductive invariant.      *)
(* Which fields of a call are set where:                                   *)
CallShape ==
  \A c \in Calls :
    /\ call[c].pc # "idle" \/ call[c].rec # NoRecord => call[c].task \in Tasks
    /\ call[c].pc \notin {"idle", "load", "sList", "sCreate"} => call[c].rec # NoRecord
    /\ call[c].rec \in Record \cup {NoRecord} \/ call[c].pc \in {"sDiff", "sClose"}

(* a command is typed only into the fresh session its own start made;      *)
Unsent == {"sDiff", "sPutQueued", "sSend"}
SessionsAreFresh ==
  /\ \A h \in up : onto[h] \in Remotes
  /\ \A r \in Remotes :
       status[r] = "free" => job[r] = NoTask /\ \A h \in Handles : onto[h] # r
  /\ \A c \in Calls : call[c].pc \in Unsent =>
       /\ call[c].rec.state = "queued"
       /\ onto[call[c].rec.session] \in Remotes
       /\ job[onto[call[c].rec.session]] = NoTask
       /\ \A d \in Calls \ {c} : call[d].pc \in Unsent =>
            onto[call[d].rec.session] # onto[call[c].rec.session]

(* and what is true of the stored records is true of the copies in flight, *)
(* however stale they are.                                                 *)
IsTrue(rec, t) ==
  /\ rec.state \in {"succeeded", "failed"} =>
       /\ rec.state = mapExitCodeToTaskState(rec.exit_code)
       /\ rec.exit_code \in Exits
       /\ rec.guessed \/ \E r \in Remotes : job[r] = t /\ ended[r] = rec.exit_code
  /\ rec.remote \in Remotes => status[rec.remote] # "free"
  /\ rec.state = "lost" => rec.remote \in Remotes /\ status[rec.remote] = "gone"

RecordsAreTrue ==
  /\ \A t \in Tasks : tasks[t] # NoRecord => IsTrue(tasks[t], t)
  /\ \A c \in Calls : call[c].rec # NoRecord => IsTrue(call[c].rec, call[c].task)

TaskInv == TypeOK /\ CallShape /\ SessionsAreFresh /\ RecordsAreTrue

(* A start that does not succeed closes the session it made: as long as    *)
(* closing works and connections hold, every living session with a handle  *)
(* belongs to a record or to a start still at work on it.                  *)
Working(c, r) ==
  call[c].pc \in StartLabels /\ call[c].rec # NoRecord /\ onto[call[c].rec.session] = r

NoOrphanSession ==
  \A r \in {onto[h] : h \in up} \cap listRemoteSessionIds :
    \/ \E t \in Tasks : tasks[t] # NoRecord /\ tasks[t].remote = r
    \/ \E c \in Calls : Working(c, r)

(* The persisted records go through the lifecycle of task-model.mjs: no    *)
(* step leaves a terminal state, goes backward or moves a cursor back.     *)
Life(t) ==
  IF tasks[t] = NoRecord
    THEN [state |-> "absent", exit_code |-> NoExit, cursor |-> 0]
    ELSE [state |-> tasks[t].state, exit_code |-> tasks[t].exit_code,
          cursor |-> tasks[t].cursor]

Lifecycle == INSTANCE TaskLifecycle WITH
  life <- [t \in Tasks |-> Life(t)],
  Cursors <- 0..(MaxBody + 2)

FollowsLifecycle == Lifecycle!LifeSpec

(* Every tool call returns, however much output the command keeps making.  *)
CallsReturn == \A c \in Calls : ~At(c, "idle") ~> At(c, "idle")
=============================================================================
