------------------------- MODULE TaskManager_proofs --------------------------
(***************************************************************************)
(* Proofs about TaskManager for every number of concurrent calls, tasks,   *)
(* sessions and handles, with crashes, failures and broken connections:    *)
(* what a record claims about the command and its session is true, and the *)
(* command runs in the session the record names; no session is left over   *)
(* while closing works; and with one call per task at a time its record    *)
(* goes through the lifecycle.                                             *)
(***************************************************************************)
EXTENDS TaskManager, Integers, TLAPS

-----------------------------------------------------------------------------
(* What the transitions of task-model.mjs do to a record.                  *)

LEMMA TransitionType ==
  ASSUME NEW rec \in Draft,
         NEW event \in {"started", "cancelled", "lost"}
  PROVE  LET next == transitionTask(rec, event, NoExit) IN
         /\ next \in Draft
         /\ next.remote = rec.remote
         /\ next.session = rec.session
         /\ next.guessed = rec.guessed
         /\ next.state = IF event = "started" THEN "running" ELSE event
BY DEF Draft, transitionTask, TaskState, ActiveStates, TerminalStates

LEMMA ExitType ==
  ASSUME NEW rec \in Draft, NEW exit \in Exits
  PROVE  LET next == transitionWithExit(rec, exit) IN
         /\ next \in Draft
         /\ next.remote = rec.remote
         /\ next.session = rec.session
         /\ next.guessed = rec.guessed
         /\ rec.state \notin ActiveStates => next = rec
         /\ rec.state \in ActiveStates =>
              next.state = mapExitCodeToTaskState(exit) /\ next.exit_code = exit
<1>1. CASE rec.state \notin ActiveStates
  BY <1>1 DEF transitionWithExit
<1>2. CASE rec.state = "queued"
  <2> DEFINE running == transitionTask(rec, "started", NoExit)
  <2>1. /\ running \in Draft /\ running.remote = rec.remote /\ running.session = rec.session
        /\ running.guessed = rec.guessed
    BY TransitionType
  <2> HIDE DEF running
  <2>2. transitionWithExit(rec, exit) = transitionTask(running, "exited", exit)
    BY <1>2 DEF transitionWithExit, ActiveStates, running
  <2> QED
    BY <1>2, <2>1, <2>2 DEF ActiveStates, transitionTask, Draft, mapExitCodeToTaskState,
       TaskState, TerminalStates, Exits
<1>3. CASE rec.state = "running"
  <2>1. transitionWithExit(rec, exit) = transitionTask(rec, "exited", exit)
    BY <1>3 DEF transitionWithExit, ActiveStates
  <2> QED
    BY <1>3, <2>1 DEF ActiveStates, transitionTask, Draft, mapExitCodeToTaskState, TaskState,
       TerminalStates, Exits
<1> QED
  BY <1>1, <1>2, <1>3 DEF ActiveStates

LEMMA RecordType == \A rec : rec \in Record <=> rec \in Draft /\ rec.remote \in Remotes
BY DEF Record

(* What a read of the output makes of a record: nothing but cursor and     *)
(* fragment changes, or the command's own exit is recorded, or a guess.    *)
LEMMA ChunkShape ==
  ASSUME NEW rec \in Draft, NEW t, NEW from, NEW n \in Nat,
         NEW next \in Chunks(rec, t, from, n)
  PROVE  LET r == onto[rec.session] IN
         \E y \in Draft, f \in Fragments, g \in BOOLEAN :
           /\ next = [y EXCEPT !.cursor = n, !.fragment = f, !.guessed = g]
           /\ \/ y = rec /\ g = rec.guessed
              \/ \E e \in Exits : /\ y = transitionWithExit(rec, e)
                                  /\ rec.state \in ActiveStates
                                  /\ g \/ (job[r] = t /\ ended[r] = e)
<1> DEFINE r == onto[rec.session]
           Completed(e) == [transitionWithExit(rec, e) EXCEPT !.cursor = n, !.fragment = "none"]
           Guessed(e) == [Completed(e) EXCEPT !.guessed = @ \/ rec.state \in ActiveStates]
           Pending(f) == [rec EXCEPT !.cursor = n, !.fragment = f]
           Goal == \E y \in Draft, f \in Fragments, g \in BOOLEAN :
                     /\ next = [y EXCEPT !.cursor = n, !.fragment = f, !.guessed = g]
                     /\ \/ y = rec /\ g = rec.guessed
                        \/ \E e \in Exits : /\ y = transitionWithExit(rec, e)
                                            /\ rec.state \in ActiveStates
                                            /\ g \/ (job[r] = t /\ ended[r] = e)
<1>1. \/ \E f \in Fragments : next = Pending(f)
      \/ job[r] = t /\ ended[r] \in Exits /\ next = Completed(ended[r])
      \/ \E e \in Exits : next = Guessed(e)
  BY DEF Chunks, Draft, Fragments
<1>2. ASSUME NEW f \in Fragments, next = Pending(f) PROVE Goal
  <2>1. Pending(f) = [rec EXCEPT !.cursor = n, !.fragment = f, !.guessed = rec.guessed]
        /\ rec.guessed \in BOOLEAN
    BY DEF Draft
  <2> QED
    BY <1>2, <2>1
<1>3. ASSUME NEW e \in Exits PROVE
        LET y == transitionWithExit(rec, e) IN
        /\ y \in Draft /\ rec.guessed \in BOOLEAN /\ "none" \in Fragments
        /\ Completed(e) = [y EXCEPT !.cursor = n, !.fragment = "none", !.guessed = rec.guessed]
        /\ Guessed(e) = [y EXCEPT !.cursor = n, !.fragment = "none",
                                  !.guessed = rec.guessed \/ rec.state \in ActiveStates]
        /\ rec.state \notin ActiveStates => y = rec
  <2> DEFINE y == transitionWithExit(rec, e)
  <2>1. y \in Draft /\ y.guessed = rec.guessed /\ (rec.state \notin ActiveStates => y = rec)
    BY ExitType
  <2> HIDE DEF y
  <2>2. rec.guessed \in BOOLEAN /\ "none" \in Fragments
    BY DEF Draft, Fragments
  <2>3. [y EXCEPT !.cursor = n, !.fragment = "none"]
          = [y EXCEPT !.cursor = n, !.fragment = "none", !.guessed = rec.guessed]
    BY <2>1 DEF Draft
  <2>4. [[y EXCEPT !.cursor = n, !.fragment = "none"]
           EXCEPT !.guessed = @ \/ rec.state \in ActiveStates]
          = [y EXCEPT !.cursor = n, !.fragment = "none",
                      !.guessed = rec.guessed \/ rec.state \in ActiveStates]
    BY <2>1 DEF Draft
  <2> QED
    BY <2>1, <2>2, <2>3, <2>4 DEF y
<1>4. ASSUME NEW e \in Exits, job[r] = t, ended[r] = e, next = Completed(e) PROVE Goal
  <2>1. PICK y \in Draft :
          /\ y = transitionWithExit(rec, e)
          /\ next = [y EXCEPT !.cursor = n, !.fragment = "none", !.guessed = rec.guessed]
          /\ rec.state \notin ActiveStates => y = rec
    BY <1>3, <1>4
  <2>2. y = rec \/ (rec.state \in ActiveStates /\ job[r] = t /\ ended[r] = e)
    BY <1>4, <2>1
  <2>3. rec.guessed \in BOOLEAN /\ "none" \in Fragments
    BY <1>3
  <2> HIDE DEF r
  <2> QED
    BY <2>1, <2>2, <2>3
<1>5. ASSUME NEW e \in Exits, next = Guessed(e) PROVE Goal
  <2>1. CASE rec.state \in ActiveStates
    BY <1>3, <1>5, <2>1
  <2>2. CASE rec.state \notin ActiveStates
    BY <1>3, <1>5, <2>2
  <2> QED
    BY <2>1, <2>2
<1> QED
  BY <1>1, <1>2, <1>4, <1>5

LEMMA ChunkType ==
  ASSUME NEW rec \in Record, NEW t, NEW from, NEW n \in Nat,
         NEW next \in Chunks(rec, t, from, n)
  PROVE  /\ next \in Record
         /\ next.remote = rec.remote
         /\ next.session = rec.session
         /\ \/ /\ next.state = rec.state /\ next.exit_code = rec.exit_code
               /\ next.guessed = rec.guessed
            \/ LET r == onto[rec.session] IN
               \E e \in Exits :
                 /\ next.state = mapExitCodeToTaskState(e)
                 /\ next.exit_code = e
                 /\ next.guessed \/ (job[r] = t /\ ended[r] = e)
<1> DEFINE r == onto[rec.session]
<1>0. rec \in Draft
  BY RecordType
<1>1. PICK y \in Draft, f \in Fragments, g \in BOOLEAN :
        /\ next = [y EXCEPT !.cursor = n, !.fragment = f, !.guessed = g]
        /\ \/ y = rec /\ g = rec.guessed
           \/ \E e \in Exits : /\ y = transitionWithExit(rec, e)
                               /\ rec.state \in ActiveStates
                               /\ g \/ (job[r] = t /\ ended[r] = e)
  BY <1>0, ChunkShape
<1>2. /\ next \in Draft /\ next.remote = y.remote /\ next.session = y.session
      /\ next.state = y.state /\ next.exit_code = y.exit_code /\ next.guessed = g
  BY <1>1 DEF Draft
<1>3. CASE y = rec /\ g = rec.guessed
  BY <1>2, <1>3, RecordType
<1>4. ASSUME NEW e \in Exits, y = transitionWithExit(rec, e), rec.state \in ActiveStates,
             g \/ (job[r] = t /\ ended[r] = e)
      PROVE  /\ next \in Record
             /\ next.remote = rec.remote
             /\ next.session = rec.session
             /\ next.state = mapExitCodeToTaskState(e)
             /\ next.exit_code = e
             /\ next.guessed \/ (job[r] = t /\ ended[r] = e)
  <2>1. /\ y.remote = rec.remote /\ y.session = rec.session
        /\ y.state = mapExitCodeToTaskState(e) /\ y.exit_code = e
    BY <1>0, <1>4, ExitType
  <2> QED
    BY <1>2, <1>4, <2>1, RecordType
<1> QED
  BY <1>1, <1>3, <1>4

-----------------------------------------------------------------------------
(* How one call changes, and what its new value must satisfy.              *)
Fits(k) ==
  /\ k \in Call
  /\ k.pc # "idle" \/ k.rec # NoRecord => k.task \in Tasks
  /\ k.pc \notin {"idle", "load", "sList", "sCreate"} => k.rec # NoRecord
  /\ k.rec \in Record \cup {NoRecord} \/ k.pc \in {"sDiff", "sClose"}

CallsFit == call \in [Calls -> Call] /\ CallShape

LEMMA AllFit == TypeOK /\ CallShape => \A c \in Calls : Fits(call[c])
BY DEF TypeOK, CallShape, Fits

LEMMA IdleFits == Fits(Idle)
BY DEF Fits, Idle, Call, Labels, Ops

LEMMA CallUpdate ==
  ASSUME TypeOK, CallShape, NEW c \in Calls, NEW k, Fits(k),
         call' = [call EXCEPT ![c] = k]
  PROVE  CallsFit'
BY DEF TypeOK, CallShape, CallsFit, Fits

LEMMA ReturnFits ==
  ASSUME TypeOK, CallShape, NEW c \in Calls, Return(c)
  PROVE  CallsFit'
BY IdleFits, CallUpdate DEF Return

LEMMA GotoFits ==
  ASSUME TypeOK, CallShape, NEW c \in Calls,
         NEW label \in Labels \ {"idle", "sDiff", "sClose"}, Goto(c, label),
         ~At(c, "idle"), call[c].rec \in Record
  PROVE  CallsFit'
<1> DEFINE k == [call[c] EXCEPT !.pc = label]
<1>1. call' = [call EXCEPT ![c] = k]
  BY DEF Goto, TypeOK
<1>2. Fits(k)
  BY SentinelAssumption DEF TypeOK, CallShape, Fits, Call, At, Record
<1> HIDE DEF k
<1> QED
  BY <1>1, <1>2, CallUpdate

LEMMA GotoWithFits ==
  ASSUME TypeOK, CallShape, NEW c \in Calls,
         NEW label \in Labels \ {"idle"}, NEW rec \in Draft, GotoWith(c, label, rec),
         ~At(c, "idle"),
         rec \in Record \/ label \in {"sDiff", "sClose"}
  PROVE  CallsFit'
<1> DEFINE k == [call[c] EXCEPT !.pc = label, !.rec = rec]
<1>1. call' = [call EXCEPT ![c] = k]
  BY DEF GotoWith, TypeOK, Call
<1>2. Fits(k)
  BY SentinelAssumption DEF TypeOK, CallShape, Fits, Call, At, Record
<1> HIDE DEF k
<1> QED
  BY <1>1, <1>2, CallUpdate

-----------------------------------------------------------------------------
(* Types are preserved, action by action.                                  *)
TypeInv == TypeOK /\ CallShape /\ \A h \in up : onto[h] \in Remotes

Rest ==
  /\ tasks \in [Tasks -> Record \cup {NoRecord}]
  /\ used \in SUBSET Tasks
  /\ status \in [Remotes -> {"free", "alive", "gone"}]
  /\ job \in [Remotes -> Tasks \cup {NoTask}]
  /\ body \in [Remotes -> Nat]
  /\ ended \in [Remotes -> Exits \cup {"no", "aborted"}]
  /\ hit \in [Remotes -> BOOLEAN]
  /\ onto \in [Handles -> Remotes \cup {NoRemote}]
  /\ base \in [Handles -> Nat]
  /\ up \in SUBSET Handles
  /\ \A h \in up : onto[h] \in Remotes

LEMMA Split == (TypeInv <=> Rest /\ CallsFit) /\ (TypeInv' <=> Rest' /\ CallsFit')
BY DEF TypeInv, Rest, CallsFit, TypeOK

LEMMA RestSame ==
  ASSUME Rest, UNCHANGED <<tasks, used, host, links>>
  PROVE  Rest'
BY DEF Rest, host, links

LEMMA RestPut ==
  ASSUME Rest, NEW c \in Calls, call[c].task \in Tasks, call[c].rec \in Record,
         Put(c, call[c].task) \/ UNCHANGED tasks, UNCHANGED <<used, host, links>>
  PROVE  Rest'
BY DEF Rest, host, links, Put

LEMMA TryCloseType ==
  ASSUME Rest, NEW h \in Handles, TryClose(h), UNCHANGED <<tasks, used>>
  PROVE  Rest'
BY DEF Rest, TryClose, CloseSession, host, links

LEMMA OutputType ==
  ASSUME Rest, NEW r \in Remotes PROVE OutputLength(r) \in Nat
BY DEF Rest, OutputLength

LEMMA BufferType ==
  ASSUME Rest, NEW h \in up PROVE BufferLength(h) \in Int
<1>1. h \in Handles /\ base[h] \in Nat /\ OutputLength(onto[h]) \in Nat
  BY OutputType DEF Rest
<1> QED
  BY <1>1 DEF BufferLength

LEMMA ConnectType ==
  ASSUME Rest, NEW h \in Handles, NEW r \in Remotes, NEW start \in Nat,
         Connect(h, r, start),
         status' \in [Remotes -> {"free", "alive", "gone"}],
         UNCHANGED <<tasks, used, job, body, ended, hit>>
  PROVE  Rest'
BY DEF Rest, Connect

LEMMA StartTypes ==
  ASSUME TypeInv, NEW c \in Calls, StartStep(c)
  PROVE  TypeInv'
<1> USE SentinelAssumption
<1>0. TypeOK /\ CallShape /\ Rest /\ Fits(call[c])
  BY Split, AllFit DEF TypeInv
<1> SUFFICES Rest' /\ CallsFit'
  BY Split
<1>1. CASE StartList(c)
  <2>1. [call[c] EXCEPT !.pc = "sCreate", !.before = listRemoteSessionIds] \in Call
    BY <1>0 DEF Fits, Call, Labels, StartLabels, listRemoteSessionIds
  <2>2. Fits([call[c] EXCEPT !.pc = "sCreate", !.before = listRemoteSessionIds])
    BY <1>0, <1>1, <2>1 DEF Fits, StartList, At, Call
  <2>3. call' = [call EXCEPT ![c] = [call[c] EXCEPT !.pc = "sCreate", !.before = listRemoteSessionIds]]
    BY <1>0, <1>1 DEF StartList, TypeOK, Call
  <2> QED
    BY <1>0, <1>1, <2>2, <2>3, CallUpdate, RestSame DEF StartList
<1>2. CASE StartCreate(c)
  <2>1. CASE \E r \in Remotes, h \in Handles :
               /\ status' = [status EXCEPT ![r] = "alive"]
               /\ Connect(h, r, 0)
               /\ \/ GotoWith(c, "sPutQueued", Queued(h, r))
                  \/ GotoWith(c, "sDiff", Queued(h, NoRemote))
                  \/ Return(c)
    <3>1. PICK r \in Remotes, h \in Handles :
               /\ status' = [status EXCEPT ![r] = "alive"]
               /\ Connect(h, r, 0)
               /\ \/ GotoWith(c, "sPutQueued", Queued(h, r))
                  \/ GotoWith(c, "sDiff", Queued(h, NoRemote))
                  \/ Return(c)
      BY <2>1
    <3>2. Queued(h, r) \in Record /\ Queued(h, NoRemote) \in Draft
      BY DEF Queued, Record, Draft, Fragments, TaskState, ActiveStates
    <3>3. CallsFit'
      BY <1>0, <1>2, <3>1, <3>2, GotoWithFits, ReturnFits
         DEF StartCreate, At, Labels, StartLabels, Record
    <3> QED
      BY <1>0, <1>2, <3>1, <3>3, ConnectType DEF StartCreate, Rest
  <2>2. CASE Return(c) /\ UNCHANGED <<status, links>>
    BY <1>0, <1>2, <2>2, ReturnFits, RestSame DEF StartCreate, host, links
  <2> QED
    BY <1>2, <2>1, <2>2 DEF StartCreate
<1>3. CASE StartDiff(c)
  <2>1. CASE Goto(c, "sClose")
    <3>1. Fits([call[c] EXCEPT !.pc = "sClose"])
      BY <1>0, <1>3 DEF Fits, Call, Labels, StartLabels, StartDiff, At
    <3> QED
      BY <1>0, <1>3, <2>1, <3>1, CallUpdate, RestSame DEF StartDiff, Goto, TypeOK
  <2>2. CASE \E r \in Remotes : GotoWith(c, "sPutQueued", [call[c].rec EXCEPT !.remote = r])
    <3>1. PICK r \in Remotes : GotoWith(c, "sPutQueued", [call[c].rec EXCEPT !.remote = r])
      BY <2>2
    <3>2. [call[c].rec EXCEPT !.remote = r] \in Record
      BY <1>0, <1>3 DEF Fits, Call, StartDiff, At, Record, Draft
    <3> QED
      BY <1>0, <1>3, <3>1, <3>2, GotoWithFits, RestSame
         DEF StartDiff, Labels, StartLabels, At, Record
  <2> QED
    BY <1>3, <2>1, <2>2 DEF StartDiff, listRemoteSessionIds
<1>4. CASE StartPutQueued(c)
  <2>1. call[c].rec \in Record /\ call[c].task \in Tasks
    BY <1>0, <1>4 DEF Fits, StartPutQueued, At
  <2>2. ASSUME Goto(c, "sClose") PROVE CallsFit'
    <3>1. Fits([call[c] EXCEPT !.pc = "sClose"])
      BY <1>0, <1>4, <2>1 DEF StartPutQueued, At, Fits, Call, Labels, StartLabels
    <3> QED
      BY <1>0, <2>2, <3>1, CallUpdate DEF Goto, TypeOK
  <2>3. ASSUME Goto(c, "sSend") PROVE CallsFit'
    BY <1>0, <1>4, <2>1, <2>3, GotoFits DEF StartPutQueued, At, Labels, StartLabels
  <2>4. CallsFit'
    BY <1>4, <2>2, <2>3 DEF StartPutQueued
  <2> QED
    BY <1>0, <1>4, <2>1, <2>4, RestPut DEF StartPutQueued
<1>5. CASE StartSend(c)
  <2>1. call[c].rec \in Record /\ call[c].task \in Tasks
    BY <1>0, <1>5 DEF Fits, StartSend, At
  <2>2. transitionTask(call[c].rec, "started", NoExit) \in Record
    BY <2>1, TransitionType, RecordType
  <2>3. CallsFit'
    <3>1. CASE Goto(c, "sUndo")
      BY <1>0, <1>5, <2>1, <3>1, GotoFits DEF StartSend, At, Labels, StartLabels
    <3>2. CASE GotoWith(c, "sPutRunning", transitionTask(call[c].rec, "started", NoExit))
      BY <1>0, <1>5, <2>2, <3>2, GotoWithFits, RecordType DEF StartSend, At, Labels, StartLabels
    <3> QED
      BY <1>5, <3>1, <3>2 DEF StartSend
  <2> QED
    BY <1>0, <1>5, <2>1, <2>3 DEF StartSend, Rest, links
<1>6. CASE StartPutRunning(c)
  <2>1. call[c].rec \in Record /\ call[c].task \in Tasks
    BY <1>0, <1>6 DEF Fits, StartPutRunning, At
  <2>2. CallsFit'
    BY <1>0, <1>6, <2>1, GotoFits, ReturnFits DEF StartPutRunning, At, Labels, StartLabels
  <2> QED
    BY <1>0, <1>6, <2>1, <2>2, RestPut DEF StartPutRunning
<1>7. CASE StartClose(c)
  <2>1. call[c].rec \in Draft
    BY <1>0, <1>7 DEF Fits, StartClose, Call
  <2>2. CallsFit'
    BY <1>0, <1>7, GotoFits, ReturnFits DEF StartClose, At, Labels, StartLabels, Fits
  <2> QED
    BY <1>0, <1>7, <2>1, <2>2, TryCloseType DEF StartClose, Draft
<1>8. CASE StartDelete(c)
  <2>1. Rest'
    BY <1>0, <1>8 DEF StartDelete, Rest, host, links
  <2> QED
    BY <1>0, <1>8, <2>1, ReturnFits DEF StartDelete
<1> QED
  BY <1>1, <1>2, <1>3, <1>4, <1>5, <1>6, <1>7, <1>8 DEF StartStep

LEMMA TaskTypes ==
  ASSUME TypeInv, NEW c \in Calls, TaskStep(c)
  PROVE  TypeInv'
<1> USE SentinelAssumption
<1>0. TypeOK /\ CallShape /\ Rest /\ Fits(call[c])
  BY Split, AllFit DEF TypeInv
<1> SUFFICES Rest' /\ CallsFit'
  BY Split
<1> DEFINE rec == call[c].rec
<1>a. ASSUME call[c].pc \notin {"idle", "load"} \cup StartLabels
      PROVE  /\ rec \in Record /\ rec \in Draft /\ call[c].task \in Tasks
             /\ rec.session \in Handles /\ rec.remote \in Remotes
  BY <1>0, <1>a DEF Fits, StartLabels, Record, Draft
<1>b. ASSUME Ensured(c), call[c].pc \in {"probe", "putRecovered"}
      PROVE  CallsFit'
  <2>1. rec \in Record
    BY <1>a, <1>b DEF StartLabels
  <2> QED
    BY <1>0, <1>b, <2>1, GotoFits, ReturnFits DEF Ensured, At, Labels, StartLabels
<1>c. ASSUME Cancelled(c), call[c].pc \in {"cancelWait", "close"}
      PROVE  CallsFit'
  <2>1. rec \in Draft /\ rec \in Record
    BY <1>a, <1>c DEF StartLabels
  <2>2. transitionTask(rec, "cancelled", NoExit) \in Record
    BY <2>1, TransitionType, RecordType
  <2> QED
    BY <1>0, <1>c, <2>2, GotoWithFits, RecordType DEF Cancelled, At, Labels, PutLabels
<1>1. CASE Load(c)
  <2>1. Rest'
    BY <1>0, <1>1, RestSame DEF Load
  <2>2. CASE Return(c)
    BY <1>0, <2>1, <2>2, ReturnFits
  <2>3. CASE call' = [call EXCEPT ![c].stage = "drain"]
    <3>1. Fits([call[c] EXCEPT !.stage = "drain"])
      BY <1>0 DEF Fits, Call
    <3> QED
      BY <1>0, <2>1, <2>3, <3>1, CallUpdate DEF TypeOK
  <2>4. CASE GotoWith(c, "list", tasks[call[c].task]) /\ tasks[call[c].task] # NoRecord
    <3>1. tasks[call[c].task] \in Record
      BY <1>0, <1>1, <2>4 DEF Fits, Rest, Load, At
    <3> QED
      BY <1>0, <1>1, <2>1, <2>4, <3>1, GotoWithFits, RecordType DEF Load, At, Labels
  <2> QED
    BY <1>1, <2>2, <2>3, <2>4 DEF Load
<1>2. CASE List(c)
  <2>1. rec \in Record /\ rec \in Draft
    BY <1>a, <1>2 DEF List, At, StartLabels
  <2>2. transitionTask(rec, "lost", NoExit) \in Record
    BY <2>1, TransitionType, RecordType
  <2>3. CASE Goto(c, "probe")
    BY <1>0, <1>2, <2>1, <2>3, GotoFits, RestSame DEF List, At, Labels
  <2>4. CASE GotoWith(c, "putLost", transitionTask(rec, "lost", NoExit))
    BY <1>0, <1>2, <2>2, <2>4, GotoWithFits, RecordType, RestSame DEF List, At, Labels, PutLabels
  <2>5. CASE Return(c)
    BY <1>0, <1>2, <2>5, ReturnFits, RestSame DEF List
  <2> QED
    BY <1>2, <2>3, <2>4, <2>5 DEF List
<1>3. CASE Probe(c)
  <2>1. rec \in Record
    BY <1>a, <1>3 DEF Probe, At, StartLabels
  <2>2. CASE Goto(c, "attach")
    BY <1>0, <1>3, <2>1, <2>2, GotoFits, RestSame DEF Probe, At, Labels
  <2>3. CASE Ensured(c)
    BY <1>0, <1>b, <1>3, <2>3, RestSame DEF Probe, At
  <2> QED
    BY <1>3, <2>2, <2>3 DEF Probe
<1>4. CASE Attach(c)
  <2>1. rec \in Record
    BY <1>a, <1>4 DEF Attach, At, StartLabels
  <2>2. CASE Return(c) /\ UNCHANGED links
    BY <1>0, <1>4, <2>2, ReturnFits, RestSame DEF Attach
  <2>3. ASSUME NEW h \in Handles, NEW start \in 0..OutputLength(rec.remote),
               Connect(h, rec.remote, start),
               GotoWith(c, "putRecovered", Reattached(rec, h, start))
        PROVE  Rest' /\ CallsFit'
    <3>1. Reattached(rec, h, start) \in Record
      BY <2>1 DEF Reattached, Record, Draft, Fragments
    <3>2. start \in Nat /\ rec.remote \in Remotes
      BY <1>0, <2>1, OutputType, RecordType
    <3>3. Rest'
      BY <1>0, <1>4, <2>3, <3>2, ConnectType DEF Attach, host, Rest
    <3> QED
      BY <1>0, <1>4, <2>3, <3>1, <3>3, GotoWithFits, RecordType DEF Attach, At, Labels, PutLabels
  <2> QED
    BY <1>4, <2>2, <2>3 DEF Attach
<1>5. CASE PutRecovered(c)
  <2>1. rec \in Record /\ call[c].task \in Tasks
    BY <1>a, <1>5 DEF PutRecovered, At, StartLabels
  <2> QED
    BY <1>0, <1>5, <1>b, <2>1, RestPut DEF PutRecovered, At
<1>6. CASE Read(c)
  <2>1. rec \in Record /\ call[c].task \in Tasks /\ rec.session \in Handles
    BY <1>a, <1>6 DEF Read, At, StartLabels
  <2>2. CASE Return(c)
    BY <1>0, <1>6, <2>2, ReturnFits, RestSame DEF Read
  <2>3. ASSUME NEW n \in 0..BufferLength(rec.session), rec.session \in up, NEW from,
               NEW next \in Chunks(rec, call[c].task, from, n),
               call' = [call EXCEPT ![c].pc = "putChunk",
                                    ![c].rec = next,
                                    ![c].more = n < BufferLength(rec.session)]
        PROVE  CallsFit'
    <3> DEFINE k == [call[c] EXCEPT !.pc = "putChunk", !.rec = next,
                                    !.more = n < BufferLength(rec.session)]
    <3>1. n \in Nat /\ (n < BufferLength(rec.session)) \in BOOLEAN
      BY <1>0, <2>3, BufferType
    <3>2. onto[rec.session] \in Remotes
      BY <1>0, <2>3 DEF Rest
    <3>3. next \in Record
      BY <2>1, <3>1, ChunkType
    <3>4. Fits(k)
      BY <1>0, <2>1, <3>1, <3>3, RecordType DEF Fits, Call, Labels, PutLabels
    <3>5. call' = [call EXCEPT ![c] = k]
      BY <1>0, <2>3 DEF TypeOK, Call
    <3> HIDE DEF k
    <3> QED
      BY <1>0, <3>4, <3>5, CallUpdate
  <2> QED
    BY <1>0, <1>6, <2>2, <2>3, RestSame DEF Read
<1>7. CASE PutChunk(c)
  <2>1. rec \in Record /\ call[c].task \in Tasks
    BY <1>a, <1>7 DEF PutChunk, At, StartLabels
  <2>2. Rest'
    BY <1>0, <1>7, <2>1, RestPut DEF PutChunk
  <2> DEFINE reads == call[c].reads + 1
             again == [call[c] EXCEPT !.pc = "load", !.reads = reads, !.more = FALSE]
             last == [call[c] EXCEPT !.pc = "list", !.stage = "final", !.reads = 0, !.more = FALSE]
  <2>3. Fits(again) /\ Fits(last)
    <3>1. call[c] \in Call /\ reads \in Nat
      BY <1>0 DEF Fits, Call
    <3> HIDE DEF reads
    <3> QED
      BY <1>0, <2>1, <3>1, SentinelAssumption, RecordType DEF Fits, Call, Labels
  <2>4. \/ Return(c)
        \/ call' = [call EXCEPT ![c] = again]
        \/ call' = [call EXCEPT ![c] = last]
    BY <1>0, <1>7 DEF PutChunk, TypeOK, Call
  <2> HIDE DEF again, last
  <2> QED
    BY <1>0, <2>2, <2>3, <2>4, ReturnFits, CallUpdate
<1>8. CASE WaitFor(c)
  <2>1. rec \in Record /\ rec \in Draft
    BY <1>a, <1>8 DEF WaitFor, At, StartLabels
  <2>2. CASE Return(c)
    BY <1>0, <1>8, <2>2, ReturnFits, RestSame DEF WaitFor
  <2>3. CASE /\ MarkerInBuffer(rec.session, call[c].task)
             /\ GotoWith(c, "putExit", transitionWithExit(rec, ended[onto[rec.session]]))
    <3>1. transitionWithExit(rec, ended[onto[rec.session]]) \in Record
      BY <2>1, <2>3, ExitType, RecordType DEF MarkerInBuffer
    <3> QED
      BY <1>0, <1>8, <2>3, <3>1, GotoWithFits, RecordType, RestSame
         DEF WaitFor, At, Labels, PutLabels
  <2> QED
    BY <1>8, <2>2, <2>3 DEF WaitFor
<1>9. CASE CtrlC(c)
  <2>1. rec \in Record
    BY <1>a, <1>9 DEF CtrlC, At, StartLabels
  <2>2. Rest'
    BY <1>0, <1>9 DEF CtrlC, Rest, links, Exits
  <2>3. CallsFit'
    BY <1>0, <1>9, <2>1, GotoFits, ReturnFits DEF CtrlC, At, Labels
  <2> QED
    BY <2>2, <2>3
<1>10. CASE CancelWait(c)
  <2>1. rec \in Record
    BY <1>a, <1>10 DEF CancelWait, At, StartLabels
  <2>2. CASE Goto(c, "close")
    BY <1>0, <1>10, <2>1, <2>2, GotoFits, RestSame DEF CancelWait, At, Labels
  <2>3. CASE Return(c)
    BY <1>0, <1>10, <2>3, ReturnFits, RestSame DEF CancelWait
  <2>4. CASE Cancelled(c)
    BY <1>0, <1>10, <1>c, <2>4, RestSame DEF CancelWait, At
  <2> QED
    BY <1>10, <2>2, <2>3, <2>4 DEF CancelWait
<1>11. CASE Close(c)
  <2>1. rec.session \in Handles
    BY <1>a, <1>11 DEF Close, At, StartLabels
  <2>2. Rest'
    BY <1>0, <1>11, <2>1, TryCloseType, RestSame DEF Close, TryClose
  <2>3. CallsFit'
    BY <1>0, <1>11, <1>c, ReturnFits DEF Close, At
  <2> QED
    BY <2>2, <2>3
<1>12. CASE PutLast(c)
  <2>1. rec \in Record /\ call[c].task \in Tasks
    BY <1>a, <1>12 DEF PutLast, StartLabels
  <2> QED
    BY <1>0, <1>12, <2>1, RestPut, ReturnFits DEF PutLast
<1> QED
  BY <1>1, <1>2, <1>3, <1>4, <1>5, <1>6, <1>7, <1>8, <1>9, <1>10, <1>11, <1>12
     DEF TaskStep

LEMMA OtherTypes ==
  ASSUME TypeInv,
         \/ \E c \in Calls, t \in Tasks : StartCall(c, t)
         \/ \E c \in Calls, t \in Tasks, op \in Requests \ {"start"} : Begin(c, op, t)
         \/ \E c \in Calls : Fail(c)
         \/ Environment
         \/ UNCHANGED vars
  PROVE  TypeInv'
<1>0. TypeOK /\ CallShape /\ Rest /\ \A c \in Calls : Fits(call[c])
  BY Split, AllFit DEF TypeInv
<1> SUFFICES Rest' /\ CallsFit'
  BY Split
<1>1. ASSUME NEW c \in Calls, NEW t \in Tasks, StartCall(c, t) PROVE Rest' /\ CallsFit'
  <2> DEFINE k == [Idle EXCEPT !.pc = "sList", !.op = "start", !.task = t]
  <2>1. Fits(k)
    BY DEF Fits, Idle, Call, Labels, StartLabels, Ops
  <2>2. call' = [call EXCEPT ![c] = k]
    BY <1>1 DEF StartCall
  <2> HIDE DEF k
  <2>3. CallsFit'
    BY <1>0, <2>1, <2>2, CallUpdate
  <2>4. Rest'
    BY <1>0, <1>1 DEF StartCall, Rest, host, links
  <2> QED
    BY <2>3, <2>4
<1>2. ASSUME NEW c \in Calls, NEW t \in Tasks, NEW op \in Requests \ {"start"}, Begin(c, op, t)
      PROVE  Rest' /\ CallsFit'
  <2> DEFINE k == [Idle EXCEPT !.pc = "load", !.op = op, !.task = t,
                               !.stage = IF op = "output" THEN "drain" ELSE "enter"]
  <2>1. Fits(k)
    BY BoundsAssumption DEF Fits, Idle, Call, Labels
  <2>2. call' = [call EXCEPT ![c] = k]
    BY <1>2 DEF Begin
  <2> HIDE DEF k
  <2> QED
    BY <1>0, <1>2, <2>1, <2>2, CallUpdate, RestSame DEF Begin
<1>3. ASSUME NEW c \in Calls, Fail(c) PROVE Rest' /\ CallsFit'
  BY <1>0, <1>3, ReturnFits, RestSame DEF Fail
<1>4. ASSUME Environment, call' = call PROVE Rest' /\ CallsFit'
  <2>1. CallsFit'
    BY <1>0, <1>4 DEF CallsFit, CallShape, TypeOK
  <2>2. Rest'
    BY <1>0, <1>4 DEF Environment, PrintOutput, Exit, RemoteDies, HandleDies, Crash,
       Rest, links, host, Exits
  <2> QED
    BY <2>1, <2>2
<1>5. CASE Crash
  <2>1. CallsFit'
    BY <1>5, IdleFits DEF Crash, CallsFit, CallShape, Fits
  <2>2. Rest'
    BY <1>0, <1>5 DEF Crash, Rest, host, links
  <2> QED
    BY <2>1, <2>2
<1>6. CASE UNCHANGED vars
  BY <1>0, <1>6 DEF vars, host, links, Rest, CallsFit, CallShape, TypeOK
<1> QED
  BY <1>1, <1>2, <1>3, <1>4, <1>5, <1>6
     DEF Environment, PrintOutput, Exit, RemoteDies, HandleDies

LEMMA NextTypes == TypeInv /\ [Next]_vars => TypeInv'
BY StartTypes, TaskTypes, OtherTypes DEF Next, Step

LEMMA InitTypes == Init => TypeInv
<1> SUFFICES ASSUME Init PROVE Rest /\ CallsFit
  BY Split
<1>1. CallsFit
  BY IdleFits DEF Init, CallsFit, CallShape, Fits
<1>2. Rest
  BY DEF Init, Rest
<1> QED
  BY <1>1, <1>2

(* Every variable keeps its type, and every call carries the task and the  *)
(* record its next step needs (startTask, ensureTaskSession and the calls  *)
(* built on it).                                                           *)
THEOREM TypeCorrectness == Spec => []TypeOK
<1>1. TypeInv => TypeOK
  BY DEF TypeInv
<1> QED
  BY <1>1, InitTypes, NextTypes, PTL DEF Spec

-----------------------------------------------------------------------------
(* A command is typed only into the fresh session of its own start.        *)

LEMMA SessionsKept ==
  ASSUME SessionsAreFresh, UNCHANGED <<job, onto>>, up' \subseteq up,
         \A r \in Remotes : status'[r] = "free" => status[r] = "free",
         \A d \in Calls : call'[d].pc \in Unsent =>
           /\ call[d].pc \in Unsent
           /\ call'[d].rec.session = call[d].rec.session
           /\ call'[d].rec.state = call[d].rec.state
  PROVE  SessionsAreFresh'
BY DEF SessionsAreFresh, Unsent

(* Apart from the steps that make, use or attach sessions, a step keeps    *)
(* job and onto and leads no call towards its send_input.                  *)
LEMMA SessionsNext ==
  ASSUME TypeInv, SessionsAreFresh, [Next]_vars
  PROVE  SessionsAreFresh'
<1> USE SentinelAssumption
<1>0. TypeOK /\ CallShape /\ \A c \in Calls : Fits(call[c])
  BY AllFit DEF TypeInv
<1>1. ASSUME NEW c \in Calls, StartCreate(c) PROVE SessionsAreFresh'
  <2>1. CASE Return(c) /\ UNCHANGED <<status, links>>
    BY <1>0, <1>1, <2>1, SessionsKept DEF StartCreate, Return, Idle, Unsent, links, TypeOK
  <2>2. ASSUME NEW r \in Remotes, NEW h \in Handles,
               status[r] = "free", status' = [status EXCEPT ![r] = "alive"], Connect(h, r, 0),
               NEW k, call' = [call EXCEPT ![c] = k],
               k = Idle \/ (k.rec.session = h /\ k.rec.state = "queued")
        PROVE  SessionsAreFresh'
    <3>1. job' = job
      BY <1>1 DEF StartCreate
    <3>2. /\ onto' = [onto EXCEPT ![h] = r] /\ onto[h] = NoRemote /\ up' = up \cup {h}
          /\ onto \in [Handles -> Remotes \cup {NoRemote}]
          /\ status \in [Remotes -> {"free", "alive", "gone"}]
      BY <1>0, <2>2 DEF Connect, TypeOK
    <3>3. job[r] = NoTask /\ \A g \in Handles : onto[g] # r
      BY <2>2 DEF SessionsAreFresh
    <3>4. \A d \in Calls : call'[d] = IF d = c THEN k ELSE call[d]
      BY <1>0, <2>2 DEF TypeOK
    <3>5. ASSUME NEW d \in Calls \ {c}, call[d].pc \in Unsent
          PROVE  /\ call[d].rec.session \in Handles \ {h}
                 /\ onto'[call[d].rec.session] = onto[call[d].rec.session]
                 /\ onto[call[d].rec.session] # r
      <4>1. call[d].rec \in Draft
        BY <1>0, <3>5 DEF Fits, Call, Unsent
      <4>2. call[d].rec.session \in Handles /\ onto[call[d].rec.session] \in Remotes
        BY <3>5, <4>1 DEF Draft, SessionsAreFresh
      <4> QED
        BY <3>2, <3>3, <4>2
    <3>6. \A g \in up' : onto'[g] \in Remotes
      BY <3>2, <1>0 DEF SessionsAreFresh, TypeOK
    <3>7. \A q \in Remotes :
            status'[q] = "free" => job'[q] = NoTask /\ \A g \in Handles : onto'[g] # q
      BY <2>2, <3>1, <3>2 DEF SessionsAreFresh
    <3>8. \A d \in Calls : call'[d].pc \in Unsent =>
            /\ call'[d].rec.state = "queued"
            /\ onto'[call'[d].rec.session] = IF d = c THEN r ELSE onto[call[d].rec.session]
            /\ d = c \/ (call[d].pc \in Unsent /\ onto[call[d].rec.session] # r)
      <4> TAKE d \in Calls
      <4>1. CASE d = c
        <5>1. call'[d] = k /\ onto'[h] = r
          BY <3>2, <3>4, <4>1
        <5>2. CASE k = Idle
          BY <5>1, <5>2 DEF Idle, Unsent
        <5>3. CASE k # Idle
          <6>1. k.rec.session = h /\ k.rec.state = "queued"
            BY <2>2, <5>3
          <6> QED
            BY <4>1, <5>1, <6>1
        <5> QED
          BY <5>2, <5>3
      <4>2. CASE d # c
        BY <3>4, <3>5, <4>2 DEF SessionsAreFresh
      <4> QED
        BY <4>1, <4>2
    <3>9. \A d \in Calls : call'[d].pc \in Unsent =>
            \A e \in Calls \ {d} : call'[e].pc \in Unsent =>
              onto'[call'[e].rec.session] # onto'[call'[d].rec.session]
      BY <3>8 DEF SessionsAreFresh
    <3> QED
      BY <3>1, <3>3, <3>6, <3>7, <3>8, <3>9 DEF SessionsAreFresh
  <2> QED
    <3>1. CASE \E r \in Remotes, h \in Handles :
                 /\ status[r] = "free"
                 /\ status' = [status EXCEPT ![r] = "alive"]
                 /\ Connect(h, r, 0)
                 /\ \/ GotoWith(c, "sPutQueued", Queued(h, r))
                    \/ GotoWith(c, "sDiff", Queued(h, NoRemote))
                    \/ Return(c)
      <4>1. PICK r \in Remotes, h \in Handles :
                 /\ status[r] = "free"
                 /\ status' = [status EXCEPT ![r] = "alive"]
                 /\ Connect(h, r, 0)
                 /\ \/ GotoWith(c, "sPutQueued", Queued(h, r))
                    \/ GotoWith(c, "sDiff", Queued(h, NoRemote))
                    \/ Return(c)
        BY <3>1
      <4>2. \E k : /\ call' = [call EXCEPT ![c] = k]
                   /\ k = Idle \/ (k.rec.session = h /\ k.rec.state = "queued")
        <5> DEFINE k1 == [call[c] EXCEPT !.pc = "sPutQueued", !.rec = Queued(h, r)]
                   k2 == [call[c] EXCEPT !.pc = "sDiff", !.rec = Queued(h, NoRemote)]
        <5>1. /\ k1.rec.session = h /\ k1.rec.state = "queued"
              /\ k2.rec.session = h /\ k2.rec.state = "queued"
          BY <1>0 DEF Fits, Call, Queued
        <5>2. \/ call' = [call EXCEPT ![c] = k1]
              \/ call' = [call EXCEPT ![c] = k2]
              \/ call' = [call EXCEPT ![c] = Idle]
          BY <1>0, <4>1 DEF GotoWith, Return, TypeOK, Call
        <5> HIDE DEF k1, k2
        <5>3. CASE call' = [call EXCEPT ![c] = k1]
          BY <5>1, <5>3
        <5>4. CASE call' = [call EXCEPT ![c] = k2]
          BY <5>1, <5>4
        <5>5. CASE call' = [call EXCEPT ![c] = Idle]
          <6> WITNESS Idle
          <6> QED
            BY <5>5
        <5> QED
          BY <5>2, <5>3, <5>4, <5>5
      <4> QED
        BY <2>2, <4>1, <4>2
    <3> QED
      BY <1>1, <2>1, <3>1 DEF StartCreate
<1>2. ASSUME NEW c \in Calls, StartSend(c) PROVE SessionsAreFresh'
  <2>1. call[c].rec \in Draft /\ call[c].pc = "sSend"
    BY <1>0, <1>2 DEF Fits, Call, StartSend, At
  <2> DEFINE r == onto[call[c].rec.session]
  <2>2. /\ r \in Remotes
        /\ \A d \in Calls \ {c} : call[d].pc \in Unsent => onto[call[d].rec.session] # r
    BY <2>1 DEF SessionsAreFresh, Unsent
  <2>3. /\ UNCHANGED <<onto, up, status>>
        /\ job' = job \/ (status[r] = "alive" /\ job' = [job EXCEPT ![r] = call[c].task])
    <3>1. UNCHANGED links /\ status' = status
      BY <1>2 DEF StartSend
    <3>2. job' = job \/ (status[r] = "alive" /\ job' = [job EXCEPT ![r] = call[c].task])
      BY <1>2 DEF StartSend
    <3> QED
      BY <3>1, <3>2 DEF links
  <2>4. call'[c].pc \notin Unsent /\ \A d \in Calls \ {c} : call'[d] = call[d]
    BY <1>0, <1>2 DEF StartSend, Goto, GotoWith, TypeOK, Call, Unsent
  <2>5. \A q \in Remotes : q # r => job'[q] = job[q]
    BY <1>0, <2>3 DEF TypeOK
  <2> HIDE DEF r
  <2> QED
    BY <2>2, <2>3, <2>4, <2>5 DEF SessionsAreFresh
<1>3. ASSUME NEW c \in Calls, Attach(c) PROVE SessionsAreFresh'
  <2>1. call'[c].pc \notin Unsent /\ \A d \in Calls \ {c} : call'[d] = call[d]
    BY <1>0, <1>3 DEF Attach, GotoWith, Return, Idle, TypeOK, Call, Unsent
  <2>2. CASE UNCHANGED links
    BY <1>3, <2>1, <2>2, SessionsKept DEF Attach, links, host
  <2>3. CASE \E h \in Handles, start \in 0..OutputLength(call[c].rec.remote) :
               Connect(h, call[c].rec.remote, start) /\ status[call[c].rec.remote] = "alive"
    <3> DEFINE q == call[c].rec.remote
    <3>1. PICK h \in Handles, start \in 0..OutputLength(q) :
                 Connect(h, q, start) /\ status[q] = "alive"
      BY <2>3
    <3>2. q \in Remotes
      BY <1>0, <1>3, RecordType DEF Fits, Attach, At
    <3> HIDE DEF q
    <3>3. /\ onto' = [onto EXCEPT ![h] = q] /\ onto[h] = NoRemote /\ up' = up \cup {h}
          /\ onto \in [Handles -> Remotes \cup {NoRemote}] /\ up \subseteq Handles
      BY <1>0, <3>1 DEF Connect, TypeOK
    <3>4. UNCHANGED <<job, status>>
      BY <1>3 DEF Attach, host
    <3>5. ASSUME NEW d \in Calls \ {c}, call[d].pc \in Unsent
          PROVE  onto'[call[d].rec.session] = onto[call[d].rec.session]
      <4>1. call[d].rec \in Draft
        BY <1>0, <3>5 DEF Fits, Call, Unsent
      <4>2. call[d].rec.session \in Handles /\ onto[call[d].rec.session] \in Remotes
        BY <3>5, <4>1 DEF Draft, SessionsAreFresh
      <4> QED
        BY <3>3, <4>2
    <3> QED
      BY <2>1, <3>1, <3>2, <3>3, <3>4, <3>5 DEF SessionsAreFresh
  <2> QED
    BY <1>3, <2>2, <2>3 DEF Attach
<1>4. ASSUME NEW c \in Calls, StartDiff(c) PROVE SessionsAreFresh'
  <2>1. call[c].rec \in Draft /\ call[c].pc = "sDiff"
    BY <1>0, <1>4 DEF Fits, Call, StartDiff, At
  <2>2. /\ \A d \in Calls \ {c} : call'[d] = call[d]
        /\ \/ call'[c].pc = "sClose"
           \/ /\ call'[c].rec.session = call[c].rec.session
              /\ call'[c].rec.state = call[c].rec.state
    BY <1>0, <1>4, <2>1 DEF StartDiff, Goto, GotoWith, TypeOK, Call, Draft
  <2> QED
    BY <1>4, <2>1, <2>2, SessionsKept DEF StartDiff, Unsent, links, host
<1>5. ASSUME NEW c \in Calls, StartPutQueued(c) PROVE SessionsAreFresh'
  <2>1. /\ \A d \in Calls \ {c} : call'[d] = call[d]
        /\ call'[c].rec = call[c].rec
    BY <1>0, <1>5 DEF StartPutQueued, Goto, TypeOK, Call
  <2> QED
    BY <1>5, <2>1, SessionsKept DEF StartPutQueued, At, Unsent, links, host
<1>6. ASSUME NEW c \in Calls,
             \/ StartList(c) \/ StartPutRunning(c) \/ StartClose(c) \/ StartDelete(c)
             \/ Load(c) \/ List(c) \/ Probe(c) \/ PutRecovered(c) \/ Read(c)
             \/ PutChunk(c) \/ WaitFor(c) \/ CtrlC(c) \/ CancelWait(c)
             \/ Close(c) \/ PutLast(c) \/ Fail(c)
             \/ \E t \in Tasks : StartCall(c, t)
             \/ \E t \in Tasks, op \in Requests \ {"start"} : Begin(c, op, t)
      PROVE  SessionsAreFresh'
  <2>1. \A d \in Calls \ {c} : call'[d] = call[d]
    BY <1>0, <1>6 DEF StartList, StartPutRunning, StartClose, StartDelete, Load, List,
       Probe, PutRecovered, Read, PutChunk, WaitFor, CtrlC, CancelWait, Close, PutLast,
       Fail, StartCall, Begin, Goto, GotoWith, Return, Ensured, Cancelled, TypeOK
  <2>2. call'[c].pc \notin Unsent
    <3>1. CASE StartList(c) \/ StartPutRunning(c) \/ StartClose(c) \/ StartDelete(c)
      BY <1>0, <3>1 DEF StartList, StartPutRunning, StartClose, StartDelete,
         Goto, Return, Idle, TypeOK, Call, Unsent
    <3>5. CASE \E t \in Tasks : StartCall(c, t)
      BY <1>0, <3>5 DEF StartCall, Idle, TypeOK, Unsent
    <3>6. CASE \E t \in Tasks, op \in Requests \ {"start"} : Begin(c, op, t)
      BY <1>0, <3>6 DEF Begin, Idle, TypeOK, Unsent
    <3>2. CASE Load(c)
      BY <1>0, <3>2 DEF Load, At, GotoWith, Return, Idle, TypeOK, Call, Unsent
    <3>3. CASE List(c) \/ Probe(c) \/ PutRecovered(c)
      BY <1>0, <3>3 DEF List, Probe, PutRecovered, Goto, GotoWith,
         Return, Ensured, Idle, TypeOK, Call, Unsent
    <3>7. CASE Read(c)
      <4>1. CASE Return(c)
        BY <1>0, <4>1 DEF Return, Idle, TypeOK, Unsent
      <4>2. ASSUME NEW rec, NEW more,
                   call' = [call EXCEPT ![c].pc = "putChunk", ![c].rec = rec, ![c].more = more]
            PROVE  call'[c].pc \notin Unsent
        BY <1>0, <4>2 DEF TypeOK, Call, Unsent
      <4> QED
        BY <3>7, <4>1, <4>2 DEF Read
    <3>8. CASE PutChunk(c)
      BY <1>0, <3>8 DEF PutChunk, Return, Idle, TypeOK, Call, Unsent
    <3>4. CASE WaitFor(c) \/ CtrlC(c) \/ CancelWait(c) \/ Close(c) \/ PutLast(c) \/ Fail(c)
      BY <1>0, <3>4 DEF WaitFor, CtrlC, CancelWait, Close, PutLast, Fail, Goto,
         GotoWith, Return, Cancelled, Idle, TypeOK, Call, Unsent
    <3> QED
      BY <1>6, <3>1, <3>2, <3>3, <3>4, <3>5, <3>6, <3>7, <3>8
  <2>3. /\ UNCHANGED <<job, onto>>
        /\ up' \subseteq up
        /\ \A r \in Remotes : status'[r] = "free" => status[r] = "free"
    BY <1>0, <1>6 DEF StartList, StartPutRunning, StartClose, StartDelete, Load, List,
       Probe, PutRecovered, Read, PutChunk, WaitFor, CtrlC, CancelWait, Close, PutLast,
       Fail, StartCall, Begin, TryClose, CloseSession, links, host, TypeOK
  <2> QED
    BY <2>1, <2>2, <2>3, SessionsKept
<1>7. CASE Environment \/ UNCHANGED vars
  <2>1. /\ UNCHANGED <<job, onto>>
        /\ up' \subseteq up
        /\ \A r \in Remotes : status'[r] = "free" => status[r] = "free"
    BY <1>0, <1>7 DEF Environment, PrintOutput, Exit, RemoteDies, HandleDies, Crash,
       vars, links, host, TypeOK
  <2>2. call' = call \/ call' = [d \in Calls |-> Idle]
    BY <1>7 DEF Environment, PrintOutput, Exit, RemoteDies, HandleDies, Crash, vars
  <2> QED
    BY <2>1, <2>2, SessionsKept DEF Idle, Unsent
<1> QED
  BY <1>1, <1>2, <1>3, <1>4, <1>5, <1>6, <1>7 DEF Next, Step, StartStep, TaskStep

-----------------------------------------------------------------------------
(* What is true of a record stays true: commands keep their session and    *)
(* their exit, and sessions that are gone stay gone.                       *)
IsTrueNext(rec, t) ==
  /\ rec.state \in {"succeeded", "failed"} =>
       /\ rec.state = mapExitCodeToTaskState(rec.exit_code)
       /\ rec.exit_code \in Exits
       /\ rec.guessed \/ \E r \in Remotes : job'[r] = t /\ ended'[r] = rec.exit_code
  /\ rec.remote \in Remotes => status'[rec.remote] # "free"
  /\ rec.state = "lost" => rec.remote \in Remotes /\ status'[rec.remote] = "gone"

HostGrows ==
  \A r \in Remotes :
    /\ job[r] # NoTask => job'[r] = job[r]
    /\ ended[r] \in Exits => ended'[r] = ended[r]
    /\ status[r] # "free" => status'[r] # "free"
    /\ status[r] = "gone" => status'[r] = "gone"

LEMMA HostOnlyGrows ==
  ASSUME TypeInv, SessionsAreFresh, [Next]_vars
  PROVE  HostGrows
<1>0. TypeOK /\ \A c \in Calls : Fits(call[c])
  BY AllFit DEF TypeInv
<1>1. ASSUME NEW c \in Calls, StartSend(c) PROVE HostGrows
  <2>1. call[c].pc = "sSend"
    BY <1>1 DEF StartSend, At
  <2> DEFINE r == onto[call[c].rec.session]
  <2>2. r \in Remotes /\ job[r] = NoTask
    BY <2>1 DEF SessionsAreFresh, Unsent
  <2>3. job' = job \/ job' = [job EXCEPT ![r] = call[c].task]
    BY <1>1 DEF StartSend
  <2>4. UNCHANGED <<ended, status>>
    BY <1>1 DEF StartSend
  <2> HIDE DEF r
  <2> QED
    BY <1>0, <2>2, <2>3, <2>4 DEF HostGrows, TypeOK
<1>2. ASSUME NEW c \in Calls, StartCreate(c) PROVE HostGrows
  BY <1>0, <1>2 DEF StartCreate, HostGrows, TypeOK
<1>3. ASSUME NEW c \in Calls, StartClose(c) \/ Close(c) PROVE HostGrows
  BY <1>0, <1>3 DEF StartClose, Close, TryClose, CloseSession, HostGrows, TypeOK, host
<1>4. ASSUME NEW c \in Calls, CtrlC(c) PROVE HostGrows
  BY <1>0, <1>4 DEF CtrlC, HostGrows, TypeOK, Exits
<1>5. CASE Environment
  BY <1>0, <1>5 DEF Environment, PrintOutput, Exit, RemoteDies, HandleDies, Crash,
     Running, HostGrows, TypeOK, Exits, host
<1>6. CASE UNCHANGED host
  BY <1>6 DEF host, HostGrows
<1>7. ASSUME NEW c \in Calls,
             \/ StartList(c) \/ StartDiff(c) \/ StartPutQueued(c)
             \/ StartPutRunning(c) \/ StartDelete(c)
             \/ Load(c) \/ List(c) \/ Probe(c) \/ Attach(c) \/ PutRecovered(c) \/ Read(c)
             \/ PutChunk(c) \/ WaitFor(c) \/ CancelWait(c) \/ PutLast(c) \/ Fail(c)
             \/ \E t \in Tasks : StartCall(c, t)
             \/ \E t \in Tasks, op \in Requests \ {"start"} : Begin(c, op, t)
      PROVE  UNCHANGED host
  BY <1>7 DEF StartList, StartDiff, StartPutQueued, StartPutRunning, StartDelete, Load,
     List, Probe, Attach, PutRecovered, Read, PutChunk, WaitFor, CancelWait, PutLast,
     Fail, StartCall, Begin
<1> QED
  BY <1>1, <1>2, <1>3, <1>4, <1>5, <1>6, <1>7
     DEF Next, Step, StartStep, TaskStep, vars, host

LEMMA TruthStays ==
  ASSUME HostGrows, SentinelAssumption, NEW rec, NEW t \in Tasks, IsTrue(rec, t)
  PROVE  IsTrueNext(rec, t)
<1>1. ASSUME rec.state \in {"succeeded", "failed"}, ~rec.guessed
      PROVE  \E r \in Remotes : job'[r] = t /\ ended'[r] = rec.exit_code
  <2>1. PICK r \in Remotes : /\ job[r] = t
                            /\ ended[r] \in Exits
                            /\ ended[r] = rec.exit_code
    BY <1>1 DEF IsTrue
  <2>2. job'[r] = job[r] /\ ended'[r] = ended[r]
    BY <2>1, SentinelAssumption DEF HostGrows
  <2> QED
    BY <2>1, <2>2
<1>2. rec.remote \in Remotes => status'[rec.remote] # "free"
  BY DEF HostGrows, IsTrue
<1>3. rec.state = "lost" => rec.remote \in Remotes /\ status'[rec.remote] = "gone"
  BY DEF HostGrows, IsTrue
<1> QED
  BY <1>1, <1>2, <1>3 DEF IsTrue, IsTrueNext

(* A step of c keeps the truth of all records if the record c carries      *)
(* after it is true and the store only takes the record c carried before.  *)
LEMMA RecordsKept ==
  ASSUME TypeInv, RecordsAreTrue, HostGrows, NEW c \in Calls,
         \A d \in Calls \ {c} : call'[d] = call[d],
         \/ call'[c].rec = NoRecord
         \/ IsTrueNext(call'[c].rec, call'[c].task)
         \/ UNCHANGED <<call[c].rec, call[c].task>>,
         \A t \in Tasks : \/ tasks'[t] \in {tasks[t], NoRecord}
                          \/ tasks'[t] = call[c].rec /\ t = call[c].task
  PROVE  RecordsAreTrue'
<1> USE SentinelAssumption
<1>1. \A d \in Calls : call[d].rec # NoRecord => IsTrueNext(call[d].rec, call[d].task)
  BY TruthStays DEF TypeInv, CallShape, RecordsAreTrue
<1>2. \A t \in Tasks : tasks[t] # NoRecord => IsTrueNext(tasks[t], t)
  BY TruthStays DEF RecordsAreTrue
<1>3. \A t \in Tasks : tasks'[t] # NoRecord => IsTrueNext(tasks'[t], t)
  BY <1>1, <1>2
<1>4. \A d \in Calls : call'[d].rec # NoRecord => IsTrueNext(call'[d].rec, call'[d].task)
  <2> TAKE d \in Calls
  <2>1. CASE d = c
    BY <1>1, <2>1
  <2>2. CASE d # c
    BY <1>1, <2>2
  <2> QED
    BY <2>1, <2>2
<1> QED
  BY <1>3, <1>4 DEF RecordsAreTrue, IsTrue, IsTrueNext

(* The records a call makes, one lemma per kind.                           *)
LEMMA GotoWithTruth ==
  ASSUME TypeInv, NEW c \in Calls, NEW label, NEW rec, GotoWith(c, label, rec)
  PROVE  /\ \A d \in Calls \ {c} : call'[d] = call[d]
         /\ call'[c].rec = rec /\ call'[c].task = call[c].task
BY DEF TypeInv, TypeOK, GotoWith, Call

LEMMA GotoTruth ==
  ASSUME TypeInv, NEW c \in Calls, NEW label, Goto(c, label)
  PROVE  /\ \A d \in Calls \ {c} : call'[d] = call[d]
         /\ UNCHANGED <<call[c].rec, call[c].task>>
BY DEF TypeInv, TypeOK, Goto, Call

LEMMA ReturnTruth ==
  ASSUME TypeInv, NEW c \in Calls, Return(c)
  PROVE  /\ \A d \in Calls \ {c} : call'[d] = call[d]
         /\ call'[c].rec = NoRecord
BY DEF TypeInv, TypeOK, Return, Idle

LEMMA StartTruth ==
  ASSUME TypeInv, SessionsAreFresh, RecordsAreTrue, HostGrows, NEW c \in Calls, StartStep(c)
  PROVE  RecordsAreTrue'
<1> USE SentinelAssumption
<1>0. TypeOK /\ Fits(call[c])
  BY AllFit DEF TypeInv
<1>a. ASSUME tasks' = tasks \/ Put(c, call[c].task)
      PROVE  \A t \in Tasks : \/ tasks'[t] \in {tasks[t], NoRecord}
                              \/ tasks'[t] = call[c].rec /\ t = call[c].task
  BY <1>0, <1>a DEF Put, TypeOK
<1>1. CASE StartList(c)
  <2>1. /\ \A d \in Calls \ {c} : call'[d] = call[d]
        /\ UNCHANGED <<call[c].rec, call[c].task>>
    BY <1>0, <1>1 DEF StartList, TypeOK, Call
  <2> QED
    BY <1>1, <1>a, <2>1, RecordsKept DEF StartList
<1>2. CASE StartCreate(c)
  <2>1. CASE Return(c)
    BY <1>2, <1>a, <2>1, ReturnTruth, RecordsKept DEF StartCreate
  <2>2. ASSUME NEW r \in Remotes, NEW h \in Handles, status' = [status EXCEPT ![r] = "alive"],
               \/ GotoWith(c, "sPutQueued", Queued(h, r))
               \/ GotoWith(c, "sDiff", Queued(h, NoRemote))
        PROVE  RecordsAreTrue'
    <3>1. /\ \A d \in Calls \ {c} : call'[d] = call[d]
          /\ call'[c].rec \in {Queued(h, r), Queued(h, NoRemote)}
      BY <2>2, GotoWithTruth
    <3>2. IsTrueNext(call'[c].rec, call'[c].task)
      BY <1>0, <2>2, <3>1 DEF Queued, IsTrueNext, TypeOK
    <3> QED
      BY <1>2, <1>a, <3>1, <3>2, RecordsKept DEF StartCreate
  <2> QED
    BY <1>2, <2>1, <2>2 DEF StartCreate
<1>3. CASE StartDiff(c)
  <2>1. CASE Goto(c, "sClose")
    BY <1>3, <1>a, <2>1, GotoTruth, RecordsKept DEF StartDiff
  <2>2. ASSUME NEW r \in Remotes, status[r] = "alive",
               GotoWith(c, "sPutQueued", [call[c].rec EXCEPT !.remote = r])
        PROVE  RecordsAreTrue'
    <3> DEFINE next == [call[c].rec EXCEPT !.remote = r]
    <3>1. call[c].rec \in Draft /\ call[c].rec.state = "queued"
      BY <1>0, <1>3 DEF Fits, Call, StartDiff, At, SessionsAreFresh, Unsent
    <3>2. next.remote = r /\ next.state = "queued"
      BY <3>1 DEF Draft
    <3> HIDE DEF next
    <3>3. /\ \A d \in Calls \ {c} : call'[d] = call[d]
          /\ call'[c].rec = next
      BY <2>2, GotoWithTruth DEF next
    <3>4. IsTrueNext(call'[c].rec, call'[c].task)
      BY <2>2, <3>2, <3>3 DEF IsTrueNext, HostGrows
    <3> QED
      BY <1>3, <1>a, <3>3, <3>4, RecordsKept DEF StartDiff
  <2> QED
    BY <1>3, <2>1, <2>2 DEF StartDiff, listRemoteSessionIds
<1>4. CASE StartPutQueued(c)
  BY <1>4, <1>a, GotoTruth, RecordsKept DEF StartPutQueued
<1>5. CASE StartSend(c)
  <2>1. CASE Goto(c, "sUndo")
    BY <1>5, <1>a, <2>1, GotoTruth, RecordsKept DEF StartSend
  <2>2. CASE GotoWith(c, "sPutRunning", transitionTask(call[c].rec, "started", NoExit))
    <3> DEFINE next == transitionTask(call[c].rec, "started", NoExit)
    <3>1. /\ call[c].rec \in Draft
          /\ IsTrue(call[c].rec, call[c].task) /\ call[c].task \in Tasks
      BY <1>0, <1>5 DEF Fits, Call, StartSend, At, RecordsAreTrue
    <3>2. next.remote = call[c].rec.remote /\ next.state = "running"
      BY <3>1, TransitionType
    <3> HIDE DEF next
    <3>3. /\ \A d \in Calls \ {c} : call'[d] = call[d]
          /\ call'[c].rec = next
      BY <2>2, GotoWithTruth DEF next
    <3>4. IsTrueNext(call'[c].rec, call'[c].task)
      BY <3>1, <3>2, <3>3 DEF IsTrueNext, IsTrue, HostGrows
    <3> QED
      BY <1>5, <1>a, <3>3, <3>4, RecordsKept DEF StartSend
  <2> QED
    BY <1>5, <2>1, <2>2 DEF StartSend
<1>6. CASE StartPutRunning(c)
  BY <1>6, <1>a, GotoTruth, ReturnTruth, RecordsKept DEF StartPutRunning
<1>7. CASE StartClose(c)
  BY <1>7, <1>a, GotoTruth, ReturnTruth, RecordsKept DEF StartClose
<1>8. CASE StartDelete(c)
  <2>1. \A t \in Tasks : tasks'[t] \in {tasks[t], NoRecord}
    BY <1>0, <1>8 DEF StartDelete, TypeOK
  <2> QED
    BY <1>8, <2>1, ReturnTruth, RecordsKept DEF StartDelete
<1> QED
  BY <1>1, <1>2, <1>3, <1>4, <1>5, <1>6, <1>7, <1>8 DEF StartStep

LEMMA TaskTruth ==
  ASSUME TypeInv, SessionsAreFresh, RecordsAreTrue, HostGrows, NEW c \in Calls, TaskStep(c)
  PROVE  RecordsAreTrue'
<1> USE SentinelAssumption
<1>0. TypeOK /\ Fits(call[c])
  BY AllFit DEF TypeInv
<1>a. ASSUME tasks' = tasks \/ Put(c, call[c].task)
      PROVE  \A t \in Tasks : \/ tasks'[t] \in {tasks[t], NoRecord}
                              \/ tasks'[t] = call[c].rec /\ t = call[c].task
  BY <1>0, <1>a DEF Put, TypeOK
<1> DEFINE rec == call[c].rec
<1>b. ASSUME call[c].pc \notin {"idle", "load"} \cup StartLabels
      PROVE  /\ rec \in Record /\ rec \in Draft /\ call[c].task \in Tasks
             /\ rec.session \in Handles /\ rec.remote \in Remotes
             /\ IsTrue(rec, call[c].task)
             /\ status[rec.remote] # "free"
  BY <1>0, <1>b DEF Fits, StartLabels, Record, Draft, RecordsAreTrue, IsTrue
(* A record that moves on to a state other than an exit or lost.           *)
<1>c. ASSUME tasks' = tasks \/ Put(c, call[c].task), NEW label, NEW next,
             GotoWith(c, label, next),
             IsTrueNext(next, call[c].task)
      PROVE  RecordsAreTrue'
  BY <1>a, <1>c, GotoWithTruth, RecordsKept
<1>d. ASSUME tasks' = tasks, Cancelled(c), call[c].pc \in {"cancelWait", "close"}
      PROVE  RecordsAreTrue'
  <2> DEFINE next == transitionTask(rec, "cancelled", NoExit)
  <2>1. next.remote = rec.remote /\ next.state = "cancelled"
    BY <1>b, <1>d, TransitionType DEF StartLabels
  <2> HIDE DEF next
  <2>2. IsTrueNext(next, call[c].task)
    BY <1>b, <1>d, <2>1 DEF IsTrueNext, HostGrows, StartLabels
  <2> QED
    BY <1>c, <1>d, <2>2 DEF Cancelled, next
<1>1. CASE Load(c)
  <2>1. CASE Return(c)
    BY <1>1, <1>a, <2>1, ReturnTruth, RecordsKept DEF Load
  <2>2. CASE call' = [call EXCEPT ![c].stage = "drain"]
    <3>1. /\ \A d \in Calls \ {c} : call'[d] = call[d]
          /\ UNCHANGED <<call[c].rec, call[c].task>>
      BY <1>0, <2>2 DEF TypeOK, Call
    <3> QED
      BY <1>1, <1>a, <3>1, RecordsKept DEF Load
  <2>3. CASE GotoWith(c, "list", tasks[call[c].task]) /\ tasks[call[c].task] # NoRecord
    <3>1. call[c].task \in Tasks
      BY <1>0, <1>1 DEF Fits, Load, At
    <3>2. IsTrueNext(tasks[call[c].task], call[c].task)
      BY <2>3, <3>1, TruthStays DEF RecordsAreTrue
    <3> QED
      BY <1>1, <1>a, <2>3, <3>2, GotoWithTruth, RecordsKept DEF Load
  <2> QED
    BY <1>1, <2>1, <2>2, <2>3 DEF Load
<1>2. CASE List(c)
  <2>1. CASE Goto(c, "probe")
    BY <1>2, <1>a, <2>1, GotoTruth, RecordsKept DEF List
  <2>2. CASE Return(c)
    BY <1>2, <1>a, <2>2, ReturnTruth, RecordsKept DEF List
  <2>3. CASE /\ rec.remote \notin listRemoteSessionIds
             /\ GotoWith(c, "putLost", transitionTask(rec, "lost", NoExit))
    <3> DEFINE next == transitionTask(rec, "lost", NoExit)
    <3>1. next.remote = rec.remote /\ next.state = "lost" /\ rec.remote \in Remotes
      BY <1>b, <1>2, TransitionType DEF StartLabels, List, At
    <3>2. status[rec.remote] = "gone"
      BY <1>0, <1>b, <1>2, <2>3 DEF StartLabels, List, At, listRemoteSessionIds, TypeOK
    <3> HIDE DEF next
    <3>3. IsTrueNext(next, call[c].task)
      BY <3>1, <3>2 DEF IsTrueNext, HostGrows
    <3> QED
      BY <1>2, <1>c, <2>3, <3>3 DEF List, next
  <2> QED
    BY <1>2, <2>1, <2>2, <2>3 DEF List
<1>3. CASE Probe(c)
  BY <1>3, <1>a, GotoTruth, ReturnTruth, RecordsKept DEF Probe, Ensured
<1>4. CASE Attach(c)
  <2>1. CASE Return(c)
    BY <1>4, <1>a, <2>1, ReturnTruth, RecordsKept DEF Attach
  <2>2. ASSUME NEW h \in Handles, NEW start,
               GotoWith(c, "putRecovered", Reattached(rec, h, start))
        PROVE  RecordsAreTrue'
    <3> DEFINE next == Reattached(rec, h, start)
    <3>1. /\ next.remote = rec.remote /\ next.state = rec.state
          /\ next.exit_code = rec.exit_code /\ next.guessed = rec.guessed
      BY <1>b, <1>4 DEF Reattached, Draft, Attach, At, StartLabels
    <3>2. IsTrueNext(rec, call[c].task)
      BY <1>b, <1>4, TruthStays DEF Attach, At, StartLabels
    <3> HIDE DEF next
    <3>3. IsTrueNext(next, call[c].task)
      BY <3>1, <3>2 DEF IsTrueNext
    <3> QED
      BY <1>4, <1>c, <2>2, <3>3 DEF Attach, next
  <2> QED
    BY <1>4, <2>1, <2>2 DEF Attach
<1>5. CASE PutRecovered(c)
  BY <1>5, <1>a, GotoTruth, ReturnTruth, RecordsKept DEF PutRecovered, Ensured
<1>6. CASE Read(c)
  <2>1. CASE Return(c)
    BY <1>6, <1>a, <2>1, ReturnTruth, RecordsKept DEF Read
  <2>2. ASSUME NEW n \in 0..BufferLength(rec.session), NEW more, rec.session \in up,
               NEW from, NEW next \in Chunks(rec, call[c].task, from, n),
               call' = [call EXCEPT ![c].pc = "putChunk",
                                    ![c].rec = next,
                                    ![c].more = more]
        PROVE  RecordsAreTrue'
    <3> DEFINE r == onto[rec.session]
    <3>1. /\ rec \in Record /\ call[c].task \in Tasks /\ IsTrue(rec, call[c].task)
      BY <1>b, <1>6 DEF Read, At, StartLabels
    <3>2. r \in Remotes /\ n \in Nat
      BY <2>2, Split, BufferType DEF SessionsAreFresh
    <3>3. /\ next.remote = rec.remote
          /\ \/ /\ next.state = rec.state /\ next.exit_code = rec.exit_code
                /\ next.guessed = rec.guessed
             \/ \E e \in Exits :
                  /\ next.state = mapExitCodeToTaskState(e)
                  /\ next.exit_code = e
                  /\ next.guessed \/ (job[r] = call[c].task /\ ended[r] = e)
      BY <3>1, <3>2, ChunkType
    <3>4. /\ \A d \in Calls \ {c} : call'[d] = call[d]
          /\ call'[c].rec = next /\ call'[c].task = call[c].task
      BY <1>0, <2>2 DEF TypeOK, Call
    <3> HIDE DEF r
    <3>5. IsTrueNext(rec, call[c].task)
      BY <3>1, TruthStays
    <3>6. CASE /\ next.state = rec.state /\ next.exit_code = rec.exit_code
               /\ next.guessed = rec.guessed
      <4>1. IsTrueNext(next, call[c].task)
        BY <3>3, <3>5, <3>6 DEF IsTrueNext
      <4> QED
        BY <1>6, <1>a, <3>4, <4>1, RecordsKept DEF Read
    <3>7. ASSUME NEW e \in Exits,
                 next.state = mapExitCodeToTaskState(e),
                 next.exit_code = e,
                 next.guessed \/ (job[r] = call[c].task /\ ended[r] = e)
          PROVE  RecordsAreTrue'
      <4>1. next.guessed \/ (job'[r] = call[c].task /\ ended'[r] = e)
        BY <3>1, <3>2, <3>7 DEF HostGrows
      <4>2. next.state # "lost"
        BY <3>7 DEF mapExitCodeToTaskState
      <4>3. IsTrueNext(next, call[c].task)
        BY <3>2, <3>3, <3>5, <3>7, <4>1, <4>2 DEF IsTrueNext
      <4> QED
        BY <1>6, <1>a, <3>4, <4>3, RecordsKept DEF Read
    <3> QED
      BY <3>3, <3>6, <3>7
  <2> QED
    BY <1>6, <2>1, <2>2 DEF Read
<1>7. CASE PutChunk(c)
  <2>1. /\ \A d \in Calls \ {c} : call'[d] = call[d]
        /\ call'[c].rec = NoRecord \/ UNCHANGED <<call[c].rec, call[c].task>>
    BY <1>0, <1>7 DEF PutChunk, Return, Idle, TypeOK, Call
  <2> QED
    BY <1>7, <1>a, <2>1, RecordsKept DEF PutChunk
<1>8. CASE WaitFor(c)
  <2>1. CASE Return(c)
    BY <1>8, <1>a, <2>1, ReturnTruth, RecordsKept DEF WaitFor
  <2>2. CASE /\ rec.session \in up /\ MarkerInBuffer(rec.session, call[c].task)
             /\ GotoWith(c, "putExit", transitionWithExit(rec, ended[onto[rec.session]]))
    <3> DEFINE r == onto[rec.session]
               next == transitionWithExit(rec, ended[r])
    <3>1. /\ r \in Remotes /\ job[r] = call[c].task /\ ended[r] \in Exits
      BY <2>2 DEF SessionsAreFresh, MarkerInBuffer
    <3>2. rec \in Draft /\ call[c].task \in Tasks /\ IsTrue(rec, call[c].task)
      BY <1>b, <1>8 DEF WaitFor, At, StartLabels
    <3>3. /\ next.remote = rec.remote
          /\ \/ next = rec
             \/ next.state = mapExitCodeToTaskState(ended[r]) /\ next.exit_code = ended[r]
      BY <3>1, <3>2, ExitType
    <3>4. job'[r] = call[c].task /\ ended'[r] = ended[r]
      BY <3>1, <3>2 DEF HostGrows
    <3>5. IsTrueNext(rec, call[c].task)
      BY <3>2, TruthStays
    <3> HIDE DEF next, r
    <3>6. mapExitCodeToTaskState(ended[r]) # "lost"
      BY DEF mapExitCodeToTaskState
    <3>7. IsTrueNext(next, call[c].task)
      BY <3>1, <3>3, <3>4, <3>5, <3>6 DEF IsTrueNext
    <3> QED
      BY <1>8, <1>c, <2>2, <3>7 DEF WaitFor, next, r
  <2> QED
    BY <1>8, <2>1, <2>2 DEF WaitFor
<1>9. CASE CtrlC(c)
  BY <1>9, <1>a, GotoTruth, ReturnTruth, RecordsKept DEF CtrlC
<1>10. CASE CancelWait(c)
  <2>1. CASE Goto(c, "close") \/ Return(c)
    BY <1>10, <1>a, <2>1, GotoTruth, ReturnTruth, RecordsKept DEF CancelWait
  <2>2. CASE Cancelled(c)
    BY <1>10, <1>d, <2>2 DEF CancelWait, At
  <2> QED
    BY <1>10, <2>1, <2>2 DEF CancelWait
<1>11. CASE Close(c)
  <2>1. CASE Return(c)
    BY <1>11, <1>a, <2>1, ReturnTruth, RecordsKept DEF Close
  <2>2. CASE Cancelled(c)
    BY <1>11, <1>d, <2>2 DEF Close, At
  <2> QED
    BY <1>11, <2>1, <2>2 DEF Close
<1>12. CASE PutLast(c)
  BY <1>12, <1>a, ReturnTruth, RecordsKept DEF PutLast
<1> QED
  BY <1>1, <1>2, <1>3, <1>4, <1>5, <1>6, <1>7, <1>8, <1>9, <1>10, <1>11, <1>12
     DEF TaskStep

LEMMA OtherTruth ==
  ASSUME TypeInv, RecordsAreTrue, HostGrows,
         \/ \E c \in Calls, t \in Tasks : StartCall(c, t)
         \/ \E c \in Calls, t \in Tasks, op \in Requests \ {"start"} : Begin(c, op, t)
         \/ \E c \in Calls : Fail(c)
         \/ Environment
         \/ UNCHANGED vars
  PROVE  RecordsAreTrue'
<1> USE SentinelAssumption
<1>1. ASSUME NEW c \in Calls,
             \/ \E t \in Tasks : StartCall(c, t)
             \/ \E t \in Tasks, op \in Requests \ {"start"} : Begin(c, op, t)
             \/ Fail(c)
      PROVE  RecordsAreTrue'
  <2>1. /\ \A d \in Calls \ {c} : call'[d] = call[d]
        /\ call'[c].rec = NoRecord
    <3>2. CASE \E t \in Tasks : StartCall(c, t)
      <4>1. PICK t \in Tasks : StartCall(c, t)
        BY <3>2
      <4>2. call' = [call EXCEPT ![c] = [Idle EXCEPT !.pc = "sList", !.op = "start", !.task = t]]
        BY <4>1 DEF StartCall
      <4> QED
        BY <4>2 DEF Idle, TypeInv, TypeOK
    <3>4. CASE \E t \in Tasks, op \in Requests \ {"start"} : Begin(c, op, t)
      <4>1. PICK t \in Tasks, op \in Requests \ {"start"} : Begin(c, op, t)
        BY <3>4
      <4> DEFINE stage == IF op = "output" THEN "drain" ELSE "enter"
      <4>2. call' = [call EXCEPT ![c] = [Idle EXCEPT !.pc = "load", !.op = op, !.task = t,
                                                     !.stage = stage]]
        BY <4>1 DEF Begin
      <4> HIDE DEF stage
      <4> QED
        BY <4>2 DEF Idle, TypeInv, TypeOK
    <3>3. CASE Fail(c)
      BY <3>3, ReturnTruth DEF Fail
    <3> QED
      BY <1>1, <3>2, <3>3, <3>4
  <2>2. tasks' = tasks
    BY <1>1 DEF StartCall, Begin, Fail
  <2> QED
    BY <2>1, <2>2, RecordsKept
<1>2. CASE Environment \/ UNCHANGED vars
  <2>1. tasks' = tasks
    BY <1>2 DEF Environment, PrintOutput, Exit, RemoteDies, HandleDies, Crash, vars
  <2>2. call' = call \/ call' = [c \in Calls |-> Idle]
    BY <1>2 DEF Environment, PrintOutput, Exit, RemoteDies, HandleDies, Crash, vars
  <2>3. \A d \in Calls : call[d].rec # NoRecord => IsTrueNext(call[d].rec, call[d].task)
    BY TruthStays DEF TypeInv, CallShape, RecordsAreTrue
  <2>4. \A t \in Tasks : tasks[t] # NoRecord => IsTrueNext(tasks[t], t)
    BY TruthStays DEF RecordsAreTrue
  <2> QED
    BY <2>1, <2>2, <2>3, <2>4 DEF RecordsAreTrue, IsTrue, IsTrueNext, Idle
<1> QED
  BY <1>1, <1>2

-----------------------------------------------------------------------------
LEMMA InitInv == Init => TaskInv
<1> SUFFICES ASSUME Init PROVE TaskInv
  OBVIOUS
<1>1. TypeOK /\ CallShape
  BY InitTypes DEF TypeInv
<1>2. SessionsAreFresh
  BY SentinelAssumption DEF Init, SessionsAreFresh, Idle, Unsent
<1>3. RecordsAreTrue
  BY DEF Init, RecordsAreTrue, Idle
<1> QED
  BY <1>1, <1>2, <1>3 DEF TaskInv

LEMMA NextInv == TaskInv /\ [Next]_vars => TaskInv'
<1> SUFFICES ASSUME TaskInv, [Next]_vars PROVE TaskInv'
  OBVIOUS
<1>1. TypeInv /\ SessionsAreFresh /\ RecordsAreTrue
  BY DEF TaskInv, TypeInv, SessionsAreFresh
<1>2. TypeInv' /\ SessionsAreFresh'
  BY <1>1, NextTypes, SessionsNext
<1>3. HostGrows
  BY <1>1, HostOnlyGrows
<1>4. RecordsAreTrue'
  BY <1>1, <1>3, StartTruth, TaskTruth, OtherTruth DEF Next, Step
<1> QED
  BY <1>2, <1>4 DEF TaskInv, TypeInv

(* The inductive invariant: what the stored records and their copies in    *)
(* flight say of sessions and exits is true of the remote host, where a    *)
(* record that remembers a guess makes no claim about the exit.            *)
THEOREM TaskInvariant == Spec => []TaskInv
BY InitInv, NextInv, PTL DEF Spec

(* A task is called succeeded or failed only if its command really ended   *)
(* that way, for any number of concurrent calls with stale records, any    *)
(* split of the marker and any restart, unless the exit was read off a     *)
(* fragment glued to what does not follow it (applyOutputChunk, 289;       *)
(* waitForTask).                                                           *)
THEOREM ExitStateIsAlwaysTruthful == Spec => []ExitStateIsTruthful
<1>1. TaskInv => ExitStateIsTruthful
  BY DEF TaskInv, RecordsAreTrue, IsTrue, ExitStateIsTruthful
<1> QED
  BY <1>1, TaskInvariant, PTL

(* A task is called lost only if its remote session is gone for good       *)
(* (ensureTaskSession).                                                    *)
THEOREM LostAlwaysMeansGone == Spec => []LostMeansGone
<1>1. TaskInv => LostMeansGone
  BY DEF TaskInv, RecordsAreTrue, IsTrue, LostMeansGone
<1> QED
  BY <1>1, TaskInvariant, PTL
-----------------------------------------------------------------------------
(* A task and its session.  Without a reported id a start may take the     *)
(* session of another start for its own, but only if its own has died; it  *)
(* then never types its command.                                           *)

Unstored == {"sList", "sCreate", "sDiff", "sPutQueued", "sClose"}
Untyped == {"sList", "sCreate", "sDiff", "sPutQueued", "sSend"}

Starter(c, t) == call[c].pc \in StartLabels /\ call[c].task = t

(* A record of t, stored or in flight.                                     *)
Copy(rec, t) ==
  /\ rec \in Record
  /\ rec = tasks[t] \/ \E c \in Calls : call[c].task = t /\ call[c].rec = rec

(* The command of t was never typed and never will be.                     *)
Never(t) ==
  /\ \A r \in Remotes : job[r] # t
  /\ \A c \in Calls : Starter(c, t) /\ call[c].pc \in Unsent => status[onto[call[c].rec.session]] = "gone"

FreshIds ==
  \A t \in Tasks \ used :
    /\ tasks[t] = NoRecord
    /\ \A c \in Calls : call[c].task # t
    /\ \A r \in Remotes : job[r] # t

(* Until a start stores its record nobody else knows the task, and until   *)
(* it sends the command no session has it.                                 *)
StartsAlone ==
  \A c \in Calls, t \in Tasks : Starter(c, t) =>
    /\ \A d \in Calls : Starter(d, t) => c = d
    /\ call[c].pc \in Unstored => tasks[t] = NoRecord /\ \A d \in Calls \ {c} : call[d].task # t
    /\ call[c].pc \in Untyped => \A r \in Remotes : job[r] # t
    /\ call[c].pc \in {"sList", "sCreate"} => call[c].rec = NoRecord
    /\ call[c].pc = "sDiff" => call[c].rec.remote = NoRemote

(* The list taken before a creation does not hold the new session.         *)
ListsAreOld ==
  \A c \in Calls :
    /\ call[c].pc = "sCreate" => \A r \in call[c].before : status[r] # "free"
    /\ call[c].pc = "sDiff" => onto[call[c].rec.session] \notin call[c].before

SameRemote ==
  \A t \in Tasks : \A a, b \in Record : Copy(a, t) /\ Copy(b, t) => a.remote = b.remote

Fine(rec, t) ==
  /\ onto[rec.session] \in Remotes
  /\ onto[rec.session] = rec.remote \/ Never(t)
  /\ \A r \in Remotes : job[r] = t => rec.remote = r
  /\ rec.state = "cancelled" => hit[rec.remote] \/ Never(t)

AllFine == \A t \in Tasks : \A rec \in Record : Copy(rec, t) => Fine(rec, t)

CancelsHit ==
  \A c \in Calls : call[c].pc \in {"cancelWait", "close"} => hit[call[c].rec.remote] \/ Never(call[c].task)

OwnInv == FreshIds /\ StartsAlone /\ ListsAreOld /\ SameRemote /\ AllFine /\ CancelsHit

(* Handles stay onto their sessions, and what was hit stays hit.           *)
LinksGrow ==
  /\ \A h \in Handles : onto[h] \in Remotes => onto'[h] = onto[h]
  /\ \A r \in Remotes : hit[r] => hit'[r]

LEMMA LinksOnlyGrow ==
  ASSUME TypeInv, [Next]_vars
  PROVE  LinksGrow
<1> USE SentinelAssumption
<1>0. TypeOK
  BY DEF TypeInv
<1>1. CASE UNCHANGED <<onto, hit>>
  BY <1>1 DEF LinksGrow
<1>2. ASSUME NEW c \in Calls, StartCreate(c) \/ Attach(c) PROVE LinksGrow
  BY <1>0, <1>2 DEF StartCreate, Attach, Connect, LinksGrow, TypeOK, links, host
<1>3. ASSUME NEW c \in Calls, StartClose(c) \/ Close(c) PROVE LinksGrow
  BY <1>0, <1>3 DEF StartClose, Close, TryClose, CloseSession, LinksGrow, TypeOK, links, host
<1>4. ASSUME NEW c \in Calls, CtrlC(c) PROVE LinksGrow
  BY <1>0, <1>4 DEF CtrlC, LinksGrow, TypeOK, links
<1>5. CASE Environment \/ UNCHANGED vars
  BY <1>1, <1>5 DEF Environment, PrintOutput, Exit, RemoteDies, HandleDies, Crash, links, host, vars
<1>6. ASSUME NEW c \in Calls,
             \/ StartList(c) \/ StartDiff(c) \/ StartPutQueued(c) \/ StartSend(c)
             \/ StartPutRunning(c) \/ StartDelete(c)
             \/ Load(c) \/ List(c) \/ Probe(c) \/ PutRecovered(c) \/ Read(c)
             \/ PutChunk(c) \/ WaitFor(c) \/ CancelWait(c) \/ PutLast(c) \/ Fail(c)
             \/ \E t \in Tasks : StartCall(c, t)
             \/ \E t \in Tasks, op \in Requests \ {"start"} : Begin(c, op, t)
      PROVE  UNCHANGED <<onto, hit>>
  BY <1>6 DEF StartList, StartDiff, StartPutQueued, StartSend, StartPutRunning, StartDelete, Load,
     List, Probe, PutRecovered, Read, PutChunk, WaitFor, CancelWait, PutLast,
     Fail, StartCall, Begin, links, host
<1> QED
  BY <1>1, <1>2, <1>3, <1>4, <1>5, <1>6 DEF Next, Step, StartStep, TaskStep

(* What a step of a running call does: the record it carries afterwards is *)
(* a copy, follows from the one it carried, or is new.                     *)
Derived(c, rec) ==
  /\ call[c].rec \in Record
  /\ rec.remote = call[c].rec.remote
  /\ rec.session = call[c].rec.session \/ onto'[rec.session] = rec.remote
  /\ rec.state = "cancelled" => call[c].rec.state = "cancelled" \/ call[c].pc \in {"cancelWait", "close"}

Born(c, rec) ==
  /\ call[c].pc \in {"sCreate", "sDiff"}
  /\ rec.state # "cancelled"
  /\ onto'[rec.session] \in Remotes
  /\ onto'[rec.session] = rec.remote \/ status'[onto'[rec.session]] = "gone"
  /\ UNCHANGED <<job, tasks>>

StepOf(c) ==
  /\ \A d \in Calls \ {c} : call'[d] = call[d]
  /\ call'[c] = Idle \/ call'[c].task = call[c].task
  /\ call'[c].pc \in StartLabels => call[c].pc \in StartLabels
  /\ call'[c].pc \in Unstored => call[c].pc \in Unstored /\ UNCHANGED tasks
  /\ call'[c].pc \in Untyped => call[c].pc \in Untyped /\ UNCHANGED job
  /\ call'[c].pc \in Unsent => \/ call[c].pc = "sCreate"
                               \/ call[c].pc \in Unsent /\ call'[c].rec.session = call[c].rec.session
  /\ call'[c].pc \in {"sList", "sCreate"} => call'[c].rec = NoRecord
  /\ call'[c].pc = "sDiff" => call'[c].rec.remote = NoRemote /\ onto'[call'[c].rec.session] \notin call'[c].before
  /\ call'[c].pc = "sCreate" => \A r \in call'[c].before : status[r] # "free"
  /\ call'[c].pc \in {"cancelWait", "close"} =>
       /\ call[c].rec \in Record /\ call'[c].rec = call[c].rec
       /\ call[c].pc = "cancelWait" \/ hit'[onto[call[c].rec.session]]
  /\ \A t \in Tasks : \/ tasks'[t] = tasks[t]
                      \/ t = call[c].task /\ tasks'[t] \in {NoRecord, call[c].rec}
  /\ \A r \in Remotes : \/ job'[r] = job[r]
                        \/ /\ call[c].pc = "sSend" /\ call[c].rec \in Record
                           /\ r = onto[call[c].rec.session] /\ status[r] = "alive" /\ job'[r] = call[c].task
  /\ used' = used
  /\ call'[c].rec \in Record =>
       Copy(call'[c].rec, call[c].task) \/ Derived(c, call'[c].rec) \/ Born(c, call'[c].rec)

LEMMA StartersKept ==
  ASSUME TypeInv, TypeInv', SessionsAreFresh, OwnInv, HostGrows, LinksGrow, NEW c \in Calls, StepOf(c)
  PROVE  FreshIds' /\ StartsAlone' /\ ListsAreOld'
<1> USE SentinelAssumption
<1>1. Idle.task \notin Tasks /\ Idle.pc \notin StartLabels
  BY DEF Idle, StartLabels
<1>2. \A d \in Calls, t \in Tasks : call'[d].task = t => call[d].task = t
  BY <1>1 DEF StepOf
<1>3. \A d \in Calls, t \in Tasks : Starter(d, t)' => Starter(d, t)
  BY <1>1, <1>2 DEF StepOf, Starter
<1>4. FreshIds'
  BY <1>2 DEF OwnInv, FreshIds, StepOf
<1>5. StartsAlone'
  <2> SUFFICES ASSUME NEW d \in Calls, NEW t \in Tasks, Starter(d, t)'
               PROVE  (/\ \A e \in Calls : Starter(e, t) => d = e
                       /\ call[d].pc \in Unstored => tasks[t] = NoRecord /\ \A e \in Calls \ {d} : call[e].task # t
                       /\ call[d].pc \in Untyped => \A r \in Remotes : job[r] # t
                       /\ call[d].pc \in {"sList", "sCreate"} => call[d].rec = NoRecord
                       /\ call[d].pc = "sDiff" => call[d].rec.remote = NoRemote)'
    BY DEF StartsAlone
  <2>1. /\ Starter(d, t)
        /\ \A e \in Calls : Starter(e, t) => d = e
        /\ call[d].pc \in Unstored => tasks[t] = NoRecord /\ \A e \in Calls \ {d} : call[e].task # t
        /\ call[d].pc \in Untyped => \A r \in Remotes : job[r] # t
        /\ call[d].pc \in {"sList", "sCreate"} => call[d].rec = NoRecord
        /\ call[d].pc = "sDiff" => call[d].rec.remote = NoRemote
    BY <1>3 DEF OwnInv, StartsAlone
  <2>2. \A e \in Calls : Starter(e, t)' => d = e
    BY <1>3, <2>1
  <2>3. CASE d = c
    BY <1>2, <2>1, <2>2, <2>3 DEF StepOf
  <2>4. CASE d # c
    <3>1. call'[d] = call[d]
      BY <2>4 DEF StepOf
    <3>2. call[d].pc \in Unstored => tasks'[t] = NoRecord
      BY <2>1, <2>4 DEF StepOf
    <3>3. call[c].pc = "sSend" => call[c].task # t
      BY <2>1, <2>4 DEF Starter, StartLabels
    <3>4. call[d].pc \in Untyped => \A r \in Remotes : job'[r] # t
      BY <2>1, <3>3 DEF StepOf
    <3> QED
      BY <1>2, <2>1, <2>2, <3>1, <3>2, <3>4
  <2> QED
    BY <2>3, <2>4
<1>6. ListsAreOld'
  <2> SUFFICES ASSUME NEW d \in Calls
               PROVE  (/\ call[d].pc = "sCreate" => \A r \in call[d].before : status[r] # "free"
                       /\ call[d].pc = "sDiff" => onto[call[d].rec.session] \notin call[d].before)'
    BY DEF ListsAreOld
  <2>0. Fits(call[d])
    BY AllFit DEF TypeInv
  <2>1. call[d].before \subseteq Remotes
    BY <2>0 DEF Fits, Call
  <2>2. CASE d # c
    <3>1. call'[d] = call[d]
      BY <2>2 DEF StepOf
    <3>2. /\ call[d].pc = "sCreate" => \A r \in call[d].before : status[r] # "free"
          /\ call[d].pc = "sDiff" => onto[call[d].rec.session] \notin call[d].before
      BY DEF OwnInv, ListsAreOld
    <3>3. call[d].pc = "sDiff" => call[d].rec.session \in Handles /\ onto[call[d].rec.session] \in Remotes
      BY <2>0 DEF Fits, Call, Draft, SessionsAreFresh, Unsent
    <3> QED
      BY <2>1, <3>1, <3>2, <3>3 DEF HostGrows, LinksGrow
  <2>3. CASE d = c
    <3>1. call'[c].pc = "sCreate" => \A r \in call'[c].before : status[r] # "free"
      BY DEF StepOf
    <3>2. call'[c].pc = "sDiff" => onto'[call'[c].rec.session] \notin call'[c].before
      BY DEF StepOf
    <3>3. call'[c].pc = "sCreate" => call'[c].before \subseteq Remotes
      BY DEF TypeInv, TypeOK, Call
    <3> QED
      BY <2>3, <3>1, <3>2, <3>3 DEF HostGrows
  <2> QED
    BY <2>2, <2>3
<1> QED
  BY <1>4, <1>5, <1>6

LEMMA CopyFacts ==
  ASSUME TypeInv, OwnInv, NEW t \in Tasks, NEW rec \in Record, Copy(rec, t)
  PROVE  /\ Fine(rec, t) /\ rec \in Draft /\ rec.session \in Handles /\ rec.remote \in Remotes
         /\ \A c \in Calls : Starter(c, t) => call[c].pc \notin {"sList", "sCreate", "sDiff"}
<1> USE SentinelAssumption
<1>1. rec \in Draft /\ rec.session \in Handles /\ rec.remote \in Remotes
  BY RecordType DEF Draft
<1>2. ASSUME NEW c \in Calls, Starter(c, t), call[c].pc \in {"sList", "sCreate", "sDiff"} PROVE FALSE
  <2>1. /\ tasks[t] = NoRecord /\ \A d \in Calls \ {c} : call[d].task # t
        /\ call[c].pc # "sDiff" => call[c].rec = NoRecord
        /\ call[c].pc = "sDiff" => call[c].rec.remote = NoRemote
    BY <1>2 DEF OwnInv, StartsAlone, Unstored
  <2>2. rec # NoRecord /\ rec.remote # NoRemote
    BY <1>1
  <2> QED
    BY <1>2, <2>1, <2>2 DEF Copy
<1> QED
  BY <1>1, <1>2 DEF OwnInv, AllFine

(* No step types the command of a task that never will have one.           *)
LEMMA NeverStays ==
  ASSUME TypeInv, SessionsAreFresh, OwnInv, HostGrows, LinksGrow, NEW c \in Calls, StepOf(c),
         NEW t \in Tasks, NEW rec \in Record, Copy(rec, t), Never(t)
  PROVE  Never(t)'
<1> USE SentinelAssumption
<1>1. Idle.task \notin Tasks /\ Idle.pc \notin StartLabels
  BY DEF Idle, StartLabels
<1>2. \A d \in Calls : Starter(d, t)' => Starter(d, t)
  BY <1>1 DEF StepOf, Starter
<1>3. ASSUME NEW r \in Remotes PROVE job'[r] # t
  <2>1. job[r] # t
    BY DEF Never
  <2>2. call[c].pc = "sSend" /\ call[c].task = t => status[onto[call[c].rec.session]] = "gone"
    BY DEF Never, Starter, Unsent, StartLabels
  <2> QED
    BY <2>1, <2>2 DEF StepOf
<1>4. ASSUME NEW d \in Calls, Starter(d, t)', call'[d].pc \in Unsent
      PROVE  status'[onto'[call'[d].rec.session]] = "gone"
  <2>1. call[d].pc \in Unsent /\ call'[d].rec.session = call[d].rec.session
    <3>1. call[d].pc # "sCreate"
      BY <1>2, <1>4, CopyFacts
    <3> QED
      BY <1>4, <3>1 DEF StepOf
  <2>2. status[onto[call[d].rec.session]] = "gone" /\ onto[call[d].rec.session] \in Remotes
    BY <1>2, <1>4, <2>1 DEF Never, SessionsAreFresh
  <2>3. call[d].rec.session \in Handles
    BY <2>1, AllFit DEF TypeInv, Fits, Call, Draft, Unsent
  <2> QED
    BY <2>1, <2>2, <2>3 DEF HostGrows, LinksGrow
<1> QED
  BY <1>3, <1>4 DEF Never

LEMMA CopyStaysFine ==
  ASSUME TypeInv, SessionsAreFresh, OwnInv, HostGrows, LinksGrow, NEW c \in Calls, StepOf(c),
         NEW t \in Tasks, NEW rec \in Record, Copy(rec, t)
  PROVE  Fine(rec, t)'
<1> USE SentinelAssumption
<1>1. Fine(rec, t) /\ rec.session \in Handles /\ rec.remote \in Remotes
  BY CopyFacts
<1>2. Never(t) => Never(t)'
  BY NeverStays
<1>3. onto'[rec.session] = onto[rec.session]
  BY <1>1 DEF Fine, LinksGrow
<1>4. ASSUME NEW r \in Remotes, job'[r] = t PROVE rec.remote = r
  <2>1. CASE job[r] = t
    BY <1>1, <2>1 DEF Fine
  <2>2. CASE job[r] # t
    <3>1. /\ call[c].pc = "sSend" /\ call[c].rec \in Record /\ call[c].task = t
          /\ r = onto[call[c].rec.session] /\ status[r] = "alive"
      BY <1>4, <2>2 DEF StepOf
    <3>2. Copy(call[c].rec, t)
      BY <3>1 DEF Copy
    <3>3. ~Never(t)
      BY <3>1 DEF Never, Starter, Unsent, StartLabels
    <3>4. r = call[c].rec.remote
      BY <3>1, <3>2, <3>3, CopyFacts DEF Fine
    <3> QED
      BY <3>1, <3>2, <3>4 DEF OwnInv, SameRemote
  <2> QED
    BY <2>1, <2>2
<1>5. rec.state = "cancelled" => hit'[rec.remote] \/ Never(t)'
  BY <1>1, <1>2 DEF Fine, LinksGrow
<1> QED
  BY <1>1, <1>2, <1>3, <1>4, <1>5 DEF Fine

LEMMA CopiesKept ==
  ASSUME TypeInv, SessionsAreFresh, OwnInv, HostGrows, LinksGrow, NEW c \in Calls, StepOf(c)
  PROVE  SameRemote' /\ AllFine' /\ CancelsHit'
<1> USE SentinelAssumption
<1>0. NoTask \notin Tasks /\ NoRecord \notin Record /\ Idle.task = NoTask
  BY RecordType DEF Idle
<1>t. call[c].rec \in Record => call[c].task \in Tasks
  BY <1>0, AllFit DEF TypeInv, Fits
<1> DEFINE u == call[c].task
           new == call'[c].rec
(* Where a copy comes from.                                                *)
<1>1. ASSUME NEW t \in Tasks, NEW rec \in Record, Copy(rec, t)', ~Copy(rec, t)
      PROVE  t = u /\ rec = new /\ call'[c].task = u /\ (Derived(c, rec) \/ Born(c, rec))
  <2>1. CASE rec = tasks'[t]
    <3>1. t = u /\ rec = call[c].rec
      BY <1>0, <1>1, <2>1 DEF StepOf, Copy
    <3> QED
      BY <1>1, <3>1 DEF Copy
  <2>2. CASE rec # tasks'[t]
    <3>1. PICK d \in Calls : call'[d].task = t /\ call'[d].rec = rec
      BY <1>1, <2>2 DEF Copy
    <3>2. d = c
      BY <1>1, <3>1 DEF StepOf, Copy
    <3>3. t = u /\ rec = new /\ call'[c].task = u
      BY <1>0, <1>1, <3>1, <3>2 DEF StepOf
    <3> QED
      BY <1>1, <3>3 DEF StepOf
  <2> QED
    BY <2>1, <2>2
<1> HIDE DEF u, new
<1>2. ASSUME NEW t \in Tasks, NEW rec \in Record, t = u, rec = new, Derived(c, rec)
      PROVE  Copy(call[c].rec, t) /\ Fine(rec, t)'
  <2>1. PICK old \in Record : old = call[c].rec
    BY <1>2 DEF Derived
  <2>2. Copy(old, t)
    BY <1>2, <2>1 DEF Copy, u
  <2>3. Fine(old, t)' /\ (Never(t) => Never(t)')
    BY <1>2, <2>1, <2>2, CopyStaysFine, NeverStays
  <2>4. rec.remote = old.remote /\ rec.remote \in Remotes
    BY <1>2, <2>1, RecordType DEF Derived
  <2>5. /\ onto'[rec.session] \in Remotes
        /\ onto'[rec.session] = rec.remote \/ Never(t)'
    BY <1>2, <2>1, <2>3, <2>4 DEF Derived, Fine
  <2>6. rec.state = "cancelled" => hit'[rec.remote] \/ Never(t)'
    <3>1. CASE old.state = "cancelled"
      BY <2>3, <2>4, <3>1 DEF Fine
    <3>2. CASE call[c].pc \in {"cancelWait", "close"}
      <4>1. hit[old.remote] \/ Never(t)
        BY <1>2, <2>1, <3>2 DEF OwnInv, CancelsHit, u
      <4> QED
        BY <2>3, <2>4, <4>1 DEF LinksGrow
    <3> QED
      BY <1>2, <2>1, <3>1, <3>2 DEF Derived
  <2>7. \A r \in Remotes : job'[r] = t => rec.remote = r
    BY <2>3, <2>4 DEF Fine
  <2> QED
    BY <2>1, <2>2, <2>5, <2>6, <2>7 DEF Fine
<1>3. ASSUME NEW t \in Tasks, NEW rec \in Record, t = u, rec = new, Born(c, rec), call'[c].task = u
      PROVE  Fine(rec, t)' /\ \A old \in Record : ~Copy(old, t)
  <2>1. Starter(c, t) /\ call[c].pc \in Untyped \cap Unstored
    BY <1>3 DEF Born, Starter, StartLabels, Untyped, Unstored, u
  <2>2. \A old \in Record : ~Copy(old, t)
    BY <1>3, <2>1, CopyFacts DEF Born
  <2>3. \A r \in Remotes : job'[r] # t
    BY <1>3, <2>1 DEF OwnInv, StartsAlone, Born
  <2>4. \A d \in Calls \ {c} : call'[d].task # t
    BY <1>3, <2>1 DEF OwnInv, StartsAlone, StepOf
  <2>5. status'[onto'[rec.session]] = "gone" => Never(t)'
    BY <1>3, <2>3, <2>4 DEF Never, Starter, new
  <2> QED
    BY <1>3, <2>2, <2>3, <2>5 DEF Fine, Born
<1>4. AllFine'
  <2> SUFFICES ASSUME NEW t \in Tasks, NEW rec \in Record, Copy(rec, t)'
               PROVE  Fine(rec, t)'
    BY DEF AllFine
  <2>1. CASE Copy(rec, t)
    BY <2>1, CopyStaysFine
  <2>2. CASE ~Copy(rec, t)
    BY <1>1, <1>2, <1>3, <2>2
  <2> QED
    BY <2>1, <2>2
<1>5. SameRemote'
  <2> SUFFICES ASSUME NEW t \in Tasks, NEW a \in Record, NEW b \in Record, Copy(a, t)', Copy(b, t)'
               PROVE  a.remote = b.remote
    BY DEF SameRemote
  <2>1. ASSUME NEW rec \in Record, t = u, rec = new, Born(c, rec), call'[c].task = u
        PROVE  a.remote = b.remote
    <3>1. ~Copy(a, t) /\ ~Copy(b, t)
      BY <1>3, <2>1
    <3>2. a = new /\ b = new
      BY <1>1, <3>1
    <3> QED
      BY <3>2
  <2>2. CASE ~\E rec \in Record : t = u /\ rec = new /\ Born(c, rec) /\ call'[c].task = u
    <3>1. ASSUME NEW rec \in Record, Copy(rec, t)'
          PROVE  \E old \in Record : Copy(old, t) /\ old.remote = rec.remote
      <4>1. CASE Copy(rec, t)
        BY <4>1
      <4>2. CASE ~Copy(rec, t)
        <5>1. t = u /\ rec = new /\ Derived(c, rec)
          BY <1>1, <2>2, <3>1, <4>2
        <5>2. Copy(call[c].rec, t)
          BY <1>2, <5>1
        <5> QED
          BY <5>1, <5>2 DEF Derived
      <4> QED
        BY <4>1, <4>2
    <3>2. PICK old \in Record : Copy(old, t) /\ old.remote = a.remote
      BY <3>1
    <3>3. PICK older \in Record : Copy(older, t) /\ older.remote = b.remote
      BY <3>1
    <3> QED
      BY <3>2, <3>3 DEF OwnInv, SameRemote
  <2> QED
    BY <2>1, <2>2
<1>6. CancelsHit'
  <2> SUFFICES ASSUME NEW d \in Calls, call'[d].pc \in {"cancelWait", "close"}
               PROVE  hit'[call'[d].rec.remote] \/ Never(call[d].task)'
    BY DEF CancelsHit
  <2>1. call[d].rec \in Record /\ call[d].task \in Tasks /\ call'[d].rec = call[d].rec /\ call'[d].task = call[d].task
    <3>1. CASE d = c
      BY <1>0, <1>t, <3>1 DEF StepOf, Idle
    <3>2. CASE d # c
      <4>1. Fits(call[d]) /\ call'[d] = call[d]
        BY <3>2, AllFit DEF TypeInv, StepOf
      <4> QED
        BY <4>1 DEF Fits
    <3> QED
      BY <3>1, <3>2
  <2>2. PICK t \in Tasks, rec \in Record : t = call[d].task /\ rec = call[d].rec
    BY <2>1
  <2>3. Copy(rec, t) /\ Fine(rec, t) /\ rec.remote \in Remotes
    BY <2>2, CopyFacts, RecordType DEF Copy
  <2>4. Never(t) => Never(t)'
    BY <2>3, NeverStays
  <2>5. hit'[rec.remote] \/ Never(t)'
    <3>1. CASE call[d].pc \in {"cancelWait", "close"}
      BY <2>2, <2>3, <2>4, <3>1 DEF OwnInv, CancelsHit, LinksGrow
    <3>2. CASE call[d].pc \notin {"cancelWait", "close"}
      <4>1. hit'[onto[rec.session]]
        BY <2>2, <3>2 DEF StepOf
      <4> QED
        BY <2>3, <2>4, <4>1 DEF Fine
    <3> QED
      BY <3>1, <3>2
  <2>6. call'[d].rec = rec /\ call'[d].task = t
    BY <2>1, <2>2
  <2> QED
    BY <2>5, <2>6 DEF Never, Starter
<1> QED
  BY <1>4, <1>5, <1>6

(* How a step changes its call.                                            *)
LEMMA GotoMoves ==
  ASSUME TypeInv, NEW c \in Calls, NEW label, Goto(c, label)
  PROVE  /\ \A d \in Calls \ {c} : call'[d] = call[d]
         /\ call'[c].pc = label
         /\ UNCHANGED <<call[c].rec, call[c].task, call[c].before>>
BY DEF TypeInv, TypeOK, Goto, Call

LEMMA GotoWithMoves ==
  ASSUME TypeInv, NEW c \in Calls, NEW label, NEW rec, GotoWith(c, label, rec)
  PROVE  /\ \A d \in Calls \ {c} : call'[d] = call[d]
         /\ call'[c].pc = label /\ call'[c].rec = rec
         /\ UNCHANGED <<call[c].task, call[c].before>>
BY DEF TypeInv, TypeOK, GotoWith, Call

LEMMA ReturnMoves ==
  ASSUME TypeInv, NEW c \in Calls, Return(c)
  PROVE  (\A d \in Calls \ {c} : call'[d] = call[d]) /\ call'[c] = Idle
BY DEF TypeInv, TypeOK, Return

LEMMA LaterLabels ==
  /\ StartLabels = {"sList", "sCreate", "sDiff", "sPutQueued", "sSend", "sPutRunning", "sClose", "sUndo", "sDelete"}
  /\ Unsent \subseteq Untyped /\ Untyped \subseteq StartLabels /\ Unstored \subseteq StartLabels
  /\ "idle" \notin StartLabels /\ "cancelWait" \notin StartLabels /\ "close" \notin StartLabels
BY DEF StartLabels, Unsent, Untyped, Unstored

(* A step that leads nowhere into a start.                                 *)
LEMMA LaterStep ==
  ASSUME TypeInv, NEW c \in Calls,
         \A d \in Calls \ {c} : call'[d] = call[d],
         call'[c] = Idle \/ (call'[c].task = call[c].task /\ call'[c].pc \notin StartLabels),
         UNCHANGED <<job, used>>,
         tasks' = tasks \/ Put(c, call[c].task) \/ tasks' = [tasks EXCEPT ![call[c].task] = NoRecord],
         call'[c].pc \in {"cancelWait", "close"} =>
           /\ call[c].rec \in Record /\ call'[c].rec = call[c].rec
           /\ call[c].pc = "cancelWait" \/ hit'[onto[call[c].rec.session]],
         call'[c] = Idle \/ Copy(call'[c].rec, call[c].task) \/ Derived(c, call'[c].rec)
  PROVE  StepOf(c)
<1> USE SentinelAssumption
<1>1. call'[c].pc \notin StartLabels
  BY LaterLabels DEF Idle
<1>2. \A t \in Tasks : tasks'[t] = tasks[t] \/ (t = call[c].task /\ tasks'[t] \in {NoRecord, call[c].rec})
  BY DEF Put, TypeInv, TypeOK
<1>3. call'[c].rec \in Record => Copy(call'[c].rec, call[c].task) \/ Derived(c, call'[c].rec)
  BY RecordType DEF Idle
<1>4. call'[c] = Idle \/ call'[c].task = call[c].task
  OBVIOUS
<1>5. call'[c].pc \notin Unstored \cup Untyped \cup Unsent \cup {"sList", "sCreate", "sDiff"}
  BY <1>1, LaterLabels
<1> QED
  BY <1>1, <1>2, <1>3, <1>4, <1>5 DEF StepOf

LEMMA TaskStepIs ==
  ASSUME TypeInv, NEW c \in Calls, TaskStep(c) \/ Fail(c)
  PROVE  StepOf(c)
<1> USE SentinelAssumption
<1> DEFINE rec == call[c].rec
<1>0. TypeOK /\ Fits(call[c])
  BY AllFit DEF TypeInv
<1>a. ASSUME call[c].pc \notin {"idle", "load"} \cup StartLabels
      PROVE  rec \in Record /\ rec \in Draft /\ Copy(rec, call[c].task) /\ Derived(c, rec)
  BY <1>0, <1>a, RecordType DEF Fits, StartLabels, Copy, Derived
<1>b. UNCHANGED <<job, used>> /\ (tasks' = tasks \/ Put(c, call[c].task))
  BY DEF TaskStep, Load, List, Probe, Attach, PutRecovered, Read, PutChunk, WaitFor, CtrlC, CancelWait,
     Close, CloseSession, PutLast, Fail, host
<1>i. Idle.pc \notin {"cancelWait", "close"}
  BY DEF Idle
<1>1. CASE Return(c)
  BY <1>1, <1>b, <1>i, ReturnMoves, LaterStep
<1>2. ASSUME NEW label \in {"list", "probe", "attach", "read", "waitFor", "ctrlC"}, Goto(c, label),
             call[c].pc \notin {"idle", "load"} \cup StartLabels
      PROVE  StepOf(c)
  BY <1>2, <1>a, <1>b, GotoMoves, LaterStep DEF StartLabels
<1>3. ASSUME NEW label \in {"putLost", "putRecovered", "putExit", "putCancelled"}, NEW next,
             GotoWith(c, label, next), Derived(c, next)
      PROVE  StepOf(c)
  BY <1>3, <1>b, GotoWithMoves, LaterStep DEF StartLabels
<1>4. CASE Load(c)
  <2>1. CASE call' = [call EXCEPT ![c].stage = "drain"]
    <3>1. /\ \A d \in Calls \ {c} : call'[d] = call[d]
          /\ UNCHANGED <<call[c].pc, call[c].rec, call[c].task>>
      BY <1>0, <2>1 DEF TypeOK, Call
    <3>2. tasks' = tasks /\ call[c].pc = "load"
      BY <1>4 DEF Load, At
    <3>3. call[c].task \in Tasks /\ call[c].rec \in Record \cup {NoRecord}
      BY <1>0, <3>2 DEF Fits
    <3>4. \A t \in Tasks : tasks'[t] = tasks[t]
      BY <3>2
    <3> QED
      BY <1>b, <3>1, <3>2, <3>3, <3>4, LaterLabels DEF StepOf, Copy
  <2>2. CASE GotoWith(c, "list", tasks[call[c].task]) /\ tasks[call[c].task] # NoRecord
    <3>1. call[c].task \in Tasks
      BY <1>0, <1>4 DEF Fits, Load, At
    <3>2. tasks[call[c].task] \in Record
      BY <1>0, <2>2, <3>1 DEF TypeOK
    <3>3. Copy(tasks[call[c].task], call[c].task)
      BY <3>2 DEF Copy
    <3> QED
      BY <1>b, <2>2, <3>3, GotoWithMoves, LaterStep DEF StartLabels
  <2> QED
    BY <1>1, <1>4, <2>1, <2>2 DEF Load
<1>5. CASE List(c)
  <2>1. rec \in Record /\ rec \in Draft
    BY <1>a, <1>5 DEF List, At, StartLabels
  <2>2. Derived(c, transitionTask(rec, "lost", NoExit))
    BY <2>1, TransitionType DEF Derived
  <2> QED
    BY <1>1, <1>2, <1>3, <1>5, <2>2 DEF List, At, StartLabels
<1>6. CASE Probe(c) \/ PutRecovered(c)
  BY <1>1, <1>2, <1>6 DEF Probe, PutRecovered, Ensured, At, StartLabels
<1>7. CASE Attach(c)
  <2>1. CASE Return(c)
    BY <1>1, <2>1
  <2>2. ASSUME NEW h \in Handles, NEW start, Connect(h, rec.remote, start),
               GotoWith(c, "putRecovered", Reattached(rec, h, start))
        PROVE  StepOf(c)
    <3>1. rec \in Record /\ rec \in Draft
      BY <1>a, <1>7 DEF Attach, At, StartLabels
    <3>2. onto'[h] = rec.remote
      BY <1>0, <2>2 DEF Connect, TypeOK
    <3>3. Derived(c, Reattached(rec, h, start))
      BY <3>1, <3>2 DEF Derived, Reattached, Draft
    <3> QED
      BY <1>3, <2>2, <3>3
  <2> QED
    BY <1>7, <2>1, <2>2 DEF Attach
<1>8. CASE Read(c)
  <2>1. CASE Return(c)
    BY <1>1, <2>1
  <2>2. ASSUME NEW n \in 0..BufferLength(rec.session), NEW more, rec.session \in up,
               NEW from, NEW next \in Chunks(rec, call[c].task, from, n),
               call' = [call EXCEPT ![c].pc = "putChunk",
                                    ![c].rec = next,
                                    ![c].more = more]
        PROVE  StepOf(c)
    <3>1. rec \in Record /\ call[c].task \in Tasks
      BY <1>0, <1>a, <1>8 DEF Fits, Read, At, StartLabels
    <3>2. onto[rec.session] \in Remotes /\ n \in Nat
      BY <2>2, Split, BufferType DEF TypeInv
    <3>3. /\ next.remote = rec.remote /\ next.session = rec.session
          /\ next.state = rec.state \/ \E e \in Exits : next.state = mapExitCodeToTaskState(e)
      BY <3>1, <3>2, ChunkType
    <3>4. /\ \A d \in Calls \ {c} : call'[d] = call[d]
          /\ call'[c].pc = "putChunk" /\ call'[c].rec = next /\ call'[c].task = call[c].task
      BY <1>0, <2>2 DEF TypeOK, Call
    <3>5. Derived(c, next)
      BY <3>1, <3>3 DEF Derived, mapExitCodeToTaskState, Exits
    <3> QED
      BY <1>b, <3>4, <3>5, LaterStep DEF StartLabels
  <2> QED
    BY <1>8, <2>1, <2>2 DEF Read
<1>9. CASE PutChunk(c)
  <2>1. /\ \A d \in Calls \ {c} : call'[d] = call[d]
        /\ \/ call'[c] = Idle
           \/ /\ call'[c].pc \in {"load", "list"}
              /\ UNCHANGED <<call[c].rec, call[c].task>>
    BY <1>0, <1>9 DEF PutChunk, Return, TypeOK, Call
  <2>2. Derived(c, rec)
    BY <1>a, <1>9 DEF PutChunk, At, StartLabels
  <2> QED
    BY <1>b, <1>i, <2>1, <2>2, LaterStep DEF StartLabels
<1>10. CASE WaitFor(c)
  <2>1. rec \in Record /\ rec \in Draft
    BY <1>a, <1>10 DEF WaitFor, At, StartLabels
  <2>2. ASSUME NEW e \in Exits PROVE Derived(c, transitionWithExit(rec, e))
    BY <2>1, ExitType DEF Derived, mapExitCodeToTaskState, Exits
  <2> QED
    BY <1>1, <1>3, <1>10, <2>2 DEF WaitFor, MarkerInBuffer
<1>11. CASE CtrlC(c)
  <2>1. CASE Return(c)
    BY <1>1, <2>1
  <2>2. CASE rec.session \in up /\ hit' = [hit EXCEPT ![onto[rec.session]] = TRUE] /\ Goto(c, "cancelWait")
    <3>1. rec \in Record /\ Derived(c, rec)
      BY <1>a, <1>11 DEF CtrlC, At, StartLabels
    <3>2. hit'[onto[rec.session]]
      BY <1>0, <2>2 DEF TypeInv, TypeOK
    <3> QED
      BY <1>b, <2>2, <3>1, <3>2, GotoMoves, LaterStep DEF StartLabels
  <2> QED
    BY <1>11, <2>1, <2>2 DEF CtrlC
<1>12. CASE CancelWait(c) \/ Close(c)
  <2>1. rec \in Record /\ rec \in Draft /\ Derived(c, rec) /\ call[c].pc \in {"cancelWait", "close"}
    BY <1>a, <1>12 DEF CancelWait, Close, At, StartLabels
  <2>2. Derived(c, transitionTask(rec, "cancelled", NoExit))
    BY <2>1, TransitionType DEF Derived
  <2>3. CASE Goto(c, "close") /\ call[c].pc = "cancelWait"
    BY <1>b, <2>1, <2>3, GotoMoves, LaterStep DEF StartLabels
  <2> QED
    BY <1>1, <1>3, <1>12, <2>2, <2>3 DEF CancelWait, Close, Cancelled, At
<1>13. CASE PutLast(c) \/ Fail(c)
  BY <1>1, <1>13 DEF PutLast, Fail
<1> QED
  BY <1>4, <1>5, <1>6, <1>7, <1>8, <1>9, <1>10, <1>11, <1>12, <1>13 DEF TaskStep

LEMMA StartStepIs ==
  ASSUME TypeInv, SessionsAreFresh, OwnInv, NEW c \in Calls, StartStep(c)
  PROVE  StepOf(c)
<1> USE SentinelAssumption
<1> DEFINE rec == call[c].rec
<1>0. TypeOK /\ Fits(call[c])
  BY AllFit DEF TypeInv
<1>a. ASSUME call[c].pc \in StartLabels \ {"sList", "sCreate", "sDiff", "sClose"}
      PROVE  rec \in Record /\ rec \in Draft /\ call[c].task \in Tasks /\ Copy(rec, call[c].task)
  BY <1>0, <1>a, RecordType DEF Fits, StartLabels, Copy
<1>b. used' = used /\ call[c].pc \in StartLabels
  BY DEF StartStep, StartList, StartCreate, StartDiff, StartPutQueued, StartSend, StartPutRunning,
     StartClose, StartDelete, At, StartLabels
<1>c. /\ call[c].task \in Tasks
      /\ call[c].pc \in {"sList", "sCreate"} => rec = NoRecord
      /\ call[c].pc = "sDiff" => rec.remote = NoRemote
  BY <1>0, <1>b, LaterLabels DEF Fits, OwnInv, StartsAlone, Starter
<1>i. Idle.pc \notin {"cancelWait", "close"}
  BY DEF Idle
<1>d. ASSUME Return(c), UNCHANGED job,
             tasks' = tasks \/ Put(c, call[c].task) \/ tasks' = [tasks EXCEPT ![call[c].task] = NoRecord]
      PROVE  StepOf(c)
  BY <1>b, <1>d, <1>i, ReturnMoves, LaterStep
(* A step behind the last use of the lists and the fresh session.          *)
<1>e. ASSUME \A d \in Calls \ {c} : call'[d] = call[d],
             call'[c].pc \in {"sPutRunning", "sUndo", "sDelete"}, call'[c].task = call[c].task,
             UNCHANGED tasks,
             \A r \in Remotes :
               \/ job'[r] = job[r]
               \/ /\ call[c].pc = "sSend" /\ rec \in Record
                  /\ r = onto[rec.session] /\ status[r] = "alive" /\ job'[r] = call[c].task,
             Copy(call'[c].rec, call[c].task) \/ Derived(c, call'[c].rec)
      PROVE  StepOf(c)
  BY <1>b, <1>e DEF StepOf, StartLabels, Unstored, Untyped, Unsent
<1>1. CASE StartList(c)
  <2>1. /\ \A d \in Calls \ {c} : call'[d] = call[d]
        /\ call'[c].pc = "sCreate" /\ call'[c].before = listRemoteSessionIds
        /\ UNCHANGED <<call[c].rec, call[c].task>>
    BY <1>0, <1>1 DEF StartList, TypeOK, Call
  <2>2. call[c].pc = "sList" /\ UNCHANGED <<tasks, job>>
    BY <1>1 DEF StartList, At, host
  <2>3. \A r \in call'[c].before : status[r] # "free"
    BY <2>1 DEF listRemoteSessionIds
  <2>4. call'[c].rec \notin Record
    BY <1>c, <2>1, <2>2, RecordType
  <2> QED
    BY <1>b, <1>c, <2>1, <2>2, <2>3, <2>4 DEF StepOf, StartLabels, Unstored, Untyped, Unsent
<1>2. CASE StartCreate(c)
  <2>0. call[c].pc = "sCreate" /\ UNCHANGED <<tasks, job>>
    BY <1>2 DEF StartCreate, At
  <2>1. CASE Return(c)
    BY <1>d, <2>0, <2>1
  <2>2. ASSUME NEW r \in Remotes, NEW h \in Handles, status[r] = "free",
               status' = [status EXCEPT ![r] = "alive"], Connect(h, r, 0),
               \/ GotoWith(c, "sPutQueued", Queued(h, r))
               \/ GotoWith(c, "sDiff", Queued(h, NoRemote))
        PROVE  StepOf(c)
    <3>1. onto'[h] = r
      BY <1>0, <2>2 DEF Connect, TypeOK
    <3>2. /\ \A d \in Calls \ {c} : call'[d] = call[d]
          /\ UNCHANGED <<call[c].task, call[c].before>>
          /\ \/ call'[c].pc = "sPutQueued" /\ call'[c].rec = Queued(h, r)
             \/ call'[c].pc = "sDiff" /\ call'[c].rec = Queued(h, NoRemote)
      BY <2>2, GotoWithMoves
    <3>3. CASE call'[c].pc = "sPutQueued" /\ call'[c].rec = Queued(h, r)
      <4>1. Born(c, call'[c].rec)
        BY <2>0, <3>1, <3>3 DEF Born, Queued
      <4> QED
        BY <1>b, <2>0, <3>2, <3>3, <4>1 DEF StepOf, StartLabels, Unstored, Untyped, Unsent
    <3>4. CASE call'[c].pc = "sDiff" /\ call'[c].rec = Queued(h, NoRemote)
      <4>1. call'[c].rec.remote = NoRemote /\ call'[c].rec.session = h
        BY <3>4 DEF Queued
      <4>2. call'[c].rec \notin Record
        BY <4>1, RecordType
      <4>3. r \notin call'[c].before
        BY <2>0, <2>2, <3>2 DEF OwnInv, ListsAreOld
      <4> QED
        BY <1>b, <2>0, <3>1, <3>2, <3>4, <4>1, <4>2, <4>3 DEF StepOf, StartLabels, Unstored, Untyped, Unsent
    <3> QED
      BY <3>2, <3>3, <3>4
  <2> QED
    BY <1>2, <2>1, <2>2 DEF StartCreate
<1>3. CASE StartDiff(c)
  <2>0. /\ call[c].pc = "sDiff" /\ UNCHANGED <<tasks, job, status, onto>>
        /\ rec \in Draft /\ rec.session \in Handles /\ rec.remote = NoRemote /\ rec.state = "queued"
        /\ onto[rec.session] \in Remotes \ call[c].before
    BY <1>0, <1>3, <1>c DEF StartDiff, At, host, links, Fits, Call, Draft, SessionsAreFresh, Unsent, OwnInv, ListsAreOld
  <2>1. CASE Goto(c, "sClose")
    <3>1. /\ \A d \in Calls \ {c} : call'[d] = call[d]
          /\ call'[c].pc = "sClose" /\ UNCHANGED <<call[c].rec, call[c].task>>
      BY <2>1, GotoMoves
    <3>2. call'[c].rec \notin Record
      BY <2>0, <3>1, RecordType
    <3> QED
      BY <1>b, <2>0, <3>1, <3>2 DEF StepOf, StartLabels, Unstored, Untyped, Unsent
  <2>2. ASSUME NEW r \in Remotes, listRemoteSessionIds \ call[c].before = {r},
               GotoWith(c, "sPutQueued", [rec EXCEPT !.remote = r])
        PROVE  StepOf(c)
    <3> DEFINE next == [rec EXCEPT !.remote = r]
    <3>1. next.remote = r /\ next.session = rec.session /\ next.state = "queued"
      BY <2>0 DEF Draft
    <3> HIDE DEF next
    <3>2. /\ \A d \in Calls \ {c} : call'[d] = call[d]
          /\ call'[c].pc = "sPutQueued" /\ call'[c].rec = next /\ call'[c].task = call[c].task
      BY <2>2, GotoWithMoves DEF next
    <3>3. onto[rec.session] = r \/ status[onto[rec.session]] = "gone"
      <4>1. status[onto[rec.session]] \in {"alive", "gone"}
        BY <1>0, <2>0 DEF SessionsAreFresh, TypeOK
      <4> QED
        BY <2>0, <2>2, <4>1 DEF listRemoteSessionIds
    <3>4. Born(c, next)
      BY <2>0, <3>1, <3>3 DEF Born
    <3> QED
      BY <1>b, <2>0, <3>1, <3>2, <3>4 DEF StepOf, StartLabels, Unstored, Untyped, Unsent
  <2> QED
    BY <1>3, <2>1, <2>2 DEF StartDiff, listRemoteSessionIds
<1>4. CASE StartPutQueued(c)
  <2>0. /\ call[c].pc = "sPutQueued" /\ job' = job
        /\ Copy(rec, call[c].task) /\ call[c].task \in Tasks
    BY <1>4, <1>a DEF StartPutQueued, At, StartLabels, host
  <2>1. CASE Put(c, call[c].task) /\ Goto(c, "sSend")
    <3>1. /\ \A d \in Calls \ {c} : call'[d] = call[d]
          /\ call'[c].pc = "sSend" /\ UNCHANGED <<call[c].rec, call[c].task>>
      BY <2>1, GotoMoves
    <3>2. \A t \in Tasks : tasks'[t] = tasks[t] \/ (t = call[c].task /\ tasks'[t] = rec)
      BY <1>0, <2>1 DEF Put, TypeOK
    <3> QED
      BY <1>b, <2>0, <3>1, <3>2 DEF StepOf, StartLabels, Unstored, Untyped, Unsent
  <2>2. CASE UNCHANGED tasks /\ Goto(c, "sClose")
    <3>1. /\ \A d \in Calls \ {c} : call'[d] = call[d]
          /\ call'[c].pc = "sClose" /\ UNCHANGED <<call[c].rec, call[c].task>>
      BY <2>2, GotoMoves
    <3> QED
      BY <1>b, <2>0, <2>2, <3>1 DEF StepOf, StartLabels, Unstored, Untyped, Unsent
  <2> QED
    BY <1>4, <2>1, <2>2 DEF StartPutQueued
<1>5. CASE StartSend(c)
  <2>0. call[c].pc = "sSend" /\ rec \in Record /\ rec \in Draft /\ Copy(rec, call[c].task) /\ tasks' = tasks
    BY <1>5, <1>a DEF StartSend, At, StartLabels
  <2>1. \A r \in Remotes : \/ job'[r] = job[r]
                           \/ r = onto[rec.session] /\ status[r] = "alive" /\ job'[r] = call[c].task
    BY <1>0, <1>5 DEF StartSend, TypeOK
  <2>2. CASE Goto(c, "sUndo")
    BY <1>e, <2>0, <2>1, <2>2, GotoMoves
  <2>3. CASE GotoWith(c, "sPutRunning", transitionTask(rec, "started", NoExit))
    <3>1. Derived(c, transitionTask(rec, "started", NoExit))
      BY <2>0, TransitionType DEF Derived
    <3> QED
      BY <1>e, <2>0, <2>1, <2>3, <3>1, GotoWithMoves
  <2> QED
    BY <1>5, <2>2, <2>3 DEF StartSend
<1>6. CASE StartPutRunning(c) \/ StartClose(c)
  <2>0. job' = job
    BY <1>6 DEF StartPutRunning, StartClose, TryClose, CloseSession, host
  <2>1. CASE Return(c)
    BY <1>6, <1>d, <2>0, <2>1 DEF StartPutRunning, StartClose
  <2>2. ASSUME NEW label \in {"sUndo", "sDelete"}, Goto(c, label), UNCHANGED tasks,
               call[c].pc \in {"sPutRunning", "sUndo"}
        PROVE  StepOf(c)
    BY <1>a, <1>e, <2>0, <2>2, GotoMoves DEF StartLabels
  <2> QED
    BY <1>6, <2>1, <2>2 DEF StartPutRunning, StartClose, At
<1>7. CASE StartDelete(c)
  BY <1>7, <1>d DEF StartDelete, host
<1> QED
  BY <1>1, <1>2, <1>3, <1>4, <1>5, <1>6, <1>7 DEF StartStep

(* Steps that keep tasks and jobs and make no records: calls begin, the    *)
(* host and the process do what they do.                                   *)
LEMMA OthersOwn ==
  ASSUME TypeInv, SessionsAreFresh, OwnInv, HostGrows, LinksGrow,
         UNCHANGED <<tasks, job>>,
         \A d \in Calls : call'[d] = call[d] \/ (call'[d].rec = NoRecord /\ call'[d].pc \in {"idle", "load", "sList"})
  PROVE  SameRemote' /\ AllFine' /\ CancelsHit' /\ ListsAreOld'
<1> USE SentinelAssumption
<1>1. \A t \in Tasks, rec \in Record : Copy(rec, t)' => Copy(rec, t)
  BY RecordType DEF Copy
<1>2. \A t \in Tasks : Never(t) => Never(t)'
  <2> SUFFICES ASSUME NEW t \in Tasks, Never(t), NEW d \in Calls, Starter(d, t)', call'[d].pc \in Unsent
               PROVE  status'[onto'[call'[d].rec.session]] = "gone"
    BY DEF Never
  <2>1. call'[d] = call[d] /\ Starter(d, t) /\ call[d].pc \in Unsent
    BY DEF Unsent, Starter
  <2>2. status[onto[call[d].rec.session]] = "gone" /\ onto[call[d].rec.session] \in Remotes
    BY <2>1 DEF Never, SessionsAreFresh
  <2>3. call[d].rec.session \in Handles
    BY <2>1, AllFit DEF TypeInv, Fits, Call, Draft, Unsent
  <2> QED
    BY <2>1, <2>2, <2>3 DEF HostGrows, LinksGrow
<1>3. SameRemote'
  BY <1>1 DEF OwnInv, SameRemote
<1>4. AllFine'
  <2> SUFFICES ASSUME NEW t \in Tasks, NEW rec \in Record, Copy(rec, t)'
               PROVE  Fine(rec, t)'
    BY DEF AllFine
  <2>1. Fine(rec, t) /\ rec.session \in Handles /\ rec.remote \in Remotes
    BY <1>1, CopyFacts
  <2> QED
    BY <1>2, <2>1 DEF Fine, LinksGrow
<1>5. CancelsHit'
  <2> SUFFICES ASSUME NEW d \in Calls, call'[d].pc \in {"cancelWait", "close"}
               PROVE  hit'[call'[d].rec.remote] \/ Never(call[d].task)'
    BY DEF CancelsHit
  <2>1. call'[d] = call[d] /\ (hit[call[d].rec.remote] \/ Never(call[d].task))
    BY DEF OwnInv, CancelsHit
  <2>2. call[d].rec.remote \in Remotes /\ call[d].task \in Tasks
    <3>1. call[d].rec \in Record /\ call[d].task \in Tasks
      BY <2>1, AllFit DEF TypeInv, Fits
    <3> QED
      BY <3>1, RecordType
  <2>3. PICK t \in Tasks : t = call[d].task
    BY <2>2
  <2>4. Never(t) => Never(t)'
    BY <1>2
  <2>5. hit[call[d].rec.remote] \/ Never(t)
    BY <2>1, <2>3
  <2>6. call'[d].task = t
    BY <2>1, <2>3
  <2>7. Never(t)' => Never(call[d].task)'
    BY <2>6 DEF Never, Starter
  <2> QED
    BY <2>1, <2>2, <2>4, <2>5, <2>7 DEF LinksGrow
<1>6. ListsAreOld'
  <2> SUFFICES ASSUME NEW d \in Calls, call'[d] = call[d]
               PROVE  (/\ call[d].pc = "sCreate" => \A r \in call[d].before : status[r] # "free"
                       /\ call[d].pc = "sDiff" => onto[call[d].rec.session] \notin call[d].before)'
    BY DEF ListsAreOld
  <2>0. Fits(call[d])
    BY AllFit DEF TypeInv
  <2>1. call[d].before \subseteq Remotes
    BY <2>0 DEF Fits, Call
  <2>2. /\ call[d].pc = "sCreate" => \A r \in call[d].before : status[r] # "free"
        /\ call[d].pc = "sDiff" => onto[call[d].rec.session] \notin call[d].before
    BY DEF OwnInv, ListsAreOld
  <2>3. call[d].pc = "sDiff" => call[d].rec.session \in Handles /\ onto[call[d].rec.session] \in Remotes
    BY <2>0 DEF Fits, Call, Draft, SessionsAreFresh, Unsent
  <2> QED
    BY <2>1, <2>2, <2>3 DEF HostGrows, LinksGrow
<1> QED
  BY <1>3, <1>4, <1>5, <1>6

LEMMA OthersStart ==
  ASSUME TypeInv, OwnInv, Environment \/ UNCHANGED vars \/ (\E c \in Calls :
           \/ \E t \in Tasks : StartCall(c, t)
           \/ \E t \in Tasks, op \in Requests \ {"start"} : Begin(c, op, t))
  PROVE  FreshIds' /\ StartsAlone'
<1> USE SentinelAssumption
<1>0. TypeOK /\ Idle.task = NoTask /\ Idle.pc = "idle" /\ Idle.rec = NoRecord
  BY DEF TypeInv, Idle
<1>1. CASE Environment \/ UNCHANGED vars
  <2>1. UNCHANGED <<tasks, used, job>>
    BY <1>1 DEF Environment, PrintOutput, Exit, RemoteDies, HandleDies, Crash, host, vars
  <2>2. call' = call \/ call' = [d \in Calls |-> Idle]
    BY <1>1 DEF Environment, PrintOutput, Exit, RemoteDies, HandleDies, Crash, vars
  <2>a. FreshIds /\ StartsAlone
    BY DEF OwnInv
  <2>b. \A d \in Calls : call'[d] = call[d] \/ call'[d] = Idle
    BY <2>2
  <2>c. \A d \in Calls, t \in Tasks : call'[d].task = t => call[d].task = t
    BY <1>0, <2>b
  <2>3. FreshIds'
    BY <2>1, <2>a, <2>c DEF FreshIds
  <2>4. CASE call' = call
    <3>1. \A d \in Calls : call'[d] = call[d]
      BY <2>4
    <3>2. \A d \in Calls, t \in Tasks : Starter(d, t)' <=> Starter(d, t)
      BY <3>1 DEF Starter
    <3> QED
      BY <2>1, <2>3, <2>a, <3>1, <3>2 DEF StartsAlone
  <2>5. CASE call' = [d \in Calls |-> Idle]
    <3>1. \A d \in Calls, t \in Tasks : ~Starter(d, t)'
      BY <1>0, <2>5 DEF Starter, StartLabels
    <3> QED
      BY <2>3, <3>1 DEF StartsAlone
  <2> QED
    BY <2>2, <2>3, <2>4, <2>5
<1>2. ASSUME NEW c \in Calls, NEW t \in Tasks, StartCall(c, t) PROVE FreshIds' /\ StartsAlone'
  <2>1. /\ t \notin used /\ used' = used \cup {t} /\ UNCHANGED <<tasks, job>>
        /\ call'[c].pc = "sList" /\ call'[c].task = t /\ call'[c].rec = NoRecord
        /\ \A d \in Calls \ {c} : call'[d] = call[d]
    BY <1>0, <1>2 DEF StartCall, Idle, TypeOK, host
  <2>2. tasks[t] = NoRecord /\ (\A d \in Calls : call[d].task # t) /\ \A r \in Remotes : job[r] # t
    BY <2>1 DEF OwnInv, FreshIds
  <2>3. FreshIds'
    BY <2>1 DEF OwnInv, FreshIds
  <2>4. StartsAlone'
    <3> SUFFICES ASSUME NEW d \in Calls, NEW v \in Tasks, Starter(d, v)'
                 PROVE  (/\ \A e \in Calls : Starter(e, v) => d = e
                         /\ call[d].pc \in Unstored => tasks[v] = NoRecord /\ \A e \in Calls \ {d} : call[e].task # v
                         /\ call[d].pc \in Untyped => \A r \in Remotes : job[r] # v
                         /\ call[d].pc \in {"sList", "sCreate"} => call[d].rec = NoRecord
                         /\ call[d].pc = "sDiff" => call[d].rec.remote = NoRemote)'
      BY DEF StartsAlone
    <3>1. CASE d = c
      BY <2>1, <2>2, <3>1 DEF Starter
    <3>2. CASE d # c
      <4>1. call'[d] = call[d] /\ Starter(d, v) /\ v # t
        BY <2>1, <2>2, <3>2 DEF Starter
      <4> QED
        BY <2>1, <4>1 DEF OwnInv, StartsAlone, Starter
    <3> QED
      BY <3>1, <3>2
  <2> QED
    BY <2>3, <2>4
<1>3. ASSUME NEW c \in Calls, NEW t \in Tasks, NEW op \in Requests \ {"start"}, Begin(c, op, t)
      PROVE  FreshIds' /\ StartsAlone'
  <2>1. /\ tasks[t] # NoRecord /\ UNCHANGED <<tasks, used, job>>
        /\ call'[c].pc = "load" /\ call'[c].task = t
        /\ \A d \in Calls \ {c} : call'[d] = call[d]
    BY <1>0, <1>3 DEF Begin, Idle, TypeOK, host
  <2>2. FreshIds'
    BY <2>1 DEF OwnInv, FreshIds
  <2>3. StartsAlone'
    <3> SUFFICES ASSUME NEW d \in Calls, NEW v \in Tasks, Starter(d, v)'
                 PROVE  (/\ \A e \in Calls : Starter(e, v) => d = e
                         /\ call[d].pc \in Unstored => tasks[v] = NoRecord /\ \A e \in Calls \ {d} : call[e].task # v
                         /\ call[d].pc \in Untyped => \A r \in Remotes : job[r] # v
                         /\ call[d].pc \in {"sList", "sCreate"} => call[d].rec = NoRecord
                         /\ call[d].pc = "sDiff" => call[d].rec.remote = NoRemote)'
      BY DEF StartsAlone
    <3>1. d # c /\ call'[d] = call[d] /\ Starter(d, v)
      BY <2>1 DEF Starter, StartLabels
    <3>2. \A e \in Calls : Starter(e, v)' => Starter(e, v)
      BY <2>1 DEF Starter, StartLabels
    <3> QED
      BY <2>1, <3>1, <3>2 DEF OwnInv, StartsAlone
  <2> QED
    BY <2>2, <2>3
<1> QED
  BY <1>1, <1>2, <1>3

LEMMA OwnInit == Init => OwnInv
<1> SUFFICES ASSUME Init PROVE OwnInv
  OBVIOUS
<1> USE SentinelAssumption
<1>1. Idle.task = NoTask /\ Idle.pc = "idle" /\ Idle.rec = NoRecord /\ NoRecord \notin Record
  BY RecordType DEF Idle
<1>2. \A t \in Tasks, rec \in Record : ~Copy(rec, t)
  BY <1>1 DEF Init, Copy
<1>3. FreshIds /\ StartsAlone /\ ListsAreOld /\ CancelsHit
  BY <1>1 DEF Init, FreshIds, StartsAlone, Starter, StartLabels, ListsAreOld, CancelsHit
<1>4. SameRemote /\ AllFine
  BY <1>2 DEF SameRemote, AllFine
<1> QED
  BY <1>3, <1>4 DEF OwnInv

LEMMA OwnNext ==
  ASSUME TaskInv, OwnInv, [Next]_vars
  PROVE  OwnInv'
<1>1. TypeInv /\ SessionsAreFresh
  BY DEF TaskInv, TypeInv, SessionsAreFresh
<1>2. TypeInv' /\ HostGrows /\ LinksGrow
  BY <1>1, NextTypes, HostOnlyGrows, LinksOnlyGrow
<1>3. ASSUME NEW c \in Calls, Step(c) PROVE OwnInv'
  <2>1. StepOf(c)
    BY <1>1, <1>3, StartStepIs, TaskStepIs DEF Step
  <2>2. FreshIds' /\ StartsAlone' /\ ListsAreOld'
    BY <1>1, <1>2, <2>1, StartersKept
  <2>3. SameRemote' /\ AllFine' /\ CancelsHit'
    BY <1>1, <1>2, <2>1, CopiesKept
  <2> QED
    BY <2>2, <2>3 DEF OwnInv
<1>4. CASE Environment \/ UNCHANGED vars \/ (\E c \in Calls :
             \/ \E t \in Tasks : StartCall(c, t)
             \/ \E t \in Tasks, op \in Requests \ {"start"} : Begin(c, op, t))
  <2>1. UNCHANGED <<tasks, job>>
    BY <1>4 DEF Environment, PrintOutput, Exit, RemoteDies, HandleDies, Crash, StartCall, Begin, host, vars
  <2>2. \A d \in Calls : call'[d] = call[d] \/ (call'[d].rec = NoRecord /\ call'[d].pc \in {"idle", "load", "sList"})
    <3>1. CASE Environment \/ UNCHANGED vars
      BY <3>1 DEF Environment, PrintOutput, Exit, RemoteDies, HandleDies, Crash, Idle, vars
    <3>2. ASSUME NEW c \in Calls, NEW t \in Tasks, NEW op \in Requests \ {"start"},
                 Begin(c, op, t)
          PROVE  \A d \in Calls :
                   call'[d] = call[d] \/ (call'[d].rec = NoRecord /\ call'[d].pc \in {"idle", "load", "sList"})
      <4>1. call'[c].rec = NoRecord /\ call'[c].pc = "load" /\ \A d \in Calls \ {c} : call'[d] = call[d]
        BY <1>1, <3>2 DEF Begin, Idle, TypeInv, TypeOK
      <4> QED
        BY <4>1
    <3>3. ASSUME NEW c \in Calls, NEW t \in Tasks, StartCall(c, t)
          PROVE  \A d \in Calls :
                   call'[d] = call[d] \/ (call'[d].rec = NoRecord /\ call'[d].pc \in {"idle", "load", "sList"})
      <4>1. call'[c].rec = NoRecord /\ call'[c].pc = "sList" /\ \A d \in Calls \ {c} : call'[d] = call[d]
        BY <1>1, <3>3 DEF StartCall, Idle, TypeInv, TypeOK
      <4> QED
        BY <4>1
    <3> QED
      BY <1>4, <3>1, <3>2, <3>3
  <2>3. SameRemote' /\ AllFine' /\ CancelsHit'
    BY <1>1, <1>2, <2>1, <2>2, OthersOwn
  <2>4. ListsAreOld'
    BY <1>1, <1>2, <2>1, <2>2, OthersOwn
  <2>5. FreshIds' /\ StartsAlone'
    BY <1>1, <1>4, OthersStart
  <2> QED
    BY <2>3, <2>4, <2>5 DEF OwnInv
<1> QED
  BY <1>3, <1>4 DEF Next

-----------------------------------------------------------------------------
(* The two inductive invariants hold together: what a record claims is     *)
(* true, and the session it names is its own or one it never types into.   *)
THEOREM OwnInvariant == Spec => [](TaskInv /\ OwnInv)
<1>1. Init => TaskInv /\ OwnInv
  BY InitInv, OwnInit
<1>2. TaskInv /\ OwnInv /\ [Next]_vars => (TaskInv /\ OwnInv)'
  BY NextInv, OwnNext
<1> QED
  BY <1>1, <1>2, PTL DEF Spec

(* A command runs in no session but the one its record names, whatever two *)
(* overlapping starts list before and after they create their sessions     *)
(* (startTask).                                                            *)
THEOREM CommandsRunInRecordedSession == Spec => []RunsInRecordedSession
<1>1. TaskInv /\ OwnInv => RunsInRecordedSession
  <2> SUFFICES ASSUME TaskInv, OwnInv, NEW r \in Remotes, NEW t \in Tasks,
                      job[r] = t, tasks[t] # NoRecord
               PROVE  tasks[t].remote = r
    BY DEF RunsInRecordedSession
  <2>1. tasks[t] \in Record /\ Copy(tasks[t], t)
    BY DEF TaskInv, TypeOK, Copy
  <2> QED
    BY <2>1 DEF OwnInv, AllFine, Fine
<1> QED
  BY <1>1, OwnInvariant, PTL

(* A command that was typed is called cancelled only after a Ctrl-C or a   *)
(* close reached its session (cancelTask).                                 *)
THEOREM CancelledAlwaysInterrupted == Spec => []CancelledWasInterrupted
<1>1. TaskInv /\ OwnInv => CancelledWasInterrupted
  <2> SUFFICES ASSUME TaskInv, OwnInv, NEW r \in Remotes, NEW t \in Tasks,
                      tasks[t] # NoRecord, tasks[t].state = "cancelled", job[r] = t
               PROVE  hit[r]
    BY DEF CancelledWasInterrupted
  <2>1. tasks[t] \in Record /\ Copy(tasks[t], t)
    BY DEF TaskInv, TypeOK, Copy
  <2>2. ~Never(t)
    BY DEF Never
  <2> QED
    BY <2>1, <2>2 DEF OwnInv, AllFine, Fine
<1> QED
  BY <1>1, OwnInvariant, PTL

-----------------------------------------------------------------------------
(* No session is left over, as long as closing works, connections hold and *)
(* the process lives.  A handle the upstream server forgot was closed;     *)
HandlesHold == \A h \in Handles : onto[h] \in Remotes /\ h \notin up => status[onto[h]] = "gone"

(* a start about to store "running" has typed into its own session, and    *)
(* one about to remove its record has closed it;                           *)
StartsClose ==
  \A c \in Calls :
    /\ call[c].pc = "sPutRunning" => job[onto[call[c].rec.session]] = call[c].task
    /\ call[c].pc = "sDelete" => status[onto[call[c].rec.session]] = "gone"

(* a living session is in a record that no start will remove any more, or  *)
(* a start is still at work on it.                                         *)
Recorded(r) == \E t \in Tasks :
  tasks[t] # NoRecord /\ tasks[t].remote = r /\ \A c \in Calls : ~Starter(c, t)
Belongs(r) == Recorded(r) \/ \E c \in Calls : Working(c, r)
AliveBelong == \A r \in Remotes : status[r] = "alive" => Belongs(r)

OrphanInv == HandlesHold /\ StartsClose /\ AliveBelong

LEMMA HandlesHoldNext ==
  ASSUME TypeInv, HandlesHold, ~MayBreak, [Next]_vars
  PROVE  HandlesHold'
<1> USE SentinelAssumption
<1>0. TypeOK /\ \A h \in up : onto[h] \in Remotes
  BY DEF TypeInv
<1>1. ASSUME UNCHANGED <<onto, up>>,
             status' = status \/ \E r \in Remotes : status' = [status EXCEPT ![r] = "gone"]
      PROVE  HandlesHold'
  BY <1>0, <1>1 DEF HandlesHold, TypeOK
<1>2. ASSUME NEW h \in Handles, NEW r \in Remotes, NEW start, Connect(h, r, start),
             status' = status \/ (status[r] = "free" /\ status' = [status EXCEPT ![r] = "alive"])
      PROVE  HandlesHold'
  <2>1. onto' = [onto EXCEPT ![h] = r] /\ up' = up \cup {h}
    BY <1>2 DEF Connect
  <2>2. \A q \in Remotes : status[q] = "gone" => status'[q] = "gone"
    BY <1>0, <1>2 DEF TypeOK
  <2> QED
    BY <1>0, <2>1, <2>2 DEF HandlesHold, TypeOK
<1>3. ASSUME NEW h, CloseSession(h) PROVE HandlesHold'
  BY <1>0, <1>3 DEF CloseSession, HandlesHold, TypeOK
<1>4. ASSUME NEW c \in Calls, StartStep(c) PROVE HandlesHold'
  BY <1>0, <1>1, <1>2, <1>3, <1>4 DEF StartStep, StartList, StartCreate, StartDiff, StartPutQueued, StartSend,
     StartPutRunning, StartClose, StartDelete, TryClose, host, links
<1>5. ASSUME NEW c \in Calls, TaskStep(c) \/ Fail(c) PROVE HandlesHold'
  <2>1. CASE Attach(c)
    <3>1. At(c, "attach") /\ UNCHANGED status
      BY <2>1 DEF Attach, host
    <3>2. call[c].rec \in Record
      BY <1>0, <3>1, AllFit DEF TypeInv, Fits, At
    <3>3. call[c].rec.remote \in Remotes
      BY <3>2, RecordType
    <3> QED
      BY <1>1, <1>2, <2>1, <3>1, <3>3 DEF Attach, links
  <2> QED
    BY <1>1, <1>3, <1>5, <2>1 DEF TaskStep, Load, List, Probe, PutRecovered, Read, PutChunk, WaitFor, CtrlC,
       CancelWait, Close, PutLast, Fail, host, links
<1>6. CASE Environment \/ UNCHANGED vars \/ (\E c \in Calls :
             \/ \E t \in Tasks : StartCall(c, t)
             \/ \E t \in Tasks, op \in Requests \ {"start"} : Begin(c, op, t))
  BY <1>1, <1>6 DEF Environment, PrintOutput, Exit, RemoteDies, HandleDies, Crash, StartCall, Begin, host,
     links, vars
<1> QED
  BY <1>4, <1>5, <1>6 DEF Next, Step

(* What the other steps do to calls.                                       *)
LEMMA OtherCalls ==
  ASSUME TypeOK, Environment \/ UNCHANGED vars \/ (\E c \in Calls :
           \/ \E t \in Tasks : StartCall(c, t)
           \/ \E t \in Tasks, op \in Requests \ {"start"} : Begin(c, op, t))
  PROVE  \A d \in Calls :
           \/ call'[d] = call[d]
           \/ call'[d].pc \in {"idle", "load"}
           \/ call'[d].pc = "sList" /\ call'[d].task \notin used
<1>1. CASE Environment \/ UNCHANGED vars
  <2>1. call' = call \/ call' = [d \in Calls |-> Idle]
    BY <1>1 DEF Environment, PrintOutput, Exit, RemoteDies, HandleDies, Crash, vars
  <2> QED
    BY <2>1 DEF Idle
<1>2. ASSUME NEW c \in Calls, NEW t \in Tasks, StartCall(c, t)
      PROVE  (\A d \in Calls \ {c} : call'[d] = call[d]) /\ call'[c].pc = "sList" /\ call'[c].task \notin used
  BY <1>2 DEF StartCall, Idle, TypeOK
<1>3. ASSUME NEW c \in Calls, NEW t \in Tasks, NEW op \in Requests \ {"start"}, Begin(c, op, t)
      PROVE  (\A d \in Calls \ {c} : call'[d] = call[d]) /\ call'[c].pc = "load"
  BY <1>3 DEF Begin, Idle, TypeOK
<1> QED
  BY <1>1, <1>2, <1>3

(* The record and the session of a start that has made one.                *)
LEMMA StartSession ==
  ASSUME TypeInv, NEW c \in Calls,
         call[c].pc \in StartLabels \ {"sList", "sCreate"}
  PROVE  /\ call[c].rec \in Draft /\ call[c].rec # NoRecord
         /\ call[c].rec.session \in Handles /\ call[c].task \in Tasks
<1> USE SentinelAssumption
<1>1. Fits(call[c])
  BY AllFit DEF TypeInv
<1>2. call[c].rec \in Draft /\ call[c].rec # NoRecord /\ call[c].task \in Tasks
  BY <1>1 DEF Fits, Call, StartLabels
<1>3. call[c].rec.session \in Handles
  BY <1>2 DEF Draft
<1> QED
  BY <1>2, <1>3

LEMMA StartsCloseNext ==
  ASSUME TaskInv, OwnInv, HandlesHold, StartsClose, ~MayFail, [Next]_vars
  PROVE  StartsClose'
<1> USE SentinelAssumption
<1>0. TypeInv /\ TypeOK /\ SessionsAreFresh /\ HostGrows /\ LinksGrow
  <2>1. TypeInv /\ SessionsAreFresh
    BY DEF TaskInv, TypeInv, SessionsAreFresh
  <2> QED
    BY <2>1, HostOnlyGrows, LinksOnlyGrow DEF TypeInv
<1>a. ASSUME NEW d \in Calls, call[d].pc \in {"sPutRunning", "sUndo", "sDelete"}
      PROVE  /\ call[d].rec.session \in Handles /\ onto[call[d].rec.session] \in Remotes
             /\ onto'[call[d].rec.session] = onto[call[d].rec.session] /\ call[d].task \in Tasks
  <2>1. Fits(call[d]) /\ call[d].pc \in StartLabels \ {"sList", "sCreate"}
    BY <1>0, <1>a, AllFit DEF TypeInv, StartLabels
  <2>2. call[d].rec \in Record /\ call[d].task \in Tasks /\ call[d].rec.session \in Handles
    BY <1>0, <1>a, <2>1, StartSession DEF Fits
  <2>3. Copy(call[d].rec, call[d].task)
    BY <2>2 DEF Copy
  <2>4. onto[call[d].rec.session] \in Remotes
    BY <2>2, <2>3 DEF OwnInv, AllFine, Fine
  <2> QED
    BY <1>0, <2>2, <2>4 DEF LinksGrow
<1>b. ASSUME NEW d \in Calls, call'[d] = call[d]
      PROVE  /\ call'[d].pc = "sPutRunning" => job'[onto'[call'[d].rec.session]] = call'[d].task
             /\ call'[d].pc = "sDelete" => status'[onto'[call'[d].rec.session]] = "gone"
  <2>1. /\ call[d].pc = "sPutRunning" => job[onto[call[d].rec.session]] = call[d].task
        /\ call[d].pc = "sDelete" => status[onto[call[d].rec.session]] = "gone"
    BY DEF StartsClose
  <2> QED
    BY <1>0, <1>a, <1>b, <2>1 DEF HostGrows
<1>1. ASSUME \A d \in Calls : call'[d] = call[d] \/ call'[d].pc \notin {"sPutRunning", "sDelete"}
      PROVE  StartsClose'
  BY <1>1, <1>b DEF StartsClose
<1>2. ASSUME NEW c \in Calls, StartSend(c) PROVE StartsClose'
  <2>1. call[c].pc = "sSend" /\ onto[call[c].rec.session] \in Remotes /\ call[c].rec \in Draft
    BY <1>0, <1>2, StartSession DEF StartSend, At, SessionsAreFresh, Unsent, StartLabels
  <2>2. CASE Goto(c, "sUndo")
    BY <1>0, <1>1, <2>2, GotoMoves
  <2>3. CASE /\ GotoWith(c, "sPutRunning", transitionTask(call[c].rec, "started", NoExit))
             /\ job' = [job EXCEPT ![onto[call[c].rec.session]] = call[c].task]
    <3>1. /\ \A d \in Calls \ {c} : call'[d] = call[d]
          /\ call'[c].pc = "sPutRunning" /\ call'[c].task = call[c].task
          /\ call'[c].rec = transitionTask(call[c].rec, "started", NoExit)
      BY <1>0, <2>3, GotoWithMoves
    <3>2. call'[c].rec.session = call[c].rec.session
      BY <2>1, <3>1, TransitionType
    <3>3. onto' = onto
      BY <1>2 DEF StartSend, links
    <3>4. job'[onto'[call'[c].rec.session]] = call'[c].task
      BY <1>0, <2>1, <2>3, <3>1, <3>2, <3>3 DEF TypeOK
    <3>5. \A d \in Calls \ {c} :
             /\ call'[d].pc = "sPutRunning" => job'[onto'[call'[d].rec.session]] = call'[d].task
             /\ call'[d].pc = "sDelete" => status'[onto'[call'[d].rec.session]] = "gone"
      BY <1>b, <3>1
    <3> QED
      BY <3>1, <3>4, <3>5 DEF StartsClose
  <2> QED
    BY <1>2, <2>2, <2>3 DEF StartSend
<1>3. ASSUME NEW c \in Calls, StartClose(c) PROVE StartsClose'
  <2>1. CASE Return(c)
    BY <1>0, <1>1, <2>1, ReturnMoves DEF Idle
  <2>2. CASE Goto(c, "sDelete") /\ call[c].pc = "sUndo"
    <3> DEFINE h == call[c].rec.session
    <3>1. h \in Handles /\ onto[h] \in Remotes /\ onto'[h] = onto[h]
      BY <1>a, <2>2
    <3>2. status'[onto[h]] = "gone"
      <4>1. CASE CloseSession(h)
        BY <1>0, <3>1, <4>1 DEF CloseSession, TypeOK
      <4>2. CASE h \notin up
        BY <1>0, <3>1, <4>2 DEF HandlesHold, HostGrows
      <4> QED
        BY <1>3, <4>1, <4>2 DEF StartClose, TryClose
    <3>3. /\ \A d \in Calls \ {c} : call'[d] = call[d]
          /\ call'[c].pc = "sDelete" /\ call'[c].rec = call[c].rec
      BY <1>0, <2>2, GotoMoves
    <3>4. \A d \in Calls \ {c} :
             /\ call'[d].pc = "sPutRunning" => job'[onto'[call'[d].rec.session]] = call'[d].task
             /\ call'[d].pc = "sDelete" => status'[onto'[call'[d].rec.session]] = "gone"
      BY <1>b, <3>3
    <3> QED
      BY <3>1, <3>2, <3>3, <3>4 DEF StartsClose
  <2> QED
    BY <1>3, <2>1, <2>2 DEF StartClose, At
<1>4. ASSUME NEW c \in Calls, StartStep(c), ~StartSend(c), ~StartClose(c) PROVE StartsClose'
  <2>1. /\ \A d \in Calls \ {c} : call'[d] = call[d]
        /\ call'[c].pc \notin {"sPutRunning", "sDelete"}
    <3>1. CASE StartList(c)
      BY <1>0, <3>1 DEF StartList, TypeOK, Call
    <3>2. CASE Return(c)
      BY <1>0, <3>2, ReturnMoves DEF Idle
    <3>3. ASSUME NEW label \in {"sClose", "sSend", "sUndo"}, Goto(c, label)
          PROVE  /\ \A d \in Calls \ {c} : call'[d] = call[d]
                 /\ call'[c].pc \notin {"sPutRunning", "sDelete"}
      BY <1>0, <3>3, GotoMoves
    <3>4. ASSUME NEW label \in {"sPutQueued", "sDiff"}, NEW rec, GotoWith(c, label, rec)
          PROVE  /\ \A d \in Calls \ {c} : call'[d] = call[d]
                 /\ call'[c].pc \notin {"sPutRunning", "sDelete"}
      BY <1>0, <3>4, GotoWithMoves
    <3> QED
      BY <1>4, <3>1, <3>2, <3>3, <3>4 DEF StartStep, StartCreate, StartDiff, StartPutQueued, StartPutRunning,
         StartDelete
  <2> QED
    BY <1>1, <2>1
<1>5. ASSUME NEW c \in Calls, TaskStep(c) \/ Fail(c) PROVE StartsClose'
  <2>1. StepOf(c) /\ call[c].pc \notin StartLabels
    BY <1>0, <1>5, TaskStepIs DEF TaskStep, Load, List, Probe, Attach, PutRecovered, Read, PutChunk, WaitFor,
       CtrlC, CancelWait, Close, PutLast, Fail, At, StartLabels
  <2>2. \A d \in Calls \ {c} : call'[d] = call[d]
    BY <2>1 DEF StepOf
  <2>3. call'[c].pc \notin StartLabels
    BY <2>1 DEF StepOf
  <2> QED
    BY <1>1, <2>2, <2>3 DEF StartLabels
<1>6. CASE Environment \/ UNCHANGED vars \/ (\E c \in Calls :
             \/ \E t \in Tasks : StartCall(c, t)
             \/ \E t \in Tasks, op \in Requests \ {"start"} : Begin(c, op, t))
  BY <1>0, <1>1, <1>6, OtherCalls DEF StartLabels
<1> QED
  <2>1. ASSUME NEW c \in Calls, Step(c) PROVE StartsClose'
    BY <1>2, <1>3, <1>4, <1>5, <2>1 DEF Step
  <2> QED
    BY <1>6, <2>1 DEF Next

(* A recorded session stays recorded: no start is left to remove its       *)
(* record, and another write keeps the session it names.                   *)
LEMMA RecordedStays ==
  ASSUME TaskInv, OwnInv, [Next]_vars, NEW r \in Remotes, Recorded(r)
  PROVE  Recorded(r)'
<1> USE SentinelAssumption
<1>0. TypeInv /\ TypeOK /\ SessionsAreFresh /\ FreshIds
  BY DEF TaskInv, TypeInv, SessionsAreFresh, OwnInv
<1>1. PICK t \in Tasks : tasks[t] # NoRecord /\ tasks[t].remote = r /\ \A c \in Calls : ~Starter(c, t)
  BY DEF Recorded
<1>2. tasks[t] \in Record /\ Copy(tasks[t], t) /\ t \in used
  BY <1>0, <1>1 DEF TypeOK, Copy, FreshIds
<1>3. Idle.task = NoTask /\ Idle.pc = "idle"
  BY DEF Idle
<1>4. ASSUME NEW c \in Calls, Step(c) PROVE Recorded(r)'
  <2>1. StepOf(c)
    BY <1>0, <1>4, StartStepIs, TaskStepIs DEF Step
  <2>2. \A d \in Calls : ~Starter(d, t)'
    BY <1>1, <1>3, <2>1 DEF StepOf, Starter, StartLabels
  <2>3. tasks'[t] # NoRecord /\ tasks'[t].remote = r
    <3>1. CASE call[c].task # t
      BY <1>1, <2>1, <3>1 DEF StepOf
    <3>2. CASE call[c].task = t
      <4>1. call[c].pc \notin StartLabels
        BY <1>1, <3>2 DEF Starter
      <4>2. tasks' = tasks \/ (Put(c, t) /\ call[c].pc \notin {"idle", "load"})
        BY <1>4, <3>2, <4>1 DEF Step, StartStep, TaskStep, StartList, StartCreate, StartDiff, StartPutQueued,
           StartSend, StartPutRunning, StartClose, StartDelete, Load, List, Probe, Attach, PutRecovered, Read,
           PutChunk, WaitFor, CtrlC, CancelWait, Close, PutLast, Fail, At, StartLabels
      <4>3. CASE Put(c, t) /\ call[c].pc \notin {"idle", "load"}
        <5>1. call[c].rec \in Record
          BY <1>0, <4>1, <4>3, AllFit DEF TypeInv, Fits, StartLabels
        <5>2. Copy(call[c].rec, t)
          BY <3>2, <5>1 DEF Copy
        <5>3. call[c].rec.remote = r /\ call[c].rec # NoRecord
          BY <1>1, <1>2, <5>1, <5>2, RecordType DEF OwnInv, SameRemote
        <5> QED
          BY <1>0, <4>3, <5>3 DEF Put, TypeOK
      <4> QED
        BY <1>1, <4>2, <4>3
    <3> QED
      BY <3>1, <3>2
  <2> QED
    BY <2>2, <2>3 DEF Recorded
<1>5. CASE Environment \/ UNCHANGED vars \/ (\E c \in Calls :
             \/ \E v \in Tasks : StartCall(c, v)
             \/ \E v \in Tasks, op \in Requests \ {"start"} : Begin(c, op, v))
  <2>1. tasks' = tasks
    BY <1>5 DEF Environment, PrintOutput, Exit, RemoteDies, HandleDies, Crash, StartCall, Begin, vars
  <2>2. \A d \in Calls : \/ call'[d] = call[d]
                        \/ call'[d].pc \notin StartLabels
                        \/ call'[d].task \notin used
    BY <1>0, <1>5, OtherCalls DEF StartLabels
  <2>3. \A d \in Calls : ~Starter(d, t)'
    BY <1>1, <1>2, <2>2 DEF Starter
  <2> QED
    BY <1>1, <2>1, <2>3 DEF Recorded
<1> QED
  BY <1>4, <1>5 DEF Next

(* A start at work on a living session goes on with it, or has stored its  *)
(* record.                                                                 *)
LEMMA WorkingStays ==
  ASSUME TaskInv, OwnInv, HandlesHold, StartsClose, ~MayFail, NEW c \in Calls, StartStep(c),
         NEW r \in Remotes, Working(c, r), status[r] = "alive", status'[r] = "alive"
  PROVE  Working(c, r)' \/ Recorded(r)'
<1> USE SentinelAssumption
<1> DEFINE h == call[c].rec.session
<1>0. TypeInv /\ TypeOK /\ SessionsAreFresh /\ LinksGrow /\ [Next]_vars
  <2>1. TypeInv /\ SessionsAreFresh /\ [Next]_vars
    BY DEF TaskInv, TypeInv, SessionsAreFresh, Next, Step
  <2> QED
    BY <2>1, LinksOnlyGrow DEF TypeInv
<1>1. call[c].pc \in StartLabels \ {"sList", "sCreate"} /\ onto[h] = r
  <2>1. call[c].task \in Tasks
    BY <1>0, AllFit DEF TypeInv, Fits, Working, StartLabels
  <2> QED
    BY <2>1 DEF Working, OwnInv, StartsAlone, Starter
<1>2. call[c].rec \in Draft /\ h \in Handles /\ call[c].task \in Tasks
  BY <1>0, <1>1, StartSession
<1>3. onto'[h] = r
  BY <1>0, <1>1, <1>2 DEF LinksGrow
<1>4. ASSUME call'[c].pc \in StartLabels, call'[c].rec \in Draft, call'[c].rec.session = h
      PROVE  Working(c, r)'
  BY <1>3, <1>4 DEF Working
<1>5. ASSUME NEW label \in StartLabels, Goto(c, label) PROVE Working(c, r)'
  BY <1>0, <1>2, <1>4, <1>5, GotoMoves
<1>6. ASSUME NEW label \in StartLabels, NEW rec \in Draft, rec.session = h, GotoWith(c, label, rec)
      PROVE  Working(c, r)'
  BY <1>0, <1>4, <1>6, GotoWithMoves
<1>7. CASE StartDiff(c)
  <2>1. ASSUME NEW q \in Remotes
        PROVE  [call[c].rec EXCEPT !.remote = q] \in Draft /\ [call[c].rec EXCEPT !.remote = q].session = h
    BY <1>2 DEF Draft
  <2> QED
    BY <1>5, <1>6, <1>7, <2>1 DEF StartDiff, StartLabels, listRemoteSessionIds
<1>8. CASE StartPutQueued(c)
  BY <1>5, <1>8 DEF StartPutQueued, StartLabels
<1>9. CASE StartSend(c)
  BY <1>2, <1>5, <1>6, <1>9, TransitionType DEF StartSend, StartLabels
<1>10. CASE StartPutRunning(c)
  <2> DEFINE t == call[c].task
  <2>0. At(c, "sPutRunning") /\ Put(c, t) /\ Return(c)
    BY <1>10 DEF StartPutRunning
  <2>1. call[c].rec \in Record /\ Copy(call[c].rec, t)
    BY <1>0, <1>2, <2>0, AllFit DEF TypeInv, Fits, Copy, At
  <2>2. job[r] = t
    BY <1>1, <2>0 DEF StartsClose, At
  <2>3. call[c].rec.remote = r
    BY <1>2, <2>1, <2>2 DEF OwnInv, AllFine, Fine
  <2>4. \A d \in Calls \ {c} : ~Starter(d, t)
    BY <1>1, <1>2 DEF OwnInv, StartsAlone, Starter
  <2>5. (\A d \in Calls \ {c} : call'[d] = call[d]) /\ call'[c] = Idle
    BY <1>0, <2>0, ReturnMoves
  <2>6. tasks'[t] = call[c].rec /\ call[c].rec # NoRecord
    BY <1>0, <1>2, <2>0 DEF Put, TypeOK
  <2> HIDE DEF t
  <2>7. \A d \in Calls : ~(call'[d].pc \in StartLabels /\ call'[d].task = t)
    BY <2>4, <2>5 DEF Starter, Idle, StartLabels
  <2>8. PICK v \in Tasks : v = t
    BY <1>2 DEF t
  <2>9. \A d \in Calls : ~Starter(d, v)'
    BY <2>7, <2>8 DEF Starter
  <2> QED
    BY <2>3, <2>6, <2>8, <2>9 DEF Recorded
<1>11. CASE StartClose(c)
  <2>1. ~CloseSession(h)
    BY <1>0, <1>1 DEF CloseSession, TypeOK
  <2>2. h \in up
    BY <1>1, <1>2 DEF HandlesHold
  <2> QED
    BY <1>11, <2>1, <2>2 DEF StartClose, TryClose
<1>12. CASE StartDelete(c)
  BY <1>1, <1>12 DEF StartDelete, StartsClose, At
<1> QED
  BY <1>1, <1>7, <1>8, <1>9, <1>10, <1>11, <1>12 DEF StartStep, StartList, StartCreate, At

LEMMA BelongNext ==
  ASSUME TaskInv, OwnInv, HandlesHold, StartsClose, AliveBelong, ~MayFail, ~MayCrash, [Next]_vars
  PROVE  AliveBelong'
<1> USE SentinelAssumption
<1>0. TypeInv /\ TypeOK /\ SessionsAreFresh /\ LinksGrow /\ HostGrows
  <2>1. TypeInv /\ SessionsAreFresh
    BY DEF TaskInv, TypeInv, SessionsAreFresh
  <2> QED
    BY <2>1, HostOnlyGrows, LinksOnlyGrow DEF TypeInv
<1>1. ASSUME NEW r \in Remotes, NEW c \in Calls, Working(c, r), call'[c] = call[c]
      PROVE  Working(c, r)'
  <2>1. call[c].pc \notin {"sList", "sCreate"}
    <3>1. call[c].task \in Tasks /\ call[c].pc \in StartLabels
      BY <1>0, <1>1, AllFit DEF TypeInv, Fits, Working, StartLabels
    <3> QED
      BY <1>1, <3>1 DEF Working, OwnInv, StartsAlone, Starter
  <2>2. call[c].rec.session \in Handles
    BY <1>0, <1>1, <2>1, StartSession DEF Working
  <2> QED
    BY <1>0, <1>1, <2>2 DEF Working, LinksGrow
<1>2. ASSUME NEW r \in Remotes, status'[r] = "alive",
             status[r] # "alive" => \E c \in Calls : StartCreate(c) /\ Working(c, r)',
             Belongs(r) => Belongs(r)'
      PROVE  Belongs(r)'
  BY <1>2 DEF AliveBelong, Belongs
<1>3. ASSUME NEW c \in Calls, Step(c), NEW r \in Remotes, status'[r] = "alive" PROVE Belongs(r)'
  <2>1. \A d \in Calls \ {c} : call'[d] = call[d]
    BY <1>0, <1>3, StartStepIs, TaskStepIs DEF Step, StepOf
  <2>2. CASE status[r] = "alive"
    <3>1. Belongs(r)
      BY <2>2 DEF AliveBelong
    <3>2. Recorded(r) => Recorded(r)'
      BY RecordedStays
    <3>3. ASSUME NEW d \in Calls \ {c}, Working(d, r) PROVE Working(d, r)'
      BY <1>1, <2>1, <3>3
    <3>4. ASSUME Working(c, r) PROVE Working(c, r)' \/ Recorded(r)'
      <4>1. StartStep(c)
        BY <1>3, <3>4 DEF Working, Step, TaskStep, Load, List, Probe, Attach, PutRecovered, Read, PutChunk, WaitFor,
           CtrlC, CancelWait, Close, PutLast, Fail, At, StartLabels
      <4> QED
        BY <1>3, <2>2, <3>4, <4>1, WorkingStays
    <3> QED
      BY <3>1, <3>2, <3>3, <3>4 DEF Belongs
  <2>3. CASE status[r] # "alive"
    <3>1. status' # status
      BY <1>3, <2>3
    <3>2. ASSUME NEW h, CloseSession(h) PROVE FALSE
      BY <1>0, <1>3, <2>3, <3>2 DEF CloseSession, TypeOK
    <3>3. StartCreate(c)
      BY <1>3, <3>1, <3>2 DEF Step, StartStep, TaskStep, StartList, StartDiff, StartPutQueued, StartSend,
         StartPutRunning, StartClose, TryClose, StartDelete, Load, List, Probe, Attach, PutRecovered, Read,
         PutChunk, WaitFor, CtrlC, CancelWait, Close, PutLast, Fail, host
    <3>4. PICK q \in Remotes, h \in Handles :
            /\ status' = [status EXCEPT ![q] = "alive"] /\ Connect(h, q, 0)
            /\ \/ GotoWith(c, "sPutQueued", Queued(h, q))
               \/ GotoWith(c, "sDiff", Queued(h, NoRemote))
      BY <3>1, <3>3 DEF StartCreate
    <3>5. q = r /\ onto'[h] = r
      BY <1>0, <1>3, <2>3, <3>4 DEF TypeOK, Connect
    <3>6. \E v \in Remotes \cup {NoRemote} : call'[c].rec = Queued(h, v) /\ call'[c].pc \in {"sPutQueued", "sDiff"}
      BY <1>0, <3>4, GotoWithMoves
    <3>7. \A v \in Remotes \cup {NoRemote} : Queued(h, v) \in Draft /\ Queued(h, v).session = h
      BY DEF Queued, Draft, Fragments, TaskState, ActiveStates
    <3>8. call'[c].rec # NoRecord /\ call'[c].rec.session = h /\ call'[c].pc \in StartLabels
      BY <3>6, <3>7 DEF StartLabels
    <3> QED
      BY <3>5, <3>8 DEF Belongs, Working
  <2> QED
    BY <2>2, <2>3
<1>4. ASSUME Environment \/ UNCHANGED vars \/ (\E c \in Calls :
             \/ \E t \in Tasks : StartCall(c, t)
             \/ \E t \in Tasks, op \in Requests \ {"start"} : Begin(c, op, t)),
             NEW r \in Remotes, status'[r] = "alive"
      PROVE  Belongs(r)'
  <2>1. status[r] = "alive"
    BY <1>0, <1>4 DEF Environment, PrintOutput, Exit, RemoteDies, HandleDies, Crash, StartCall, Begin, host,
       vars, TypeOK
  <2>2. Recorded(r) \/ \E c \in Calls : Working(c, r)
    BY <2>1 DEF AliveBelong, Belongs
  <2>3. Recorded(r) => Recorded(r)'
    BY RecordedStays
  <2>4. ASSUME NEW c \in Calls, Working(c, r) PROVE Working(c, r)'
    <3>1. call[c].pc \in StartLabels
      BY <2>4 DEF Working
    <3>2. CASE Environment \/ UNCHANGED vars
      BY <1>1, <2>4, <3>2 DEF Environment, PrintOutput, Exit, RemoteDies, HandleDies, Crash, vars
    <3>3. ASSUME NEW d \in Calls, NEW k, At(d, "idle"), call' = [call EXCEPT ![d] = k]
          PROVE  Working(c, r)'
      <4>1. d # c
        BY <3>1, <3>3 DEF At, StartLabels
      <4> QED
        BY <1>0, <1>1, <2>4, <3>3, <4>1 DEF TypeOK
    <3> QED
      BY <1>4, <3>2, <3>3 DEF StartCall, Begin
  <2> QED
    BY <2>2, <2>3, <2>4 DEF Belongs
<1> QED
  BY <1>3, <1>4 DEF Next, AliveBelong

(* As long as closing works, connections hold and the process lives, every *)
(* living session with a handle is named by a record or is in the hands of *)
(* the start that made it, also when a session dies under a start and when *)
(* two starts each list the session of the other (startTask).              *)
THEOREM NoSessionIsOrphaned ==
  ASSUME ~MayFail, ~MayBreak, ~MayCrash
  PROVE  Spec => []NoOrphanSession
<1>1. Init => OrphanInv
  BY SentinelAssumption DEF Init, OrphanInv, HandlesHold, StartsClose, AliveBelong, Idle
<1>2. TaskInv /\ OwnInv /\ OrphanInv /\ [Next]_vars => OrphanInv'
  <2> SUFFICES ASSUME TaskInv, OwnInv, OrphanInv, [Next]_vars PROVE OrphanInv'
    OBVIOUS
  <2>1. TypeInv /\ HandlesHold /\ StartsClose /\ AliveBelong
    BY DEF TaskInv, TypeInv, SessionsAreFresh, OrphanInv
  <2> QED
    BY <2>1, HandlesHoldNext, StartsCloseNext, BelongNext DEF OrphanInv
<1>3. OrphanInv => NoOrphanSession
  BY DEF OrphanInv, AliveBelong, Belongs, Recorded, NoOrphanSession, listRemoteSessionIds
<1> QED
  BY <1>1, <1>2, <1>3, OwnInvariant, PTL DEF Spec

-----------------------------------------------------------------------------
(* Clients that wait for a call on a task before they make the next one    *)
(* see it go through the lifecycle, whatever the calls on other tasks do.  *)
(* What a call holds is what is stored, or what the next write makes of it.*)
OneCallPerTask ==
  \A c, d \in Calls :
    call[c].pc # "idle" /\ call[d].pc # "idle" /\ call[c].task = call[d].task => c = d

Longest == MaxBody + 2
SameEnd(rec, old) == rec.state = old.state /\ rec.exit_code = old.exit_code
SameLife(rec, old) == SameEnd(rec, old) /\ rec.cursor = old.cursor
Fresh(rec, state) == rec.state = state /\ rec.exit_code = NoExit /\ rec.cursor = 0
Exited(rec, old) ==
  /\ old.state \in ActiveStates
  /\ rec.exit_code \in Exits
  /\ rec.state = mapExitCodeToTaskState(rec.exit_code)

SessionLabels == {"list", "probe", "attach", "putRecovered"}
LateLabels == {"waitFor", "ctrlC", "cancelWait", "close"}

InStep(pc, stage, rec, old) ==
  /\ pc \in Unstored => old = NoRecord
  /\ pc \in {"sDiff", "sPutQueued", "sSend"} => Fresh(rec, "queued")
  /\ pc = "sPutRunning" => Fresh(rec, "running")
  /\ pc \notin Unstored \cup {"idle", "load"} => old # NoRecord
  /\ pc \in {"sSend", "sPutRunning"} => Fresh(old, "queued")
  /\ pc \in {"sUndo", "sDelete"} => old.state = "queued"
  /\ pc = "load" => stage # "final"
  /\ pc \in {"read", "putChunk"} => stage = "drain"
  /\ pc \in SessionLabels \cup LateLabels \cup {"read"} => SameLife(rec, old)
  /\ pc \in LateLabels \/ (pc \in SessionLabels /\ stage = "final") => rec.state \in ActiveStates
  /\ pc \in {"putLost", "putCancelled"} =>
       /\ old.state \in ActiveStates /\ rec.state \in {"lost", "cancelled"}
       /\ rec.exit_code = old.exit_code /\ rec.cursor = old.cursor
  /\ pc \in {"putChunk", "putExit"} =>
       /\ rec.cursor >= old.cursor /\ rec.cursor <= Longest
       /\ SameEnd(rec, old) \/ Exited(rec, old)

CallInStep(c) == InStep(call[c].pc, call[c].stage, call[c].rec, tasks[call[c].task])

FollowInv ==
  /\ \A r \in Remotes : body[r] <= MaxBody
  /\ \A t \in Tasks : tasks[t] # NoRecord => tasks[t].cursor <= Longest
  /\ \A c \in Calls : CallInStep(c)

LEMMA IdleInStep == \A rec, old, stage : InStep("idle", stage, rec, old)
BY DEF InStep, Unstored, SessionLabels, LateLabels

LEMMA LabelsMoves ==
  ASSUME TypeInv, NEW c \in Calls, NEW label
  PROVE  /\ Goto(c, label) => call'[c].stage = call[c].stage
         /\ \A rec : GotoWith(c, label, rec) => call'[c].stage = call[c].stage
BY DEF TypeInv, TypeOK, Goto, GotoWith, Call

-----------------------------------------------------------------------------
(* The lifecycle of one record.                                            *)

LEMMA LifeSet ==
  ASSUME TypeOK, NEW t \in Tasks, NEW rec, tasks' = [tasks EXCEPT ![t] = rec]
  PROVE  \A u \in Tasks \ {t} : Life(u)' = Life(u)
BY DEF TypeOK, Life

LEMMA LifeStays ==
  ASSUME TypeOK, NEW t \in Tasks, NEW rec, tasks' = [tasks EXCEPT ![t] = rec],
         rec # NoRecord, tasks[t] # NoRecord, SameLife(rec, tasks[t])
  PROVE  UNCHANGED [u \in Tasks |-> Life(u)]
<1>1. tasks'[t] = rec
  BY DEF TypeOK
<1>2. Life(t)' = Life(t)
  BY <1>1 DEF Life, SameLife, SameEnd
<1> QED
  BY <1>2, LifeSet

(* The moves of the visible record of one task.                            *)
LifeMoves(a, b) ==
  \/ a.state = "absent" /\ b = [a EXCEPT !.state = "queued"]
  \/ Accepts(a.state, "started") /\ b = transitionTask(a, "started", NoExit)
  \/ \E n \in 0..(MaxBody + 2) :
       /\ n >= a.cursor
       /\ \/ a.state \in TaskState /\ b = [a EXCEPT !.cursor = n]
          \/ /\ a.state \in ActiveStates
             /\ \E e \in Exits : b = [transitionTask(a, "exited", e) EXCEPT !.cursor = n]
  \/ \E event \in {"cancelled", "lost"} : Accepts(a.state, event) /\ b = transitionTask(a, event, NoExit)
  \/ a.state = "queued" /\ b = Lifecycle!Absent

LEMMA LifecycleStates ==
  /\ \A state, event : Lifecycle!Accepts(state, event) <=> Accepts(state, event)
  /\ \A a, event, exit : Lifecycle!transitionTask(a, event, exit) = transitionTask(a, event, exit)
  /\ Lifecycle!ActiveStates = ActiveStates /\ Lifecycle!TaskState = TaskState
  /\ Lifecycle!Exits = Exits /\ Lifecycle!NoExit = NoExit
BY DEF Lifecycle!Accepts, Lifecycle!transitionTask, Lifecycle!mapExitCodeToTaskState, Lifecycle!ActiveStates,
   Lifecycle!TerminalStates, Lifecycle!TaskState, Lifecycle!Exits, Lifecycle!NoExit, Accepts, transitionTask,
   mapExitCodeToTaskState, ActiveStates, TerminalStates, TaskState, Exits, NoExit

LEMMA TransitionLife ==
  ASSUME NEW s, NEW x, NEW n, NEW e,
         NEW a, a = [state |-> s, exit_code |-> x, cursor |-> n]
  PROVE  /\ transitionTask(a, "started", e) = [state |-> "running", exit_code |-> x, cursor |-> n]
         /\ transitionTask(a, "exited", e) = [state |-> mapExitCodeToTaskState(e), exit_code |-> e, cursor |-> n]
         /\ \A event \in {"lost", "cancelled"} :
              transitionTask(a, event, e) = [state |-> event, exit_code |-> x, cursor |-> n]
<1>1. ASSUME NEW v, NEW w
      PROVE  [[a EXCEPT !.state = v] EXCEPT !.exit_code = w] = [state |-> v, exit_code |-> w, cursor |-> n]
  <2>1. PICK y : y = [a EXCEPT !.state = v]
    OBVIOUS
  <2>2. y = [state |-> v, exit_code |-> x, cursor |-> n]
    BY <2>1
  <2>3. [y EXCEPT !.exit_code = w] = [state |-> v, exit_code |-> w, cursor |-> n]
    BY <2>2
  <2> QED
    BY <2>1, <2>3, Zenon
<1>2. \A v, w : [a EXCEPT !.state = v, !.exit_code = w] = [[a EXCEPT !.state = v] EXCEPT !.exit_code = w]
  OBVIOUS
<1>3. \A event : transitionTask(a, event, e) =
        [a EXCEPT !.state = IF event = "started" THEN "running"
                            ELSE IF event = "exited" THEN mapExitCodeToTaskState(e) ELSE event,
                  !.exit_code = IF event = "exited" THEN e ELSE x]
  BY DEF transitionTask
<1>4. \A event : transitionTask(a, event, e) =
        [state |-> IF event = "started" THEN "running"
                   ELSE IF event = "exited" THEN mapExitCodeToTaskState(e) ELSE event,
         exit_code |-> IF event = "exited" THEN e ELSE x, cursor |-> n]
  BY <1>1, <1>2, <1>3
<1> QED
  BY <1>4

LEMMA LifeChanges ==
  ASSUME TypeOK, NEW t \in Tasks, NEW rec, tasks' = [tasks EXCEPT ![t] = rec],
         NEW a, NEW b, Life(t) = a, Life(t)' = b, LifeMoves(a, b)
  PROVE  Lifecycle!LifeNext
<1> DEFINE life == [u \in Tasks |-> Life(u)]
<1>1. life[t] = a
  OBVIOUS
<1>2. \A x : b = x => life' = [life EXCEPT ![t] = x]
  BY LifeSet
<1> SUFFICES Lifecycle!Create(t) \/ Lifecycle!Started(t) \/ Lifecycle!OutputRead(t)
             \/ Lifecycle!CancelledOrLost(t) \/ Lifecycle!Forget(t)
  BY DEF Lifecycle!LifeNext
<1>3. CASE a.state = "absent" /\ b = [a EXCEPT !.state = "queued"]
  <2>1. life[t].state = "absent" /\ life' = [life EXCEPT ![t].state = "queued"]
    BY <1>1, <1>2, <1>3
  <2> QED
    BY <2>1 DEF Lifecycle!Create
<1>4. CASE Accepts(a.state, "started") /\ b = transitionTask(a, "started", NoExit)
  <2>1. /\ Accepts(life[t].state, "started")
        /\ life' = [life EXCEPT ![t] = transitionTask(life[t], "started", NoExit)]
    BY <1>1, <1>2, <1>4
  <2> QED
    BY <2>1, LifecycleStates DEF Lifecycle!Started
<1>5. ASSUME NEW n \in 0..(MaxBody + 2), n >= a.cursor
      PROVE  /\ a.state \in TaskState /\ b = [a EXCEPT !.cursor = n] => Lifecycle!OutputRead(t)
             /\ \A e \in Exits : a.state \in ActiveStates
                                 /\ b = [transitionTask(a, "exited", e) EXCEPT !.cursor = n]
                   => Lifecycle!OutputRead(t)
  <2>0. n >= life[t].cursor
    BY <1>1, <1>5
  <2>1. ASSUME a.state \in TaskState, b = [a EXCEPT !.cursor = n] PROVE Lifecycle!OutputRead(t)
    <3>1. life[t].state \in TaskState /\ life' = [life EXCEPT ![t].cursor = n]
      BY <1>1, <1>2, <2>1
    <3> QED
      BY <2>0, <3>1, LifecycleStates DEF Lifecycle!OutputRead
  <2>2. ASSUME NEW e \in Exits, a.state \in ActiveStates,
               b = [transitionTask(a, "exited", e) EXCEPT !.cursor = n]
        PROVE  Lifecycle!OutputRead(t)
    <3>1. life[t].state \in ActiveStates
      BY <1>1, <2>2
    <3>2. life' = [life EXCEPT ![t] = [transitionTask(life[t], "exited", e) EXCEPT !.cursor = n]]
      BY <1>1, <1>2, <2>2
    <3> QED
      BY <2>0, <3>1, <3>2, LifecycleStates DEF Lifecycle!OutputRead
  <2> QED
    BY <2>1, <2>2
<1>6. ASSUME NEW event \in {"cancelled", "lost"}, Accepts(a.state, event),
             b = transitionTask(a, event, NoExit)
      PROVE  Lifecycle!CancelledOrLost(t)
  <2>1. /\ Accepts(life[t].state, event)
        /\ life' = [life EXCEPT ![t] = transitionTask(life[t], event, NoExit)]
    BY <1>1, <1>2, <1>6
  <2> QED
    BY <2>1, LifecycleStates DEF Lifecycle!CancelledOrLost
<1>7. CASE a.state = "queued" /\ b = Lifecycle!Absent
  <2>1. life[t].state = "queued" /\ life' = [life EXCEPT ![t] = Lifecycle!Absent]
    BY <1>1, <1>2, <1>7
  <2> QED
    BY <2>1 DEF Lifecycle!Forget
<1> QED
  BY <1>3, <1>4, <1>5, <1>6, <1>7 DEF LifeMoves

LEMMA PutFollows ==
  ASSUME TypeInv, FollowInv, NEW c \in Calls, Put(c, call[c].task),
         call[c].pc \in {"sPutQueued", "sPutRunning"} \cup PutLabels
  PROVE  [Lifecycle!LifeNext]_[u \in Tasks |-> Life(u)]
<1> USE SentinelAssumption
<1>0. TypeOK /\ Fits(call[c])
  BY AllFit DEF TypeInv
<1>1. PICK rec, t, old, pc :
        /\ rec = call[c].rec /\ t = call[c].task /\ old = tasks[t] /\ pc = call[c].pc
  OBVIOUS
<1>2. /\ t \in Tasks /\ rec \in Record
      /\ old \in Record \cup {NoRecord} /\ tasks' = [tasks EXCEPT ![t] = rec] /\ tasks'[t] = rec
  BY <1>0, <1>1 DEF Fits, Put, PutLabels, TypeOK
<1>3. rec # NoRecord
  BY <1>2 DEF Record
<1>4. InStep(pc, call[c].stage, rec, old)
  BY <1>1 DEF FollowInv, CallInStep
<1>5. PICK b : b = Life(t)' /\ b = [state |-> rec.state, exit_code |-> rec.exit_code, cursor |-> rec.cursor]
  BY <1>2, <1>3 DEF Life
<1>6. PICK a : a = Life(t)
  OBVIOUS
<1>7. /\ old = NoRecord => a = [state |-> "absent", exit_code |-> NoExit, cursor |-> 0]
      /\ old # NoRecord => a = [state |-> old.state, exit_code |-> old.exit_code, cursor |-> old.cursor]
  BY <1>1, <1>6 DEF Life
<1> SUFFICES ASSUME pc # "putRecovered" PROVE LifeMoves(a, b)
  <2>1. CASE pc = "putRecovered"
    <3>1. old # NoRecord /\ SameLife(rec, old)
      BY <1>4, <2>1 DEF InStep, Unstored, SessionLabels
    <3> QED
      BY <1>0, <1>1, <1>2, <1>3, <3>1, LifeStays
  <2>2. CASE LifeMoves(a, b)
    BY <1>0, <1>2, <1>5, <1>6, <2>2, LifeChanges
  <2> QED
    BY <2>1, <2>2
<1>8. CASE pc = "sPutQueued"
  <2>1. old = NoRecord /\ rec.state = "queued" /\ rec.exit_code = NoExit /\ rec.cursor = 0
    BY <1>4, <1>8 DEF InStep, Unstored, Fresh
  <2> QED
    BY <1>5, <1>7, <2>1 DEF LifeMoves
<1>9. CASE pc = "sPutRunning"
  <2>1. old # NoRecord /\ Fresh(old, "queued") /\ Fresh(rec, "running")
    BY <1>4, <1>9 DEF InStep, Unstored
  <2>2. Accepts(a.state, "started") /\ b = transitionTask(a, "started", NoExit)
    BY <1>5, <1>7, <2>1, TransitionLife DEF Fresh, Accepts
  <2> QED
    BY <2>2 DEF LifeMoves
<1>10. CASE pc \in {"putLost", "putCancelled"}
  <2>1. /\ old # NoRecord /\ old.state \in ActiveStates /\ rec.state \in {"lost", "cancelled"}
        /\ rec.exit_code = old.exit_code /\ rec.cursor = old.cursor
    BY <1>4, <1>10 DEF InStep, Unstored
  <2>2. /\ Accepts(a.state, rec.state)
        /\ b = transitionTask(a, rec.state, NoExit)
    BY <1>5, <1>7, <2>1, TransitionLife DEF Accepts, ActiveStates
  <2> QED
    BY <2>1, <2>2 DEF LifeMoves
<1>11. CASE pc \in {"putChunk", "putExit"}
  <2>1. /\ old # NoRecord /\ rec.cursor >= old.cursor /\ rec.cursor <= Longest
        /\ SameEnd(rec, old) \/ Exited(rec, old)
    BY <1>4, <1>11 DEF InStep, Unstored
  <2>2. a = [state |-> old.state, exit_code |-> old.exit_code, cursor |-> old.cursor]
    BY <1>7, <2>1
  <2>3. rec.cursor \in Nat /\ old.state \in TaskState
    BY <1>2, <2>1 DEF Record, Draft
  <2>4. rec.cursor \in 0..(MaxBody + 2) /\ rec.cursor >= a.cursor
    BY <2>1, <2>2, <2>3, BoundsAssumption DEF Longest
  <2>5. CASE SameEnd(rec, old)
    <3>1. a.state \in TaskState /\ b = [a EXCEPT !.cursor = rec.cursor]
      BY <1>5, <2>2, <2>3, <2>5 DEF SameEnd
    <3> QED
      BY <2>4, <3>1 DEF LifeMoves
  <2>6. CASE Exited(rec, old)
    <3>1. transitionTask(a, "exited", rec.exit_code)
            = [state |-> rec.state, exit_code |-> rec.exit_code, cursor |-> old.cursor]
      BY <2>2, <2>6, TransitionLife DEF Exited
    <3>2. b = [transitionTask(a, "exited", rec.exit_code) EXCEPT !.cursor = rec.cursor]
      BY <1>5, <3>1
    <3>3. a.state \in ActiveStates /\ rec.exit_code \in Exits
      BY <2>2, <2>6 DEF Exited
    <3> QED
      BY <2>4, <3>2, <3>3 DEF LifeMoves
  <2> QED
    BY <2>1, <2>5, <2>6
<1> QED
  BY <1>1, <1>8, <1>9, <1>10, <1>11 DEF PutLabels

LEMMA DeleteFollows ==
  ASSUME TypeInv, FollowInv, NEW c \in Calls, call[c].pc = "sDelete",
         tasks' = [tasks EXCEPT ![call[c].task] = NoRecord]
  PROVE  Lifecycle!LifeNext
<1> USE SentinelAssumption
<1>0. TypeOK /\ Fits(call[c])
  BY AllFit DEF TypeInv
<1>1. PICK t \in Tasks : t = call[c].task
  BY <1>0 DEF Fits
<1>2. tasks'[t] = NoRecord
  BY <1>0, <1>1 DEF TypeOK
<1>3. tasks[t] # NoRecord /\ tasks[t].state = "queued"
  BY <1>1 DEF FollowInv, CallInStep, InStep, Unstored
<1>4. Life(t).state = "queued"
  BY <1>3 DEF Life
<1>5. Life(t)' = Lifecycle!Absent
  BY <1>2, LifecycleStates DEF Life, Lifecycle!Absent
<1>6. PICK a, b : a = Life(t) /\ b = Life(t)'
  OBVIOUS
<1>7. LifeMoves(a, b)
  BY <1>4, <1>5, <1>6 DEF LifeMoves
<1> QED
  BY <1>0, <1>1, <1>6, <1>7, LifeChanges

-----------------------------------------------------------------------------
(* What the transitions keep of a record.                                  *)

LEMMA TransitionKeeps ==
  ASSUME NEW rec \in Draft, NEW event \in {"started", "cancelled", "lost"}
  PROVE  LET next == transitionTask(rec, event, NoExit) IN
         next.exit_code = rec.exit_code /\ next.cursor = rec.cursor
BY DEF Draft, transitionTask

LEMMA TransitionEnds ==
  ASSUME NEW rec \in Draft, NEW event \in {"cancelled", "lost"}
  PROVE  \E new : /\ new = transitionTask(rec, event, NoExit)
                  /\ new.state = event
                  /\ new.exit_code = rec.exit_code /\ new.cursor = rec.cursor
<1> DEFINE new == transitionTask(rec, event, NoExit)
<1>1. new.state = event
  BY TransitionType
<1>2. new.exit_code = rec.exit_code /\ new.cursor = rec.cursor
  BY TransitionKeeps
<1> WITNESS new
<1> QED
  BY <1>1, <1>2

LEMMA ExitKeeps ==
  ASSUME NEW rec \in Draft, NEW exit \in Exits
  PROVE  LET next == transitionWithExit(rec, exit) IN
         /\ next.cursor = rec.cursor
         /\ SameEnd(next, rec) \/ Exited(next, rec)
<1>1. CASE rec.state \notin ActiveStates
  BY <1>1 DEF transitionWithExit, SameEnd
<1>2. ASSUME NEW running \in Draft
      PROVE  LET next == transitionTask(running, "exited", exit) IN
             /\ next.cursor = running.cursor /\ next.exit_code = exit
             /\ next.state = mapExitCodeToTaskState(exit)
  BY <1>2 DEF Draft, transitionTask
<1>3. CASE rec.state \in ActiveStates
  <2> DEFINE running == IF rec.state = "queued" THEN transitionTask(rec, "started", NoExit) ELSE rec
  <2>1. running \in Draft /\ running.cursor = rec.cursor
    BY TransitionType, TransitionKeeps
  <2>2. transitionWithExit(rec, exit) = transitionTask(running, "exited", exit)
    BY <1>3 DEF transitionWithExit
  <2> HIDE DEF running
  <2> QED
    BY <1>2, <1>3, <2>1, <2>2 DEF Exited
<1> QED
  BY <1>1, <1>3

LEMMA ChunkKeeps ==
  ASSUME NEW rec \in Record, NEW t, NEW from, NEW n \in Nat,
         NEW next \in Chunks(rec, t, from, n)
  PROVE  /\ next.cursor = n
         /\ SameEnd(next, rec) \/ Exited(next, rec)
<1>0. rec \in Draft
  BY RecordType
<1>1. PICK y \in Draft, f \in Fragments, g \in BOOLEAN :
        /\ next = [y EXCEPT !.cursor = n, !.fragment = f, !.guessed = g]
        /\ \/ y = rec /\ g = rec.guessed
           \/ \E e \in Exits : /\ y = transitionWithExit(rec, e)
                               /\ rec.state \in ActiveStates
                               /\ g \/ (job[onto[rec.session]] = t /\ ended[onto[rec.session]] = e)
  BY <1>0, ChunkShape
<1>2. SameEnd(y, rec) \/ Exited(y, rec)
  BY <1>1, ExitKeeps, RecordType DEF SameEnd
<1>3. next.cursor = n /\ next.state = y.state /\ next.exit_code = y.exit_code
  BY <1>1 DEF Draft
<1> QED
  BY <1>2, <1>3 DEF SameEnd, Exited

LEMMA BufferBound ==
  ASSUME TypeInv, FollowInv, NEW h \in up
  PROVE  BufferLength(h) <= Longest /\ BufferLength(h) \in Int
<1>1. h \in Handles /\ onto[h] \in Remotes /\ base[h] \in Nat /\ body[onto[h]] \in Nat
  BY DEF TypeInv, TypeOK
<1>2. body[onto[h]] <= MaxBody
  BY <1>1 DEF FollowInv
<1>3. CASE ended[onto[h]] \in Exits
  BY <1>1, <1>2, <1>3, BoundsAssumption DEF BufferLength, OutputLength, Longest
<1>4. CASE ended[onto[h]] \notin Exits
  BY <1>1, <1>2, <1>4, BoundsAssumption DEF BufferLength, OutputLength, Longest
<1> QED
  BY <1>3, <1>4

-----------------------------------------------------------------------------
(* A call keeps in step while it is the only one on its task.              *)

LEMMA StepKeeps ==
  ASSUME TypeInv, FollowInv, OneCallPerTask, NEW c \in Calls, UNCHANGED body,
         \A d \in Calls \ {c} : call'[d] = call[d],
         CallInStep(c)',
         \/ UNCHANGED tasks
         \/ /\ call[c].pc # "idle"
            /\ \E rec : /\ tasks' = [tasks EXCEPT ![call[c].task] = rec]
                        /\ rec # NoRecord => rec.cursor <= Longest
  PROVE  FollowInv'
<1>1. ASSUME NEW d \in Calls PROVE CallInStep(d)'
  <2>1. CASE d = c
    BY <2>1
  <2>2. CASE d # c /\ call[d].pc = "idle"
    BY <2>2, IdleInStep DEF CallInStep
  <2>3. CASE d # c /\ call[d].pc # "idle"
    <3>1. call[d].task \in Tasks
      BY <2>3, AllFit DEF TypeInv, Fits
    <3>2. tasks'[call[d].task] = tasks[call[d].task]
      BY <2>3, <3>1 DEF OneCallPerTask, TypeInv, TypeOK
    <3> QED
      BY <2>3, <3>2 DEF CallInStep, FollowInv
  <2> QED
    BY <2>1, <2>2, <2>3
<1>2. \A t \in Tasks : tasks'[t] # NoRecord => tasks'[t].cursor <= Longest
  BY DEF FollowInv, TypeInv, TypeOK
<1> QED
  BY <1>1, <1>2 DEF FollowInv, Longest

LEMMA PutCursor ==
  ASSUME TypeInv, FollowInv, NEW c \in Calls,
         call[c].pc \in {"sPutQueued", "sPutRunning"} \cup PutLabels
  PROVE  call[c].rec.cursor <= Longest
<1> DEFINE rec == call[c].rec
           old == tasks[call[c].task]
<1>1. call[c].task \in Tasks
  BY AllFit DEF TypeInv, Fits, PutLabels
<1>2. old # NoRecord => old.cursor <= Longest
  BY <1>1 DEF FollowInv
<1>3. InStep(call[c].pc, call[c].stage, rec, old)
  BY DEF FollowInv, CallInStep
<1>4. 0 <= Longest
  BY BoundsAssumption DEF Longest
<1>5. CASE call[c].pc \in {"sPutQueued", "sPutRunning"}
  BY <1>3, <1>4, <1>5 DEF InStep, Fresh
<1>6. CASE call[c].pc \in {"putRecovered", "putLost", "putCancelled"}
  BY <1>2, <1>3, <1>6 DEF InStep, Unstored, SameLife, SessionLabels
<1>7. CASE call[c].pc \in {"putChunk", "putExit"}
  BY <1>3, <1>7 DEF InStep
<1> QED
  BY <1>5, <1>6, <1>7 DEF PutLabels

LEMMA ReturnKeeps ==
  ASSUME TypeInv, FollowInv, NEW c \in Calls, Return(c)
  PROVE  CallInStep(c)'
BY ReturnMoves, IdleInStep DEF CallInStep, Idle

(* Where the caller of ensureTaskSession goes on with the record.          *)
LEMMA EnsuredKeeps ==
  ASSUME TypeInv, NEW c \in Calls, Ensured(c), call[c].rec # NoRecord, NEW old,
         tasks'[call[c].task] = old, old # NoRecord, SameLife(call[c].rec, old),
         call[c].stage = "final" => call[c].rec.state \in ActiveStates
  PROVE  CallInStep(c)'
<1>1. CASE Return(c)
  BY <1>1, ReturnMoves, IdleInStep DEF CallInStep, Idle
<1>2. ASSUME NEW label \in {"read", "waitFor", "ctrlC"}, Goto(c, label),
             label = "read" => call[c].stage = "drain", label # "read" => call[c].stage = "final"
      PROVE  CallInStep(c)'
  <2>1. /\ call'[c].pc = label /\ call'[c].stage = call[c].stage
        /\ call'[c].rec = call[c].rec /\ call'[c].task = call[c].task
    BY <1>2, GotoMoves, LabelsMoves
  <2>2. InStep(label, call[c].stage, call[c].rec, old)
    BY <1>2 DEF InStep, Unstored, SessionLabels, LateLabels
  <2> QED
    BY <2>1, <2>2 DEF CallInStep
<1> QED
  BY <1>1, <1>2 DEF Ensured

LEMMA TaskKeeps ==
  ASSUME TypeInv, FollowInv, OneCallPerTask, NEW c \in Calls, TaskStep(c) \/ Fail(c)
  PROVE  FollowInv' /\ [Lifecycle!LifeNext]_[u \in Tasks |-> Life(u)]
<1> USE SentinelAssumption
<1> DEFINE rec == call[c].rec
           t == call[c].task
           old == tasks[t]
           stage == call[c].stage
           life == [u \in Tasks |-> Life(u)]
<1>0. TypeOK /\ Fits(call[c]) /\ InStep(call[c].pc, stage, rec, old)
  BY AllFit DEF TypeInv, FollowInv, CallInStep
<1>o. \A d \in Calls \ {c} : call'[d] = call[d]
  BY TaskStepIs DEF StepOf
<1>a. ASSUME call[c].pc \notin {"idle", "load"} \cup StartLabels
      PROVE  t \in Tasks /\ rec \in Record /\ rec \in Draft /\ rec # NoRecord /\ old # NoRecord /\ old \in Record
  BY <1>0, <1>a, RecordType DEF Fits, StartLabels, InStep, Unstored, TypeOK
<1>s. ASSUME UNCHANGED <<tasks, body>>, CallInStep(c)'
      PROVE  FollowInv' /\ [Lifecycle!LifeNext]_life
  <2>1. UNCHANGED life
    BY <1>s DEF Life
  <2> QED
    BY <1>s, <1>o, <2>1, StepKeeps
<1>p. ASSUME Put(c, t), call[c].pc \in PutLabels, UNCHANGED body, CallInStep(c)'
      PROVE  FollowInv' /\ [Lifecycle!LifeNext]_life
  <2>1. [Lifecycle!LifeNext]_life
    BY <1>p, PutFollows
  <2>2. FollowInv'
    BY <1>p, <1>o, PutCursor, StepKeeps DEF Put, PutLabels
  <2> QED
    BY <2>1, <2>2
<1>r. ASSUME Return(c) PROVE CallInStep(c)'
  BY <1>r, ReturnKeeps
<1>g. ASSUME NEW label, Goto(c, label), UNCHANGED tasks
      PROVE  CallInStep(c)' <=> InStep(label, stage, rec, old)
  BY <1>g, GotoMoves, LabelsMoves DEF CallInStep
<1>w. ASSUME NEW label, NEW new, GotoWith(c, label, new), UNCHANGED tasks
      PROVE  CallInStep(c)' <=> InStep(label, stage, new, old)
  BY <1>w, GotoWithMoves, LabelsMoves DEF CallInStep
<1>1. CASE Load(c)
  <2>1. call[c].pc = "load" /\ UNCHANGED <<tasks, body>> /\ stage # "final" /\ t \in Tasks
    BY <1>0, <1>1 DEF Load, At, host, InStep, Fits
  <2>2. CASE Return(c)
    BY <1>r, <1>s, <2>1, <2>2
  <2>3. CASE call' = [call EXCEPT ![c].stage = "drain"]
    <3>1. call'[c].pc = "load" /\ call'[c].stage = "drain" /\ call'[c].task = t /\ call'[c].rec = rec
      BY <1>0, <2>1, <2>3 DEF TypeOK, Call
    <3>2. InStep("load", "drain", rec, old)
      BY DEF InStep, Unstored, SessionLabels, LateLabels
    <3> QED
      BY <1>s, <2>1, <3>1, <3>2 DEF CallInStep
  <2>4. CASE GotoWith(c, "list", old) /\ old # NoRecord
    <3>1. InStep("list", stage, old, old)
      BY <2>1, <2>4 DEF InStep, Unstored, SessionLabels, LateLabels, SameLife, SameEnd
    <3> QED
      BY <1>s, <1>w, <2>1, <2>4, <3>1
  <2> QED
    BY <1>1, <2>2, <2>3, <2>4 DEF Load
<1>2. CASE List(c)
  <2>1. call[c].pc = "list" /\ UNCHANGED <<tasks, body>>
    BY <1>2 DEF List, At, host
  <2>2. rec # NoRecord /\ rec \in Draft /\ old # NoRecord /\ SameLife(rec, old)
    BY <1>0, <1>a, <2>1 DEF InStep, SessionLabels, StartLabels
  <2>3. CASE Return(c)
    BY <1>r, <1>s, <2>1, <2>3
  <2>4. CASE Goto(c, "probe")
    <3>1. InStep("probe", stage, rec, old)
      BY <1>0, <2>1, <2>2 DEF InStep, Unstored, SessionLabels, LateLabels
    <3> QED
      BY <1>s, <1>g, <2>1, <2>4, <3>1
  <2>5. CASE rec.state \in ActiveStates /\ GotoWith(c, "putLost", transitionTask(rec, "lost", NoExit))
    <3>0. rec \in Draft
      BY <2>2
    <3>1. PICK new : /\ new = transitionTask(rec, "lost", NoExit) /\ new.state = "lost"
                     /\ new.exit_code = rec.exit_code /\ new.cursor = rec.cursor
      BY <3>0, TransitionEnds
    <3>2. InStep("putLost", stage, new, old)
      BY <2>2, <2>5, <3>1 DEF InStep, Unstored, SessionLabels, LateLabels, SameLife, SameEnd
    <3> QED
      BY <1>s, <1>w, <2>1, <2>5, <3>1, <3>2
  <2> QED
    BY <1>2, <2>3, <2>4, <2>5 DEF List
<1>3. CASE Probe(c)
  <2>1. call[c].pc = "probe" /\ UNCHANGED <<tasks, body>>
    BY <1>3 DEF Probe, At, host
  <2>2. /\ rec # NoRecord /\ old # NoRecord /\ SameLife(rec, old)
        /\ stage = "final" => rec.state \in ActiveStates
    BY <1>0, <1>a, <2>1 DEF InStep, SessionLabels, StartLabels
  <2>3. CASE Ensured(c)
    <3>1. tasks'[t] = old
      BY <2>1
    <3> QED
      BY <1>s, <2>1, <2>2, <2>3, <3>1, EnsuredKeeps
  <2>4. CASE Goto(c, "attach")
    <3>1. InStep("attach", stage, rec, old)
      BY <2>2 DEF InStep, Unstored, SessionLabels, LateLabels
    <3> QED
      BY <1>s, <1>g, <2>1, <2>4, <3>1
  <2> QED
    BY <1>3, <2>3, <2>4 DEF Probe
<1>4. CASE Attach(c)
  <2>1. call[c].pc = "attach" /\ UNCHANGED <<tasks, body>>
    BY <1>4 DEF Attach, At, host
  <2>2. /\ rec # NoRecord /\ rec \in Draft /\ old # NoRecord /\ SameLife(rec, old)
        /\ stage = "final" => rec.state \in ActiveStates
    BY <1>0, <1>a, <2>1 DEF InStep, SessionLabels, StartLabels
  <2>3. CASE Return(c)
    BY <1>r, <1>s, <2>1, <2>3
  <2>4. ASSUME NEW h, NEW start, GotoWith(c, "putRecovered", Reattached(rec, h, start))
        PROVE  FollowInv' /\ [Lifecycle!LifeNext]_life
    <3>0. LET new == Reattached(rec, h, start) IN
          new.state = rec.state /\ new.exit_code = rec.exit_code /\ new.cursor = rec.cursor
      BY <2>2 DEF Reattached, Draft
    <3>1. PICK new : /\ new = Reattached(rec, h, start) /\ new.state = rec.state
                     /\ new.exit_code = rec.exit_code /\ new.cursor = rec.cursor
      BY <3>0
    <3>2. InStep("putRecovered", stage, new, old)
      BY <2>2, <3>1 DEF InStep, Unstored, SessionLabels, LateLabels, SameLife, SameEnd
    <3> QED
      BY <1>s, <1>w, <2>1, <2>4, <3>1, <3>2
  <2> QED
    BY <1>4, <2>3, <2>4 DEF Attach
<1>5. CASE PutRecovered(c)
  <2>1. call[c].pc = "putRecovered" /\ UNCHANGED body /\ Put(c, t) /\ Ensured(c)
    BY <1>5 DEF PutRecovered, At, host
  <2>2. /\ rec # NoRecord /\ t \in Tasks
        /\ stage = "final" => rec.state \in ActiveStates
    BY <1>0, <1>a, <2>1 DEF InStep, SessionLabels, StartLabels
  <2>3. tasks'[t] = rec /\ SameLife(rec, rec)
    BY <1>0, <2>1, <2>2 DEF Put, TypeOK, SameLife, SameEnd
  <2>4. CallInStep(c)'
    BY <2>1, <2>2, <2>3, EnsuredKeeps
  <2> QED
    BY <1>p, <2>1, <2>4 DEF PutLabels
<1>6. CASE Read(c)
  <2>1. call[c].pc = "read" /\ UNCHANGED <<tasks, body>> /\ stage = "drain"
    BY <1>0, <1>6 DEF Read, At, host, InStep
  <2>2. rec # NoRecord /\ rec \in Record /\ old \in Record /\ old # NoRecord /\ SameLife(rec, old)
    BY <1>0, <1>a, <2>1 DEF InStep, StartLabels
  <2>3. CASE Return(c)
    BY <1>r, <1>s, <2>1, <2>3
  <2>4. ASSUME NEW h \in up, NEW n \in 0..BufferLength(h), ~(n < rec.cursor), NEW more,
               NEW from, NEW new \in Chunks(rec, t, from, n),
               call' = [call EXCEPT ![c].pc = "putChunk", ![c].rec = new, ![c].more = more]
        PROVE  FollowInv' /\ [Lifecycle!LifeNext]_life
    <3>1. n \in Nat /\ n <= Longest
      BY <2>4, BufferBound, BoundsAssumption DEF Longest
    <3>2. new.cursor = n /\ (SameEnd(new, rec) \/ Exited(new, rec))
      BY <2>2, <3>1, ChunkKeeps
    <3>3. n >= old.cursor /\ rec.cursor = old.cursor /\ SameEnd(rec, old)
      BY <2>2, <2>4, <3>1 DEF SameLife, Record, Draft
    <3>4. InStep("putChunk", stage, new, old)
      BY <2>1, <2>2, <3>1, <3>2, <3>3 DEF InStep, Unstored, SessionLabels, LateLabels, SameEnd, Exited
    <3>5. /\ call'[c].pc = "putChunk" /\ call'[c].rec = new
          /\ call'[c].stage = stage /\ call'[c].task = t
      BY <1>0, <2>4, <3>2 DEF TypeOK, Call
    <3> QED
      BY <1>s, <2>1, <3>4, <3>5 DEF CallInStep
  <2> QED
    BY <1>6, <2>3, <2>4 DEF Read
<1>7. CASE PutChunk(c)
  <2>1. call[c].pc = "putChunk" /\ UNCHANGED body /\ Put(c, t) /\ stage = "drain"
    BY <1>0, <1>7 DEF PutChunk, At, host, InStep
  <2>2. rec # NoRecord /\ t \in Tasks /\ tasks'[t] = rec
    BY <1>0, <1>a, <2>1 DEF StartLabels, Put, TypeOK
  <2>3. CASE Return(c)
    BY <1>r, <1>p, <2>1, <2>3 DEF PutLabels
  <2>4. ASSUME NEW reads, call' = [call EXCEPT ![c].pc = "load", ![c].reads = reads]
        PROVE  FollowInv' /\ [Lifecycle!LifeNext]_life
    <3>1. call'[c].pc = "load" /\ call'[c].stage = stage /\ call'[c].task = t /\ call'[c].rec = rec
      BY <1>0, <2>4 DEF TypeOK, Call
    <3>2. InStep("load", stage, rec, rec)
      BY <2>1 DEF InStep, Unstored, SessionLabels, LateLabels
    <3> QED
      BY <1>p, <2>1, <2>2, <3>1, <3>2 DEF CallInStep, PutLabels
  <2>5. ASSUME NEW reads, rec.state \in ActiveStates,
               call' = [call EXCEPT ![c].pc = "list", ![c].stage = "final", ![c].reads = reads]
        PROVE  FollowInv' /\ [Lifecycle!LifeNext]_life
    <3>1. call'[c].pc = "list" /\ call'[c].stage = "final" /\ call'[c].task = t /\ call'[c].rec = rec
      BY <1>0, <2>5 DEF TypeOK, Call
    <3>2. InStep("list", "final", rec, rec)
      BY <2>2, <2>5 DEF InStep, Unstored, SessionLabels, LateLabels, SameLife, SameEnd
    <3> QED
      BY <1>p, <2>1, <2>2, <3>1, <3>2 DEF CallInStep, PutLabels
  <2> QED
    BY <1>7, <2>3, <2>4, <2>5 DEF PutChunk
<1>8. CASE WaitFor(c)
  <2>1. call[c].pc = "waitFor" /\ UNCHANGED <<tasks, body>>
    BY <1>8 DEF WaitFor, At, host
  <2>2. rec \in Record /\ rec \in Draft /\ old # NoRecord /\ old \in Record /\ SameLife(rec, old) /\ t \in Tasks
    BY <1>0, <1>a, <2>1 DEF InStep, StartLabels, LateLabels
  <2>3. CASE Return(c)
    BY <1>r, <1>s, <2>1, <2>3
  <2>4. ASSUME NEW exit \in Exits, GotoWith(c, "putExit", transitionWithExit(rec, exit))
        PROVE  FollowInv' /\ [Lifecycle!LifeNext]_life
    <3>1. PICK new : /\ new = transitionWithExit(rec, exit) /\ new.cursor = rec.cursor
                     /\ SameEnd(new, rec) \/ Exited(new, rec)
      BY <2>2, ExitKeeps
    <3>2. old.cursor \in Nat /\ old.cursor <= Longest
      BY <2>2 DEF Record, Draft, FollowInv
    <3>3. InStep("putExit", stage, new, old)
      BY <2>2, <3>1, <3>2 DEF InStep, Unstored, SessionLabels, LateLabels, SameLife, SameEnd, Exited
    <3> QED
      BY <1>s, <1>w, <2>1, <2>4, <3>1, <3>3
  <2> QED
    BY <1>8, <2>3, <2>4 DEF WaitFor, MarkerInBuffer
<1>9. CASE CtrlC(c) \/ CancelWait(c) \/ Close(c)
  <2>1. call[c].pc \in {"ctrlC", "cancelWait", "close"} /\ UNCHANGED <<tasks, body>>
    BY <1>9 DEF CtrlC, CancelWait, Close, CloseSession, At, host
  <2>2. rec \in Draft /\ old # NoRecord /\ SameLife(rec, old) /\ rec.state \in ActiveStates
    BY <1>0, <1>a, <2>1 DEF InStep, StartLabels, LateLabels
  <2>3. CASE Return(c)
    BY <1>r, <1>s, <2>1, <2>3
  <2>4. ASSUME NEW label \in {"cancelWait", "close"}, Goto(c, label)
        PROVE  FollowInv' /\ [Lifecycle!LifeNext]_life
    <3>1. InStep(label, stage, rec, old)
      BY <2>2 DEF InStep, Unstored, SessionLabels, LateLabels
    <3> QED
      BY <1>s, <1>g, <2>1, <2>4, <3>1
  <2>5. CASE Cancelled(c)
    <3>0. rec \in Draft
      BY <2>2
    <3>1. PICK new : /\ new = transitionTask(rec, "cancelled", NoExit) /\ new.state = "cancelled"
                     /\ new.exit_code = rec.exit_code /\ new.cursor = rec.cursor
      BY <3>0, TransitionEnds
    <3>2. InStep("putCancelled", stage, new, old)
      BY <2>2, <3>1 DEF InStep, Unstored, SessionLabels, LateLabels, SameLife, SameEnd
    <3> QED
      BY <1>s, <1>w, <2>1, <2>5, <3>1, <3>2 DEF Cancelled
  <2> QED
    BY <1>9, <2>3, <2>4, <2>5 DEF CtrlC, CancelWait, Close
<1>10. CASE PutLast(c)
  BY <1>p, <1>r, <1>10 DEF PutLast, PutLabels, host
<1>11. CASE Fail(c)
  BY <1>r, <1>s, <1>11 DEF Fail, host
<1> QED
  BY <1>1, <1>2, <1>3, <1>4, <1>5, <1>6, <1>7, <1>8, <1>9, <1>10, <1>11 DEF TaskStep

LEMMA StartKeeps ==
  ASSUME TypeInv, SessionsAreFresh, OwnInv, FollowInv, OneCallPerTask, NEW c \in Calls, StartStep(c)
  PROVE  FollowInv' /\ [Lifecycle!LifeNext]_[u \in Tasks |-> Life(u)]
<1> USE SentinelAssumption
<1> DEFINE rec == call[c].rec
           t == call[c].task
           old == tasks[t]
           stage == call[c].stage
           life == [u \in Tasks |-> Life(u)]
<1>0. TypeOK /\ Fits(call[c]) /\ InStep(call[c].pc, stage, rec, old)
  BY AllFit DEF TypeInv, FollowInv, CallInStep
<1>o. \A d \in Calls \ {c} : call'[d] = call[d]
  BY StartStepIs DEF StepOf
<1>a. ASSUME call[c].pc \in StartLabels \ {"sList", "sCreate"}
      PROVE  rec \in Draft /\ rec # NoRecord /\ t \in Tasks
  BY <1>a, StartSession
<1>s. ASSUME UNCHANGED <<tasks, body>>, CallInStep(c)'
      PROVE  FollowInv' /\ [Lifecycle!LifeNext]_life
  <2>1. UNCHANGED life
    BY <1>s DEF Life
  <2> QED
    BY <1>s, <1>o, <2>1, StepKeeps
<1>p. ASSUME Put(c, t), call[c].pc \in {"sPutQueued", "sPutRunning"}, UNCHANGED body, CallInStep(c)'
      PROVE  FollowInv' /\ [Lifecycle!LifeNext]_life
  <2>1. [Lifecycle!LifeNext]_life
    BY <1>p, PutFollows
  <2>2. FollowInv'
    BY <1>p, <1>o, PutCursor, StepKeeps DEF Put
  <2> QED
    BY <2>1, <2>2
<1>r. ASSUME Return(c) PROVE CallInStep(c)'
  BY <1>r, ReturnKeeps
<1>g. ASSUME NEW label, Goto(c, label)
      PROVE  CallInStep(c)' <=> InStep(label, stage, rec, tasks'[t])
  BY <1>g, GotoMoves, LabelsMoves DEF CallInStep
<1>w. ASSUME NEW label, NEW new, GotoWith(c, label, new)
      PROVE  CallInStep(c)' <=> InStep(label, stage, new, tasks'[t])
  BY <1>w, GotoWithMoves, LabelsMoves DEF CallInStep
<1>1. CASE StartList(c)
  <2>1. /\ call[c].pc = "sList" /\ UNCHANGED <<tasks, body>>
        /\ call'[c].pc = "sCreate" /\ call'[c].task = t
    BY <1>0, <1>1 DEF StartList, At, host, TypeOK, Call
  <2>2. old = NoRecord
    BY <1>0, <2>1 DEF InStep, Unstored
  <2>3. InStep("sCreate", call'[c].stage, call'[c].rec, old)
    BY <2>2 DEF InStep, Unstored, SessionLabels, LateLabels
  <2> QED
    BY <1>s, <2>1, <2>3 DEF CallInStep
<1>2. CASE StartCreate(c)
  <2>1. call[c].pc = "sCreate" /\ UNCHANGED <<tasks, body>> /\ tasks'[t] = old
    BY <1>2 DEF StartCreate, At
  <2>2. old = NoRecord
    BY <1>0, <2>1 DEF InStep, Unstored
  <2>3. ASSUME NEW h, NEW r, NEW label \in {"sPutQueued", "sDiff"}, GotoWith(c, label, Queued(h, r))
        PROVE  FollowInv' /\ [Lifecycle!LifeNext]_life
    <3>1. Fresh(Queued(h, r), "queued")
      BY DEF Fresh, Queued
    <3>2. InStep(label, stage, Queued(h, r), old)
      BY <2>2, <3>1 DEF InStep, Unstored, SessionLabels, LateLabels
    <3> QED
      BY <1>s, <1>w, <2>1, <2>3, <3>2
  <2> QED
    BY <1>2, <1>r, <1>s, <2>1, <2>3 DEF StartCreate
<1>3. CASE StartDiff(c)
  <2>1. call[c].pc = "sDiff" /\ UNCHANGED <<tasks, body>> /\ tasks'[t] = old
    BY <1>3 DEF StartDiff, At, host
  <2>2. old = NoRecord /\ Fresh(rec, "queued") /\ rec \in Draft
    BY <1>0, <1>a, <2>1 DEF InStep, Unstored, StartLabels
  <2>3. ASSUME NEW r, GotoWith(c, "sPutQueued", [rec EXCEPT !.remote = r])
        PROVE  FollowInv' /\ [Lifecycle!LifeNext]_life
    <3>1. Fresh([rec EXCEPT !.remote = r], "queued")
      BY <2>2 DEF Fresh, Draft
    <3>2. InStep("sPutQueued", stage, [rec EXCEPT !.remote = r], old)
      BY <2>2, <3>1 DEF InStep, Unstored, SessionLabels, LateLabels
    <3> QED
      BY <1>s, <1>w, <2>1, <2>3, <3>2
  <2>4. CASE Goto(c, "sClose")
    <3>1. InStep("sClose", stage, rec, old)
      BY <2>2 DEF InStep, Unstored, SessionLabels, LateLabels
    <3> QED
      BY <1>s, <1>g, <2>1, <2>4, <3>1
  <2> QED
    BY <1>3, <2>3, <2>4 DEF StartDiff
<1>4. CASE StartPutQueued(c)
  <2>1. call[c].pc = "sPutQueued" /\ UNCHANGED body
    BY <1>4 DEF StartPutQueued, At, host
  <2>2. old = NoRecord /\ Fresh(rec, "queued") /\ rec # NoRecord /\ t \in Tasks
    BY <1>0, <1>a, <2>1 DEF InStep, Unstored, StartLabels
  <2>3. CASE Put(c, t) /\ Goto(c, "sSend")
    <3>1. tasks'[t] = rec
      BY <1>0, <2>2, <2>3 DEF Put, TypeOK
    <3>2. InStep("sSend", stage, rec, rec)
      BY <2>2 DEF InStep, Unstored, SessionLabels, LateLabels
    <3> QED
      BY <1>p, <1>g, <2>1, <2>3, <3>1, <3>2
  <2>4. CASE UNCHANGED tasks /\ Goto(c, "sClose")
    <3>1. InStep("sClose", stage, rec, old)
      BY <2>2 DEF InStep, Unstored, SessionLabels, LateLabels
    <3> QED
      BY <1>s, <1>g, <2>1, <2>4, <3>1
  <2> QED
    BY <1>4, <2>3, <2>4 DEF StartPutQueued
<1>5. CASE StartSend(c)
  <2>1. call[c].pc = "sSend" /\ UNCHANGED <<tasks, body>> /\ tasks'[t] = old
    BY <1>5 DEF StartSend, At
  <2>2. old # NoRecord /\ Fresh(old, "queued") /\ Fresh(rec, "queued") /\ rec \in Draft
    BY <1>0, <1>a, <2>1 DEF InStep, Unstored, StartLabels
  <2>3. CASE Goto(c, "sUndo")
    <3>1. InStep("sUndo", stage, rec, old)
      BY <2>2 DEF InStep, Unstored, SessionLabels, LateLabels, Fresh
    <3> QED
      BY <1>s, <1>g, <2>1, <2>3, <3>1
  <2>4. CASE GotoWith(c, "sPutRunning", transitionTask(rec, "started", NoExit))
    <3>1. PICK new : new = transitionTask(rec, "started", NoExit)
      OBVIOUS
    <3>2. Fresh(new, "running")
      <4>1. new.state = "running"
        BY <2>2, <3>1, TransitionType
      <4>2. new.exit_code = rec.exit_code /\ new.cursor = rec.cursor
        BY <2>2, <3>1, TransitionKeeps
      <4> QED
        BY <2>2, <4>1, <4>2 DEF Fresh
    <3>3. InStep("sPutRunning", stage, new, old)
      BY <2>2, <3>2 DEF InStep, Unstored, SessionLabels, LateLabels
    <3> QED
      BY <1>s, <1>w, <2>1, <2>4, <3>1, <3>3
  <2> QED
    BY <1>5, <2>3, <2>4 DEF StartSend
<1>6. CASE StartPutRunning(c)
  <2>1. call[c].pc = "sPutRunning" /\ UNCHANGED body
    BY <1>6 DEF StartPutRunning, At, host
  <2>2. old # NoRecord /\ Fresh(old, "queued")
    BY <1>0, <2>1 DEF InStep, Unstored
  <2>3. CASE Put(c, t) /\ Return(c)
    BY <1>p, <1>r, <2>1, <2>3
  <2>4. CASE UNCHANGED tasks /\ Goto(c, "sUndo")
    <3>1. InStep("sUndo", stage, rec, old)
      BY <2>2 DEF InStep, Unstored, SessionLabels, LateLabels, Fresh
    <3> QED
      BY <1>s, <1>g, <2>1, <2>4, <3>1
  <2> QED
    BY <1>6, <2>3, <2>4 DEF StartPutRunning
<1>7. CASE StartClose(c)
  <2>1. call[c].pc \in {"sClose", "sUndo"} /\ UNCHANGED <<tasks, body>>
    BY <1>7 DEF StartClose, TryClose, CloseSession, host
  <2>2. CASE Return(c)
    BY <1>s, <1>r, <2>1, <2>2
  <2>3. CASE call[c].pc = "sUndo" /\ Goto(c, "sDelete")
    <3>1. InStep("sDelete", stage, rec, old)
      BY <1>0, <2>3 DEF InStep, Unstored, SessionLabels, LateLabels
    <3> QED
      BY <1>s, <1>g, <2>1, <2>3, <3>1
  <2> QED
    BY <1>7, <2>1, <2>2, <2>3 DEF StartClose, At
<1>8. CASE StartDelete(c)
  <2>1. call[c].pc = "sDelete" /\ UNCHANGED body /\ Return(c)
    BY <1>8 DEF StartDelete, At, host
  <2>2. CASE tasks' = [tasks EXCEPT ![t] = NoRecord]
    <3>1. Lifecycle!LifeNext
      BY <2>1, <2>2, DeleteFollows
    <3>2. FollowInv'
      BY <1>r, <1>o, <2>1, <2>2, StepKeeps
    <3> QED
      BY <3>1, <3>2
  <2> QED
    BY <1>8, <1>s, <1>r, <2>1, <2>2 DEF StartDelete
<1> QED
  BY <1>1, <1>2, <1>3, <1>4, <1>5, <1>6, <1>7, <1>8 DEF StartStep

LEMMA OthersKeep ==
  ASSUME TypeInv, FollowInv, FreshIds,
         Environment \/ UNCHANGED vars \/ (\E c \in Calls :
           \/ \E t \in Tasks : StartCall(c, t)
           \/ \E t \in Tasks, op \in Requests \ {"start"} : Begin(c, op, t))
  PROVE  FollowInv' /\ UNCHANGED [u \in Tasks |-> Life(u)]
<1>1. UNCHANGED tasks
  BY DEF Environment, PrintOutput, Exit, RemoteDies, HandleDies, Crash, StartCall, Begin, vars
<1>2. ASSUME NEW r \in Remotes
      PROVE  body'[r] <= MaxBody
  <2>1. body[r] <= MaxBody /\ \A q \in Remotes : body[q] \in Nat
    BY DEF FollowInv, TypeInv, TypeOK
  <2>2. body' = body \/ \E q \in Remotes : body[q] < MaxBody /\ body' = [body EXCEPT ![q] = body[q] + 1]
    BY DEF Environment, PrintOutput, Exit, RemoteDies, HandleDies, Crash, StartCall, Begin, host, vars
  <2> QED
    BY <2>1, <2>2, BoundsAssumption DEF TypeInv, TypeOK
<1>3. ASSUME NEW d \in Calls
      PROVE  CallInStep(d)'
  <2>1. CASE call'[d] = call[d]
    BY <1>1, <2>1 DEF FollowInv, CallInStep
  <2>2. CASE call'[d].pc = "idle"
    BY <2>2, IdleInStep DEF CallInStep
  <2>3. CASE call'[d].pc = "load" /\ call'[d].stage # "final"
    BY <2>3 DEF CallInStep, InStep, Unstored, SessionLabels, LateLabels
  <2>4. CASE call'[d].pc = "sList" /\ call'[d].task \in Tasks \ used
    <3>1. tasks'[call'[d].task] = NoRecord
      BY <1>1, <2>4 DEF FreshIds
    <3> QED
      BY <2>4, <3>1 DEF CallInStep, InStep, Unstored, SessionLabels, LateLabels
  <2>5. ASSUME NEW c \in Calls, NEW t \in Tasks, StartCall(c, t)
        PROVE  call'[d] = call[d] \/ (call'[d].pc = "sList" /\ call'[d].task \in Tasks \ used)
    BY <2>5 DEF StartCall, Idle, TypeInv, TypeOK
  <2>6. ASSUME NEW c \in Calls, NEW t \in Tasks, NEW op \in Requests \ {"start"}, Begin(c, op, t)
        PROVE  call'[d] = call[d] \/ (call'[d].pc = "load" /\ call'[d].stage # "final")
    BY <2>6 DEF Begin, Idle, TypeInv, TypeOK
  <2>7. CASE Environment \/ UNCHANGED vars
    <3>1. call' = call \/ call' = [e \in Calls |-> Idle]
      BY <2>7 DEF Environment, PrintOutput, Exit, RemoteDies, HandleDies, Crash, vars
    <3> QED
      BY <2>1, <2>2, <3>1 DEF Idle
  <2> QED
    BY <2>1, <2>3, <2>4, <2>5, <2>6, <2>7
<1> QED
  BY <1>1, <1>2, <1>3 DEF FollowInv, Life

(* While no two calls are on one task, every record goes through the       *)
(* lifecycle of task-model.mjs, whatever fails, breaks or crashes on the   *)
(* way and whatever is done to other tasks meanwhile.                      *)
THEOREM TasksFollowLifecycle == Spec /\ []OneCallPerTask => FollowsLifecycle
<1>1. Init => FollowInv /\ Lifecycle!LifeInit
  <2> SUFFICES ASSUME Init PROVE FollowInv /\ Lifecycle!LifeInit
    OBVIOUS
  <2>1. \A c \in Calls : CallInStep(c)
    BY IdleInStep DEF Init, Idle, CallInStep
  <2>2. FollowInv
    BY <2>1, BoundsAssumption DEF Init, FollowInv
  <2>3. Lifecycle!LifeInit
    BY LifecycleStates DEF Init, Life, Lifecycle!LifeInit, Lifecycle!Absent
  <2> QED
    BY <2>2, <2>3
<1>2. TaskInv /\ OwnInv /\ OneCallPerTask /\ FollowInv /\ [Next]_vars
        => FollowInv' /\ [Lifecycle!LifeNext]_(Lifecycle!lifeVars)
  <2> SUFFICES ASSUME TaskInv, OwnInv, OneCallPerTask, FollowInv, [Next]_vars
               PROVE  FollowInv' /\ [Lifecycle!LifeNext]_(Lifecycle!lifeVars)
    OBVIOUS
  <2>1. TypeInv /\ SessionsAreFresh /\ FreshIds
    BY DEF TaskInv, TypeInv, SessionsAreFresh, OwnInv
  <2>2. ASSUME NEW c \in Calls, Step(c)
        PROVE  FollowInv' /\ [Lifecycle!LifeNext]_(Lifecycle!lifeVars)
    BY <2>1, <2>2, StartKeeps, TaskKeeps DEF Step, Lifecycle!lifeVars
  <2>3. CASE Environment \/ UNCHANGED vars \/ (\E c \in Calls :
               \/ \E t \in Tasks : StartCall(c, t)
               \/ \E t \in Tasks, op \in Requests \ {"start"} : Begin(c, op, t))
    BY <2>1, <2>3, OthersKeep DEF Lifecycle!lifeVars
  <2> QED
    BY <2>2, <2>3 DEF Next
<1> QED
  BY <1>1, <1>2, OwnInvariant, PTL DEF Spec, FollowsLifecycle, Lifecycle!LifeSpec

-----------------------------------------------------------------------------
(* What the lifecycle promises, and the records keep by the refinement.    *)
LEMMA MovesAreFinal ==
  ASSUME NEW s, NEW x, NEW n \in Nat, NEW a, a = [state |-> s, exit_code |-> x, cursor |-> n],
         NEW b, LifeMoves(a, b)
  PROVE  /\ s \in TerminalStates => b.state = s /\ b.exit_code = x
         /\ b.state # "absent" => b.cursor >= n
<1>1. CASE s = "absent" /\ b = [a EXCEPT !.state = "queued"]
  BY <1>1 DEF TerminalStates
<1>2. CASE Accepts(s, "started") /\ b = transitionTask(a, "started", NoExit)
  BY <1>2, TransitionLife DEF TerminalStates, Accepts
<1>3. ASSUME NEW m \in 0..(MaxBody + 2), m >= n, b = [a EXCEPT !.cursor = m]
      PROVE  b.state = s /\ b.exit_code = x /\ b.cursor >= n
  BY <1>3
<1>4. ASSUME NEW m \in 0..(MaxBody + 2), m >= n, s \in ActiveStates, NEW e \in Exits,
             b = [transitionTask(a, "exited", e) EXCEPT !.cursor = m]
      PROVE  s \notin TerminalStates /\ b.cursor >= n
  <2>1. transitionTask(a, "exited", e) = [state |-> mapExitCodeToTaskState(e), exit_code |-> e, cursor |-> n]
    BY TransitionLife
  <2> QED
    BY <1>4, <2>1 DEF ActiveStates, TerminalStates
<1>5. ASSUME NEW event \in {"cancelled", "lost"}, Accepts(s, event), b = transitionTask(a, event, NoExit)
      PROVE  s \notin TerminalStates /\ b.cursor >= n
  BY <1>5, TransitionLife DEF TerminalStates, Accepts
<1>6. CASE s = "queued" /\ b = Lifecycle!Absent
  BY <1>6 DEF Lifecycle!Absent, TerminalStates
<1>7. a.state = s /\ a.cursor = n
  OBVIOUS
<1> QED
  BY <1>1, <1>2, <1>3, <1>4, <1>5, <1>6, <1>7 DEF LifeMoves

LEMMA LifeIsMoved ==
  ASSUME Lifecycle!LifeNext
  PROVE  \E t \in Tasks : LifeMoves(Life(t), Life(t)') /\ \A u \in Tasks \ {t} : Life(u)' = Life(u)
<1>1. PICK l, m : l = [t \in Tasks |-> Life(t)] /\ m = [t \in Tasks |-> Life(t)]'
  OBVIOUS
<1>2. DOMAIN l = Tasks /\ \A t \in Tasks : l[t] = Life(t) /\ m[t] = Life(t)'
  BY <1>1
<1>3. \E t \in Tasks : \E b : m = [l EXCEPT ![t] = b] /\ LifeMoves(l[t], b)
  <2>1. PICK t \in Tasks : Lifecycle!Create(t) \/ Lifecycle!Started(t) \/ Lifecycle!OutputRead(t)
                           \/ Lifecycle!CancelledOrLost(t) \/ Lifecycle!Forget(t)
    BY DEF Lifecycle!LifeNext
  <2>2. CASE Lifecycle!Create(t)
    BY <1>1, <2>2 DEF Lifecycle!Create, LifeMoves
  <2>3. CASE Lifecycle!Started(t)
    BY <1>1, <2>3, LifecycleStates DEF Lifecycle!Started, LifeMoves
  <2>4. CASE Lifecycle!OutputRead(t)
    <3>1. PICK k \in 0..(MaxBody + 2) :
            /\ k >= l[t].cursor
            /\ \/ l[t].state \in TaskState /\ m = [l EXCEPT ![t].cursor = k]
               \/ /\ l[t].state \in ActiveStates
                  /\ \E e \in Exits : m = [l EXCEPT ![t] = [transitionTask(l[t], "exited", e) EXCEPT !.cursor = k]]
      BY <1>1, <2>4, LifecycleStates DEF Lifecycle!OutputRead
    <3>2. m = [l EXCEPT ![t].cursor = k] => m = [l EXCEPT ![t] = [l[t] EXCEPT !.cursor = k]]
      OBVIOUS
    <3>3. PICK b : m = [l EXCEPT ![t] = b] /\
            \/ l[t].state \in TaskState /\ b = [l[t] EXCEPT !.cursor = k]
            \/ /\ l[t].state \in ActiveStates
               /\ \E e \in Exits : b = [transitionTask(l[t], "exited", e) EXCEPT !.cursor = k]
      BY <3>1, <3>2
    <3>4. LifeMoves(l[t], b)
      BY <3>1, <3>3 DEF LifeMoves
    <3> QED
      BY <3>3, <3>4
  <2>5. CASE Lifecycle!CancelledOrLost(t)
    BY <1>1, <2>5, LifecycleStates DEF Lifecycle!CancelledOrLost, LifeMoves
  <2>6. CASE Lifecycle!Forget(t)
    BY <1>1, <2>6, LifecycleStates DEF Lifecycle!Forget, LifeMoves
  <2> QED
    BY <2>1, <2>2, <2>3, <2>4, <2>5, <2>6
<1> QED
  BY <1>2, <1>3

(* How a task ended is never revised or forgotten, and its output cursor   *)
(* never goes back, whatever fails, dies or restarts, while no two calls   *)
(* are on one task (transitionTask of task-model.mjs, 51).                 *)
THEOREM EndsStayFinal == Spec /\ []OneCallPerTask => [][Lifecycle!EndsAreFinal]_(Lifecycle!lifeVars)
<1>1. ASSUME TypeOK, Lifecycle!LifeNext PROVE Lifecycle!EndsAreFinal
  <2>1. PICK t \in Tasks : LifeMoves(Life(t), Life(t)') /\ \A u \in Tasks \ {t} : Life(u)' = Life(u)
    BY <1>1, LifeIsMoved
  <2>2. ASSUME NEW u \in Tasks
        PROVE  \E s, x, n : n \in Nat /\ Life(u) = [state |-> s, exit_code |-> x, cursor |-> n]
    BY <1>1 DEF TypeOK, Life, Record, Draft
  <2>3. ASSUME NEW u \in Tasks
        PROVE  /\ Life(u).state \in TerminalStates =>
                    Life(u)'.state = Life(u).state /\ Life(u)'.exit_code = Life(u).exit_code
               /\ Life(u)'.state # "absent" => Life(u)'.cursor >= Life(u).cursor
    <3>1. PICK s, x, n : n \in Nat /\ Life(u) = [state |-> s, exit_code |-> x, cursor |-> n]
      BY <2>2
    <3>2. PICK a, b : a = Life(u) /\ b = Life(u)'
      OBVIOUS
    <3>3. CASE u = t
      <4>1. LifeMoves(a, b)
        BY <2>1, <3>2, <3>3
      <4>2. /\ s \in TerminalStates => b.state = s /\ b.exit_code = x
            /\ b.state # "absent" => b.cursor >= n
        BY <3>1, <3>2, <4>1, MovesAreFinal
      <4> QED
        BY <3>1, <3>2, <4>2
    <3>4. CASE u # t
      BY <2>1, <3>1, <3>2, <3>4
    <3> QED
      BY <3>3, <3>4
  <2> QED
    BY <2>3 DEF Lifecycle!EndsAreFinal, Lifecycle!TerminalStates, TerminalStates
<1> QED
  BY <1>1, TypeCorrectness, TasksFollowLifecycle, PTL DEF FollowsLifecycle, Lifecycle!LifeSpec
=============================================================================
