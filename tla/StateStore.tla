----------------------------- MODULE StateStore ------------------------------
(***************************************************************************)
(* The lifecycle store of src/state-store.mjs as one process runs it: the  *)
(* coordinator every createStateStore of one path shares (the promise      *)
(* chain of updates, the cached state, the single-flight initial read),    *)
(* the steps of atomicWrite, their failures, and crashes.                  *)
(*                                                                         *)
(* The head of queue is the update that performUpdate runs; phase says how *)
(* far it is.  A file is [data, synced]: data that was not fsynced is torn *)
(* by a power loss.  Temporary names are random (line 67), so a temporary  *)
(* file that a crash leaves behind is never read and is not modelled.      *)
(***************************************************************************)
EXTENDS StoreData, Naturals, Sequences

CONSTANTS
  Clients,    \* concurrent callers: tool handlers of one process
  NoState,    \* the null of cachedState
  Torn        \* file contents that are not a whole JSON state

VARIABLES
  disk,       \* the file at statePath
  stable,     \* the file a power loss may leave there: the directory is never fsynced
  temp,       \* the temporary file of the running atomicWrite
  cache,      \* coordinator.cachedState
  reading,    \* coordinator.initialReadPromise # null
  queue,      \* coordinator.updateQueue: callers of update, oldest first
  phase,      \* progress of the update at the head of queue
  draft,      \* the next state that update will write
  op,         \* op[c]: the update c last submitted
  readers,    \* callers of read waiting for the initial read
  result,     \* result[c]: how c's last call ended
  seen        \* seen[c]: the state c's last read returned

vars == <<disk, stable, temp, cache, reading, queue, phase, draft, op, readers, result, seen>>
files == <<disk, stable, temp>>
calls == <<op, readers, result, seen>>

ASSUME NullAssumption ==
  /\ NoState \notin State
  /\ Torn \notin State
  /\ Torn # NoState

Phases == {"waiting", "load", "mutate", "mkdir", "open", "write", "sync",
           "close", "rename", "commit", "cleanup", "failed"}

File == [data : State \cup {Torn}, synced : BOOLEAN]

TypeOK ==
  /\ disk \in File
  /\ stable \in File
  /\ temp \in File
  /\ cache \in State \cup {NoState}
  /\ reading \in BOOLEAN
  /\ queue \in Seq(Clients)
  /\ phase \in Phases
  /\ draft \in State \cup {NoState}
  /\ op \in [Clients -> Op \cup {BadOp}]
  /\ readers \in SUBSET Clients
  /\ result \in [Clients -> {"none", "ok", "failed"}]
  /\ seen \in [Clients -> State]

Busy(c) == c \in readers \/ \E i \in 1..Len(queue) : queue[i] = c

EmptyFile == [data |-> Torn, synced |-> FALSE]

(* readState returns the empty state when no file exists (line 47), so a   *)
(* missing file is a file that holds EmptyState.                           *)
Init ==
  /\ disk \in {[data |-> s, synced |-> TRUE] : s \in State}
  /\ stable = disk
  /\ temp = EmptyFile
  /\ cache = NoState
  /\ reading = FALSE
  /\ queue = <<>>
  /\ phase = "waiting"
  /\ draft = NoState
  /\ op = [c \in Clients |-> BadOp]
  /\ readers = {}
  /\ result = [c \in Clients |-> "none"]
  /\ seen = [c \in Clients |-> EmptyState]

(* read: with a cached state the value is fixed when load is called, in    *)
(* the same turn; otherwise the caller joins or starts the initial read.   *)
ReadCached(c) ==
  /\ ~Busy(c)
  /\ cache # NoState
  /\ result' = [result EXCEPT ![c] = "ok"]
  /\ seen' = [seen EXCEPT ![c] = cache]
  /\ UNCHANGED <<files, cache, reading, queue, phase, draft, op, readers>>

(* Mutant: load never answers from the cache.                              *)
ReadUncached_Always(c) ==
  /\ ~Busy(c)
  /\ reading' = TRUE
  /\ readers' = readers \cup {c}
  /\ result' = [result EXCEPT ![c] = "none"]
  /\ UNCHANGED <<files, cache, queue, phase, draft, op, seen>>

ReadUncached(c) ==
  /\ ~Busy(c)
  /\ cache = NoState
  /\ reading' = TRUE
  /\ readers' = readers \cup {c}
  /\ result' = [result EXCEPT ![c] = "none"]
  /\ UNCHANGED <<files, cache, queue, phase, draft, op, seen>>

(* The initial read resolves: the file is cached and every waiting caller  *)
(* of load, the update at the head of the queue among them, goes on.       *)
InitialReadOk ==
  /\ reading
  /\ disk.data # Torn
  /\ cache' = disk.data
  /\ reading' = FALSE
  /\ readers' = {}
  /\ result' = [c \in Clients |-> IF c \in readers THEN "ok" ELSE result[c]]
  /\ seen' = [c \in Clients |-> IF c \in readers THEN disk.data ELSE seen[c]]
  /\ phase' = IF phase = "load" THEN "mutate" ELSE phase
  /\ UNCHANGED <<files, queue, draft, op>>

(* readFile fails, or the contents are not a valid state: every caller of  *)
(* load fails, and the cleared promise lets the next call read again.      *)
InitialReadFails ==
  /\ reading
  /\ reading' = FALSE
  /\ readers' = {}
  /\ result' = [c \in Clients |-> IF c \in readers THEN "failed" ELSE result[c]]
  /\ phase' = IF phase = "load" THEN "failed" ELSE phase
  /\ UNCHANGED <<files, cache, queue, draft, op, seen>>

(* update appends performUpdate to the promise chain.                      *)
Update(c, o) ==
  /\ ~Busy(c)
  /\ queue' = Append(queue, c)
  /\ op' = [op EXCEPT ![c] = o]
  /\ result' = [result EXCEPT ![c] = "none"]
  /\ UNCHANGED <<files, cache, reading, phase, draft, readers, seen>>

(* Mutant: an update does not wait for the initial read.                   *)
StartUpdate_NoLoad ==
  /\ queue # <<>>
  /\ phase = "waiting"
  /\ phase' = "mutate"
  /\ UNCHANGED <<files, cache, reading, queue, draft, op, readers, result, seen>>

(* performUpdate begins once everything before it in the chain settled.    *)
StartUpdate ==
  /\ queue # <<>>
  /\ phase = "waiting"
  /\ IF cache = NoState
       THEN phase' = "load" /\ reading' = TRUE
       ELSE phase' = "mutate" /\ reading' = reading
  /\ UNCHANGED <<files, cache, queue, draft, op, readers, result, seen>>

(* Mutant: the mutator runs on the cached state itself.                    *)
Mutate_NoClone ==
  /\ phase = "mutate"
  /\ IF op[Head(queue)] = BadOp
       THEN phase' = "failed" /\ UNCHANGED <<draft, cache>>
       ELSE /\ phase' = "mkdir"
            /\ draft' = Apply(op[Head(queue)], cache)
            /\ cache' = draft'
  /\ UNCHANGED <<files, reading, queue, op, readers, result, seen>>

(* The mutator runs on a clone of the cached state; a throwing mutator or  *)
(* an invalid replacement rejects the update before anything is written.   *)
Mutate ==
  /\ phase = "mutate"
  /\ IF op[Head(queue)] = BadOp
       THEN phase' = "failed" /\ draft' = draft
       ELSE phase' = "mkdir" /\ draft' = Apply(op[Head(queue)], cache)
  /\ UNCHANGED <<files, cache, reading, queue, op, readers, result, seen>>

(* atomicWrite: mkdir, open a fresh temporary file, write, fsync, close,   *)
(* rename over the state file.                                             *)
MakeDirectory ==
  /\ phase = "mkdir"
  /\ phase' = "open"
  /\ UNCHANGED <<files, cache, reading, queue, draft, calls>>

OpenTemp ==
  /\ phase = "open"
  /\ phase' = "write"
  /\ temp' = EmptyFile
  /\ UNCHANGED <<disk, stable, cache, reading, queue, draft, calls>>

WriteTemp ==
  /\ phase = "write"
  /\ phase' = "sync"
  /\ temp' = [data |-> draft, synced |-> FALSE]
  /\ UNCHANGED <<disk, stable, cache, reading, queue, draft, calls>>

(* Mutant: the temporary file is not synced before the rename.             *)
SyncTemp_Skipped ==
  /\ phase = "sync"
  /\ phase' = "close"
  /\ UNCHANGED <<files, cache, reading, queue, draft, calls>>

SyncTemp ==
  /\ phase = "sync"
  /\ phase' = "close"
  /\ temp' = [temp EXCEPT !.synced = TRUE]
  /\ UNCHANGED <<disk, stable, cache, reading, queue, draft, calls>>

CloseTemp ==
  /\ phase = "close"
  /\ phase' = "rename"
  /\ UNCHANGED <<files, cache, reading, queue, draft, calls>>

RenameTemp ==
  /\ phase = "rename"
  /\ phase' = "commit"
  /\ disk' = temp
  /\ temp' = EmptyFile
  /\ UNCHANGED <<stable, cache, reading, queue, draft, calls>>

(* Each file operation may fail.  A failure of mkdir leaves atomicWrite at *)
(* once; a later one goes through its catch, which closes and unlinks the  *)
(* temporary file and rethrows.                                            *)
WriteFails ==
  /\ \/ phase = "mkdir" /\ phase' = "failed"
     \/ phase \in {"open", "write", "sync", "close", "rename"} /\ phase' = "cleanup"
  /\ UNCHANGED <<files, cache, reading, queue, draft, calls>>

CleanUp ==
  /\ phase = "cleanup"
  /\ phase' = "failed"
  /\ temp' = EmptyFile
  /\ UNCHANGED <<disk, stable, cache, reading, queue, draft, calls>>

(* The update at the head settles, which lets the next one in the chain    *)
(* run whether it succeeded or failed.                                     *)
Settle(answer) ==
  /\ result' = [result EXCEPT ![Head(queue)] = answer]
  /\ queue' = Tail(queue)
  /\ phase' = "waiting"
  /\ draft' = NoState
  /\ UNCHANGED <<files, reading, op, readers, seen>>

Commit ==
  /\ phase = "commit"
  /\ cache' = draft
  /\ Settle("ok")

(* Mutants: a failed write is reported as done; a failed update ends the   *)
(* promise chain.                                                          *)
FailUpdate_Swallowed ==
  /\ phase = "failed"
  /\ Settle("ok")
  /\ UNCHANGED cache

FailUpdate_BreaksChain ==
  /\ phase = "failed"
  /\ result' = [result EXCEPT ![Head(queue)] = "failed"]
  /\ UNCHANGED <<files, cache, reading, queue, phase, draft, op, readers, seen>>

FailUpdate ==
  /\ phase = "failed"
  /\ Settle("failed")
  /\ UNCHANGED cache

(* The process dies: only the file survives.                               *)
LoseMemory ==
  /\ temp' = EmptyFile
  /\ cache' = NoState
  /\ reading' = FALSE
  /\ queue' = <<>>
  /\ phase' = "waiting"
  /\ draft' = NoState
  /\ readers' = {}
  /\ result' = [c \in Clients |-> "none"]
  /\ UNCHANGED <<op, seen>>

Crash == LoseMemory /\ UNCHANGED <<disk, stable>>

(* A power loss may also undo renames the directory on disk does not show  *)
(* yet, and tears a file whose data was never synced.                      *)
PowerLoss ==
  /\ LoseMemory
  /\ \E file \in {disk, stable} :
       disk' = IF file.synced THEN file ELSE EmptyFile
  /\ stable' = disk'

(* The file system writes the directory out on its own.                    *)
FlushDirectory ==
  /\ stable' = disk
  /\ UNCHANGED <<disk, temp, cache, reading, queue, phase, draft, calls>>

(* The two things the process does on its own: the initial read, and the   *)
(* update at the head of the chain.                                        *)
FinishInitialRead == InitialReadOk \/ InitialReadFails

AdvanceUpdate ==
  \/ StartUpdate \/ Mutate
  \/ MakeDirectory \/ OpenTemp \/ WriteTemp \/ SyncTemp \/ CloseTemp \/ RenameTemp
  \/ WriteFails \/ CleanUp
  \/ Commit \/ FailUpdate

Next ==
  \/ \E c \in Clients : ReadCached(c) \/ ReadUncached(c)
  \/ \E c \in Clients, o \in Op \cup {BadOp} : Update(c, o)
  \/ FinishInitialRead
  \/ AdvanceUpdate
  \/ Crash
  \/ PowerLoss
  \/ FlushDirectory

Spec == Init /\ [][Next]_vars

(* Every promise in flight is settled and every resolved promise is        *)
(* resumed: the file operations all have an answer.                        *)
FairSpec ==
  /\ Spec
  /\ WF_vars(FinishInitialRead)
  /\ WF_vars(AdvanceUpdate)

-----------------------------------------------------------------------------
(* The durable state as callers see it is the cache once there is one.     *)
Promise == INSTANCE AtomicStore WITH
  store <- IF cache = NoState THEN disk.data ELSE cache,
  kept <- stable.data,
  pending <- queue

(* The store implements its promise: serial, all-or-nothing updates in     *)
(* submission order that survive a crash of the process, and linearizable  *)
(* reads, with crashes and power losses at every step of atomicWrite.      *)
ImplementsAtomicStore == Promise!AbsSpec

(* Whatever crash or power loss happens at whatever step of atomicWrite,   *)
(* the file at statePath is a whole state on stable storage.               *)
FileIsWhole ==
  /\ disk.data # Torn /\ disk.synced
  /\ stable.data # Torn /\ stable.synced

(* A cached state is never ahead of or behind the file, except in the turn *)
(* between rename and the assignment of cachedState, when the file already *)
(* holds the draft.                                                        *)
CacheMatchesFile ==
  cache # NoState => disk.data = IF phase = "commit" THEN draft ELSE cache

(* The initial read and a write are never in flight together, so a slow    *)
(* read cannot put an old state over a newer cachedState.                  *)
InitialReadPrecedesWrites ==
  reading => cache = NoState /\ phase \in {"waiting", "load", "failed"}

(* The facts about one update in flight that the three invariants and the  *)
(* refinement rest on: an inductive invariant with them.                   *)
HeadIsRunning ==
  /\ phase # "waiting" => queue # <<>>
  /\ phase = "load" => reading
  /\ phase = "mutate" => cache # NoState

DraftIsNextState ==
  phase \in {"mkdir", "open", "write", "sync", "close", "rename", "commit", "cleanup"} =>
    /\ cache # NoState
    /\ op[Head(queue)] # BadOp
    /\ draft \in State
    /\ draft = Apply(op[Head(queue)], cache)

TempHoldsDraft ==
  /\ phase \in {"sync", "close", "rename"} => temp.data = draft
  /\ phase \in {"close", "rename"} => temp.synced

StoreInv ==
  /\ TypeOK
  /\ HeadIsRunning
  /\ DraftIsNextState
  /\ TempHoldsDraft
  /\ FileIsWhole
  /\ CacheMatchesFile
  /\ InitialReadPrecedesWrites

(* Every update submitted is answered, also behind updates that fail.      *)
UpdatesAreAnswered ==
  \A c \in Clients : (\E i \in 1..Len(queue) : queue[i] = c) ~> ~Busy(c)
=============================================================================
