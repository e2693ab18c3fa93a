# Persistent Terminal MCP in TLA+

Models of the concurrent core of Persistent Terminal MCP: what one process
keeps in memory, in its state file and on remote hosts, and how the tool calls
that interleave at every `await` may disturb it. TLC checks the models on small
instances; TLAPS proves the most important statements for all values of the
constants. Paths below are relative to the repository.

## 1. The system

A Node process serves MCP tool calls. JavaScript runs one call at a time between
two `await`s, so the unit of atomicity everywhere below is the code between two
awaits; there are no locks per task, per name or per target. The process may be
killed and started again; it then finds its state file and the remote hosts as
they are.

| Component | State it keeps | Operations | Interacts with | What is hard, and what makes it correct |
|---|---|---|---|---|
| state store `src/state-store.mjs` | state file; per path: cached state, initial read promise, update chain | `read`, `update`, get/put/delete of tasks and forwards | everything below | crash between two steps of a write; a slow first read; a failing update in the chain. Updates are atomic, serial, answered, never half visible |
| task manager `src/task-manager.mjs`, `task-model.mjs`, `task-tools.mjs` | a record per task in the store | `task_start/status/output/wait/cancel/list` | store, upstream PTY client, remote session | stale records written back, split markers, restarts, lost handles, two starts at once. A record never claims what did not happen; a task runs in its own session |
| named sessions `src/session-registry.mjs`, `session-tools.mjs` | name → handle and remote session, in the store | ensure, list, detach, close | store, upstream | concurrent ensures and closes of one name; one name ↔ one remote session, none orphaned |
| upstream client `src/upstream-pty.mjs` | client, transport, reconnect promise, backoff | connect, call, list, close | pty-mcp server | single-flight reconnect against late failures; at-most-once calls |
| forwards `src/forward-manager.mjs`, `forward-model.mjs`, `forward-tools.mjs` | pid and identity per forward, in the store | create, list, status, close | store, processes | PID reuse, half-made processes, unique names; only the own process is killed |
| SSH masters `src/ssh-multiplex-manager.mjs` | masters by target, pending acquires | acquire, closeIdle, closeAll | ssh processes | the bound on masters, eviction and cleanup against acquires |
| capability cache `src/target-capabilities.mjs` | cache by target, pending probes | get, refresh, invalidate | SSH runner | stale results after refresh or invalidation |
| privilege engine, root providers `src/privilege-engine.mjs`, `root-exec.mjs` | preferred provider by target | execute, invalidate | capability cache, upstream | a command must not run under two providers |
| admin transactions `src/admin-transaction.mjs`, `admin-tools.mjs` | one transaction in flight | execute | remote files, systemd | rollback against concurrent writers and lost answers |
| remote files `helpers/remote_fs.py`, `src/remote-fs-client.mjs`, `remote-fs-tools.mjs` | installed helpers; remote files | read, write, patch, move, delete, search | SSH runner | check-then-replace, partial failure |
| runners and transfers `src/ssh-runner.mjs`, `transfer-runner.mjs`, `transfer-tools.mjs`, `checksum.mjs` | one child process | run, transfer | ssh, scp, rsync | timeout against close, output bounds |
| logger `src/logger.mjs` | write queue, files | write, close | file system | rotation, failed writes, close |
| systemd and system tools | none | mutations, reads | runners, privilege engine | a mutation made once |
| server, registry, health, telemetry, redaction, resolver, scripts | tables and counters | dispatch, formatting | all | no state of interest |

The hazards of this code, each at its line and with the properties that cover it,
are listed in `PROJECT.json`.

## 2. Modules

| Module | What it is |
|---|---|
| `StoreData` | the data of the store: keys, record values, updates |
| `AtomicStore` | abstract: what the store promises its callers |
| `StateStore` | detailed: `state-store.mjs` step by step; implements `AtomicStore` |
| `StateStore_proofs` | its invariants and the refinement, proved |
| `TaskStates` | `task-model.mjs`: states and transitions |
| `TaskLifecycle` | abstract: what the record of a task promises its readers |
| `TaskManager` | detailed: `task-manager.mjs`, one action per step between awaits; for clients with one call per task at a time implements `TaskLifecycle` |
| `TaskManager_proofs` | types, the inductive invariants, five promises and the refinement, proved |
| `SessionNames` | abstract: what a named session promises its client |
| `SessionRegistry` | detailed: `session-registry.mjs` and the detach and close of `session-tools.mjs`; a client that makes one call per name sees `SessionNames` |
| `SessionRegistry_proofs` | types, the inductive invariants, four promises and the refinement, proved |
| `AtMostOnceChannel` | abstract: what a caller of the upstream server may rely on |
| `UpstreamClient` | detailed: `upstream-pty.mjs`; implements `AtMostOnceChannel` |
| `UpstreamClient_proofs` | the live connection, close, and the refinement, proved |
| `ForwardManager`, `ForwardManager_proofs` | `forward-manager.mjs` and the create and close of `forward-tools.mjs`; its four invariants, proved |
| `SshMultiplex` | `ssh-multiplex-manager.mjs` and the commands of `ssh-runner.mjs` that use its masters |
| `RootAccess`, `RootAccess_proofs` | `target-capabilities.mjs`, `privilege-engine.mjs` and `root-exec.mjs` composed; its three invariants, proved |
| `RemoteFiles` | `remote-fs-client.mjs` and `helpers/remote_fs.py`: the files of one target |
| `AdminTransaction`, `AdminTransaction_proofs` | `admin-transaction.mjs` over `RemoteFiles`, with tool calls and writers beside it; four invariants of both, proved |
| `Transfers` | `transfer-tools.mjs`, `transfer-runner.mjs`, `transfer-capabilities.mjs`, `checksum.mjs` |
| `Ssh_proofs` | what runs over SSH: the three properties of `SshMultiplex` and the two of `Transfers`, proved |
| `MC*` | instances for TLC |

The store's promise, `AtomicStore`, is what `TaskManager`, `SessionRegistry` and `ForwardManager` use it for: a
store call is one atomic step of theirs. `UpstreamClient` is checked by itself; in the modules above it a call of it
succeeds, or fails with or without its effect, which is what `AtMostOnceChannel` leaves open.

A definition with a suffix (`Read_AnyCursor`) is a mutant: the definition it is
named after with one plausible bug, used to see that the properties notice it. No
specification uses a mutant.

### StateStore and the code

Each caller of `read` or `update` is a member of `Clients` with one call in flight.
`queue` is the chain of promises `updateQueue`, oldest first; its head is what
`performUpdate` runs, and `phase` is where that run stands: loading, mutating,
then one phase for every file operation of `atomicWrite`, then the assignment of
`cachedState`. Every file operation may fail and then goes through the `catch` of
`atomicWrite`. `Crash` kills the process between any two steps. `PowerLoss` also
loses data that was not fsynced, and may undo renames, since the code never fsyncs
the directory: `stable` is the file such a loss may fall back to.

`AtomicStore` says that updates take effect whole, in the order of submission, that
an acknowledged update took effect and a failed one did not, that reads return the
state of one moment during the call, that a crash loses no acknowledged update
and that a power loss falls back to some earlier whole state. The refinement mapping takes
the cache for the state when there is one, and the file otherwise.

The sections `sessions`, `tasks` and `forwards` of the file behave alike and are one
key space. The retained temporary files of a crash have random names, are never read
and are not modelled.

### TaskManager and the code

A call `c` walks through labels, `call[c].pc`, one per `await` of the code:

- `task_start`: `sList` (327), `sCreate` (331), `sDiff` (341), `sPutQueued` (384), `sSend`
  (391), `sPutRunning` (397); `sClose`, `sUndo`, `sDelete` are the catch blocks (366, 386, 400, 401);
- the other calls: `load` (`loadTask`), `list`, `probe`, `attach`, `putLost`, `putRecovered`
  (`ensureTaskSession`), `read`, `putChunk` (`readTaskOutput`, `applyOutputChunk`), `waitFor`,
  `putExit` (`waitForTask`), `ctrlC`, `cancelWait`, `close`, `putCancelled` (`cancelTask`).

`stage` tells where the call is in its own function: `enter` is its first `loadTask`,
`drain` the loop that reads buffered output (also `task_output`, which reads once), `final` the
part after it. `call[c].rec` is the record in the local variable `task`: it is written
back whole by `putTask`, however old it is. A store call is one atomic step, which is
what `AtomicStore` promises. `terminate` is `task_cancel` with `terminate_session:true`.

The upstream server and the remote host are modelled from how the code uses them. `onto[h]`
is the remote session behind a local handle; a handle reattached to a session has a buffer
that begins anywhere in the session's output (`base`). Output is counted in chunks,
and the completion marker line is the last two, so a read bounded by `max_bytes` may
end inside it, as `marker_fragment` expects. The code glues the fragment to whatever the next read gives (289). That is what follows it, unless the handle
was reattached in between, which keeps cursor and fragment while the new buffer begins elsewhere (`Reattached`), or the read was truncated and begins
later (`MayTruncate`): then the fragment is `torn`, and glued to other digits or the rest of another line it may read as any exit code, as a longer fragment or as nothing (`Chunks`). A record whose exit
was read off such a join is marked `guessed`, a field that only the model has. `fragment` is also `kept` for output that merely ends like a beginning of the marker. A Ctrl-C may end the command with its marker, kill the wrapper
without one, or do nothing. Text that looks like the marker of a task is never printed by
a command: markers carry 24 random bytes.

`ReportsRemoteId` chooses between the two answers of `create_ssh_session` the code handles
(340): with or without `remote_session_id`. Without it the code compares two lists.

### SessionRegistry and the code

A call walks through `call[c].pc`, one label per `await`:

- `ensure_session`: `read` (204), `probe` (219), `forget` (224), `list` (229, or 145 without an entry), `attach` (235),
  `create` (153), `cwd` (159), `identify` (170), `undo` (185), `write` (245 and 267);
- `named_session_detach` and `named_session_close`: `findDetach`, `findClose`, `detach`, `forgetDetached`, `close`, `remove`.

`call[c].entry` is the entry an ensure read first (`existing`) and then the one it builds. An entry is its target, its local handle
and its remote session; tags, working directory and time stamps are left out, only whether there is a directory to change to matters.
`Home[r]` is the target a remote session lives on. Unlike the task manager, the registry does not leave out listed sessions
that are no longer alive (94), so a session may be `dead` and still listed. `Mortal` is the set of sessions that may die.

### UpstreamClient and the code

`client` is `this.client`, `promise` is `this.reconnectPromise` (named by the call that made it and
whose `finally` clears it), `loop[o]` the `reconnectLoop` that call `o` started. A call is `joining` while it
awaits `connect` (130), `ready` when that has settled, `sent` during the request, `closing` during the await of `invalidate`;
`stage` says whether it is the first request, the one retry (190, 221), or the reconnect made for the
next caller (225). What a resolved `connect` gives may be the null that an `invalidate` left (158).
`close` (253) is `Close`, `CloseWaited`, `CloseReturns`. `req[c][a]` is what the server
knows of a request: it may carry it out after its caller gave up. `ServerRestart` makes the server forget
its sessions, after which connections answer session-not-found.

### ForwardManager and the code

The steps of `create` (`spawn`, `startup` grace, `identify`, `put`, and `putFailed`, `undo` of its catch),
of the health check (`healthId`, `healthProbe`), and of `close` (`find`, `before`, `term`, `afterTerm`, `beforeKill`, `kill`,
`afterKill`, `delete`) are one action for each outcome. `at[p]` is the process behind a PID; comparing start time and command line with a record is asking whether
`at[p]` is that forward. One assumption is built in: a PID is not given to another process between a look at it and the
next step of the same call, which acts on it (`Available`). PIDs are handed out in turn and the two are milliseconds apart; at every other time, between
two calls, during the waits of a close, across restarts, a PID may be reused.

### SshMultiplex and the code

`masters` is the map of records in the order of their last use, `pending[t]` the promise in
`pending`, `op[c]` the `acquireCore` that call `c` started, `sweep[t]` how far `closeIdle` or `closeAll` is with the record
of `t`. A master whose socket file is removed while it lives is `lost`. `closeRecord` swallows a failure of `ssh -O exit` and of the removal
(`Exit`, `TryRemove`): the master may live on. `mishaps` records which of five events have happened, each of which the code
lets pass and one of the properties excludes: a record is closed while its target is acquired (`raced`), two
targets are added at once (`crowded`), a check fails for another reason than a dead master (`flaked`), an exit fails although the master is there (`unended`), a master without a record, left by an earlier process or by a
failed exit, is taken over (`adopted`).

### RootAccess and the code

`collecting` is the pending operation of the inventory, which calls join; `inventory` and `preference` are the two caches, for one target (both are
keyed by it and targets share nothing). A call collects the inventory, then tries providers in order (`Turn`): `trying` probes the next one,
`running` runs a command under one that needs no password, `typed` and `secret` are the first and the last wait of an interactive provider, `closing` its `finally`.
`shell[c]` is the session on the target that it types into. `ran[c]` collects the providers under which the command of `c` started.
The world, that is what the alias of the target stands for and which providers work there, may change at any step.

### RemoteFiles, AdminTransaction and the code

A caller installs the helper if need be (`ensureHelper`, 133, single flight), then one helper process runs per request: it looks
(`LookAndAnswer`, `Refuse`, `Check`), then makes one system call (`SystemCall`), and may do so after its caller gave up (`Lose`).
The digest of a file stands for its text. That a helper cannot unlink its own temporary file after a failure is not modelled. A transaction walks through `precheck`, `stat` and `read` (or `status` for a
unit), `mutate`, `health`, `undo`, `verify`, each ending in an outcome of the code. `job[t]` is its systemctl command, which
like a helper may take effect late. Of the providers that `executeMutation` tries, as user and then as root, those that refuse have changed nothing; but a password provider whose
end mark was not seen counts as unavailable and the other one is given the same command (`SystemctlRepeated`, `src/root-exec.mjs:341`), whether the first had run it or not.
`job[t].earlier` remembers that command for each of the two phases that give one, and `EarlierRuns` is its running late. `wrote[t]` counts how often the transaction changed the target.

### Transfers and the code

`file[side]` is what is at the local and the remote path: a text and whether it is the whole of it. A call goes through `stat` (uploads), `detect` (which
programs are there), `observe` (a resumed upload), `spawn`, `transfer`, `look` (downloads) and `verify`. scp writes into the
destination; rsync renames a temporary file, and keeps a piece with `--partial`. rsync may also exit with 0 and copy nothing: its source is excluded, a folder without `--recursive`, a link (its arguments never have it copied
or followed), or of the size and time of the destination. What a path is in that respect is not in the model, so `PassOver` may happen to any source and `Skips` names the cases in which it must; `skipped` remembers it.
The remote end of a failed upload may still land (`stray`). `quiet[c]`
records whether anyone else has touched the two paths since `c` began, or since its process ended. The specification is `TransferSpec`, and its parts bear that prefix too,
because `Ssh_proofs` extends both this module and `SshMultiplex`.

## 3. What is checked

| Run | Instance | Shows |
|---|---|---|
| `store` | 2 clients, 1 key, 2 values besides absence, all faults, fair | `StoreInv`, `FileIsWhole`, `CacheMatchesFile`, `InitialReadPrecedesWrites`; refinement of `AtomicStore`; `UpdatesAreAnswered` |
| `task_lifecycle` | 1 call at a time, 1 task, 2 handles, 2 drain reads, one chunk of output before the marker, torn fragments, truncated responses, all faults, fair | `TaskInv`, `ExitStateIsTruthful`, `LostMeansGone`, `CancelledWasInterrupted`; refinement of `TaskLifecycle`; `CallsReturn` |
| `task_starts` | 2 calls at once, 2 tasks, 2 sessions, no remote id reported, no faults, no truncated responses | `RunsInRecordedSession`, `NoOrphanSession` |
| `session_concurrent` | 2 calls that race on 2 names and 2 targets, 3 sessions of which one may die, all faults | `SessionInv`, `HandleReachesTarget`, `HandleReachesSession`, `NamesHaveOwnSessions` |
| `session_starts` | 2 calls on different names of one target, no remote id reported, no faults | `NoOrphanSession`; refinement of `SessionNames` |
| `upstream` | a tool call, a list and a close at once, 3 connections, 2 attempts per loop, a server restart, fair | `ClientIsTheLiveConnection`, `ClosedForGood`; refinement of `AtMostOnceChannel`; `CallsReturn` |
| `forward` | 2 calls at once, 2 forwards of one name or none, 2 PIDs that are reused, 2 ports, 2 health checks, a restart | `OnlyOwnProcessesAreSignalled`, `ClosedMeansGone`, `NoOrphanProcess`, `NamesAreUnique` |
| `ssh` | 3 calls, 2 targets, at most 1 master wanted, one master inherited, exits and removals that fail | `SingleFlight`, `MastersAreBounded`, `MastersAreKnown` |
| `root` | 2 calls, a target that changes once between two machines with different providers | `SecretIsLastResort`, `NoReplayOfSelected`, `NoPromptLeftOpen` |
| `admin` | a file and a unit transaction and a tool call that patches, moves or makes a directory, 2 paths, an edit and a fault or a repeated command at any step | `TempsAreOwned`, `OneInstaller`, `OutcomeTellsEffects`, `RollbackRestores` |
| `transfers` | 2 transfers of six kinds between two paths, an edit and a fault at any step, sources passed over | `VerifiedMeansSame`, `SuccessMeansCopied` |
| `admin_patch` | a patch transaction alone, no fault | violates `MatchingPatchIsMade`: see below |

**Bounds and why they are enough.** Updates of the store touch one record. The run has one key, so what it shows is the queue, the faults
and the cache around that record; that an update of one record leaves the others alone, for any number of keys, is shown by the proof of the
refinement. Two clients give a queue with something behind its head; deeper queues repeat the same head.
Two values and absence tell put, overwrite and delete apart.
For tasks, two calls are enough for one to act between any two steps of the other, and
two tasks and sessions for one task to reach the other's. `MaxBody = 1`
chunk with the two of the marker gives reads that end before, inside and after the
marker. A read that returns nothing new while there is more is allowed at every step,
so `CallsReturn` covers a command that prints as fast as it is read although `MaxBody` bounds
its output. `MAX_BUFFER_DRAIN_READS` is 1 or 2 instead of 16: the loop's
only effect is to repeat or to stop. Three connections of the upstream client are one that is lost, one that is closed under a caller
by another caller's failure, and one more; where an attempt needs a fourth it fails, which the code allows at any time. Two forwards and two PIDs are enough for a
record to name a PID that the other forward or a stranger has. With `MaxTargets = 1` the second target
finds the map full, and with three calls one can acquire the target whose record another evicts while the third adds it again or uses the master. In `admin` the tool's call is one that
replaces a text, removes a path or makes a directory; the other requests of the helper have no other effect on a path, and the proofs are about all of them. One fault and one edit can fall between any two steps; two independent faults are left to the
proofs, which bound nothing (`MaxFaults`, `MaxEdits`, `MaxChanges`, `MaxCrashes`, `MaxConns`, `MaxRestarts` are any naturals there).

Each task, session, handle, forward and connection is used once, as the
code draws them at random or never again; the runs stop when they are used
up, hence `CHECK_DEADLOCK FALSE` in `task_starts`, `session_concurrent`, `session_starts`, `upstream` and `forward`. In `ssh` the
three commands, and in `admin` the three calls, are made once; `transfers` may be left with nothing to do but wait when the failures
are spent. Symmetry is used only in runs without liveness, and never over values the code treats differently.

**Why some invariants are checked without faults.** A restart after `create_ssh_session`, a close that fails,
or a broken handle does leave a session behind, and nothing in the code claims otherwise; both
`NoOrphanSession` say that the code's own decisions (an ambiguous list, a failed send) do not. `session_starts` has no dying sessions: a session that dies between its creation and the list, while
another one appears, is mistaken for it. It has one call per name at a time, which is the client `SessionNames` describes.

**Fairness.** `store` and `task_lifecycle` assume weak fairness of the steps the process
itself makes: a resolved promise is resumed, a file operation is answered, and an upstream request is answered or
times out in the MCP client. Nothing is assumed about commands, sessions, handles or restarts. In `task_lifecycle` the wait of `task_wait`
always may time out, as the code's bound on it guarantees. `upstream` assumes the same of the steps of loops, calls and `close`: an
attempt to connect ends with a connection or an error, a request with an answer or an error, because both have timeouts. Nothing is assumed of
the server: that every call returns does not need an answer.

**The finding.** `admin_patch` shows a `remote_patch` transaction on an undisturbed target with no failure,
whose hunk matches the file: it always ends as `mutation_failed`. `src/admin-transaction.mjs:92` and `:272` name the texts of
a hunk `old` and `new`, and `server.mjs:164` passes them on unchanged, while the helper reads `old_text` and `new_text` (`src/helpers/remote_fs.py:449`).
`docs/releases/v0.11.0.md:27` says that `admin_transaction` performs exactly one mutation, "`systemd_action`, `remote_write`, or
`remote_patch`". The tests put a double in the place of the remote patch.

**What the code does and the properties exclude.** These limit what the properties above say; each is named in the property it limits or in a hazard of `PROJECT.json`. Four of them contradict
what the documents claim without exception; no run refutes the documents on them, but the models reach each one:

- A unique name: `docs/ROADMAP.md:74` gives a forward "an optional unique name", and `:78` says that named forwards "are reused rather than duplicated". Two overlapping creates of one
  name both succeed (`src/forward-tools.mjs:425`). `NamesAreUnique` excludes just them.
- A bounded target count: `docs/ROADMAP.md:163`. Overlapping additions pass `maxTargets` (`src/ssh-multiplex-manager.mjs:234`). `MastersAreBounded` excludes just them. (The
  "single-flight first connection" of the same line is `SingleFlight`, without exception.)
- No replay: `docs/releases/v0.10.0.md:14`, "ambiguous side-effect calls are not replayed". An interactive root provider whose end mark is not seen counts as unavailable
  (`src/root-exec.mjs:327`, `:341`) and the next provider runs the command again. `NoReplayOfSelected` is about the others.
- No replay of a mutation: `docs/ROADMAP.md:237`, "mutation transport ambiguity is never replayed automatically", and `docs/releases/v0.11.0.md:32`, "a mutation lost behind ambiguous transport failure is never guessed
  or replayed". By the same path a transaction's systemctl command is given twice, so `committed` may stand for two changes of the unit and a command may still run after a rollback. `OutcomeTellsEffects`
  counts such a command for two, and `RollbackRestores` excludes a transaction one of whose commands ran late; for files, where no provider is involved, both hold without it.

The others no document denies:

- A task call writes back the record it loaded (`src/task-manager.mjs:297`), also over a terminal state that another call stored meanwhile. A later call finds
  the marker again or reports the session gone; what is recorded is true all the time (`ExitStateIsTruthful`, `LostMeansGone`), but for the next point.
- A fragment of the marker is kept over a reattach or a truncated read and glued to output that does not follow it (`src/task-manager.mjs:289`, `:270`): a marker without its digits, for instance, and a
  buffer that now begins with other digits and `__` make an exit code that no command gave. `ExitStateIsTruthful` excludes just the records that were made that way (`guessed`).
- A command that ends by itself while a Ctrl-C is on its way is recorded cancelled.
- Two overlapping ensures of one name both create a session, and the later write orphans the first; on two targets the name moves.
  Handle, session and target of an entry belong together all the same.
- Of two overlapping starts whose responses name no session, one whose own session died at once may take the other's for its own
  (`src/task-manager.mjs:343`). Its command is never typed, but until its record is deleted a cancel of it reattaches to the other's session and interrupts that.
  `RunsInRecordedSession` and `CancelledWasInterrupted` are therefore about commands that were typed.
- A task's handle that was given up may still live when another is attached to its session.
- Closing a record while its target is acquired loses a master, and so does an `ssh -O exit` that fails: the error is swallowed, and control path and record
  are removed all the same (`src/ssh-multiplex-manager.mjs:227`). `MastersAreKnown` excludes both.
- Two remote helpers that both passed the comparison of digests both replace the file.
- rsync that passes over its source exits with 0 and the transfer is reported as a success; with `verify_sha256` the digests tell, which is why `VerifiedMeansSame` needs no exception.
  A retried recursive upload lands inside the directory it made before, and the remote end of a failed upload may still put its file in place. `SuccessMeansCopied` is about files that nobody disturbs and, with rsync, that were not passed over.

## 4. What is proved

All theorems hold for every number of clients, calls, tasks, sessions, handles, forwards, targets and transactions and every choice of faults, except where a
hypothesis is given below, from the assumptions named in the modules: sentinels differ from values, bounds are natural numbers, and what a mutation or a request may be (`BadOpAssumption`, `NullAssumption`,
`SentinelAssumption`, `BoundsAssumption`, `ParametersAssumption`, `UpstreamAssumption`, `ForwardAssumption`, `MultiplexAssumption`, `RootAssumption`, `RemoteFilesAssumption`, `TransactionAssumption`, `TransfersAssumption`).

`StateStore_proofs`:

- `StoreInvariant`, from which `FileIsAlwaysWhole`, `CacheAlwaysMatchesFile` and
  `InitialReadAlwaysPrecedesWrites` follow. None of these is inductive alone. That the file is whole needs
  that the temporary file is synced and holds the draft when it is renamed (`TempHoldsDraft`); that the cache matches needs
  that the draft is the running update applied to the cache (`DraftIsNextState`); that the initial read precedes
  writes needs that an update only runs after a load (`HeadIsRunning`). `StoreInv` is their conjunction.
- `StoreImplementsAtomicStore`: initial states map to initial states, and with `StoreInv` every step maps to a step of
  `AtomicStore` or to a stutter; a rename maps to a stutter, the assignment of `cachedState` to `UpdateOk`.

`TaskManager_proofs`:

- `TypeCorrectness`: types, with the shape of a call (`CallShape`): which labels carry a record.
- `TaskInvariant`: `TaskInv` adds `SessionsAreFresh` and `RecordsAreTrue`. The truth of stored records is not
  inductive, because calls write copies made earlier: the invariant says the same of every copy in
  flight (`RecordsAreTrue`), and that what a record claims stays true once true (`HostGrows`: a session keeps its
  command and its exit, and stays gone). That in turn needs that a command is typed only into a session nothing was typed
  into before (`SessionsAreFresh`). A copy that is `guessed` claims nothing about the exit, and nothing but a torn fragment makes one so: a fragment that is `kept` ends at the cursor, so what is read next and not
  torn off it is the rest of the same line.
- `ExitStateIsAlwaysTruthful` and `LostAlwaysMeansGone` follow.
- `OwnInvariant` adds which session a task has. Until a start stores its record nobody else knows the task (`StartsAlone`), so the session and the
  remote id of a record are chosen once and every copy agrees on them (`SameRemote`). A copy is `Fine` if its handle is onto the session it names, or its command
  was never typed and never will be (`Never`: the start's own session is gone, so `send_input` fails). The list taken before a creation does not hold the
  new session (`ListsAreOld`), so a living session of one's own is always among the new ones. The steps are first reduced to what they do to copies (`StepOf`).
- `CommandsRunInRecordedSession` and `CancelledAlwaysInterrupted` follow, whether or not the remote id is reported.
- `NoSessionIsOrphaned`, from the hypotheses `~MayFail`, `~MayBreak`, `~MayCrash`: without them a close that fails or a restart does leave a session behind,
  and the code does not claim otherwise. A living session is named by a record that no start will delete any more, or a start is at work on it (`AliveBelong`).
  That a start deletes its record only after its session is closed (`StartsClose`), and that a handle out of use is of a session that is gone (`HandlesHold`),
  makes this inductive. Sessions may die at any time, and starts may overlap and mistake one session for another.
- `TasksFollowLifecycle`, for clients with one call per task at a time (`OneCallPerTask`, of every state), with every fault and any number of calls on other tasks: each write of
  a record is a step of `TaskLifecycle` or repeats what is stored. `FollowInv` says for each step of a call how its copy relates to the stored record: equal to it (`SameLife`),
  newly made (`Fresh`), or ahead of it by the exit that the next write will store (`Exited`). Two calls on one task do leave the lifecycle (TLC finds it): a start writes its `queued`
  record, a status that finds the session gone stores `lost`, and the start goes on to store `running`.
- `EndsStayFinal`, of the same clients: the refinement read back, that how a task ended is never revised or forgotten and its cursor never goes back.

`SessionRegistry_proofs`:

- `TypeCorrectness` and `SessionInvariant`: an entry that a call holds may be written at any time, so what is true of the persisted
  entries is stated of all of them (`EntriesAreSound`, `SessionsHaveOneName`; in the proof `Held` unites the two). That a new session is nobody's
  needs that a session not yet created is behind no handle and in no entry (`SessionsAreFresh`).
- `HandleAlwaysReachesTarget`, and when `create_ssh_session` reports its session `HandleAlwaysReachesSession` and
  `NamesAlwaysHaveOwnSessions` follow.
- `PatientInv` adds what holds for clients with one call per name at a time (`OneCallPerName`): a handle belongs to one name (`HandlesHaveOneName`), and for each step of a call
  what it knows of the stored entry of its name and of the session it is making (`Keeps`).
- `NoSessionIsOrphaned`, also from `~MayFail`, `~MayBreak`, `~MayCrash`: every living session is owned by an entry or being made by a call (`Covered`), and a
  call that gives up on the session it makes still has a handle to close it with (`MakersConnect`).
- `RegistryImplementsNames`, with every fault: each step is one of `SessionNames` or a stutter. It needs that an entry is written only with a session that no other name has
  (`SessionIsExclusive`) and that a new session is told from the others: because it is reported (`ReportsRemoteId`), or because none dies before the list shows it (`MakersLive`, from `Mortal = {}`).
- `NamesKeepTheirSessions`, which the refinement gives: a name gives up its session only when that is over, and the next one is on the same target.

`UpstreamClient_proofs`:

- `ConnectionInvariant`: at most one loop runs (`OneLoop`), it is the promised one unless `close` took the promise away (`LoopIsPromised`), it
  dials only without a client (`DialsWithoutClient`), and when `close` has invalidated, nothing dials any more (`ClosingIsQuiet`).
  `ClientIsAlwaysTheLiveConnection` and `ClosedIsForGood` follow: an attempt that succeeds never overwrites an open client.
- `UpstreamInvariant` adds what the requests of a call tell about its step: a second request was made only if the first was refused (`Once`),
  a call that has not failed has no lost request (`Fits`, `Tells`). With it `UpstreamImplementsChannel`: every step of the client is a step of `AtMostOnceChannel` or a stutter.
- `ToolCallsAreMadeOnce` and `ToolAnswersStand`, which the refinement gives: no tool call is carried out twice, an answered one was carried out, and no answer is revised.

`Ssh_proofs`, on `SshMultiplex`: `FlightInvariant`, that the `acquireCore` of a call is the pending one of its target and everyone who waits, waits for
one that runs; `AcquiresAreSingleFlight` follows. `SshInvariant` adds to it what each step of an acquire, of an eviction and of a sweep knows: while nothing
overlaps, at most one acquire is adding a record and has room for it once its victim's record is gone (`HasRoom`); while no record is closed under an acquire
and no exit of a live master has failed, nothing live is behind a control path about to be removed or taken (`DeadEnds`), and a live master has a record or is being checked after its creation (`Known`).
`MastersStayBounded` and `MastersStayKnown` follow.

`Ssh_proofs`, on `Transfers`: `TransferInvariant`, for any number of calls on the two paths, any edits and failures. The process runs just while its call waits for it (`CallFits`), so a
call that hashes, or is over, cannot change the files any more: what it has hashed is there until somebody else changes it (`HashedIsThere`), and two equal digests are of two equal files.
While nobody else has touched the paths since the call began, what its process copies is what is at the source, and once it has copied both sides are the same, unless a directory is involved or rsync passed over
the source (`CopiedIsThere`). A step of one call leaves what the others know, or disturbs them (`Apart`). `VerifiedIsAlwaysSame` and `SuccessIsAlwaysCopied` follow.

`RootAccess_proofs`: `RootInvariant` says for each step of a call which providers are left to try and under which its command may have
started (`TurnFits`, `RanFits`), and that a remembered preference needs no secret (`PreferenceNeedsNoSecret`), whatever the caches
were filled with and by whom. `SecretComesLast`, `SelectedIsNotReplayed` and `PromptsAreClosed` follow.

`ForwardManager_proofs`: `ForwardInvariant`. For each step of a call (`Suits`): what it knows of its process and whether the forward may have a record; during
a creation nobody else has the forward in hand (`Alone`); wherever the ssh of a recorded forward runs, it runs behind the recorded PID (`RecordsFit`); and at most one
call or record has a claim to a name unless creates overlapped (`NamesClaimed`). `OnlyOwnSignalled`, `ClosedForwardsAreGone`, `ProcessesAreAccountedFor`,
`RecordedNamesAreUnique` follow. The first is about every reuse of PIDs that `Available` allows.

`AdminTransaction_proofs`: `TransactionInvariant`. Of the files (`FilesInv`): a caller's helper, its request and its answer fit together, also after the caller gave up.
Of a transaction (`FileFits`, `UnitFits`): which request it has made in each phase, and that the number of changes already counted in `wrote` is that of the
phases before plus one if the present one has landed (`Prior`, `Landed`); a command given before and to be repeated is counted
by what became of it: it had run, is lost, or ran late. `OutcomeTellsWhatWasDone`, `HelperInstalledByOne` and `TemporaryFilesAreOwned` follow.
`RollbackLeavesTarget` needs more, since what a transaction reads it reads one step and writes it another: `CalmInv` says of a transaction that nothing else disturbs that all other files and, for a file,
the unit are as they were, that its snapshot is of what was there before, and that what it reads back is what is there (`FileCalm`, `Reads`); for a unit, that only the part its plan
restores differs and the plan is for the state before (`UnitCalm`, `PlanBefore`). A rollback whose answer is lost, or that lands late, then ends as `rollback_failed`, never as `rolled_back`. A command of the transaction's own that was
repeated and runs late counts as a disturbance.

Only model-checked: liveness (`UpdatesAreAnswered`, and `CallsReturn` of the task manager and of the upstream client), which is beyond TLAPS;
and the finding, which is a counterexample. Every other property of the runs is proved.

## 5. Not modelled

Contents of commands and output, validation of arguments, time (a timeout is a choice),
byte counts, target resolution (it is stateless, and a failure of it is a failed call). Components left out, each with its reason:

- the JSONL logger: a queue of writes that nothing reads, whose errors are swallowed on purpose;
- server, tool registry, health, diagnostics, telemetry: dispatch tables, read-only probes, saturating counters;
- errors and redaction: text to text; release and check scripts: not part of the running program;
- of the SSH runner its output bounds and the two timers of a kill: to the callers they are one of the outcomes of a call, and are modelled as that in the modules of the callers;
- of the remote helper `list`, `find` and `grep`, which change nothing, modes, owners and backups, and the failure to unlink a temporary file after another failure, which leaves it on the target;
- of the system tools everything but the systemd actions of a transaction: they build and parse command text;
- of transfers the reported sizes, times and the `resumed` flag; links, sizes and times of files are only the free choice of `PassOver`.

Two processes that share one state file are left out: the store does not coordinate across
processes, and its queue promises nothing about them. The session-keeping server `pty-mcp` and remote `ai-tmux` are outside the repository, as are ssh, scp, rsync, systemctl and ps: they
are modelled from how the code uses them.

## 6. Plan

1. The composition of `UpstreamClient` with `SessionRegistry`: its failures instead of any failure.
2. Two extension processes on one state file, should the program come to promise something about them.
