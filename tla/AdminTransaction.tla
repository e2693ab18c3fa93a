--------------------------- MODULE AdminTransaction ---------------------------
(***************************************************************************)
(* The transactions of src/admin-transaction.mjs on one target: precheck,  *)
(* snapshot, one mutation, health checks, rollback and its verification.   *)
(* A file is read and written through the remote filesystem, whose helpers *)
(* other tools use as well; a systemd unit by commands that, like helpers, *)
(* may still take effect when the caller has given up on them.             *)
(***************************************************************************)
EXTENDS RemoteFiles

CONSTANTS
  Txns,        \* the callers that are transactions; the others are single tool calls
  Mutation,    \* [Txns -> the mutation of each]
  UnitBefore,  \* the systemd unit to begin with
  ToolRequests \* the requests of the remote filesystem tools

VARIABLES
  txn,        \* txn[t]: the phase, the snapshot, the hash after the mutation, the outcome
  unit,       \* the systemd unit: [active, file]
  job,        \* job[t]: the systemctl command of t on the target, and what became of
              \* the one that each phase gave before it
  wrote       \* wrote[t]: how often t has changed the target

txnVars == <<txn, unit, job, wrote>>
vars == <<fsVars, txnVars>>

Tools == Callers \ Txns
Actions == {"start", "stop", "restart", "enable", "disable"}
FileMutation ==
  [type : {"remote_write"}, path : Paths, text : Texts, expected : Texts \cup {Unset}]
  \cup [type : {"remote_patch"}, path : Paths, old : Texts, new : Texts,
        expected : Texts \cup {Unset}]
UnitMutation == [type : {"systemd_action"}, action : Actions]
Changing == {"mutate", "undo"}  \* the phases that give a command

Active == {"active", "inactive", "failed"}
FileStates == {"enabled", "disabled", "static"}
Unit == [active : Active, file : FileStates]

ASSUME TransactionAssumption ==
  /\ Txns \subseteq Callers
  /\ Mutation \in [Txns -> FileMutation \cup UnitMutation]
  /\ UnitBefore \in Unit
  /\ ToolRequests \subseteq Request

TypeOK ==
  /\ FsTypeOK
  /\ txn \in [Txns -> [at : {"idle", "precheck", "stat", "read", "status", "mutate", "health",
                             "undo", "verify", "done"},
                       snapshot : Texts \cup Actions \cup {Unset},
                       after : Texts \cup {Unset},
                       state : {"none", "committed", "precheck_failed", "snapshot_failed",
                                "mutation_failed", "health_failed", "rolled_back",
                                "rollback_failed"}]]
  /\ unit \in Unit
  /\ job \in [Txns -> [at : {"none", "queued", "applied"},
                      earlier : [Changing -> {"none", "ran", "lost", "late"}]]]
  /\ wrote \in [Txns -> 0..4]

Init ==
  /\ FsInit
  /\ txn = [t \in Txns |-> [at |-> "idle", snapshot |-> Unset, after |-> Unset, state |-> "none"]]
  /\ unit = UnitBefore
  /\ job = [t \in Txns |-> [at |-> "none", earlier |-> [a \in Changing |-> "none"]]]
  /\ wrote = [t \in Txns |-> 0]

OnUnit(t) == Mutation[t].type = "systemd_action"
Outcome(t, state) == txn' = [txn EXCEPT ![t].at = "done", ![t].state = state]
Phase(t, at) == txn' = [txn EXCEPT ![t].at = at]

-----------------------------------------------------------------------------
(* Precheck and snapshot.                                                  *)

(* A unit is asked for by a command, which the model answers in one step.  *)
Snapshot(t) ==
  IF OnUnit(t) THEN Phase(t, "status") /\ UNCHANGED fsVars
  ELSE /\ Phase(t, "stat")
       /\ Issue(t, Plain("stat", Mutation[t].path))
       /\ UNCHANGED boundVars

Begin(t) ==
  /\ txn[t].at = "idle"
  /\ \/ Phase(t, "precheck") /\ UNCHANGED fsVars
     \/ Snapshot(t)
  /\ UNCHANGED <<unit, job, wrote>>

PrecheckPasses(t) ==
  /\ txn[t].at = "precheck"
  /\ Snapshot(t)
  /\ UNCHANGED <<unit, job, wrote>>

PrecheckFails(t) ==
  /\ txn[t].at = "precheck"
  /\ Outcome(t, "precheck_failed")
  /\ UNCHANGED <<fsVars, unit, job, wrote>>

Answered(t, at) == txn[t].at = at /\ ~OnUnit(t) /\ rpc[t].at = "returned"
Got(t) == result[t].value

(* A text or binary file, of at most 1 MiB.                                *)
StatDone(t) ==
  /\ Answered(t, "stat")
  /\ result[t].ok
  /\ Got(t) \in Texts \cup {Binary}
  /\ Phase(t, "read")
  /\ Issue(t, Plain("read", Mutation[t].path))
  /\ UNCHANGED <<boundVars, unit, job, wrote>>

(* Also a file that is too long, or a link or a directory.                 *)
SnapshotFails(t) ==
  /\ \/ Answered(t, "stat")
     \/ Answered(t, "read") /\ ~result[t].ok
     \/ txn[t].at = "status"
  /\ Outcome(t, "snapshot_failed")
  /\ UNCHANGED <<fsVars, unit, job, wrote>>

-----------------------------------------------------------------------------
(* The mutation.                                                           *)

ExpectedSha(t, snapshot) == IF Mutation[t].expected # Unset THEN Mutation[t].expected ELSE snapshot

(* The hunk keeps the names that the transaction has for its texts.        *)
FileRequest(t, snapshot) ==
  LET m == Mutation[t] IN
  IF m.type = "remote_write" THEN Write(m.path, m.text, ExpectedSha(t, snapshot))
  ELSE Patch(m.path, [keys |-> "old", old |-> m.old, new |-> m.new], ExpectedSha(t, snapshot))

(* Mutant: the snapshot is what the caller expects, not what is there.     *)
ReadDone_TrustExpected(t) ==
  /\ Answered(t, "read")
  /\ result[t].ok
  /\ txn' = [txn EXCEPT ![t].at = "mutate",
       ![t].snapshot = IF Mutation[t].type = "remote_write" THEN Mutation[t].text ELSE Got(t)]
  /\ Issue(t, FileRequest(t, Got(t)))
  /\ UNCHANGED <<boundVars, unit, job, wrote>>

ReadDone(t) ==
  /\ Answered(t, "read")
  /\ result[t].ok
  /\ txn' = [txn EXCEPT ![t].at = "mutate", ![t].snapshot = Got(t)]
  /\ Issue(t, FileRequest(t, Got(t)))
  /\ UNCHANGED <<boundVars, unit, job, wrote>>

OfUnitFile(t) == Mutation[t].action \in {"enable", "disable"}

(* The action that restores what the status shows.                         *)
RollbackPlan(t) ==
  IF OfUnitFile(t) THEN IF unit.file = "enabled" THEN "enable" ELSE "disable"
  ELSE IF unit.active = "active" THEN "start" ELSE "stop"

Restorable(t) ==
  IF OfUnitFile(t) THEN unit.file \in {"enabled", "disabled"}
                   ELSE unit.active \in {"active", "inactive"}

StatusDone(t) ==
  /\ txn[t].at = "status"
  /\ Restorable(t)
  /\ txn' = [txn EXCEPT ![t].at = "mutate", ![t].snapshot = RollbackPlan(t)]
  /\ job' = [job EXCEPT ![t].at = "queued"]
  /\ UNCHANGED <<fsVars, unit, wrote>>

(* The commands of systemctl on the target.                                *)
Effects(action) ==
  CASE action \in {"start", "restart"} -> {[unit EXCEPT !.active = a] : a \in {"active", "failed"}}
    [] action = "stop" -> {[unit EXCEPT !.active = "inactive"]}
    [] action = "enable" -> {[unit EXCEPT !.file = IF @ = "static" THEN @ ELSE "enabled"]}
    [] action = "disable" -> {[unit EXCEPT !.file = IF @ = "static" THEN @ ELSE "disabled"]}

CommandOf(t, a) == IF a = "mutate" THEN Mutation[t].action ELSE txn[t].snapshot
GivenIn(t) == IF txn[t].state = "mutation_failed" \/ txn[t].at = "mutate" THEN "mutate" ELSE "undo"

SystemctlRuns(t) ==
  /\ job[t].at = "queued"
  /\ unit' \in Effects(CommandOf(t, GivenIn(t)))
  /\ job' = [job EXCEPT ![t].at = "applied"]
  /\ wrote' = [wrote EXCEPT ![t] = @ + 1]
  /\ UNCHANGED <<fsVars, txn>>

(* A password provider whose end mark was not seen counts as unavailable,  *)
(* and the other one is given the same command (rootExec), whether or not  *)
(* the first has run it or still will.  What was refused before, to the    *)
(* user or by sudo, changed nothing.                                       *)
SystemctlRepeated(t) ==
  /\ txn[t].at \in Changing /\ job[t].at # "none"
  /\ job[t].earlier[txn[t].at] = "none"
  /\ Fault
  /\ job' = [job EXCEPT ![t] =
       [at |-> "queued",
        earlier |-> [job[t].earlier EXCEPT ![txn[t].at] =
                       IF job[t].at = "applied" THEN "ran" ELSE "lost"]]]
  /\ UNCHANGED <<disk, temps, helper, clientVars, txn, unit, wrote>>

EarlierRuns(t) ==
  \E a \in Changing :
    /\ job[t].earlier[a] = "lost"
    /\ unit' \in Effects(CommandOf(t, a))
    /\ job' = [job EXCEPT ![t] =
         [at |-> job[t].at, earlier |-> [job[t].earlier EXCEPT ![a] = "late"]]]
    /\ wrote' = [wrote EXCEPT ![t] = @ + 1]
    /\ UNCHANGED <<fsVars, txn>>

(* The unit fails or is changed by someone else.                           *)
UnitChanges ==
  /\ edits < MaxEdits
  /\ edits' = edits + 1
  /\ unit' \in Unit
  /\ UNCHANGED <<disk, temps, helper, clientVars, faults, txn, job, wrote>>

(* A command that a phase waits for has exited with 0.                     *)
JobDone(t, at) == txn[t].at = at /\ OnUnit(t) /\ job[t].at = "applied"

(* It exited with another status, was refused, timed out or was lost; it   *)
(* may have taken effect, and when lost may still do so.                   *)
JobFails(t, at) ==
  /\ txn[t].at = at /\ OnUnit(t)
  /\ \/ job' = job /\ Fault
     \/ job' = [job EXCEPT ![t].at = "none"] /\ UNCHANGED boundVars
  /\ UNCHANGED <<disk, temps, helper, clientVars>>

-----------------------------------------------------------------------------
(* After the mutation.                                                     *)

MutationDone(t) ==
  /\ \/ /\ Answered(t, "mutate")
        /\ result[t].ok
        /\ txn' = [txn EXCEPT ![t].at = "health", ![t].after = Got(t)]
        /\ UNCHANGED job
     \/ /\ JobDone(t, "mutate")
        /\ Phase(t, "health")
        /\ job' = [job EXCEPT ![t].at = "none"]
  /\ UNCHANGED <<fsVars, unit, wrote>>

(* Mutant: a mutation that failed is made again.                           *)
MutationFails_Replayed(t) ==
  /\ Answered(t, "mutate") /\ ~result[t].ok
  /\ Issue(t, rpc[t].request)
  /\ UNCHANGED <<boundVars, txn, unit, job, wrote>>

(* The failure is reported; what the target did is not asked.              *)
MutationFails(t) ==
  /\ \/ Answered(t, "mutate") /\ ~result[t].ok /\ UNCHANGED <<fsVars, job>>
     \/ JobFails(t, "mutate")
  /\ Outcome(t, "mutation_failed")
  /\ UNCHANGED <<unit, wrote>>

(* Health checks are commands of the caller, which pass or fail, and so is *)
(* rollback_on_failure the caller's choice.                                *)
Commit(t) ==
  /\ txn[t].at = "health"
  /\ Outcome(t, "committed")
  /\ UNCHANGED <<fsVars, unit, job, wrote>>

HealthFails(t) ==
  /\ txn[t].at = "health"
  /\ Outcome(t, "health_failed")
  /\ UNCHANGED <<fsVars, unit, job, wrote>>

RollBack(t) ==
  /\ txn[t].at = "health"
  /\ Phase(t, "undo")
  /\ IF OnUnit(t)
       THEN job' = [job EXCEPT ![t].at = "queued"] /\ UNCHANGED fsVars
       ELSE /\ Issue(t, Write(Mutation[t].path, txn[t].snapshot, txn[t].after))
            /\ UNCHANGED <<job, boundVars>>
  /\ UNCHANGED <<unit, wrote>>

UndoDone(t) ==
  /\ \/ /\ Answered(t, "undo")
        /\ result[t].ok
        /\ Issue(t, Plain("read", Mutation[t].path))
        /\ UNCHANGED <<job, boundVars>>
     \/ /\ JobDone(t, "undo")
        /\ job' = [job EXCEPT ![t].at = "none"]
        /\ UNCHANGED fsVars
  /\ Phase(t, "verify")
  /\ UNCHANGED <<unit, wrote>>

UndoFails(t) ==
  /\ \/ Answered(t, "undo") /\ ~result[t].ok /\ UNCHANGED <<fsVars, job>>
     \/ JobFails(t, "undo")
  /\ Outcome(t, "rollback_failed")
  /\ UNCHANGED <<unit, wrote>>

(* The state of the unit that the rollback was to restore.                 *)
Restored(t) ==
  CASE txn[t].snapshot = "start" -> unit.active = "active"
    [] txn[t].snapshot = "stop" -> unit.active = "inactive"
    [] txn[t].snapshot = "enable" -> unit.file = "enabled"
    [] txn[t].snapshot = "disable" -> unit.file = "disabled"

Verified(t) ==
  /\ \/ Answered(t, "verify") /\ result[t].ok /\ Got(t) = txn[t].snapshot
     \/ txn[t].at = "verify" /\ OnUnit(t) /\ Restored(t)
  /\ Outcome(t, "rolled_back")
  /\ UNCHANGED <<fsVars, unit, job, wrote>>

NotVerified(t) ==
  /\ \/ Answered(t, "verify") /\ ~(result[t].ok /\ Got(t) = txn[t].snapshot)
     \/ txn[t].at = "verify" /\ OnUnit(t)
  /\ Outcome(t, "rollback_failed")
  /\ UNCHANGED <<fsVars, unit, job, wrote>>

-----------------------------------------------------------------------------
(* A single call of a remote filesystem tool.                              *)
ToolCall(c) ==
  /\ rpc[c].at = "idle"
  /\ \E r \in ToolRequests : Issue(c, r)
  /\ UNCHANGED <<boundVars, txnVars>>

(* A step of the filesystem; `wrote' counts the files a transaction's      *)
(* helper replaces.                                                        *)
FilesStep ==
  /\ FsNext
  /\ wrote' = [t \in Txns |->
       IF helper[t].at = "checked" /\ Stages(rpc[t].request) /\ helper'[t].answer.ok
         THEN wrote[t] + 1 ELSE wrote[t]]
  /\ UNCHANGED <<txn, unit, job>>

TxnStep(t) ==
  \/ Begin(t)
  \/ PrecheckPasses(t)
  \/ PrecheckFails(t)
  \/ StatDone(t)
  \/ SnapshotFails(t)
  \/ ReadDone(t)
  \/ StatusDone(t)
  \/ SystemctlRuns(t)
  \/ SystemctlRepeated(t)
  \/ EarlierRuns(t)
  \/ MutationDone(t)
  \/ MutationFails(t)
  \/ Commit(t)
  \/ HealthFails(t)
  \/ RollBack(t)
  \/ UndoDone(t)
  \/ UndoFails(t)
  \/ Verified(t)
  \/ NotVerified(t)

Next ==
  \/ FilesStep
  \/ UnitChanges
  \/ \E c \in Tools : ToolCall(c)
  \/ \E t \in Txns : TxnStep(t)

Spec == Init /\ [][Next]_vars

-----------------------------------------------------------------------------
(* Properties.                                                             *)

(* What of t may still change the target: its command or its helper, and   *)
(* the commands given before.                                              *)
Pending(t) ==
  \/ job[t].at = "queued"
  \/ helper[t].at \in {"started", "checked"} /\ Stages(rpc[t].request)
One(condition) == IF condition THEN 1 ELSE 0
Changes(t) == wrote[t] + One(Pending(t)) + One(job[t].earlier["mutate"] = "lost")
                                         + One(job[t].earlier["undo"] = "lost")

(* How often a phase may have changed the target: once, and once more when *)
(* the second password provider was given the command of the first.        *)
Times(t, a) == 1 + One(job[t].earlier[a] # "none")

(* The reported state tells what was done to the target and, but for the   *)
(* two states that report a failed change, that nothing more will be done: *)
(* no change is made twice and none is pending after a definite outcome,   *)
(* apart from a command that two password providers were given (execute,   *)
(* 305).                                                                   *)
OutcomeTellsEffects ==
  \A t \in Txns :
    CASE txn[t].state \in {"precheck_failed", "snapshot_failed"} -> Changes(t) = 0
      [] txn[t].state \in {"committed", "health_failed"} ->
           wrote[t] >= 1 /\ Changes(t) = Times(t, "mutate")
      [] txn[t].state = "rolled_back" ->
           wrote[t] >= 2 /\ Changes(t) = Times(t, "mutate") + Times(t, "undo")
      [] txn[t].state = "mutation_failed" -> Changes(t) <= Times(t, "mutate")
      [] txn[t].state = "rollback_failed" ->
           wrote[t] >= 1 /\ Changes(t) <= Times(t, "mutate") + Times(t, "undo")
      [] OTHER -> TRUE

(* Nobody but t has touched the target.                                    *)
Undisturbed(t) ==
  /\ edits = 0
  /\ \A c \in Callers \ {t} : rpc[c].at = "idle"
  /\ \A u \in Txns \ {t} : txn[u].at = "idle"

(* What is reported as rolled back or as never begun leaves the target as  *)
(* it was, whatever failed on the way, if nobody else changed it meanwhile *)
(* and no command ran after the one that repeated it was given             *)
(* (rollbackFile, 290; rollbackSystemd, 296).                              *)
RollbackRestores ==
  \A t \in Txns :
    /\ txn[t].state \in {"rolled_back", "precheck_failed", "snapshot_failed"}
    /\ Undisturbed(t)
    /\ \A a \in Changing : job[t].earlier[a] # "late"
    => disk = Before /\ unit = UnitBefore

(* `admin_transaction performs exactly one enumerated reversible mutation  *)
(* (systemd_action, remote_write, or remote_patch)'                        *)
(* (docs/releases/v0.11.0.md, 27): a patch whose hunk is in the file is    *)
(* made when nothing fails.                                                *)
MatchingPatchIsMade ==
  \A t \in Txns :
    /\ Mutation[t].type = "remote_patch"
    /\ Mutation[t].old = Before[Mutation[t].path]
    /\ faults = 0
    /\ Undisturbed(t)
    => txn[t].state # "mutation_failed"
=============================================================================
