----------------------------- MODULE RemoteFiles -----------------------------
(***************************************************************************)
(* The files of one target: remote-fs-client.mjs, which installs the       *)
(* helper program once and then runs it once per request, and the helper   *)
(* itself, helpers/remote_fs.py, which looks at the disk, decides, and     *)
(* then changes it in one system call.                                     *)
(*                                                                         *)
(* A helper goes on when the caller has given up on it.  A file is its     *)
(* whole text, and stands for its SHA-256 as well; a hunk replaces one     *)
(* text by another.  The searching operations change nothing and are left  *)
(* out.  That a helper cannot unlink its own temporary file after a        *)
(* failure, which leaves it on the disk, is left out too.                  *)
(***************************************************************************)
EXTENDS Naturals

CONSTANTS
  Callers,     \* calls of callRemoteFs under way, one request of each at a time
  Paths,
  Texts,       \* contents of UTF-8 files
  Absent, Folder, Link, Binary,   \* what else a path may be
  Unset,       \* no expected_sha256, no text
  NoCaller,
  Before,      \* the disk to begin with
  MaxEdits,    \* bound: changes made on the target by others
  MaxFaults    \* bound: failures of the connection, the target or its disk

VARIABLES
  disk,       \* disk[p]: what path p is
  temps,      \* helpers whose temporary file is on the disk
  helper,     \* helper[c]: the helper process of c: its step, what it saw, its answer
  rpc,        \* rpc[c]: the call of callRemoteFs of c: its step and its request
  result,     \* result[c]: what that call gave
  ready,      \* cache.ready holds the target
  installer,  \* the caller whose installation is cache.pending, or NoCaller
  program,    \* the helper file on the target: "none", "whole" or "cut"
  edits, faults

fsVars == <<disk, temps, helper, rpc, result, ready, installer, program, edits, faults>>
clientVars == <<rpc, result, ready, installer, program>>
boundVars == <<edits, faults>>

Special == {Absent, Folder, Link, Binary}

ASSUME RemoteFilesAssumption ==
  /\ Texts \cap Special = {}
  /\ Unset \notin Texts \cup Special
  /\ NoCaller \notin Callers
  /\ Before \in [Paths -> Texts \cup Special]
  /\ MaxEdits \in Nat
  /\ MaxFaults \in Nat

Contents == Texts \cup Special
Hunk == [keys : {"old_text", "old"}, old : Texts, new : Texts]
Request == [op : {"stat", "read", "write", "patch", "move", "delete", "mkdir"},
            path : Paths, to : Paths, text : Texts \cup {Unset},
            expected : Texts \cup {Unset}, hunk : Hunk \cup {Unset}, force : BOOLEAN]
Answer == [ok : BOOLEAN, value : Contents \cup {Unset}]

Plain(op, p) == [op |-> op, path |-> p, to |-> p, text |-> Unset, expected |-> Unset,
                 hunk |-> Unset, force |-> FALSE]
Write(p, text, expected) == [Plain("write", p) EXCEPT !.text = text, !.expected = expected]
Patch(p, hunk, expected) == [Plain("patch", p) EXCEPT !.hunk = hunk, !.expected = expected]

FsTypeOK ==
  /\ disk \in [Paths -> Contents]
  /\ temps \subseteq Callers
  /\ helper \in [Callers -> [at : {"off", "started", "checked", "answered", "killed"},
                             seen : Contents \cup {Unset},
                             answer : Answer]]
  /\ rpc \in [Callers -> [at : {"idle", "installing", "joining", "sent", "returned"},
                          request : Request \cup {Unset}]]
  /\ result \in [Callers -> Answer]
  /\ ready \in BOOLEAN
  /\ installer \in Callers \cup {NoCaller}
  /\ program \in {"none", "whole", "cut"}
  /\ edits \in 0..MaxEdits
  /\ faults \in 0..MaxFaults

Threw == [ok |-> FALSE, value |-> Unset]
Gives(value) == [ok |-> TRUE, value |-> value]
NoHelper == [at |-> "off", seen |-> Unset, answer |-> Threw]

FsInit ==
  /\ disk = Before
  /\ temps = {}
  /\ helper = [c \in Callers |-> NoHelper]
  /\ rpc = [c \in Callers |-> [at |-> "idle", request |-> Unset]]
  /\ result = [c \in Callers |-> Threw]
  /\ ready = FALSE
  /\ installer = NoCaller
  /\ program \in {"none", "whole"}
  /\ edits = 0
  /\ faults = 0

Fault == faults < MaxFaults /\ faults' = faults + 1 /\ UNCHANGED edits

-----------------------------------------------------------------------------
(* The client.                                                             *)

(* Without the whole program python exits with an error.                   *)
Launched(c, prog) ==
  [NoHelper EXCEPT !.at = IF prog = "whole" THEN "started" ELSE "answered"]

(* Mutant: an installation that runs is not joined.                        *)
Issue_NoSingleFlight(c, r) ==
  /\ rpc[c].at \in {"idle", "returned"}
  /\ rpc' = [rpc EXCEPT ![c] = [at |-> IF ready THEN "sent" ELSE "installing", request |-> r]]
  /\ helper' = IF ready THEN [helper EXCEPT ![c] = Launched(c, program)] ELSE helper
  /\ installer' = IF ready THEN installer ELSE c
  /\ UNCHANGED <<disk, temps, result, ready, program>>

(* callRemoteFs up to its wait for the installation or for the helper.     *)
Issue(c, r) ==
  /\ rpc[c].at \in {"idle", "returned"}
  /\ rpc' = [rpc EXCEPT ![c] =
       [at |-> IF ready THEN "sent" ELSE IF installer # NoCaller THEN "joining" ELSE "installing",
        request |-> r]]
  /\ helper' = IF ready THEN [helper EXCEPT ![c] = Launched(c, program)] ELSE helper
  /\ installer' = IF ready \/ installer # NoCaller THEN installer ELSE c
  /\ UNCHANGED <<disk, temps, result, ready, program>>

Waits(c) == rpc[c].at \in {"installing", "joining"}

(* The installer exited with 0.  Its commands are joined by `;': when the  *)
(* copy was cut short the move and the exit status do not tell.            *)
InstallSucceeds(prog) ==
  /\ installer # NoCaller
  /\ IF prog = "cut" THEN Fault ELSE UNCHANGED boundVars
  /\ program' = prog
  /\ ready' = TRUE
  /\ installer' = NoCaller
  /\ rpc' = [c \in Callers |-> IF Waits(c) THEN [rpc[c] EXCEPT !.at = "sent"] ELSE rpc[c]]
  /\ helper' = [c \in Callers |-> IF Waits(c) THEN Launched(c, prog) ELSE helper[c]]
  /\ UNCHANGED <<disk, temps, result>>

(* It failed or its answer was lost: everyone who waits for it fails, and  *)
(* the next call installs again.                                           *)
InstallFails ==
  /\ installer # NoCaller
  /\ Fault
  /\ program' \in {program, "whole"}
  /\ installer' = NoCaller
  /\ rpc' = [c \in Callers |-> IF Waits(c) THEN [rpc[c] EXCEPT !.at = "returned"] ELSE rpc[c]]
  /\ result' = [c \in Callers |-> IF Waits(c) THEN Threw ELSE result[c]]
  /\ UNCHANGED <<disk, temps, helper, ready>>

Return(c, answer) ==
  /\ rpc' = [rpc EXCEPT ![c].at = "returned"]
  /\ result' = [result EXCEPT ![c] = answer]

Receive(c) ==
  /\ rpc[c].at = "sent"
  /\ helper[c].at = "answered"
  /\ Return(c, helper[c].answer)
  /\ helper' = [helper EXCEPT ![c] = NoHelper]
  /\ UNCHANGED <<disk, temps, ready, installer, program, boundVars>>

(* The connection failed, the call timed out, or the output was cut.       *)
Lose(c) ==
  /\ rpc[c].at = "sent"
  /\ Fault
  /\ Return(c, Threw)
  /\ UNCHANGED <<disk, temps, helper, ready, installer, program>>

-----------------------------------------------------------------------------
(* The helper.                                                             *)

Becomes(c, at, seen, answer) ==
  helper' = [helper EXCEPT ![c] = [at |-> at, seen |-> seen, answer |-> answer]]

NewText(r) == IF r.op = "patch" THEN r.hunk.new ELSE r.text

Expected(r, now) == r.expected = Unset \/ r.expected = now

(* Whether the checks of the operation pass, on what they see now.  A      *)
(* hunk's texts are looked up by the helper's own names for them.          *)
Acceptable(r) ==
  LET now == disk[r.path] IN
  CASE r.op = "write"  -> now \in Texts \cup {Absent} /\ Expected(r, now)
    [] r.op = "patch"  -> /\ now \in Texts
                          /\ Expected(r, now)
                          /\ r.hunk.keys = "old_text"
                          /\ r.hunk.old = now
    [] r.op = "move"   -> now # Absent /\ (disk[r.to] = Absent \/ r.force)
    [] r.op = "delete" -> now # Absent
    [] r.op = "mkdir"  -> now = Absent
    [] OTHER -> FALSE

(* Operations that answer from their first look.                           *)
LookAndAnswer(c) ==
  LET r == rpc[c].request
      now == disk[r.path] IN
  /\ helper[c].at = "started"
  /\ \/ r.op = "stat" /\ Becomes(c, "answered", Unset, IF now = Absent THEN Threw ELSE Gives(now))
     \/ r.op = "read" /\ Becomes(c, "answered", Unset, IF now \in Texts THEN Gives(now) ELSE Threw)
     \/ r.op = "mkdir" /\ now = Folder /\ Becomes(c, "answered", Unset, Gives(now))
  /\ UNCHANGED <<disk, temps, clientVars, boundVars>>

Refuse(c) ==
  LET r == rpc[c].request IN
  /\ helper[c].at = "started"
  /\ r.op \notin {"stat", "read"}
  /\ ~(r.op = "mkdir" /\ disk[r.path] = Folder)
  /\ ~Acceptable(r)
  /\ Becomes(c, "answered", Unset, Threw)
  /\ UNCHANGED <<disk, temps, clientVars, boundVars>>

Stages(r) == r.op \in {"write", "patch"}

(* The checks have passed; a new text is staged in a temporary file.       *)
Check(c) ==
  LET r == rpc[c].request IN
  /\ helper[c].at = "started"
  /\ Acceptable(r)
  /\ Becomes(c, "checked", disk[r.path], Threw)
  /\ temps' = IF Stages(r) THEN temps \cup {c} ELSE temps
  /\ UNCHANGED <<disk, clientVars, boundVars>>

(* Whether the system call that changes the disk works on what is there by *)
(* now.  What was seen as a directory is removed by rmdir or rmtree,       *)
(* anything else is unlinked.                                              *)
Feasible(r, seen) ==
  LET now == disk[r.path] IN
  CASE Stages(r) -> now # Folder
    [] r.op = "move" -> now # Absent /\ (disk[r.to] # Absent => (now = Folder <=> disk[r.to] = Folder))
    [] r.op = "delete" -> now # Absent /\ (now = Folder <=> seen = Folder)
    [] r.op = "mkdir" -> now = Absent

(* os.replace of the temporary file; rename, which replaces whatever file  *)
(* is at the destination by now; unlink or rmdir; mkdir.                   *)
After(r) ==
  CASE Stages(r) -> [disk EXCEPT ![r.path] = NewText(r)]
    [] r.op = "move" -> [disk EXCEPT ![r.path] = Absent, ![r.to] = disk[r.path]]
    [] r.op = "delete" -> [disk EXCEPT ![r.path] = Absent]
    [] r.op = "mkdir" -> [disk EXCEPT ![r.path] = Folder]

SystemCall(c) ==
  LET r == rpc[c].request IN
  /\ helper[c].at = "checked"
  /\ Feasible(r, helper[c].seen)
  /\ disk' = After(r)
  /\ temps' = temps \ {c}
  /\ Becomes(c, "answered", Unset, Gives(IF Stages(r) THEN NewText(r) ELSE Unset))
  /\ UNCHANGED <<clientVars, boundVars>>

(* The path has become something else; or, a failure of the target, the    *)
(* disk is full, a directory is not empty, a permission is missing.        *)
OSFails(c) ==
  /\ helper[c].at = "checked"
  /\ IF Feasible(rpc[c].request, helper[c].seen) THEN Fault ELSE UNCHANGED boundVars
  /\ Becomes(c, "answered", Unset, Threw)

(* Mutant: a failed replacement leaves its temporary file.                 *)
SystemCallFails_KeepTemp(c) == OSFails(c) /\ UNCHANGED <<disk, temps, clientVars>>

SystemCallFails(c) ==
  /\ OSFails(c)
  /\ temps' = temps \ {c}
  /\ UNCHANGED <<disk, clientVars>>

(* The target reboots or the connection takes the helper down.             *)
Killed(c) ==
  /\ helper[c].at \in {"started", "checked"}
  /\ Fault
  /\ helper' = [helper EXCEPT ![c].at = "killed"]
  /\ UNCHANGED <<disk, temps, clientVars>>

(* Someone else changes a file of the target, or cleans its cache.         *)
Edit(p, content) ==
  /\ edits < MaxEdits
  /\ edits' = edits + 1
  /\ disk' = [disk EXCEPT ![p] = content]
  /\ UNCHANGED <<temps, helper, clientVars, faults>>

CleanCache ==
  /\ edits < MaxEdits
  /\ edits' = edits + 1
  /\ program' = "none"
  /\ UNCHANGED <<disk, temps, helper, rpc, result, ready, installer, faults>>

HelperStep(c) ==
  \/ LookAndAnswer(c)
  \/ Refuse(c)
  \/ Check(c)
  \/ SystemCall(c)
  \/ SystemCallFails(c)
  \/ Killed(c)

FsNext ==
  \/ \E prog \in {"whole", "cut"} : InstallSucceeds(prog)
  \/ InstallFails
  \/ \E c \in Callers : Receive(c) \/ Lose(c) \/ HelperStep(c)
  \/ \E p \in Paths, content \in Contents : Edit(p, content)
  \/ CleanCache

-----------------------------------------------------------------------------
(* Properties.                                                             *)

(* A temporary file is there only for a helper that will still replace or  *)
(* remove it, unless that helper was killed (_atomic_write, 158).          *)
TempsAreOwned == \A c \in temps : helper[c].at \in {"checked", "killed"}

(* The helper is installed by one call at a time, the one all others wait  *)
(* for, and nobody waits for no one (ensureHelper, 133).                   *)
OneInstaller ==
  /\ \A c \in Callers : rpc[c].at = "installing" <=> installer = c
  /\ \A c \in Callers : rpc[c].at = "joining" => installer # NoCaller
=============================================================================
