------------------------------ MODULE Transfers ------------------------------
(***************************************************************************)
(* remote_upload, remote_download and remote_sync between one local path   *)
(* and one path of a target: src/transfer-tools.mjs, the probe of tools    *)
(* (transfer-capabilities.mjs), the process of scp or rsync                *)
(* (transfer-runner.mjs) and the comparison of digests (checksum.mjs).     *)
(*                                                                         *)
(* Several calls may work on the two paths, and others edit them.  A file  *)
(* is a text and whether it is the whole of it.  Whether a path is a link, *)
(* and the size and time of a file, are left out, and with them the counts *)
(* of a transfer's result: a source may be a link and a destination may    *)
(* look like its source whenever that matters.                             *)
(***************************************************************************)
EXTENDS Naturals

CONSTANTS
  TransferCalls,
  Texts,
  Folder,     \* stands for the contents of a directory
  Absent,
  Requests,   \* what callers ask for
  MaxEdits,   \* bound: changes of the two paths by others
  MaxFaults   \* bound: failures of processes and of the connection

VARIABLES
  file,    \* file[side]: what is at the local and at the remote path
  tools,   \* the transfer programs that are there
  transfer, \* transfer[c]: its step, request, method, and result
  proc,    \* proc[c]: the process of scp or rsync
  stray,   \* what remote ends of failed uploads may still put in place
  digest,  \* digest[c]: the contents that were hashed on each side
  quiet,   \* ghost: since when only c has changed the two paths
  edits, faults

transferVars == <<file, tools, transfer, proc, stray, digest, quiet, edits, faults>>

Sides == {"local", "remote"}
Present == [text : Texts \cup {Folder}, whole : BOOLEAN]
Contents == Present \cup {Absent}
Request == [name : {"upload", "download", "sync"}, up : BOOLEAN, resume : BOOLEAN,
            verify : BOOLEAN, recursive : BOOLEAN, dry : BOOLEAN,
            exclude : BOOLEAN]   \* a pattern of exclude matches the source itself
Programs == {"scp", "rsync", "remote rsync"}

ASSUME TransfersAssumption ==
  /\ Folder \notin Texts
  /\ Absent \notin Present
  /\ Requests \subseteq Request /\ Requests # {}
  /\ \A r \in Requests :
       /\ r.name = "upload" => r.up
       /\ r.name = "download" => ~r.up
       /\ r.name = "sync" => ~r.resume /\ ~r.verify
       /\ r.dry \/ r.exclude => r.name = "sync"
  /\ MaxEdits \in Nat
  /\ MaxFaults \in Nat

Transfer == [pc : {"idle", "stat", "detect", "observe", "spawn", "transfer",
                   "look", "verify", "done"},
             request : Requests,
             method : {"none", "scp", "rsync"},
             folder : BOOLEAN,
             skipped : BOOLEAN,   \* ghost: rsync has passed over the source
             result : {"none", "ok", "verified", "failed"}]
Process == [at : {"off", "started", "copying", "copied"}, source : Contents]

TransferTypeOK ==
  /\ file \in [Sides -> Contents]
  /\ tools \subseteq Programs
  /\ transfer \in [TransferCalls -> Transfer]
  /\ proc \in [TransferCalls -> Process]
  /\ stray \subseteq Contents
  /\ digest \in [TransferCalls -> [Sides -> Contents]]
  /\ quiet \in [TransferCalls -> {"always", "since its process", "no"}]
  /\ edits \in 0..MaxEdits
  /\ faults \in 0..MaxFaults

NoProcess == [at |-> "off", source |-> Absent]
Asked(r, pc) == [pc |-> pc, request |-> r, method |-> "none", folder |-> FALSE,
                 skipped |-> FALSE, result |-> "none"]
NotHashed == [side \in Sides |-> Absent]

TransferInit ==
  /\ file \in [Sides -> {x \in Present : x.whole} \cup {Absent}]
  /\ tools \in SUBSET Programs
  /\ transfer = [c \in TransferCalls |-> Asked(CHOOSE r \in Requests : TRUE, "idle")]
  /\ proc = [c \in TransferCalls |-> NoProcess]
  /\ stray = {}
  /\ digest = [c \in TransferCalls |-> NotHashed]
  /\ quiet = [c \in TransferCalls |-> "no"]
  /\ edits = 0
  /\ faults = 0

Piece(x) == [x EXCEPT !.whole = FALSE]
IsFolder(x) == x # Absent /\ x.text = Folder

Fault == faults < MaxFaults /\ faults' = faults + 1

Source(c) == IF transfer[c].request.up THEN "local" ELSE "remote"
Dest(c) == IF transfer[c].request.up THEN "remote" ELSE "local"

Advance(c, pc) == transfer' = [transfer EXCEPT ![c].pc = pc]
Return(c, result) == transfer' = [transfer EXCEPT ![c].pc = "done", ![c].result = result]
OnlyTheCallMoves == UNCHANGED <<file, tools, proc, stray, digest, quiet, edits>>

(* The ghost after a change by `who'.                                      *)
DisturbAllBut(who) == quiet' = [c \in TransferCalls |-> IF c \in who THEN quiet[c] ELSE "no"]

-----------------------------------------------------------------------------
(* Up to the process.                                                      *)

Begin(c) ==
  /\ transfer[c].pc \in {"idle", "done"}
  /\ \E r \in Requests :
       transfer' = [transfer EXCEPT ![c] = Asked(r, IF r.name = "upload" THEN "stat" ELSE "detect")]
  /\ quiet' = [quiet EXCEPT ![c] =
       IF \A d \in TransferCalls : proc[d].at = "off" THEN "always" ELSE "no"]
  /\ digest' = [digest EXCEPT ![c] = NotHashed]
  /\ UNCHANGED <<file, tools, proc, stray, edits, faults>>

(* An upload looks at its source; a directory needs recursive and cannot   *)
(* be verified.                                                            *)
Stat(c) ==
  LET r == transfer[c].request IN
  /\ transfer[c].pc = "stat"
  /\ IF file["local"] = Absent \/ (IsFolder(file["local"]) /\ (~r.recursive \/ r.verify))
       THEN Return(c, "failed")
       ELSE transfer' = [transfer EXCEPT ![c].pc = "detect", ![c].folder = IsFolder(file["local"])]
  /\ OnlyTheCallMoves
  /\ UNCHANGED faults

HasRsync == {"rsync", "remote rsync"} \subseteq tools

(* selectMethod and requireSyncRsync.                                      *)
Method(r) ==
  CASE r.name = "sync" \/ r.resume -> IF HasRsync THEN "rsync" ELSE "none"
    [] "scp" \in tools /\ ~(r.name = "sync" \/ r.resume) -> "scp"
    [] OTHER -> IF HasRsync THEN "rsync" ELSE "none"

Detect(c) ==
  LET r == transfer[c].request
      method == Method(r) IN
  /\ transfer[c].pc = "detect"
  /\ IF method = "none" THEN Return(c, "failed")
     ELSE transfer' = [transfer EXCEPT ![c].method = method,
            ![c].pc = IF r.name = "upload" /\ r.resume /\ ~transfer[c].folder THEN "observe" ELSE "spawn"]
  /\ OnlyTheCallMoves
  /\ UNCHANGED faults

DetectFails(c) ==
  /\ transfer[c].pc = "detect"
  /\ Fault
  /\ Return(c, "failed")
  /\ OnlyTheCallMoves

(* The partial file that is looked for is only reported.                   *)
Observe(c) ==
  /\ transfer[c].pc = "observe"
  /\ Advance(c, "spawn")
  /\ OnlyTheCallMoves
  /\ UNCHANGED faults

Spawn(c) ==
  /\ transfer[c].pc = "spawn"
  /\ proc' = [proc EXCEPT ![c] = [at |-> "started", source |-> Absent]]
  /\ Advance(c, "transfer")
  /\ UNCHANGED <<file, tools, stray, digest, quiet, edits, faults>>

SpawnFails(c) ==
  /\ transfer[c].pc = "spawn"
  /\ Fault
  /\ Return(c, "failed")
  /\ OnlyTheCallMoves

-----------------------------------------------------------------------------
(* The process.  scp writes into the destination, rsync into a temporary   *)
(* file that it renames when it has everything.  What is put into a        *)
(* directory that is there already does not change what the path names.    *)

Inside(c) == IsFolder(file[Dest(c)])

(* rsync passes over its source and exits with 0 when that is excluded, a  *)
(* directory without --recursive, a link, which its arguments never let it *)
(* copy or follow, or of the size and time of the destination.             *)
Skips(c) ==
  /\ transfer[c].method = "rsync"
  /\ \/ transfer[c].request.exclude
     \/ IsFolder(file[Source(c)]) /\ ~transfer[c].request.recursive

PassOver(c) ==
  /\ proc[c].at = "started"
  /\ transfer[c].method = "rsync" /\ file[Source(c)] # Absent
  /\ proc' = [proc EXCEPT ![c] = [at |-> "copied", source |-> file[Source(c)]]]
  /\ transfer' = [transfer EXCEPT ![c].skipped = TRUE]
  /\ UNCHANGED <<file, tools, stray, digest, quiet, edits, faults>>

(* What makes the program fail by itself.                                  *)
Impossible(c) ==
  \/ file[Source(c)] = Absent
  \/ /\ IsFolder(file[Source(c)]) /\ ~Skips(c)
     /\ transfer[c].request.recursive => file[Dest(c)] # Absent /\ ~Inside(c)

Copy(c) ==
  LET source == file[Source(c)] IN
  /\ proc[c].at = "started"
  /\ ~Impossible(c) /\ ~Skips(c)
  /\ proc' = [proc EXCEPT ![c] = [at |-> IF Inside(c) THEN "copied" ELSE "copying",
                                  source |-> source]]
  /\ IF transfer[c].method = "scp" /\ ~Inside(c)
       THEN file' = [file EXCEPT ![Dest(c)] = Piece(source)] /\ DisturbAllBut({c})
       ELSE UNCHANGED <<file, quiet>>
  /\ UNCHANGED <<tools, transfer, stray, digest, edits, faults>>

(* A source that changed while it was read is copied in pieces of both.    *)
Complete(c) ==
  LET source == proc[c].source IN
  /\ proc[c].at = "copying"
  /\ proc' = [proc EXCEPT ![c].at = "copied"]
  /\ IF transfer[c].request.dry THEN UNCHANGED <<file, quiet>>
     ELSE /\ file' = [file EXCEPT ![Dest(c)] =
               IF file[Source(c)] = source THEN source ELSE Piece(source)]
          /\ DisturbAllBut({c})
  /\ UNCHANGED <<tools, transfer, stray, digest, edits, faults>>

(* What an unfinished copy leaves at the destination: scp what it wrote,   *)
(* rsync nothing, or with --partial what it had.                           *)
Left(c) ==
  IF proc[c].at = "copying" /\ transfer[c].method = "rsync" /\ transfer[c].request.resume
    THEN {file[Dest(c)], Piece(proc[c].source)} ELSE {file[Dest(c)]}

(* What the remote end of an upload may still do when its other end is     *)
(* gone.                                                                   *)
MayStillLand(c) ==
  IF transfer[c].request.up /\ ~transfer[c].request.dry /\ proc[c].at = "copying"
    THEN {Piece(proc[c].source), proc[c].source} ELSE {}

(* The process ends: it failed, or was terminated after the timeout, at    *)
(* whatever stage.                                                         *)
Breaks(c) ==
  /\ proc[c].at # "off"
  /\ \/ Fault
     \/ proc[c].at = "started" /\ Impossible(c) /\ UNCHANGED faults
  /\ \E x \in Left(c) : file' = [file EXCEPT ![Dest(c)] = x]
  /\ stray' = stray \cup MayStillLand(c)
  /\ proc' = [proc EXCEPT ![c] = NoProcess]
  /\ IF file' = file THEN UNCHANGED quiet ELSE DisturbAllBut({c})
  /\ UNCHANGED <<tools, digest, edits>>

StrayLands(x) ==
  /\ x \in stray
  /\ stray' = stray \ {x}
  /\ file' = [file EXCEPT !["remote"] = x]
  /\ DisturbAllBut({})
  /\ UNCHANGED <<tools, transfer, proc, digest, edits, faults>>

StrayEnds(x) ==
  /\ x \in stray
  /\ stray' = stray \ {x}
  /\ UNCHANGED <<file, tools, transfer, proc, digest, quiet, edits, faults>>

-----------------------------------------------------------------------------
(* After the process: close with its exit status and whether the timer     *)
(* had fired.                                                              *)

(* Mutant: the exit status is not looked at.                               *)
ProcessFails_Ignored(c) == Breaks(c) /\ Return(c, "ok")

ProcessFails(c) == Breaks(c) /\ Return(c, "failed")

ProcessSucceeds(c) ==
  LET r == transfer[c].request IN
  /\ proc[c].at = "copied"
  /\ proc' = [proc EXCEPT ![c] = NoProcess]
  /\ quiet' = [quiet EXCEPT ![c] = IF @ = "no" THEN "since its process" ELSE @]
  /\ IF r.name = "download" THEN Advance(c, "look")
     ELSE IF r.verify THEN Advance(c, "verify") ELSE Return(c, "ok")
  /\ UNCHANGED <<file, tools, stray, digest, edits, faults>>

(* A download looks at what it has brought.                                *)
Look(c) ==
  LET r == transfer[c].request IN
  /\ transfer[c].pc = "look"
  /\ IF file["local"] = Absent \/ (IsFolder(file["local"]) /\ r.verify) THEN Return(c, "failed")
     ELSE IF r.verify THEN Advance(c, "verify") ELSE Return(c, "ok")
  /\ OnlyTheCallMoves
  /\ UNCHANGED faults

(* The two sides are hashed at the same time, each at a moment of its own. *)
Hash(c, side) ==
  /\ transfer[c].pc = "verify"
  /\ digest[c][side] = Absent
  /\ file[side] # Absent /\ ~IsFolder(file[side])
  /\ digest' = [digest EXCEPT ![c][side] = file[side]]
  /\ UNCHANGED <<file, tools, transfer, proc, stray, quiet, edits, faults>>

HashFails(c, side) ==
  /\ transfer[c].pc = "verify"
  /\ digest[c][side] = Absent
  /\ IF file[side] = Absent \/ IsFolder(file[side]) THEN UNCHANGED faults ELSE Fault
  /\ Return(c, "failed")
  /\ OnlyTheCallMoves

(* Mutant: any two digests will do.                                        *)
Compare_Unequal(c) ==
  /\ transfer[c].pc = "verify"
  /\ \A side \in Sides : digest[c][side] # Absent
  /\ Return(c, "verified")
  /\ OnlyTheCallMoves
  /\ UNCHANGED faults

Compare(c) ==
  /\ transfer[c].pc = "verify"
  /\ \A side \in Sides : digest[c][side] # Absent
  /\ Return(c, IF digest[c]["local"] = digest[c]["remote"] THEN "verified" ELSE "failed")
  /\ OnlyTheCallMoves
  /\ UNCHANGED faults

-----------------------------------------------------------------------------
Edit(side, x) ==
  /\ edits < MaxEdits
  /\ edits' = edits + 1
  /\ file' = [file EXCEPT ![side] = x]
  /\ DisturbAllBut({})
  /\ UNCHANGED <<tools, transfer, proc, stray, digest, faults>>

TransferStep(c) ==
  \/ Begin(c)
  \/ Stat(c)
  \/ Detect(c)
  \/ DetectFails(c)
  \/ Observe(c)
  \/ Spawn(c)
  \/ SpawnFails(c)
  \/ Copy(c)
  \/ PassOver(c)
  \/ Complete(c)
  \/ ProcessFails(c)
  \/ ProcessSucceeds(c)
  \/ Look(c)
  \/ \E side \in Sides : Hash(c, side) \/ HashFails(c, side)
  \/ Compare(c)

TransferNext ==
  \/ \E c \in TransferCalls : TransferStep(c)
  \/ \E x \in stray : StrayLands(x) \/ StrayEnds(x)
  \/ \E side \in Sides, x \in Contents : (x # Absent => x.whole) /\ Edit(side, x)

TransferSpec == TransferInit /\ [][TransferNext]_transferVars

-----------------------------------------------------------------------------
(* Properties.                                                             *)

(* A verified transfer leaves the same file on both sides, whatever        *)
(* happened to them, or to the connection, while it copied: only what      *)
(* others change after its process has ended can make that untrue          *)
(* (callTransferTool, 306; verifyTransferSha256, 115).                     *)
VerifiedMeansSame ==
  \A c \in TransferCalls :
    transfer[c].result = "verified" /\ quiet[c] # "no" => file["local"] = file["remote"]

(* A transfer of a file that nobody disturbs and that reports success has  *)
(* copied the whole of it, whatever an earlier failure left behind: always *)
(* with scp, and with rsync unless that passed over the source, which the  *)
(* exit status does not tell (runTransferProcess, 50).                     *)
SuccessMeansCopied ==
  \A c \in TransferCalls :
    /\ transfer[c].result = "ok" /\ quiet[c] = "always" /\ ~transfer[c].request.dry
    /\ ~(transfer[c].method = "rsync" /\ transfer[c].skipped)
    /\ \A side \in Sides : ~IsFolder(file[side])
    => file["local"] = file["remote"]
=============================================================================
