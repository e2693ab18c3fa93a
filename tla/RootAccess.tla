------------------------------ MODULE RootAccess ------------------------------
(***************************************************************************)
(* Running a command as root on one target: the capability inventory       *)
(* (target-capabilities.mjs), the preferred provider (privilege-engine.mjs)*)
(* and the five root providers tried in turn (root-exec.mjs), the last two *)
(* of which type the command into a shell and let a human answer the       *)
(* password prompt.  Targets share nothing: both caches are keyed by it.   *)
(*                                                                         *)
(* `world' is the target: the identity that ssh resolves for it and the    *)
(* providers that would give root.  Both may change under a call.  Clocks  *)
(* are choices: a cached entry may expire at any moment.                   *)
(***************************************************************************)
EXTENDS Naturals, FiniteSets, Sequences, SequencesExt

CONSTANTS
  Calls,
  Worlds,      \* [identity : ..., grants : SUBSET Providers]
  MaxChanges,  \* bound: changes of the world
  NoEntry      \* the undefined of Map.get

Order == <<"direct_root", "sudo_nopasswd", "docker_host_root", "sudo_password", "su_root_password">>
Providers == ToSet(Order)
NonSecret == {"direct_root", "sudo_nopasswd", "docker_host_root"}

ASSUME RootAssumption ==
  /\ \A w \in Worlds : w.grants \subseteq Providers
  /\ NoEntry \notin [identity : {w.identity : w \in Worlds}, can : SUBSET Providers]
  /\ NoEntry \notin Providers
  /\ MaxChanges \in Nat

VARIABLES
  world,
  changes,     \* changes of the world so far
  inventory,   \* the cache of the inventory: an entry or NoEntry
  collecting,  \* its pending operation: the phase, whether it refreshes, the identity
  preference,  \* the cache of the engine: an entry or NoEntry
  call,        \* call[c]: where a call is, its inventory and the providers left to try
  shell,       \* shell[c]: the interactive session of c
  ran          \* ran[c]: the providers under which the command of c has started

vars == <<world, changes, inventory, collecting, preference, call, shell, ran>>

Identities == {w.identity : w \in Worlds}
Entry == [identity : Identities, can : SUBSET Providers]
Preference == [strategy : Providers, identity : Identities]
Maybe(S) == S \cup {NoEntry}

TypeOK ==
  /\ world \in Worlds
  /\ changes \in 0..MaxChanges
  /\ inventory \in Maybe(Entry)
  /\ collecting \in [phase : {"off", "resolving", "probing"}, refresh : BOOLEAN,
                     identity : Maybe(Identities)]
  /\ preference \in Maybe(Preference)
  /\ call \in [Calls -> [pc : {"idle", "inventory", "trying", "running", "typed",
                               "secret", "closing"},
                         identity : Maybe(Identities),
                         prefers : Maybe(Providers),
                         left : SUBSET Providers,
                         result : {"none", "ok", "unavailable", "error"}]]
  /\ shell \in [Calls -> {"none", "started", "prompt", "running", "ended", "denied",
                      "abandoned"}]
  /\ ran \in [Calls -> SUBSET Providers]

Idle == [pc |-> "idle", identity |-> NoEntry, prefers |-> NoEntry, left |-> {}, result |-> "none"]
NotCollecting == [phase |-> "off", refresh |-> FALSE, identity |-> NoEntry]

Init ==
  /\ world \in Worlds
  /\ changes = 0
  /\ inventory = NoEntry
  /\ collecting = NotCollecting
  /\ preference = NoEntry
  /\ call = [c \in Calls |-> Idle]
  /\ shell = [c \in Calls |-> "none"]
  /\ ran = [c \in Calls |-> {}]

-----------------------------------------------------------------------------
(* The target and the clock.                                               *)

WorldChanges ==
  /\ changes < MaxChanges
  /\ changes' = changes + 1
  /\ world' \in Worlds
  /\ UNCHANGED <<inventory, collecting, preference, call, shell, ran>>

InventoryExpires ==
  /\ inventory' = NoEntry
  /\ UNCHANGED <<world, changes, collecting, preference, call, shell, ran>>

PreferenceExpires ==
  /\ preference' = NoEntry
  /\ UNCHANGED <<world, changes, inventory, collecting, call, shell, ran>>

-----------------------------------------------------------------------------
(* The capability inventory.                                               *)

(* get joins the operation that runs, whatever that one refreshes.         *)
Get(refresh) ==
  collecting' = IF collecting.phase # "off" THEN collecting
                ELSE [phase |-> "resolving", refresh |-> refresh, identity |-> NoEntry]

(* Any other use of the inventory: target_capabilities, diagnostics.       *)
Inspect(refresh) ==
  /\ collecting.phase = "off"
  /\ Get(refresh)
  /\ UNCHANGED <<world, changes, inventory, preference, call, shell, ran>>

(* The order of preferredOrder, and the hints of normalizeCapabilityHint:  *)
(* what the inventory does not report is skipped.                          *)
Start(c, entry, preferred) ==
  [call[c] EXCEPT !.pc = "trying", !.identity = entry.identity, !.left = entry.can,
                  !.prefers = preferred]

(* The cached preference, dropped when it no longer fits the inventory.    *)
Fits(entry) ==
  /\ preference # NoEntry
  /\ preference.identity = entry.identity
  /\ preference.strategy \in entry.can

(* Everyone who waits for the operation goes on with its answer.           *)
Answered(entry) ==
  /\ collecting' = NotCollecting
  /\ preference' = IF Fits(entry) \/ (\A c \in Calls : call[c].pc # "inventory")
                     THEN preference ELSE NoEntry
  /\ call' = [c \in Calls |->
       IF call[c].pc # "inventory" THEN call[c]
       ELSE Start(c, entry, IF Fits(entry) THEN preference.strategy ELSE NoEntry)]

Resolve ==
  /\ collecting.phase = "resolving"
  /\ IF /\ ~collecting.refresh
        /\ inventory # NoEntry
        /\ inventory.identity = world.identity
       THEN Answered(inventory)
       ELSE /\ collecting' = [collecting EXCEPT !.phase = "probing", !.identity = world.identity]
            /\ UNCHANGED <<preference, call>>
  /\ UNCHANGED <<world, changes, inventory, shell, ran>>

Probe ==
  LET entry == [identity |-> collecting.identity, can |-> world.grants] IN
  /\ collecting.phase = "probing"
  /\ inventory' = entry
  /\ Answered(entry)
  /\ UNCHANGED <<world, changes, shell, ran>>

(* A failed resolution or probe is not cached; it fails the calls outside  *)
(* the try that forgets the preference.                                    *)
InventoryFails ==
  /\ collecting.phase # "off"
  /\ collecting' = NotCollecting
  /\ call' = [c \in Calls |->
       IF call[c].pc = "inventory" THEN Idle ELSE call[c]]
  /\ UNCHANGED <<world, changes, inventory, preference, shell, ran>>

Execute(c) ==
  /\ call[c].pc = "idle"
  /\ call' = [call EXCEPT ![c].pc = "inventory"]
  /\ Get(FALSE)
  /\ UNCHANGED <<world, changes, inventory, preference, shell, ran>>

-----------------------------------------------------------------------------
(* Trying the providers.                                                   *)

Goto(c, pc) == call' = [call EXCEPT ![c].pc = pc]

(* The caller is answered, and may call again.                             *)
Done(c) ==
  /\ call' = [call EXCEPT ![c] = Idle]
  /\ ran' = [ran EXCEPT ![c] = {}]

First(S) == Order[CHOOSE i \in 1..Len(Order) :
                    Order[i] \in S /\ \A j \in 1..(i - 1) : Order[j] \notin S]
Turn(c) == IF call[c].prefers \in call[c].left THEN call[c].prefers ELSE First(call[c].left)

(* The command of c may start now under provider p.                        *)
Runs(c, p) == ran' = [ran EXCEPT ![c] = @ \cup {p}]

Unavailable(c) ==
  /\ call' = [call EXCEPT ![c].pc = "trying", ![c].left = @ \ {Turn(c)}, ![c].result = "none"]
  /\ UNCHANGED <<world, changes, inventory, collecting, preference, ran>>

(* Mutant: whatever provider worked is preferred.                          *)
Succeed_RememberSecret(c) ==
  /\ Done(c)
  /\ preference' = [strategy |-> Turn(c), identity |-> call[c].identity]
  /\ UNCHANGED <<world, changes, inventory, collecting>>

(* The engine remembers a provider that needs no password, under the       *)
(* identity that the inventory had when the call began.                    *)
Succeed(c) ==
  /\ Done(c)
  /\ preference' = IF Turn(c) \in NonSecret
                     THEN [strategy |-> Turn(c), identity |-> call[c].identity] ELSE NoEntry
  /\ UNCHANGED <<world, changes, inventory, collecting>>

Throw(c) ==
  /\ Done(c)
  /\ preference' = NoEntry
  /\ UNCHANGED <<world, changes, inventory, collecting>>

NoProviderLeft(c) ==
  /\ call[c].pc = "trying"
  /\ call[c].left = {}
  /\ Throw(c)
  /\ UNCHANGED shell

(* The probe of a provider.  For one that needs no password it shows that  *)
(* it gives root now; for the others only that the command is there, and   *)
(* the command is typed into a new session.                                *)
Select(c) ==
  /\ call[c].pc = "trying"
  /\ call[c].left # {}
  /\ Turn(c) \in world.grants
  /\ IF Turn(c) \in NonSecret
       THEN Goto(c, "running") /\ UNCHANGED shell
       ELSE Goto(c, "typed") /\ shell' = [shell EXCEPT ![c] = "started"]
  /\ UNCHANGED <<world, changes, inventory, collecting, preference, ran>>

(* A probe that fails, also by a timeout, passes on to the next provider;  *)
(* so does a user that is not resolved or a session that is not to be had. *)
PassOver(c) ==
  /\ call[c].pc = "trying"
  /\ call[c].left # {}
  /\ Unavailable(c)
  /\ UNCHANGED shell

(* The runner or the upstream client threw, or the probe of direct root    *)
(* timed out.                                                              *)
ProbeThrows(c) ==
  /\ call[c].pc = "trying"
  /\ call[c].left # {}
  /\ Throw(c)
  /\ UNCHANGED shell

(* The target starts the command, if the provider still gives root.        *)
CommandStarts(c) ==
  /\ call[c].pc = "running"
  /\ Turn(c) \in world.grants
  /\ Runs(c, Turn(c))
  /\ UNCHANGED <<world, changes, inventory, collecting, preference, call, shell>>

(* A result of any kind: the command's, that of a provider that refused,   *)
(* or a timeout.                                                           *)
CommandReturns(c) ==
  /\ call[c].pc = "running"
  /\ Succeed(c)
  /\ UNCHANGED shell

(* Mutant: a command whose connection broke is given to the next provider. *)
CommandThrows_NextProvider(c) ==
  /\ call[c].pc = "running"
  /\ Unavailable(c)
  /\ UNCHANGED shell

CommandThrows(c) ==
  /\ call[c].pc = "running"
  /\ Throw(c)
  /\ UNCHANGED shell

-----------------------------------------------------------------------------
(* The interactive providers: interactivePasswordProvider, and the shell   *)
(* on the target that it types into.                                       *)

(* sudo or su, started in the shell.                                       *)
ShellPrompts(c) ==
  /\ shell[c] = "started"
  /\ shell' = [shell EXCEPT ![c] = "prompt"]
  /\ UNCHANGED <<world, changes, inventory, collecting, preference, call, ran>>

(* Without a prompt (sudo may remember an earlier password), or once the   *)
(* password was typed.                                                     *)
ShellRuns(c) ==
  /\ shell[c] = "started" \/ (shell[c] = "prompt" /\ call[c].pc = "secret")
  /\ shell' = [shell EXCEPT ![c] = "running"]
  /\ Runs(c, Turn(c))
  /\ UNCHANGED <<world, changes, inventory, collecting, preference, call>>

(* The outer marker is printed after the command or after a refusal.       *)
ShellEnds(c) ==
  /\ shell[c] \in {"started", "prompt", "running"}
  /\ shell' = [shell EXCEPT ![c] = IF @ = "running" THEN "ended" ELSE "denied"]
  /\ UNCHANGED <<world, changes, inventory, collecting, preference, call, ran>>

Leave(c, result) ==
  /\ call' = [call EXCEPT ![c].pc = "closing", ![c].result = result]
  /\ UNCHANGED <<world, changes, inventory, collecting, preference, shell, ran>>

(* The first wait, at most ten seconds, saw a prompt, or nothing, but the  *)
(* session awaits a password: send_secret has a human answer.              *)
AskSecret(c) ==
  /\ call[c].pc = "typed"
  /\ shell[c] = "prompt"
  /\ Goto(c, "secret")
  /\ UNCHANGED <<world, changes, inventory, collecting, preference, shell, ran>>

(* It saw nothing and the session awaits no password, perhaps because the  *)
(* command runs already: password_prompt_not_confirmed.                    *)
NoPrompt(c) ==
  /\ call[c].pc = "typed"
  /\ shell[c] # "prompt"
  /\ Leave(c, "unavailable")

(* The wait for the end of the command: `${strategy}_timeout.              *)
TimesOut(c) == call[c].pc = "secret" /\ Leave(c, "unavailable")

(* Either wait saw the outer marker, and the output that was collected     *)
(* holds both markers of the wrapper.                                      *)
Extract(c) ==
  /\ call[c].pc \in {"typed", "secret"}
  /\ shell[c] = "ended"
  /\ Leave(c, "ok")

(* `${strategy}_denied, also when the output was cut before the marker.    *)
CannotExtract(c) ==
  /\ call[c].pc \in {"typed", "secret"}
  /\ shell[c] \in {"ended", "denied"}
  /\ Leave(c, "unavailable")

SessionThrows(c) == call[c].pc \in {"typed", "secret"} /\ Leave(c, "error")

(* Mutant: the session is closed only by the returns of the provider.      *)
CloseSession_NoFinally(c) ==
  /\ call[c].pc = "closing"
  /\ \E closed \in {"none", "abandoned"} :
       shell' = [shell EXCEPT ![c] = IF call[c].result = "error" THEN @ ELSE closed]
  /\ CASE call[c].result = "ok" -> Succeed(c)
       [] call[c].result = "unavailable" -> Unavailable(c)
       [] call[c].result = "error" -> Throw(c)

(* The finally: the session is closed, or that fails and is ignored; then  *)
(* the loop of providers goes on.                                          *)
CloseSession(c) ==
  /\ call[c].pc = "closing"
  /\ \E closed \in {"none", "abandoned"} : shell' = [shell EXCEPT ![c] = closed]
  /\ CASE call[c].result = "ok" -> Succeed(c)
       [] call[c].result = "unavailable" -> Unavailable(c)
       [] call[c].result = "error" -> Throw(c)

-----------------------------------------------------------------------------
InventoryStep == Resolve \/ Probe \/ InventoryFails

CallStep(c) ==
  \/ NoProviderLeft(c)
  \/ Select(c)
  \/ PassOver(c)
  \/ ProbeThrows(c)
  \/ CommandReturns(c)
  \/ CommandThrows(c)
  \/ AskSecret(c)
  \/ NoPrompt(c)
  \/ TimesOut(c)
  \/ Extract(c)
  \/ CannotExtract(c)
  \/ SessionThrows(c)
  \/ CloseSession(c)

TargetStep(c) ==
  \/ CommandStarts(c)
  \/ ShellPrompts(c)
  \/ ShellRuns(c)
  \/ ShellEnds(c)

Next ==
  \/ WorldChanges
  \/ InventoryExpires
  \/ PreferenceExpires
  \/ \E refresh \in BOOLEAN : Inspect(refresh)
  \/ InventoryStep
  \/ \E c \in Calls : Execute(c) \/ CallStep(c) \/ TargetStep(c)

Spec == Init /\ [][Next]_vars

-----------------------------------------------------------------------------
(* Properties.                                                             *)

(* A human is asked for a password only after every provider without one   *)
(* that the target was known to have has been tried by this call, whatever *)
(* earlier calls left in the cache of preferences (execute, 96;            *)
(* remoteRootExec, 372).                                                   *)
SecretIsLastResort == 
  \A c \in Calls : call[c].pc = "secret" => call[c].left \cap NonSecret = {}

(* A command that a provider without password has started is not started   *)
(* again under another provider, however its connection ends               *)
(* (remoteRootExec, 372).                                                  *)
NoReplayOfSelected ==
  \A c \in Calls : ran[c] \cap NonSecret # {} => Cardinality(ran[c]) = 1

(* A session with a prompt or a command is open only for a provider that   *)
(* still uses it, however that provider ends, unless the upstream server   *)
(* failed to close it (interactivePasswordProvider, 243).                  *)
NoPromptLeftOpen ==
  \A c \in Calls : shell[c] \notin {"none", "abandoned"} => call[c].pc \in {"typed", "secret", "closing"}
=============================================================================
