--------------------------- MODULE RootAccess_proofs ---------------------------
(***************************************************************************)
(* Proofs about RootAccess for every set of calls, worlds and changes of   *)
(* the target: passwords come last, a command that was started without one *)
(* is not started again, and no prompt is left open.                       *)
(***************************************************************************)
EXTENDS RootAccess, FiniteSetTheorems, TLAPS

CallStates == [pc : {"idle", "inventory", "trying", "running", "typed", "secret", "closing"},
               identity : Maybe(Identities),
               prefers : Maybe(Providers),
               left : SUBSET Providers,
               result : {"none", "ok", "unavailable", "error"}]

Interactive == {"typed", "secret", "closing"}

(* The engine prefers only providers without a password, and so does every *)
(* call.                                                                   *)
PreferenceNeedsNoSecret == preference # NoEntry => preference.strategy \in NonSecret

PrefersFits(c) == call[c].prefers \in NonSecret \cup {NoEntry}

(* What is left to try when a provider is at work, and which kind it is.   *)
TurnFits(c) ==
  /\ call[c].pc \in Interactive => call[c].left # {} /\ call[c].left \cap NonSecret = {}
  /\ call[c].pc = "running" => call[c].left # {} /\ Turn(c) \in NonSecret
  /\ call[c].pc = "closing" => call[c].result # "none"

(* Under which providers the command may have started by now.              *)
RanFits(c) ==
  /\ call[c].pc = "running" => ran[c] \subseteq {Turn(c)}
  /\ call[c].pc # "running" => ran[c] \cap NonSecret = {}
  /\ call[c].pc \in {"idle", "inventory"} => ran[c] = {}
  /\ call[c].pc = "trying" /\ call[c].left \cap NonSecret # {} => ran[c] = {}

ShellFits(c) == call[c].pc \in Interactive \/ shell[c] \in {"none", "abandoned"}

(* A provider is at work for the identity of an inventory.                 *)
IdentityFits(c) == call[c].pc \notin {"idle", "inventory"} => call[c].identity \in Identities

CallInv(c) == PrefersFits(c) /\ IdentityFits(c) /\ TurnFits(c) /\ RanFits(c) /\ ShellFits(c)

ProbesAnIdentity == collecting.phase = "probing" => collecting.identity \in Identities

RootInv == TypeOK /\ PreferenceNeedsNoSecret /\ ProbesAnIdentity /\ \A c \in Calls : CallInv(c)

-----------------------------------------------------------------------------
(* The order of the providers.                                             *)

LEMMA OrderFacts ==
  /\ Len(Order) = 5
  /\ Order[1] = "direct_root" /\ Order[2] = "sudo_nopasswd" /\ Order[3] = "docker_host_root"
  /\ Order[4] = "sudo_password" /\ Order[5] = "su_root_password"
  /\ Providers = {"direct_root", "sudo_nopasswd", "docker_host_root", "sudo_password", "su_root_password"}
<1>1. Len(Order) = 5 /\ DOMAIN Order = 1..5
  BY DEF Order
<1>2. /\ Order[1] = "direct_root" /\ Order[2] = "sudo_nopasswd" /\ Order[3] = "docker_host_root"
      /\ Order[4] = "sudo_password" /\ Order[5] = "su_root_password"
  BY DEF Order
<1>3. 1..5 = {1, 2, 3, 4, 5}
  OBVIOUS
<1>4. Providers = {Order[i] : i \in {1, 2, 3, 4, 5}}
  BY <1>1, <1>3 DEF Providers, ToSet
<1>5. Providers = {Order[1], Order[2], Order[3], Order[4], Order[5]}
  <2> HIDE DEF Order
  <2> QED
    BY <1>4
<1> QED
  BY <1>1, <1>2, <1>5

(* The next provider is one of those left, and one that needs a password   *)
(* only when no other is left.                                             *)
LEMMA FirstOfOrder ==
  ASSUME NEW S \in SUBSET Providers, S # {}
  PROVE  First(S) \in S /\ (First(S) \notin NonSecret => S \cap NonSecret = {})
<1> DEFINE P(i) == Order[i] \in S /\ \A j \in 1..(i - 1) : Order[j] \notin S
           k == CHOOSE i \in 1..Len(Order) : P(i)
<1>1. \E i \in 1..5 : P(i)
  <2>1. CASE Order[1] \in S
    BY <2>1
  <2>2. CASE Order[1] \notin S /\ Order[2] \in S
    <3>1. \A j \in 1..(2 - 1) : j = 1
      OBVIOUS
    <3> QED
      BY <2>2, <3>1
  <2>3. CASE Order[1] \notin S /\ Order[2] \notin S /\ Order[3] \in S
    <3>1. \A j \in 1..(3 - 1) : j = 1 \/ j = 2
      OBVIOUS
    <3> QED
      BY <2>3, <3>1
  <2>4. CASE Order[1] \notin S /\ Order[2] \notin S /\ Order[3] \notin S /\ Order[4] \in S
    <3>1. \A j \in 1..(4 - 1) : j = 1 \/ j = 2 \/ j = 3
      OBVIOUS
    <3> QED
      BY <2>4, <3>1
  <2>5. CASE /\ Order[1] \notin S /\ Order[2] \notin S /\ Order[3] \notin S /\ Order[4] \notin S
             /\ Order[5] \in S
    <3>1. \A j \in 1..(5 - 1) : j = 1 \/ j = 2 \/ j = 3 \/ j = 4
      OBVIOUS
    <3> QED
      BY <2>5, <3>1
  <2> QED
    BY <2>1, <2>2, <2>3, <2>4, <2>5, OrderFacts
<1>2. k \in 1..5 /\ P(k)
  BY <1>1, OrderFacts
<1>3. First(S) = Order[k]
  BY DEF First
<1>4. First(S) \notin NonSecret => k \in {4, 5}
  BY <1>2, <1>3, OrderFacts DEF NonSecret
<1>5. k \in {4, 5} => Order[1] \notin S /\ Order[2] \notin S /\ Order[3] \notin S
  <2>1. \A i \in {4, 5} : 1 \in 1..(i - 1) /\ 2 \in 1..(i - 1) /\ 3 \in 1..(i - 1)
    OBVIOUS
  <2> QED
    BY <1>2, <2>1
<1> HIDE DEF k
<1> QED
  BY <1>2, <1>3, <1>4, <1>5, OrderFacts DEF NonSecret

LEMMA CallType == ASSUME TypeOK, NEW c \in Calls PROVE
  /\ call[c] \in CallStates
  /\ call[c].prefers \in Maybe(Providers)
  /\ call[c].left \in SUBSET Providers
<1>1. call[c] \in CallStates
  BY DEF TypeOK, CallStates
<1> QED
  BY <1>1 DEF CallStates

LEMMA TurnFacts ==
  ASSUME TypeOK, NEW c \in Calls, PrefersFits(c), call[c].left # {}
  PROVE  /\ Turn(c) \in call[c].left
         /\ Turn(c) \in Providers
         /\ Turn(c) \notin NonSecret => call[c].left \cap NonSecret = {}
<1>1. call[c].left \in SUBSET Providers
  BY CallType
<1>2. CASE call[c].prefers \in call[c].left
  BY <1>1, <1>2, RootAssumption DEF Turn, PrefersFits
<1>3. CASE call[c].prefers \notin call[c].left
  BY <1>1, <1>3, FirstOfOrder DEF Turn
<1> QED
  BY <1>2, <1>3

-----------------------------------------------------------------------------
(* Types.                                                                  *)

LEMMA IdleType == Idle \in CallStates
BY DEF Idle, CallStates, Maybe

LEMMA TypeInit == Init => TypeOK
<1>1. [phase |-> "off", refresh |-> FALSE, identity |-> NoEntry]
        \in [phase : {"off", "resolving", "probing"}, refresh : BOOLEAN, identity : Maybe(Identities)]
  BY DEF Maybe
<1> QED
  BY <1>1, IdleType, RootAssumption DEF Init, TypeOK, NotCollecting, CallStates, Maybe

LEMMA StartType ==
  ASSUME TypeOK, NEW c \in Calls, NEW entry \in Entry, NEW p \in Maybe(Providers)
  PROVE  /\ Start(c, entry, p) \in CallStates
         /\ Start(c, entry, p).pc = "trying"
         /\ Start(c, entry, p).left = entry.can
         /\ Start(c, entry, p).prefers = p
         /\ Start(c, entry, p).identity \in Identities
<1>1. entry.identity \in Identities /\ entry.can \in SUBSET Providers
  BY DEF Entry
<1> QED
  BY <1>1, CallType DEF Start, CallStates, Maybe

LEMMA FitsType ==
  ASSUME TypeOK, NEW entry, Fits(entry)
  PROVE  preference \in Preference /\ preference.strategy \in Providers
<1>1. preference \in Preference
  BY DEF TypeOK, Fits, Maybe
<1> QED
  BY <1>1 DEF Preference

(* What the answer of the inventory does to a call.                        *)
LEMMA AnsweredMoves ==
  ASSUME TypeOK, NEW entry \in Entry, Answered(entry)
  PROVE  /\ call' \in [Calls -> CallStates]
         /\ preference' \in {preference, NoEntry}
         /\ collecting' = NotCollecting
         /\ \A c \in Calls : call[c].pc # "inventory" => call'[c] = call[c]
         /\ \A c \in Calls : call[c].pc = "inventory" =>
              /\ call'[c].pc = "trying"
              /\ call'[c].identity \in Identities
              /\ call'[c].prefers = IF Fits(entry) THEN preference.strategy ELSE NoEntry
<1> DEFINE p == IF Fits(entry) THEN preference.strategy ELSE NoEntry
<1>1. p \in Maybe(Providers)
  BY FitsType DEF Maybe
<1> HIDE DEF p
<1>2. \A c \in Calls : /\ Start(c, entry, p) \in CallStates
                       /\ Start(c, entry, p).pc = "trying"
                       /\ Start(c, entry, p).prefers = p
                       /\ Start(c, entry, p).identity \in Identities
  BY <1>1, StartType
<1>3. call' = [c \in Calls |-> IF call[c].pc # "inventory" THEN call[c] ELSE Start(c, entry, p)]
  BY DEF Answered, p
<1>4. \A c \in Calls : call[c] \in CallStates
  BY CallType
<1>5. call' \in [Calls -> CallStates]
  BY <1>2, <1>3, <1>4
<1> QED
  BY <1>2, <1>3, <1>5 DEF Answered, p

(* The calls and their types when one of them moves.                       *)
LEMMA CallUpdate ==
  ASSUME TypeOK, NEW c \in Calls, NEW s \in CallStates, call' = [call EXCEPT ![c] = s]
  PROVE  /\ call' \in [Calls -> CallStates]
         /\ call'[c] = s
         /\ \A d \in Calls \ {c} : call'[d] = call[d]
BY DEF TypeOK, CallStates

LEMMA CallGoesTo ==
  ASSUME TypeOK, NEW c \in Calls,
         NEW pc \in {"idle", "inventory", "trying", "running", "typed", "secret", "closing"},
         Goto(c, pc)
  PROVE  /\ call' \in [Calls -> CallStates]
         /\ call'[c].pc = pc /\ call'[c].left = call[c].left /\ call'[c].prefers = call[c].prefers
         /\ call'[c].identity = call[c].identity
         /\ \A d \in Calls \ {c} : call'[d] = call[d]
<1> DEFINE s == [call[c] EXCEPT !.pc = pc]
<1>1. s \in CallStates /\ s.pc = pc /\ s.left = call[c].left /\ s.prefers = call[c].prefers
      /\ s.identity = call[c].identity
  BY CallType DEF CallStates
<1>2. call' = [call EXCEPT ![c] = s]
  BY DEF Goto
<1> HIDE DEF s
<1> QED
  BY <1>1, <1>2, CallUpdate

LEMMA LeaveMoves ==
  ASSUME TypeOK, NEW c \in Calls, NEW result \in {"ok", "unavailable", "error"}, Leave(c, result)
  PROVE  /\ call' \in [Calls -> CallStates]
         /\ call'[c].result # "none"
         /\ call'[c].pc = "closing" /\ call'[c].left = call[c].left /\ call'[c].prefers = call[c].prefers
         /\ call'[c].identity = call[c].identity
         /\ \A d \in Calls \ {c} : call'[d] = call[d]
<1> DEFINE s == [call[c] EXCEPT !.pc = "closing", !.result = result]
<1>1. s \in CallStates /\ s.pc = "closing" /\ s.result # "none" /\ s.left = call[c].left /\ s.prefers = call[c].prefers
      /\ s.identity = call[c].identity
  BY CallType DEF CallStates
<1>2. call' = [call EXCEPT ![c] = s]
  BY DEF Leave
<1> HIDE DEF s
<1> QED
  BY <1>1, <1>2, CallUpdate

LEMMA UnavailableMoves ==
  ASSUME TypeOK, NEW c \in Calls, Unavailable(c)
  PROVE  /\ call' \in [Calls -> CallStates]
         /\ call'[c].pc = "trying" /\ call'[c].left = call[c].left \ {Turn(c)}
         /\ call'[c].prefers = call[c].prefers
         /\ call'[c].identity = call[c].identity
         /\ \A d \in Calls \ {c} : call'[d] = call[d]
<1> DEFINE left == call[c].left \ {Turn(c)}
           s == [call[c] EXCEPT !.pc = "trying", !.left = left, !.result = "none"]
<1>1. left \in SUBSET Providers
  BY CallType
<1>2. call' = [call EXCEPT ![c] = s]
  BY DEF Unavailable
<1> HIDE DEF left
<1>3. s \in CallStates /\ s.pc = "trying" /\ s.left = left /\ s.prefers = call[c].prefers
      /\ s.identity = call[c].identity
  BY <1>1, CallType DEF CallStates
<1> HIDE DEF s
<1> QED
  BY <1>2, <1>3, CallUpdate DEF left

LEMMA DoneMoves ==
  ASSUME TypeOK, NEW c \in Calls, Done(c)
  PROVE  /\ call' \in [Calls -> CallStates]
         /\ call'[c] = Idle /\ ran'[c] = {}
         /\ ran' \in [Calls -> SUBSET Providers]
         /\ \A d \in Calls \ {c} : call'[d] = call[d] /\ ran'[d] = ran[d]
<1>1. ran \in [Calls -> SUBSET Providers]
  BY DEF TypeOK
<1> QED
  BY <1>1, IdleType, CallUpdate DEF Done

-----------------------------------------------------------------------------
(* The invariant.                                                          *)

LEMMA SameCall ==
  ASSUME NEW d, CallInv(d), call'[d] = call[d], ran'[d] = ran[d], shell'[d] = shell[d]
  PROVE  CallInv(d)'
BY DEF CallInv, PrefersFits, IdentityFits, TurnFits, RanFits, ShellFits, Turn

LEMMA IdleCall ==
  ASSUME NEW c, call'[c] = Idle, ran'[c] = {}, shell'[c] \in {"none", "abandoned"}
  PROVE  CallInv(c)'
BY DEF CallInv, PrefersFits, IdentityFits, TurnFits, RanFits, ShellFits, Idle, Interactive

(* The parts of TypeOK that the steps of the calls change.                 *)
CallsTypeOK ==
  /\ preference \in Maybe(Preference)
  /\ call \in [Calls -> CallStates]
  /\ shell \in [Calls -> {"none", "started", "prompt", "running", "ended", "denied", "abandoned"}]
  /\ ran \in [Calls -> SUBSET Providers]

LEMMA CallsType ==
  ASSUME TypeOK, CallsTypeOK', UNCHANGED <<world, changes, inventory, collecting>>
  PROVE  TypeOK'
BY DEF TypeOK, CallsTypeOK, CallStates

(* Throw and Succeed, with a session that is gone.                         *)
LEMMA EndsInv ==
  ASSUME RootInv, NEW c \in Calls, Throw(c) \/ (Succeed(c) /\ call[c].left # {}),
         shell' \in [Calls -> {"none", "started", "prompt", "running", "ended", "denied", "abandoned"}],
         shell'[c] \in {"none", "abandoned"}, \A d \in Calls \ {c} : shell'[d] = shell[d],
         call[c].pc \notin {"idle", "inventory"}
  PROVE  RootInv'
<1>0. TypeOK /\ CallInv(c)
  BY DEF RootInv
<1>1. Done(c) /\ UNCHANGED <<world, changes, inventory, collecting>>
  BY DEF Throw, Succeed
<1>2. preference' \in Maybe(Preference) /\ PreferenceNeedsNoSecret'
  <2>1. CASE Throw(c)
    BY <2>1 DEF Throw, Maybe, PreferenceNeedsNoSecret
  <2>2. CASE Succeed(c) /\ call[c].left # {}
    <3>1. Turn(c) \in Providers /\ call[c].identity \in Identities
      <4>1. Turn(c) \in Providers
        BY <1>0, <2>2, TurnFacts DEF CallInv
      <4> QED
        BY <1>0, <4>1 DEF CallInv, IdentityFits
    <3>2. CASE Turn(c) \in NonSecret
      <4>1. preference' = [strategy |-> Turn(c), identity |-> call[c].identity]
        BY <2>2, <3>2 DEF Succeed
      <4> QED
        BY <3>1, <3>2, <4>1 DEF PreferenceNeedsNoSecret, Preference, Maybe
    <3>3. CASE Turn(c) \notin NonSecret
      BY <2>2, <3>3 DEF Succeed, Maybe, PreferenceNeedsNoSecret
    <3> QED
      BY <3>2, <3>3
  <2> QED
    BY <2>1, <2>2
<1>3. CallsTypeOK'
  BY <1>0, <1>1, <1>2, DoneMoves DEF CallsTypeOK
<1>4. \A d \in Calls : CallInv(d)'
  BY <1>0, <1>1, DoneMoves, IdleCall, SameCall DEF RootInv
<1> QED
  BY <1>0, <1>1, <1>2, <1>3, <1>4, CallsType DEF RootInv, ProbesAnIdentity

(* A provider passes on, with a session that is gone.                      *)
LEMMA UnavailableInv ==
  ASSUME RootInv, NEW c \in Calls, Unavailable(c),
         (call[c].pc = "trying" /\ call[c].left # {}) \/ call[c].pc \in Interactive,
         shell' \in [Calls -> {"none", "started", "prompt", "running", "ended", "denied", "abandoned"}],
         shell'[c] \in {"none", "abandoned"}, \A d \in Calls \ {c} : shell'[d] = shell[d]
  PROVE  RootInv'
<1>0. TypeOK /\ CallInv(c)
  BY DEF RootInv
<1>1. /\ call' \in [Calls -> CallStates]
      /\ call'[c].pc = "trying" /\ call'[c].left = call[c].left \ {Turn(c)}
      /\ call'[c].prefers = call[c].prefers /\ call'[c].identity = call[c].identity
      /\ \A d \in Calls \ {c} : call'[d] = call[d]
  BY <1>0, UnavailableMoves
<1>2. UNCHANGED <<world, changes, inventory, collecting, preference, ran>>
  BY DEF Unavailable
<1>3. CallsTypeOK'
  BY <1>0, <1>1, <1>2 DEF CallsTypeOK, TypeOK
<1>4. CallInv(c)'
  <2>1. PrefersFits(c)' /\ TurnFits(c)' /\ ShellFits(c)' /\ IdentityFits(c)'
    BY <1>0, <1>1 DEF CallInv, PrefersFits, TurnFits, ShellFits, IdentityFits, Interactive
  <2>2. RanFits(c)'
    <3>1. CASE call[c].pc = "trying"
      BY <1>0, <1>1, <1>2, <3>1 DEF CallInv, RanFits
    <3>2. CASE call[c].pc \in Interactive
      BY <1>0, <1>1, <1>2, <3>2 DEF CallInv, RanFits, TurnFits, Interactive
    <3> QED
      BY <3>1, <3>2
  <2> QED
    BY <2>1, <2>2 DEF CallInv
<1>5. \A d \in Calls \ {c} : CallInv(d)'
  BY <1>1, <1>2, SameCall DEF RootInv
<1> QED
  BY <1>0, <1>2, <1>3, <1>4, <1>5, CallsType DEF RootInv, PreferenceNeedsNoSecret, ProbesAnIdentity

(* A call goes from one interactive step to the next.                      *)
LEMMA InteractiveInv ==
  ASSUME RootInv, NEW c \in Calls,
         call[c].pc \in Interactive, call'[c].pc \in Interactive,
         call' \in [Calls -> CallStates], call'[c].left = call[c].left,
         call'[c].prefers = call[c].prefers, call'[c].identity = call[c].identity,
         call'[c].pc = "closing" => call'[c].result # "none",
         \A d \in Calls \ {c} : call'[d] = call[d],
         UNCHANGED <<world, changes, inventory, collecting, preference, shell, ran>>
  PROVE  RootInv'
<1>0. TypeOK /\ CallInv(c)
  BY DEF RootInv
<1>1. CallsTypeOK'
  BY <1>0 DEF CallsTypeOK, TypeOK
<1>2. CallInv(c)'
  BY <1>0 DEF CallInv, PrefersFits, IdentityFits, TurnFits, RanFits, ShellFits, Interactive
<1>3. \A d \in Calls \ {c} : CallInv(d)'
  BY SameCall DEF RootInv
<1> QED
  BY <1>0, <1>1, <1>2, <1>3, CallsType DEF RootInv, PreferenceNeedsNoSecret, ProbesAnIdentity

LEMMA SelectInv == ASSUME RootInv, NEW c \in Calls, Select(c) PROVE RootInv'
<1>0. TypeOK /\ CallInv(c)
  BY DEF RootInv
<1>1. /\ call[c].pc = "trying" /\ call[c].left # {}
      /\ UNCHANGED <<world, changes, inventory, collecting, preference, ran>>
  BY DEF Select
<1>2. Turn(c) \in call[c].left /\ (Turn(c) \notin NonSecret => call[c].left \cap NonSecret = {})
  BY <1>0, <1>1, TurnFacts DEF CallInv
<1>3. shell \in [Calls -> {"none", "started", "prompt", "running", "ended", "denied", "abandoned"}]
  BY <1>0 DEF TypeOK
<1>4. CASE Turn(c) \in NonSecret
  <2>1. /\ call' \in [Calls -> CallStates]
        /\ call'[c].pc = "running" /\ call'[c].left = call[c].left
        /\ call'[c].prefers = call[c].prefers /\ call'[c].identity = call[c].identity
        /\ \A d \in Calls \ {c} : call'[d] = call[d]
    BY <1>0, <1>4, CallGoesTo DEF Select
  <2>2. shell' = shell
    BY <1>4 DEF Select
  <2>3. Turn(c)' = Turn(c) /\ ran[c] = {}
    BY <1>0, <1>1, <1>2, <1>4, <2>1 DEF Turn, CallInv, RanFits
  <2>4. CallInv(c)'
    BY <1>0, <1>1, <1>4, <2>1, <2>2, <2>3
       DEF CallInv, PrefersFits, IdentityFits, TurnFits, RanFits, ShellFits, Interactive
  <2>5. CallsTypeOK' /\ \A d \in Calls \ {c} : CallInv(d)'
    BY <1>0, <1>1, <2>1, <2>2, SameCall DEF RootInv, CallsTypeOK, TypeOK
  <2> QED
    BY <1>0, <1>1, <2>4, <2>5, CallsType DEF RootInv, PreferenceNeedsNoSecret, ProbesAnIdentity
<1>5. CASE Turn(c) \notin NonSecret
  <2>1. /\ call' \in [Calls -> CallStates]
        /\ call'[c].pc = "typed" /\ call'[c].left = call[c].left
        /\ call'[c].prefers = call[c].prefers /\ call'[c].identity = call[c].identity
        /\ \A d \in Calls \ {c} : call'[d] = call[d]
    BY <1>0, <1>5, CallGoesTo DEF Select
  <2>2. shell' = [shell EXCEPT ![c] = "started"]
    BY <1>5 DEF Select
  <2>3. CallInv(c)'
    BY <1>0, <1>1, <1>2, <1>5, <2>1
       DEF CallInv, PrefersFits, IdentityFits, TurnFits, RanFits, ShellFits, Interactive
  <2>4. CallsTypeOK' /\ \A d \in Calls \ {c} : CallInv(d)'
    BY <1>0, <1>1, <1>3, <2>1, <2>2, SameCall DEF RootInv, CallsTypeOK, TypeOK
  <2> QED
    BY <1>0, <1>1, <2>3, <2>4, CallsType DEF RootInv, PreferenceNeedsNoSecret, ProbesAnIdentity
<1> QED
  BY <1>4, <1>5

(* The command starts on the target, or its shell moves.                   *)
LEMMA TargetInv ==
  ASSUME RootInv, NEW c \in Calls, UNCHANGED <<world, changes, inventory, collecting, preference, call>>,
         shell' \in [Calls -> {"none", "started", "prompt", "running", "ended", "denied", "abandoned"}],
         \A d \in Calls \ {c} : shell'[d] = shell[d],
         shell'[c] = shell[c] \/ call[c].pc \in Interactive,
         \/ UNCHANGED ran
         \/ Runs(c, Turn(c)) /\ call[c].pc \in Interactive \cup {"running"}
  PROVE  RootInv'
<1>0. TypeOK /\ CallInv(c) /\ ran \in [Calls -> SUBSET Providers]
  BY DEF RootInv, TypeOK
<1>1. CASE UNCHANGED ran
  <2>1. CallsTypeOK'
    BY <1>0, <1>1 DEF CallsTypeOK, TypeOK, CallStates
  <2>2. CallInv(c)'
    BY <1>0, <1>1 DEF CallInv, PrefersFits, IdentityFits, TurnFits, RanFits, ShellFits, Turn
  <2>3. \A d \in Calls \ {c} : CallInv(d)'
    BY <1>1, SameCall DEF RootInv
  <2> QED
    BY <1>0, <2>1, <2>2, <2>3, CallsType DEF RootInv, PreferenceNeedsNoSecret, ProbesAnIdentity
<1>2. CASE Runs(c, Turn(c)) /\ call[c].pc \in Interactive \cup {"running"}
  <2>1. call[c].left # {}
    BY <1>0, <1>2 DEF CallInv, TurnFits
  <2>2. Turn(c) \in Providers /\ Turn(c) \in call[c].left
    BY <1>0, <2>1, TurnFacts DEF CallInv
  <2>3. /\ ran' \in [Calls -> SUBSET Providers]
        /\ ran'[c] = ran[c] \cup {Turn(c)}
        /\ \A d \in Calls \ {c} : ran'[d] = ran[d]
    BY <1>0, <1>2, <2>2 DEF Runs
  <2>4. CallsTypeOK'
    BY <1>0, <2>3 DEF CallsTypeOK, TypeOK, CallStates
  <2>5. RanFits(c)'
    <3>1. Turn(c)' = Turn(c)
      BY DEF Turn
    <3>2. CASE call[c].pc = "running"
      BY <1>0, <2>3, <3>1, <3>2 DEF CallInv, RanFits
    <3>3. CASE call[c].pc \in Interactive
      BY <1>0, <2>2, <2>3, <3>3 DEF CallInv, RanFits, TurnFits, Interactive
    <3> QED
      BY <1>2, <3>2, <3>3
  <2>6. CallInv(c)'
    BY <1>0, <2>5 DEF CallInv, PrefersFits, IdentityFits, TurnFits, ShellFits, Turn
  <2>7. \A d \in Calls \ {c} : CallInv(d)'
    BY <2>3, SameCall DEF RootInv
  <2> QED
    BY <1>0, <2>4, <2>6, <2>7, CallsType DEF RootInv, PreferenceNeedsNoSecret, ProbesAnIdentity
<1> QED
  BY <1>1, <1>2

Collectings == [phase : {"off", "resolving", "probing"}, refresh : BOOLEAN, identity : Maybe(Identities)]

LEMMA NotCollectingType == NotCollecting \in Collectings
BY DEF NotCollecting, Collectings, Maybe

LEMMA GetType == ASSUME TypeOK, NEW refresh \in BOOLEAN, Get(refresh) PROVE
  collecting' \in Collectings /\ (collecting'.phase = "probing" => collecting' = collecting)
<1>1. [phase |-> "resolving", refresh |-> refresh, identity |-> NoEntry] \in Collectings
  BY DEF Collectings, Maybe
<1> QED
  BY <1>1 DEF Get, TypeOK, Collectings

(* Everyone who waited goes on, with the preference or without it.         *)
LEMMA AnsweredInv ==
  ASSUME RootInv, NEW entry \in Entry, Answered(entry), inventory' \in Maybe(Entry),
         UNCHANGED <<world, changes, shell, ran>>
  PROVE  RootInv'
<1>0. TypeOK
  BY DEF RootInv
<1>1. /\ call' \in [Calls -> CallStates]
      /\ preference' \in {preference, NoEntry}
      /\ collecting' = NotCollecting
      /\ \A c \in Calls : call[c].pc # "inventory" => call'[c] = call[c]
      /\ \A c \in Calls : call[c].pc = "inventory" =>
           /\ call'[c].pc = "trying"
           /\ call'[c].identity \in Identities
           /\ call'[c].prefers = IF Fits(entry) THEN preference.strategy ELSE NoEntry
  BY <1>0, AnsweredMoves
<1>2. TypeOK'
  <2>1. collecting' \in Collectings
    BY <1>1, NotCollectingType
  <2>2. preference' \in Maybe(Preference)
    BY <1>0, <1>1 DEF TypeOK, Maybe
  <2> QED
    BY <1>0, <1>1, <2>1, <2>2 DEF TypeOK, CallStates, Collectings
<1>3. PreferenceNeedsNoSecret'
  BY <1>1 DEF RootInv, PreferenceNeedsNoSecret, ProbesAnIdentity
<1>4. ASSUME NEW c \in Calls PROVE CallInv(c)'
  <2>1. CASE call[c].pc # "inventory"
    BY <1>1, <1>4, <2>1, SameCall DEF RootInv
  <2>2. CASE call[c].pc = "inventory"
    <3>1. call'[c].prefers \in NonSecret \cup {NoEntry}
      BY <1>1, <1>4, <2>2 DEF RootInv, PreferenceNeedsNoSecret, ProbesAnIdentity, Fits
    <3>2. CallInv(c)
      BY <1>4 DEF RootInv
    <3> QED
      BY <1>1, <1>4, <2>2, <3>1, <3>2
         DEF CallInv, PrefersFits, IdentityFits, TurnFits, RanFits, ShellFits, Interactive
  <2> QED
    BY <2>1, <2>2
<1>5. ProbesAnIdentity'
  BY <1>1 DEF NotCollecting, ProbesAnIdentity
<1> QED
  BY <1>2, <1>3, <1>4, <1>5 DEF RootInv

LEMMA InventoryFailsInv == ASSUME RootInv, InventoryFails PROVE RootInv'
<1>0. TypeOK
  BY DEF RootInv
<1>1. \A c \in Calls : call'[c] = IF call[c].pc = "inventory" THEN Idle ELSE call[c]
  BY DEF InventoryFails
<1>2. TypeOK'
  <2>1. \A c \in Calls : call[c] \in CallStates
    BY <1>0, CallType
  <2>2. call' \in [Calls -> CallStates]
    BY <2>1, IdleType DEF InventoryFails
  <2>3. collecting' \in Collectings
    BY NotCollectingType DEF InventoryFails
  <2> QED
    BY <1>0, <2>2, <2>3 DEF InventoryFails, TypeOK, CallStates, Collectings
<1>3. ASSUME NEW c \in Calls PROVE CallInv(c)'
  <2>0. CallInv(c)
    BY <1>3 DEF RootInv
  <2>1. UNCHANGED <<ran, shell>>
    BY DEF InventoryFails
  <2>2. CASE call[c].pc = "inventory"
    <3>1. call'[c] = Idle /\ ran'[c] = {} /\ shell'[c] \in {"none", "abandoned"}
      BY <1>1, <1>3, <2>0, <2>1, <2>2 DEF CallInv, RanFits, ShellFits, Interactive
    <3> QED
      BY <3>1, IdleCall
  <2>3. CASE call[c].pc # "inventory"
    BY <1>1, <1>3, <2>0, <2>1, <2>3, SameCall
  <2> QED
    BY <2>2, <2>3
<1> QED
  BY <1>2, <1>3
     DEF RootInv, InventoryFails, PreferenceNeedsNoSecret, ProbesAnIdentity, NotCollecting

LEMMA ExecuteInv == ASSUME RootInv, NEW c \in Calls, Execute(c) PROVE RootInv'
<1>0. TypeOK /\ CallInv(c)
  BY DEF RootInv
<1>1. /\ call' \in [Calls -> CallStates]
      /\ call'[c].pc = "inventory" /\ call'[c].left = call[c].left
      /\ call'[c].prefers = call[c].prefers
      /\ \A d \in Calls \ {c} : call'[d] = call[d]
  <2>1. Goto(c, "inventory")
    BY DEF Execute, Goto
  <2> QED
    BY <1>0, <2>1, CallGoesTo
<1>2. collecting' \in Collectings
  BY <1>0, GetType DEF Execute
<1>7. ProbesAnIdentity'
  BY <1>0, GetType DEF Execute, RootInv, ProbesAnIdentity
<1>3. /\ call[c].pc = "idle"
      /\ UNCHANGED <<world, changes, inventory, preference, shell, ran>>
  BY DEF Execute
<1>4. TypeOK'
  BY <1>0, <1>1, <1>2, <1>3 DEF TypeOK, CallStates, Collectings
<1>5. CallInv(c)'
  BY <1>0, <1>1, <1>3
     DEF CallInv, PrefersFits, IdentityFits, TurnFits, RanFits, ShellFits, Interactive
<1>6. \A d \in Calls \ {c} : CallInv(d)'
  BY <1>1, <1>3, SameCall DEF RootInv
<1> QED
  BY <1>3, <1>4, <1>5, <1>6, <1>7 DEF RootInv, PreferenceNeedsNoSecret

(* A step that leaves the calls and what they started alone.               *)
LEMMA CallsAlone ==
  ASSUME RootInv, TypeOK', UNCHANGED <<call, shell, ran>>, preference' \in {preference, NoEntry},
         ProbesAnIdentity'
  PROVE  RootInv'
BY SameCall DEF RootInv, PreferenceNeedsNoSecret

LEMMA InventoryInv == ASSUME RootInv, InventoryStep PROVE RootInv'
<1>0. TypeOK
  BY DEF RootInv
<1>1. CASE Resolve
  <2>1. CASE Answered(inventory) /\ inventory # NoEntry
    <3>1. inventory \in Entry
      BY <1>0, <2>1 DEF TypeOK, Maybe
    <3> QED
      BY <1>0, <1>1, <2>1, <3>1, AnsweredInv DEF Resolve, TypeOK
  <2>2. CASE /\ collecting' = [collecting EXCEPT !.phase = "probing", !.identity = world.identity]
             /\ UNCHANGED <<preference, call>>
    <3>1. world.identity \in Identities /\ Identities \subseteq Maybe(Identities) /\ collecting \in Collectings
      BY <1>0 DEF TypeOK, Identities, Maybe, Collectings
    <3>2. collecting' \in Collectings /\ collecting'.identity \in Identities
      BY <2>2, <3>1 DEF Collectings
    <3>3. TypeOK'
      BY <1>0, <1>1, <2>2, <3>2 DEF Resolve, TypeOK, Collectings
    <3> QED
      BY <1>1, <2>2, <3>2, <3>3, CallsAlone DEF Resolve, ProbesAnIdentity
  <2> QED
    BY <1>1, <2>1, <2>2 DEF Resolve
<1>2. CASE Probe
  <2> DEFINE entry == [identity |-> collecting.identity, can |-> world.grants]
  <2>1. entry \in Entry
    BY <1>0, <1>2, RootAssumption DEF Probe, RootInv, ProbesAnIdentity, Entry, TypeOK
  <2> QED
    BY <1>2, <2>1, AnsweredInv DEF Probe, Maybe
<1>3. CASE InventoryFails
  BY <1>3, InventoryFailsInv
<1> QED
  BY <1>1, <1>2, <1>3 DEF InventoryStep

LEMMA RootInit == Init => RootInv
<1> SUFFICES ASSUME Init PROVE RootInv
  OBVIOUS
<1>1. /\ preference = NoEntry /\ collecting = NotCollecting
      /\ \A c \in Calls : call[c] = Idle /\ shell[c] = "none" /\ ran[c] = {}
  BY DEF Init
<1>2. \A c \in Calls : CallInv(c)
  BY <1>1 DEF CallInv, PrefersFits, IdentityFits, TurnFits, RanFits, ShellFits, Interactive, Idle
<1> QED
  BY <1>1, <1>2, TypeInit
     DEF RootInv, PreferenceNeedsNoSecret, ProbesAnIdentity, NotCollecting

LEMMA RootNext == RootInv /\ [Next]_vars => RootInv'
<1> SUFFICES ASSUME RootInv, [Next]_vars PROVE RootInv'
  OBVIOUS
<1>0. TypeOK /\ \A c \in Calls : CallInv(c)
  BY DEF RootInv
<1>1. ASSUME NEW c \in Calls, CallStep(c) PROVE RootInv'
  <2>0. shell \in [Calls -> {"none", "started", "prompt", "running", "ended", "denied", "abandoned"}]
        /\ CallInv(c)
    BY <1>0 DEF TypeOK
  <2>1. CASE NoProviderLeft(c) \/ ProbeThrows(c) \/ CommandThrows(c)
    <3>1. Throw(c) /\ UNCHANGED shell /\ call[c].pc \in {"trying", "running"}
      BY <2>1 DEF NoProviderLeft, ProbeThrows, CommandThrows
    <3>2. shell[c] \in {"none", "abandoned"}
      BY <2>0, <3>1 DEF CallInv, ShellFits, Interactive
    <3> QED
      BY <2>0, <3>1, <3>2, EndsInv
  <2>2. CASE Select(c)
    BY <2>2, SelectInv
  <2>3. CASE PassOver(c)
    <3>1. shell[c] \in {"none", "abandoned"}
      BY <2>0, <2>3 DEF CallInv, ShellFits, Interactive, PassOver
    <3> QED
      BY <2>0, <2>3, <3>1, UnavailableInv DEF PassOver
  <2>4. CASE CommandReturns(c)
    <3>1. shell[c] \in {"none", "abandoned"} /\ call[c].left # {} /\ call[c].pc = "running"
      BY <2>0, <2>4 DEF CallInv, ShellFits, TurnFits, Interactive, CommandReturns
    <3> QED
      BY <2>0, <2>4, <3>1, EndsInv DEF CommandReturns
  <2>5. CASE AskSecret(c)
    <3>1. Goto(c, "secret") /\ call[c].pc = "typed"
      BY <2>5 DEF AskSecret
    <3>2. /\ call' \in [Calls -> CallStates]
          /\ call'[c].pc = "secret" /\ call'[c].left = call[c].left
          /\ call'[c].prefers = call[c].prefers /\ call'[c].identity = call[c].identity
          /\ \A d \in Calls \ {c} : call'[d] = call[d]
      BY <1>0, <3>1, CallGoesTo
    <3> QED
      BY <2>5, <3>1, <3>2, InteractiveInv DEF AskSecret, Interactive
  <2>6. CASE NoPrompt(c) \/ TimesOut(c) \/ Extract(c) \/ CannotExtract(c) \/ SessionThrows(c)
    <3>1. PICK result \in {"ok", "unavailable", "error"} : Leave(c, result)
      BY <2>6 DEF NoPrompt, TimesOut, Extract, CannotExtract, SessionThrows
    <3>2. call[c].pc \in {"typed", "secret"}
      BY <2>6 DEF NoPrompt, TimesOut, Extract, CannotExtract, SessionThrows
    <3>3. /\ call' \in [Calls -> CallStates]
          /\ call'[c].result # "none"
          /\ call'[c].pc = "closing" /\ call'[c].left = call[c].left
          /\ call'[c].prefers = call[c].prefers /\ call'[c].identity = call[c].identity
          /\ \A d \in Calls \ {c} : call'[d] = call[d]
      BY <1>0, <3>1, LeaveMoves
    <3> QED
      BY <3>1, <3>2, <3>3, InteractiveInv DEF Leave, Interactive
  <2>7. CASE CloseSession(c)
    <3>1. call[c].pc = "closing" /\ call[c].left # {}
      BY <2>0, <2>7 DEF CloseSession, CallInv, TurnFits, Interactive
    <3>2. PICK closed \in {"none", "abandoned"} : shell' = [shell EXCEPT ![c] = closed]
      BY <2>7 DEF CloseSession
    <3>3. /\ shell' \in [Calls -> {"none", "started", "prompt", "running", "ended", "denied", "abandoned"}]
          /\ shell'[c] \in {"none", "abandoned"}
          /\ \A d \in Calls \ {c} : shell'[d] = shell[d]
      BY <2>0, <3>2
    <3>4. Succeed(c) \/ Unavailable(c) \/ Throw(c)
      <4>1. call[c] \in CallStates
        BY <1>0, CallType
      <4>2. call[c].result \in {"ok", "unavailable", "error"}
        BY <2>0, <3>1, <4>1 DEF CallStates, CallInv, TurnFits
      <4> QED
        BY <2>7, <4>2 DEF CloseSession
    <3> QED
      BY <3>1, <3>3, <3>4, EndsInv, UnavailableInv DEF Interactive
  <2> QED
    BY <1>1, <2>1, <2>2, <2>3, <2>4, <2>5, <2>6, <2>7 DEF CallStep
<1>2. ASSUME NEW c \in Calls, TargetStep(c) PROVE RootInv'
  <2>0. shell \in [Calls -> {"none", "started", "prompt", "running", "ended", "denied", "abandoned"}]
        /\ CallInv(c)
    BY <1>0 DEF TypeOK
  <2>1. CASE CommandStarts(c)
    BY <2>0, <2>1, TargetInv DEF CommandStarts
  <2>2. CASE ShellPrompts(c) \/ ShellRuns(c) \/ ShellEnds(c)
    <3>1. call[c].pc \in Interactive
      BY <2>0, <2>2 DEF CallInv, ShellFits, ShellPrompts, ShellRuns, ShellEnds
    <3>2. /\ shell' \in [Calls -> {"none", "started", "prompt", "running", "ended", "denied", "abandoned"}]
          /\ \A d \in Calls \ {c} : shell'[d] = shell[d]
      BY <2>0, <2>2 DEF ShellPrompts, ShellRuns, ShellEnds
    <3> QED
      BY <2>2, <3>1, <3>2, TargetInv DEF ShellPrompts, ShellRuns, ShellEnds
  <2> QED
    BY <1>2, <2>1, <2>2 DEF TargetStep
<1>3. CASE InventoryStep
  BY <1>3, InventoryInv
<1>4. ASSUME NEW c \in Calls, Execute(c) PROVE RootInv'
  BY <1>4, ExecuteInv
<1>5. CASE WorldChanges
  <2>1. TypeOK'
    BY <1>0, <1>5, RootAssumption DEF WorldChanges, TypeOK
  <2> QED
    BY <1>5, <2>1, CallsAlone DEF WorldChanges, RootInv, ProbesAnIdentity
<1>6. CASE InventoryExpires
  BY <1>0, <1>6, CallsAlone DEF InventoryExpires, RootInv, ProbesAnIdentity, TypeOK, Maybe
<1>7. CASE PreferenceExpires
  BY <1>0, <1>7, CallsAlone DEF PreferenceExpires, RootInv, ProbesAnIdentity, TypeOK, Maybe
<1>8. ASSUME NEW refresh \in BOOLEAN, Inspect(refresh) PROVE RootInv'
  <2>1. TypeOK' /\ ProbesAnIdentity'
    BY <1>0, <1>8, GetType DEF Inspect, TypeOK, Collectings, RootInv, ProbesAnIdentity
  <2> QED
    BY <1>8, <2>1, CallsAlone DEF Inspect
<1>9. CASE UNCHANGED vars
  BY <1>0, <1>9, CallsAlone DEF vars, RootInv, ProbesAnIdentity, TypeOK
<1> QED
  BY <1>1, <1>2, <1>3, <1>4, <1>5, <1>6, <1>7, <1>8, <1>9 DEF Next

(* Types, what a provider at work has left to try, and under which         *)
(* providers its command may have started, in every reachable state.       *)
THEOREM RootInvariant == Spec => []RootInv
BY RootInit, RootNext, PTL DEF Spec

(* A password is asked for only after every provider without one has been  *)
(* tried, whatever the caches held.                                        *)
THEOREM SecretComesLast == Spec => []SecretIsLastResort
<1>1. RootInv => SecretIsLastResort
  BY DEF RootInv, CallInv, TurnFits, Interactive, SecretIsLastResort
<1> QED
  BY <1>1, RootInvariant, PTL

(* A command that a provider without password has started starts under no  *)
(* other one.                                                              *)
THEOREM SelectedIsNotReplayed == Spec => []NoReplayOfSelected
<1>1. ASSUME RootInv, NEW c \in Calls, ran[c] \cap NonSecret # {} PROVE Cardinality(ran[c]) = 1
  <2>1. ran[c] \subseteq {Turn(c)}
    BY <1>1 DEF RootInv, CallInv, RanFits
  <2>2. ran[c] = {Turn(c)}
    BY <1>1, <2>1
  <2> QED
    BY <2>2, FS_Singleton
<1>2. RootInv => NoReplayOfSelected
  BY <1>1 DEF NoReplayOfSelected
<1> QED
  BY <1>2, RootInvariant, PTL

(* No prompt or command is left in a session that its provider does not    *)
(* use any more, unless closing the session failed.                        *)
THEOREM PromptsAreClosed == Spec => []NoPromptLeftOpen
<1>1. RootInv => NoPromptLeftOpen
  BY DEF RootInv, CallInv, ShellFits, Interactive, NoPromptLeftOpen
<1> QED
  BY <1>1, RootInvariant, PTL
=============================================================================
