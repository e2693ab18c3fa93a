----------------------- MODULE SessionRegistry_proofs ------------------------
(***************************************************************************)
(* Proofs about SessionRegistry for every number of concurrent calls,      *)
(* names, targets, sessions and handles, with crashes, failures, broken    *)
(* connections and dying sessions.                                         *)
(***************************************************************************)
EXTENDS SessionRegistry, TLAPS

-----------------------------------------------------------------------------
(* How one call changes, and what its new value must satisfy.              *)
Fits(k) ==
  /\ k \in Call
  /\ k.pc # "idle" => k.name \in Names
  /\ k.pc \in EnsureLabels => k.target \in Targets
  /\ k.pc = "identify" => ~ReportsRemoteId
  /\ k.pc \notin {"idle", "read", "list", "create", "findDetach", "findClose"} =>
       k.entry # NoEntry
  /\ k.entry # NoEntry =>
       /\ k.pc # "idle"
       /\ \/ k.entry.remote \in Remotes
          \/ ~ReportsRemoteId /\ k.pc \in {"cwd", "identify", "undo"}
       /\ k.pc \in EnsureLabels => k.entry.target = k.target
  /\ k.pc \in {"probe", "forget", "cwd", "identify", "undo", "write"} =>
       k.entry.local \in Handles

TypeInv == TypeOK /\ CallShape

Stored ==
  /\ sessions \in [Names -> Entry \cup {NoEntry}]
  /\ status \in [Remotes -> {"free", "alive", "dead", "gone"}]
  /\ onto \in [Handles -> Remotes \cup {NoRemote}]
  /\ up \in SUBSET Handles

Fit == call \in [Calls -> Call] /\ \A c \in Calls : Fits(call[c])

LEMMA Split == (TypeInv <=> Stored /\ Fit) /\ (TypeInv' <=> Stored' /\ Fit')
<1>1. CallShape /\ call \in [Calls -> Call] <=> Fit
  BY DEF CallShape, Fit, Fits
<1>2. TypeOK <=> Stored /\ call \in [Calls -> Call]
  BY DEF TypeOK, Stored
<1>3. (CallShape /\ call \in [Calls -> Call] <=> Fit)'
  BY DEF CallShape, Fit, Fits
<1>4. (TypeOK <=> Stored /\ call \in [Calls -> Call])'
  BY DEF TypeOK, Stored
<1> QED
  BY <1>1, <1>2, <1>3, <1>4 DEF TypeInv, Fit

LEMMA IdleFits == Fits(Idle)
BY DEF Fits, Idle, Call, Labels, EnsureLabels

LEMMA CallUpdate ==
  ASSUME Fit, NEW c \in Calls, NEW k, Fits(k), call' = [call EXCEPT ![c] = k]
  PROVE  Fit'
BY DEF Fit, Fits

LEMMA ReturnFits ==
  ASSUME Fit, NEW c \in Calls, Return(c)
  PROVE  Fit'
BY IdleFits, CallUpdate DEF Return

(* A call moves on with its entry as it is.                                *)
LEMMA GotoFits ==
  ASSUME Fit, NEW c \in Calls, NEW label \in Labels \ {"idle"}, Goto(c, label),
         ~At(c, "idle"),
         label \in EnsureLabels => call[c].pc \in EnsureLabels,
         label = "identify" => ~ReportsRemoteId,
         call[c].entry # NoEntry \/ label \in {"list", "create"},
         call[c].entry # NoEntry =>
           \/ call[c].entry.remote \in Remotes
           \/ ~ReportsRemoteId /\ label \in {"cwd", "identify", "undo"},
         label \in {"probe", "forget", "cwd", "identify", "undo", "write"} =>
           call[c].entry.local \in Handles
  PROVE  Fit'
<1> DEFINE k == [call[c] EXCEPT !.pc = label]
<1>1. call' = [call EXCEPT ![c] = k]
  BY DEF Goto, Fit
<1>2. Fits(k)
  BY DEF Fit, Fits, Call, At
<1> HIDE DEF k
<1> QED
  BY <1>1, <1>2, CallUpdate

(* A call moves on with an entry it read or made.                          *)
LEMMA GotoWithFits ==
  ASSUME Fit, NEW c \in Calls, NEW label \in Labels \ {"idle"}, NEW e \in Draft,
         GotoWith(c, label, e), ~At(c, "idle"),
         label \in EnsureLabels => call[c].pc \in EnsureLabels /\ e.target = call[c].target,
         label = "identify" => ~ReportsRemoteId,
         e.remote \in Remotes \/ (~ReportsRemoteId /\ label \in {"cwd", "identify", "undo"}),
         label \in {"probe", "forget", "cwd", "identify", "undo", "write"} =>
           e.local \in Handles
  PROVE  Fit'
<1> DEFINE k == [call[c] EXCEPT !.pc = label, !.entry = e]
<1>1. call' = [call EXCEPT ![c] = k]
  BY DEF GotoWith, Fit
<1>2. Fits(k)
  BY SentinelAssumption DEF Fit, Fits, Call, At
<1> HIDE DEF k
<1> QED
  BY <1>1, <1>2, CallUpdate

-----------------------------------------------------------------------------
(* Types and the shape of calls.                                           *)

LEMMA EnsureTypes ==
  ASSUME Stored, Fit, NEW c \in Calls, EnsureStep(c)
  PROVE  Stored' /\ Fit'
<1> USE SentinelAssumption, ParametersAssumption
<1> DEFINE e == call[c].entry
<1>a. Fits(call[c])
  BY DEF Fit
<1>1. CASE Read(c)
  <2>0. Stored'
    BY <1>1 DEF Read, Stored, links
  <2> DEFINE existing == sessions[call[c].name]
  <2>1. existing = NoEntry \/ (existing \in Draft /\ existing.remote \in Remotes)
    BY <1>1, <1>a DEF Read, At, Fits, Stored, Entry
  <2>2. CASE existing = NoEntry
    BY <1>1, <1>a, <2>0, <2>2, GotoFits DEF Read, At, Fits, Labels, EnsureLabels
  <2>3. CASE existing # NoEntry /\ existing.target # call[c].target
    BY <1>1, <2>0, <2>3, ReturnFits DEF Read
  <2>4. CASE existing # NoEntry /\ existing.target = call[c].target
    <3> DEFINE label == IF existing.local = NoHandle THEN "list" ELSE "probe"
    <3>1. GotoWith(c, label, existing) /\ call[c].pc = "read"
      BY <1>1, <2>4 DEF Read, At
    <3>2. label \in Labels \ {"idle"} /\ label \in {"list", "probe"}
      BY DEF Labels, EnsureLabels
    <3>3. existing \in Draft /\ existing.remote \in Remotes
      BY <2>1, <2>4
    <3>4. label = "probe" => existing.local \in Handles
      BY <3>3 DEF Draft
    <3>5. call[c].pc \in EnsureLabels
      BY <3>1 DEF EnsureLabels
    <3> HIDE DEF label, existing
    <3>6. existing.target = call[c].target
      BY <2>4 DEF existing
    <3> QED
      BY <2>0, <3>1, <3>2, <3>3, <3>4, <3>5, <3>6, GotoWithFits DEF At
  <2> QED
    BY <2>2, <2>3, <2>4
<1>2. CASE Probe(c)
  <2>0. Stored'
    BY <1>2 DEF Probe, Stored, links
  <2>1. CASE Return(c)
    BY <2>0, <2>1, ReturnFits
  <2>2. CASE Goto(c, "forget")
    BY <1>2, <1>a, <2>0, <2>2, GotoFits DEF Probe, At, Fits, Labels, EnsureLabels
  <2> QED
    BY <1>2, <2>1, <2>2 DEF Probe
<1>3. CASE Forget(c)
  <2>0. Stored'
    BY <1>3 DEF Forget, Forgotten, Stored, links, Entry, Draft
  <2>1. CASE At(c, "forget")
    BY <1>3, <1>a, <2>0, <2>1, GotoFits DEF Forget, At, Fits, Labels, EnsureLabels
  <2>2. CASE ~At(c, "forget")
    BY <1>3, <2>0, <2>2, ReturnFits DEF Forget
  <2> QED
    BY <2>1, <2>2
<1>4. CASE List(c)
  <2>0. Stored'
    BY <1>4 DEF List, Stored, links
  <2>1. CASE e # NoEntry /\ Goto(c, "attach")
    BY <1>4, <1>a, <2>0, <2>1, GotoFits DEF List, At, Fits, Labels, EnsureLabels
  <2>2. CASE call' = [call EXCEPT ![c].pc = "create",
                                 ![c].before = remoteSessions(call[c].target)]
    <3> DEFINE k == [call[c] EXCEPT !.pc = "create",
                                   !.before = remoteSessions(call[c].target)]
    <3>1. Fits(k)
      BY <1>4, <1>a DEF List, At, Fits, Call, Labels, EnsureLabels, remoteSessions
    <3>2. call' = [call EXCEPT ![c] = k]
      BY <2>2 DEF Fit
    <3> HIDE DEF k
    <3> QED
      BY <2>0, <3>1, <3>2, CallUpdate
  <2> QED
    BY <1>4, <2>1, <2>2 DEF List
<1>5. CASE Attach(c)
  <2>1. CASE Return(c) /\ UNCHANGED links
    BY <1>5, <2>1, ReturnFits DEF Attach, Stored, links
  <2>2. ASSUME NEW h \in Handles, Connect(h, e.remote),
               GotoWith(c, "write", [e EXCEPT !.local = h])
        PROVE  Stored' /\ Fit'
    <3>1. e \in Draft /\ e.remote \in Remotes /\ call[c].pc = "attach" /\ e.target = call[c].target
      BY <1>5, <1>a DEF Attach, At, Fits, Call, EnsureLabels
    <3>2. Stored'
      BY <1>5, <2>2, <3>1 DEF Attach, Connect, Stored
    <3> DEFINE f == [e EXCEPT !.local = h]
    <3>3. f \in Draft /\ f.remote \in Remotes /\ f.local \in Handles /\ f.target = call[c].target
      BY <3>1 DEF Draft
    <3>4. GotoWith(c, "write", f)
      BY <2>2
    <3> HIDE DEF f
    <3> QED
      BY <3>1, <3>2, <3>3, <3>4, GotoWithFits DEF At, Labels, EnsureLabels
  <2> QED
    BY <1>5, <2>1, <2>2 DEF Attach
<1>6. CASE Create(c)
  <2>1. CASE Return(c) /\ UNCHANGED <<status, links>>
    BY <1>6, <2>1, ReturnFits DEF Create, Stored, links
  <2>2. ASSUME NEW r \in Remotes, NEW h \in Handles, NEW label \in {"cwd", Made},
               status' = [status EXCEPT ![r] = "alive"],
               Connect(h, r),
               \/ GotoWith(c, label, [target |-> call[c].target, local |-> h,
                             remote |-> IF ReportsRemoteId THEN r ELSE NoRemote])
               \/ Return(c)
        PROVE  Stored' /\ Fit'
    <3>1. Stored'
      BY <1>6, <2>2 DEF Create, Connect, Stored
    <3> DEFINE f == [target |-> call[c].target, local |-> h,
                     remote |-> IF ReportsRemoteId THEN r ELSE NoRemote]
    <3>2. call[c].target \in Targets /\ call[c].pc = "create"
      BY <1>6, <1>a DEF Create, At, Fits, EnsureLabels
    <3>3. f \in Draft /\ f.local \in Handles /\ f.target = call[c].target
          /\ (ReportsRemoteId => f.remote \in Remotes)
      BY <3>2 DEF Draft
    <3>4. /\ label \in Labels \ {"idle"} /\ label \in EnsureLabels
          /\ label = "identify" => ~ReportsRemoteId
          /\ ReportsRemoteId \/ label \in {"cwd", "identify"}
      BY DEF Made, Labels, EnsureLabels
    <3>5. GotoWith(c, label, f) \/ Return(c)
      BY <2>2
    <3>6. call[c].pc \in EnsureLabels
      BY <3>2 DEF EnsureLabels
    <3> HIDE DEF f
    <3>7. CASE Return(c)
      BY <3>1, <3>7, ReturnFits
    <3>8. CASE GotoWith(c, label, f)
      BY <3>1, <3>2, <3>3, <3>4, <3>6, <3>8, GotoWithFits DEF At
    <3> QED
      BY <3>5, <3>7, <3>8
  <2> QED
    BY <1>6, <2>1, <2>2 DEF Create
<1>7. CASE Cwd(c)
  <2>0. Stored'
    BY <1>7 DEF Cwd, Stored, links
  <2>1. /\ call[c].pc = "cwd" /\ e # NoEntry /\ e.local \in Handles
        /\ e.remote \in Remotes \/ ~ReportsRemoteId
    BY <1>7, <1>a DEF Cwd, At, Fits
  <2>2. PICK label \in {Made, "undo"} : Goto(c, label)
    BY <1>7 DEF Cwd
  <2>3. /\ label \in EnsureLabels /\ label \in Labels \ {"idle"}
        /\ label = "identify" => ~ReportsRemoteId
        /\ ReportsRemoteId \/ label \in {"identify", "undo"}
    BY DEF Made, Labels, EnsureLabels
  <2> QED
    BY <2>0, <2>1, <2>2, <2>3, GotoFits DEF At, EnsureLabels
<1>8. CASE Identify(c)
  <2>0. Stored'
    BY <1>8 DEF Identify, Stored, links
  <2>1. /\ call[c].pc = "identify" /\ e \in Draft /\ e.local \in Handles
        /\ e.target = call[c].target /\ ~ReportsRemoteId /\ e # NoEntry
    BY <1>8, <1>a DEF Identify, At, Fits, Call, EnsureLabels
  <2>2. ASSUME NEW r \in Remotes, GotoWith(c, "write", [e EXCEPT !.remote = r])
        PROVE  Fit'
    <3> DEFINE f == [e EXCEPT !.remote = r]
    <3>1. f \in Draft /\ f.remote \in Remotes /\ f.local \in Handles /\ f.target = call[c].target
      BY <2>1 DEF Draft
    <3>2. GotoWith(c, "write", f)
      BY <2>2
    <3> HIDE DEF f
    <3> QED
      BY <2>1, <3>1, <3>2, GotoWithFits DEF At, Labels, EnsureLabels
  <2>3. CASE Goto(c, "undo")
    BY <2>0, <2>1, <2>3, GotoFits DEF At, Labels, EnsureLabels
  <2> QED
    BY <1>8, <2>0, <2>2, <2>3 DEF Identify, remoteSessions
<1>9. CASE Undo(c)
  <2>1. Stored'
    BY <1>9 DEF Undo, CloseSession, Stored, links
  <2> QED
    BY <1>9, <2>1, ReturnFits DEF Undo
<1>10. CASE Write(c)
  <2>1. e \in Entry /\ call[c].name \in Names
    BY <1>10, <1>a DEF Write, At, Fits, Call, Entry
  <2> QED
    BY <1>10, <2>1, ReturnFits DEF Write, Stored, links
<1> QED
  BY <1>1, <1>2, <1>3, <1>4, <1>5, <1>6, <1>7, <1>8, <1>9, <1>10 DEF EnsureStep

LEMMA OtherTypes ==
  ASSUME Stored, Fit,
         \/ \E c \in Calls, n \in Names, t \in Targets : EnsureCall(c, n, t)
         \/ \E c \in Calls, n \in Names, op \in {"detach", "close"} : ReleaseCall(c, n, op)
         \/ \E c \in Calls : ReleaseStep(c) \/ Fail(c)
         \/ Environment
         \/ UNCHANGED vars
  PROVE  Stored' /\ Fit'
<1> USE SentinelAssumption, ParametersAssumption
<1>1. ASSUME NEW c \in Calls, NEW n \in Names, NEW t \in Targets \cup {NoTarget},
             NEW label \in {"read", "findDetach", "findClose"},
             t \in Targets \/ label # "read", Begin(c, n, t, label)
      PROVE  Stored' /\ Fit'
  <2> DEFINE k == [Idle EXCEPT !.pc = label, !.name = n, !.target = t]
  <2>1. Fits(k)
    BY <1>1 DEF Fits, Idle, Call, Labels, EnsureLabels
  <2>2. call' = [call EXCEPT ![c] = k]
    BY <1>1 DEF Begin
  <2> HIDE DEF k
  <2> QED
    BY <1>1, <2>1, <2>2, CallUpdate DEF Begin, Stored, links
<1>2. ASSUME NEW c \in Calls, ReleaseStep(c)
      PROVE  Stored' /\ Fit'
  <2> DEFINE e == call[c].entry
  <2>a. Fits(call[c])
    BY DEF Fit
  <2>1. CASE Find(c)
    <3>0. Stored'
      BY <2>1 DEF Find, Stored, links
    <3> DEFINE entry == sessions[call[c].name]
               label == IF At(c, "findDetach") THEN "detach" ELSE "close"
    <3>1. entry = NoEntry \/ (entry \in Draft /\ entry.remote \in Remotes)
      BY <2>1, <2>a DEF Find, Fits, Stored, Entry
    <3>2. CASE Return(c)
      BY <3>0, <3>2, ReturnFits
    <3>3. CASE entry # NoEntry /\ GotoWith(c, label, entry)
      <4>1. label \in Labels \ {"idle"} /\ label \in {"detach", "close"} /\ label \notin EnsureLabels
        BY DEF Labels, EnsureLabels
      <4>2. ~At(c, "idle")
        BY <2>1 DEF Find, At
      <4>3. GotoWith(c, label, entry) /\ entry \in Draft /\ entry.remote \in Remotes
        BY <3>1, <3>3
      <4> HIDE DEF label, entry
      <4> QED
        BY <3>0, <4>1, <4>2, <4>3, GotoWithFits
    <3> QED
      BY <2>1, <3>2, <3>3 DEF Find
  <2>2. CASE Detach(c)
    <3>1. call[c].pc = "detach" /\ e # NoEntry /\ e.remote \in Remotes
      BY <2>2, <2>a DEF Detach, At, Fits
    <3>2. Stored'
      BY <2>2 DEF Detach, Stored
    <3> QED
      BY <2>2, <3>1, <3>2, ReturnFits, GotoFits DEF Detach, At, Labels, EnsureLabels
  <2>3. CASE Close(c)
    <3>1. call[c].pc = "close" /\ e # NoEntry /\ e.remote \in Remotes
      BY <2>3, <2>a DEF Close, At, Fits
    <3>2. Stored'
      BY <2>3 DEF Close, CloseSession, Stored, links
    <3> QED
      BY <2>3, <3>1, <3>2, ReturnFits, GotoFits DEF Close, At, Labels, EnsureLabels
  <2>4. CASE Remove(c)
    BY <2>4, ReturnFits DEF Remove, Stored, links
  <2> QED
    BY <1>2, <2>1, <2>2, <2>3, <2>4 DEF ReleaseStep
<1>3. ASSUME NEW c \in Calls, Fail(c) PROVE Stored' /\ Fit'
  BY <1>3, ReturnFits DEF Fail, Stored, links
<1>4. CASE Environment
  <2>1. Stored'
    BY <1>4 DEF Environment, RemoteDies, HandleDies, Crash, Stored, links
  <2>2. call' = call \/ call' = [c \in Calls |-> Idle]
    BY <1>4 DEF Environment, RemoteDies, HandleDies, Crash
  <2> QED
    BY <2>1, <2>2, IdleFits DEF Fit, Fits
<1>5. CASE UNCHANGED vars
  BY <1>5 DEF vars, links, Stored, Fit, Fits
<1> QED
  BY <1>1, <1>2, <1>3, <1>4, <1>5 DEF EnsureCall, ReleaseCall

LEMMA NextTypes == TypeInv /\ [Next]_vars => TypeInv'
BY Split, EnsureTypes, OtherTypes DEF Next

LEMMA InitTypes == Init => TypeInv
<1> SUFFICES ASSUME Init PROVE Stored /\ Fit
  BY Split
<1>1. Fit
  BY IdleFits DEF Init, Fit, Fits
<1> QED
  BY <1>1 DEF Init, Stored

(* Every variable keeps its type, and every call carries the name, target  *)
(* and entry its next step needs (ensureSession, callSessionTool).         *)
THEOREM TypeCorrectness == Spec => []TypeOK
<1>1. TypeInv => TypeOK
  BY DEF TypeInv
<1> QED
  BY <1>1, InitTypes, NextTypes, PTL DEF Spec

-----------------------------------------------------------------------------
(* Entry e is held for name n: persisted, or in a call that may persist it.*)
Held(n, e) ==
  \/ sessions[n] = e
  \/ \E c \in Calls : call[c].name = n /\ call[c].entry = e

AllSound == \A n \in Names, e \in Draft : Held(n, e) => EntryIsSound(e)

OneName ==
  ReportsRemoteId =>
    \A m, n \in Names, d, e \in Draft :
      Held(m, d) /\ Held(n, e) /\ d.remote = e.remote => m = n

Claims == AllSound /\ OneName

LEMMA ClaimsSplit == TypeInv => (Claims <=> EntriesAreSound /\ SessionsHaveOneName)
<1> SUFFICES ASSUME TypeInv PROVE Claims <=> EntriesAreSound /\ SessionsHaveOneName
  OBVIOUS
<1> USE SentinelAssumption
<1>1. Stored /\ Fit
  BY Split
<1>2. /\ \A n \in Names : sessions[n] # NoEntry => sessions[n] \in Draft
      /\ \A c \in Calls : call[c].entry # NoEntry =>
           call[c].entry \in Draft /\ call[c].name \in Names
  BY <1>1 DEF Stored, Fit, Fits, Call, Entry
<1>3. AllSound <=> EntriesAreSound
  BY <1>2 DEF AllSound, EntriesAreSound, Held
<1>4. OneName => SessionsHaveOneName
  BY <1>2 DEF OneName, SessionsHaveOneName, Held
<1>5. SessionsHaveOneName => OneName
  <2> SUFFICES ASSUME SessionsHaveOneName, ReportsRemoteId,
                      NEW m \in Names, NEW n \in Names, NEW d \in Draft, NEW e \in Draft,
                      Held(m, d), Held(n, e), d.remote = e.remote
               PROVE  m = n
    BY DEF OneName
  <2>1. d # NoEntry /\ e # NoEntry
    OBVIOUS
  <2>2. CASE sessions[m] = d /\ sessions[n] = e
    BY <2>1, <2>2 DEF SessionsHaveOneName
  <2>3. CASE sessions[m] = d /\ \E c \in Calls : call[c].name = n /\ call[c].entry = e
    BY <2>1, <2>3 DEF SessionsHaveOneName
  <2>4. CASE sessions[n] = e /\ \E c \in Calls : call[c].name = m /\ call[c].entry = d
    BY <2>1, <2>4 DEF SessionsHaveOneName
  <2>5. CASE /\ \E c \in Calls : call[c].name = m /\ call[c].entry = d
             /\ \E c \in Calls : call[c].name = n /\ call[c].entry = e
    BY <2>1, <2>5 DEF SessionsHaveOneName
  <2> QED
    BY <2>2, <2>3, <2>4, <2>5 DEF Held
<1> QED
  BY <1>3, <1>4, <1>5 DEF Claims

LEMMA ClaimsSplitNext == (TypeInv => (Claims <=> EntriesAreSound /\ SessionsHaveOneName))'
BY ClaimsSplit, PTL

(* What a step may do to the sessions and handles that entries speak of.   *)
Grow ==
  /\ \A r \in Remotes : status'[r] = "free" => status[r] = "free"
  /\ \A h \in Handles : onto[h] \in Remotes => onto'[h] = onto[h]

LEMMA SoundStays ==
  ASSUME Grow, NEW e \in Draft, EntryIsSound(e)
  PROVE  EntryIsSound(e)'
BY DEF Grow, EntryIsSound, Draft

(* A step that only copies entries, or takes the handle out of some.       *)
LEMMA ClaimsKept ==
  ASSUME Claims, Grow,
         \A n \in Names, e \in Draft : Held(n, e)' =>
           \E d \in Draft :
             /\ Held(n, d)
             /\ e.remote = d.remote /\ e.target = d.target
             /\ e.local \in {d.local, NoHandle}
  PROVE  Claims'
<1>1. ASSUME NEW n \in Names, NEW e \in Draft, Held(n, e)'
      PROVE  EntryIsSound(e)'
  <2>1. PICK d \in Draft :
          /\ Held(n, d)
          /\ e.remote = d.remote /\ e.target = d.target
          /\ e.local \in {d.local, NoHandle}
    BY <1>1
  <2>2. EntryIsSound(d)'
    BY <2>1, SoundStays DEF Claims, AllSound
  <2> QED
    BY <2>1, <2>2, SentinelAssumption DEF EntryIsSound
<1>2. ASSUME ReportsRemoteId, NEW m \in Names, NEW n \in Names,
             NEW d \in Draft, NEW e \in Draft,
             Held(m, d)', Held(n, e)', d.remote = e.remote
      PROVE  m = n
  <2>1. PICK x \in Draft : Held(m, x) /\ d.remote = x.remote
    BY <1>2
  <2>2. PICK y \in Draft : Held(n, y) /\ e.remote = y.remote
    BY <1>2
  <2> QED
    BY <1>2, <2>1, <2>2 DEF Claims, OneName
<1>3. AllSound'
  BY <1>1 DEF AllSound
<1>4. OneName'
  BY <1>2 DEF OneName
<1> QED
  BY <1>3, <1>4 DEF Claims

(* A step that makes a new entry f for name k.                             *)
LEMMA ClaimAdded ==
  ASSUME Claims, Grow, NEW k \in Names, NEW f \in Draft,
         \A n \in Names, e \in Draft : Held(n, e)' => Held(n, e) \/ (n = k /\ e = f),
         EntryIsSound(f)',
         ReportsRemoteId =>
           \A n \in Names, e \in Draft : Held(n, e) /\ e.remote = f.remote => n = k
  PROVE  Claims'
<1>1. AllSound'
  BY SoundStays DEF Claims, AllSound
<1>2. ASSUME ReportsRemoteId, NEW m \in Names, NEW n \in Names,
             NEW d \in Draft, NEW e \in Draft,
             Held(m, d)', Held(n, e)', d.remote = e.remote
      PROVE  m = n
  <2>1. Held(m, d) \/ (m = k /\ d = f)
    BY <1>2
  <2>2. Held(n, e) \/ (n = k /\ e = f)
    BY <1>2
  <2> QED
    BY <1>2, <2>1, <2>2 DEF Claims, OneName
<1>3. OneName'
  BY <1>2 DEF OneName
<1> QED
  BY <1>1, <1>3 DEF Claims

LEMMA FreshKept ==
  ASSUME SessionsAreFresh, UNCHANGED onto, up' \subseteq up,
         \A r \in Remotes : status'[r] = "free" => status[r] = "free"
  PROVE  SessionsAreFresh' /\ Grow
BY DEF SessionsAreFresh, Grow

-----------------------------------------------------------------------------
(* How the entries that are held change.                                   *)

LEMMA HeldSame ==
  ASSUME Fit, UNCHANGED sessions, NEW c \in Calls, NEW k, call' = [call EXCEPT ![c] = k],
         \/ k.entry = NoEntry
         \/ k.name = call[c].name /\ k.entry = call[c].entry
         \/ k.name = call[c].name /\ k.entry = sessions[k.name]
  PROVE  \A n \in Names, e \in Draft : Held(n, e)' => Held(n, e)
BY SentinelAssumption DEF Fit, Held

LEMMA HeldAdded ==
  ASSUME Fit, UNCHANGED sessions, NEW c \in Calls, NEW label, NEW f, GotoWith(c, label, f)
  PROVE  \A n \in Names, e \in Draft :
           Held(n, e)' => Held(n, e) \/ (n = call[c].name /\ e = f)
BY DEF Fit, Held, GotoWith, Call

LEMMA HeldReturn ==
  ASSUME Fit, UNCHANGED sessions, NEW c \in Calls, Return(c)
  PROVE  \A n \in Names, e \in Draft : Held(n, e)' => Held(n, e)
BY HeldSame DEF Return, Idle

LEMMA HeldGoto ==
  ASSUME Fit, UNCHANGED sessions, NEW c \in Calls, NEW label, Goto(c, label)
  PROVE  \A n \in Names, e \in Draft : Held(n, e)' => Held(n, e)
<1> DEFINE k == [call[c] EXCEPT !.pc = label]
<1>1. call' = [call EXCEPT ![c] = k]
  BY DEF Goto, Fit
<1>2. k.name = call[c].name /\ k.entry = call[c].entry
  BY DEF Fit, Call
<1> HIDE DEF k
<1> QED
  BY <1>1, <1>2, HeldSame

-----------------------------------------------------------------------------
(* What is true of the entries stays true.                                 *)

LEMMA ClaimsSame ==
  ASSUME Claims, Grow, \A n \in Names, e \in Draft : Held(n, e)' => Held(n, e)
  PROVE  Claims'
BY ClaimsKept

LEMMA EnsureClaims ==
  ASSUME Stored, Fit, Claims, SessionsAreFresh, NEW c \in Calls, EnsureStep(c)
  PROVE  Claims' /\ SessionsAreFresh'
<1> USE SentinelAssumption
<1> DEFINE e == call[c].entry
           n == call[c].name
<1>a. Fits(call[c])
  BY DEF Fit
<1>b. ASSUME e # NoEntry PROVE e \in Draft /\ n \in Names /\ Held(n, e) /\ EntryIsSound(e)
  <2>1. e \in Draft /\ n \in Names
    BY <1>a, <1>b DEF Fits, Call
  <2>2. Held(n, e)
    BY DEF Held
  <2> QED
    BY <2>1, <2>2 DEF Claims, AllSound
<1>1. CASE Read(c) \/ Probe(c)
  <2>1. UNCHANGED <<sessions, status, onto, up>>
    BY <1>1 DEF Read, Probe, links
  <2>2. \A m \in Names, x \in Draft : Held(m, x)' => Held(m, x)
    <3>1. CASE Return(c)
      BY <2>1, <3>1, HeldReturn
    <3>2. CASE \E label \in Labels : Goto(c, label)
      BY <2>1, <3>2, HeldGoto
    <3>3. CASE \E label \in Labels : GotoWith(c, label, sessions[n])
      BY <2>1, <3>3, HeldAdded DEF Held
    <3> QED
      BY <1>1, <3>1, <3>2, <3>3 DEF Read, Probe, Labels, EnsureLabels
  <2> QED
    BY <2>1, <2>2, ClaimsSame, FreshKept
<1>2. CASE Forget(c)
  <2>1. UNCHANGED <<status, onto, up>>
    BY <1>2 DEF Forget, links
  <2>2. call' = [call EXCEPT ![c] = Idle] \/ call' = [call EXCEPT ![c].pc = "list"]
    BY <1>2 DEF Forget, Return, Goto
  <2>3. \A d \in Calls :
          call'[d].entry # NoEntry => call'[d].entry = call[d].entry /\ call'[d].name = call[d].name
    BY <2>2 DEF Fit, Call, Idle
  <2>4. ASSUME NEW m \in Names, NEW x \in Draft, Held(m, x)'
        PROVE  \E d \in Draft :
                 /\ Held(m, d)
                 /\ x.remote = d.remote /\ x.target = d.target
                 /\ x.local \in {d.local, NoHandle}
    <3>1. CASE sessions'[m] = x
      <4>1. /\ sessions[m] \in Draft
            /\ x \in {sessions[m], [sessions[m] EXCEPT !.local = NoHandle]}
        BY <1>2, <3>1 DEF Forget, Forgotten, Stored, Entry
      <4> QED
        BY <4>1 DEF Held, Draft
    <3>2. CASE \E d \in Calls : call'[d].name = m /\ call'[d].entry = x
      <4>1. Held(m, x)
        BY <2>3, <3>2 DEF Held
      <4> QED
        BY <4>1
    <3> QED
      BY <2>4, <3>1, <3>2 DEF Held
  <2> QED
    BY <2>1, <2>4, ClaimsKept, FreshKept
<1>3. CASE List(c)
  <2>1. UNCHANGED <<sessions, status, onto, up>>
    BY <1>3 DEF List, links
  <2>2. CASE Goto(c, "attach")
    BY <2>1, <2>2, HeldGoto, ClaimsSame, FreshKept
  <2>3. CASE call' = [call EXCEPT ![c].pc = "create",
                                 ![c].before = remoteSessions(call[c].target)]
    <3> DEFINE k == [call[c] EXCEPT !.pc = "create", !.before = remoteSessions(call[c].target)]
    <3>1. call' = [call EXCEPT ![c] = k]
      BY <2>3 DEF Fit
    <3>2. k.name = call[c].name /\ k.entry = call[c].entry
      BY DEF Fit, Call
    <3> HIDE DEF k
    <3> QED
      BY <2>1, <3>1, <3>2, HeldSame, ClaimsSame, FreshKept
  <2> QED
    BY <1>3, <2>2, <2>3 DEF List
<1>4. CASE Attach(c)
  <2>0. UNCHANGED <<sessions, status>>
    BY <1>4 DEF Attach
  <2>1. CASE Return(c) /\ UNCHANGED links
    BY <2>0, <2>1, HeldReturn, ClaimsSame, FreshKept DEF links
  <2>2. ASSUME NEW h \in Handles, status[e.remote] = "alive", Connect(h, e.remote),
               GotoWith(c, "write", [e EXCEPT !.local = h])
        PROVE  Claims' /\ SessionsAreFresh'
    <3>1. e # NoEntry /\ e.remote \in Remotes
      BY <1>4, <1>a DEF Attach, At, Fits
    <3>2. /\ onto' = [onto EXCEPT ![h] = e.remote] /\ onto[h] = NoRemote
          /\ up' = up \cup {h} /\ onto \in [Handles -> Remotes \cup {NoRemote}]
      BY <2>2 DEF Connect, Stored
    <3>3. Grow
      BY <2>0, <3>2 DEF Grow
    <3>4. SessionsAreFresh'
      BY <2>0, <2>2, <3>1, <3>2 DEF SessionsAreFresh, Stored
    <3>5. PICK f \in Draft :
            /\ f = [e EXCEPT !.local = h]
            /\ f.local = h /\ f.remote = e.remote /\ f.target = e.target
      <4> DEFINE g == [e EXCEPT !.local = h]
      <4>1. g \in Draft /\ g.local = h /\ g.remote = e.remote /\ g.target = e.target
        BY <1>b, <3>1 DEF Draft
      <4> QED
        BY <4>1
    <3>6. GotoWith(c, "write", f)
      BY <2>2, <3>5
    <3>7. \A m \in Names, x \in Draft : Held(m, x)' => Held(m, x) \/ (m = n /\ x = f)
      BY <2>0, <3>6, HeldAdded
    <3>8. EntryIsSound(e) /\ Held(n, e) /\ n \in Names /\ e \in Draft
      BY <1>b, <3>1
    <3>9. EntryIsSound(f)'
      BY <2>0, <3>1, <3>2, <3>5, <3>8 DEF EntryIsSound
    <3>10. ReportsRemoteId =>
             \A m \in Names, x \in Draft : Held(m, x) /\ x.remote = f.remote => m = n
      BY <3>5, <3>8 DEF Claims, OneName
    <3> QED
      BY <3>3, <3>4, <3>5, <3>7, <3>8, <3>9, <3>10, ClaimAdded
  <2> QED
    BY <1>4, <2>1, <2>2 DEF Attach
<1>5. CASE Create(c)
  <2>0. UNCHANGED sessions
    BY <1>5 DEF Create
  <2>1. CASE Return(c) /\ UNCHANGED <<status, links>>
    BY <2>0, <2>1, HeldReturn, ClaimsSame, FreshKept DEF links
  <2>2. ASSUME NEW r \in Remotes, NEW h \in Handles, NEW label \in {"cwd", Made},
               Home[r] = call[c].target, status[r] = "free",
               status' = [status EXCEPT ![r] = "alive"],
               Connect(h, r),
               \/ GotoWith(c, label, [target |-> call[c].target, local |-> h,
                             remote |-> IF ReportsRemoteId THEN r ELSE NoRemote])
               \/ Return(c)
        PROVE  Claims' /\ SessionsAreFresh'
    <3>1. call[c].target \in Targets /\ n \in Names
      BY <1>5, <1>a DEF Create, At, Fits, EnsureLabels
    <3>2. /\ onto' = [onto EXCEPT ![h] = r] /\ onto[h] = NoRemote
          /\ up' = up \cup {h} /\ onto \in [Handles -> Remotes \cup {NoRemote}]
          /\ status \in [Remotes -> {"free", "alive", "dead", "gone"}]
      BY <2>2 DEF Connect, Stored
    <3>3. Grow
      BY <2>2, <3>2 DEF Grow
    <3>4. SessionsAreFresh'
      BY <2>2, <3>2 DEF SessionsAreFresh, Stored
    <3>5. CASE Return(c)
      BY <2>0, <3>3, <3>4, <3>5, HeldReturn, ClaimsSame
    <3>6. CASE GotoWith(c, label, [target |-> call[c].target, local |-> h,
                             remote |-> IF ReportsRemoteId THEN r ELSE NoRemote])
      <4>1. PICK f \in Draft :
              /\ f = [target |-> call[c].target, local |-> h,
                      remote |-> IF ReportsRemoteId THEN r ELSE NoRemote]
              /\ f.local = h /\ f.target = call[c].target
              /\ f.remote = IF ReportsRemoteId THEN r ELSE NoRemote
        <5> DEFINE g == [target |-> call[c].target, local |-> h,
                         remote |-> IF ReportsRemoteId THEN r ELSE NoRemote]
        <5>1. /\ g \in Draft /\ g.local = h /\ g.target = call[c].target
              /\ g.remote = IF ReportsRemoteId THEN r ELSE NoRemote
          BY <3>1 DEF Draft
        <5> QED
          BY <5>1
      <4>2. \A m \in Names, x \in Draft : Held(m, x)' => Held(m, x) \/ (m = n /\ x = f)
        BY <2>0, <3>6, <4>1, HeldAdded
      <4>3. EntryIsSound(f)'
        BY <2>2, <3>1, <3>2, <4>1 DEF EntryIsSound
      <4>4. ReportsRemoteId =>
              \A m \in Names, x \in Draft : Held(m, x) /\ x.remote = f.remote => m = n
        BY <2>2, <4>1 DEF Claims, AllSound, EntryIsSound
      <4> QED
        BY <3>1, <3>3, <3>4, <4>1, <4>2, <4>3, <4>4, ClaimAdded
    <3> QED
      BY <2>2, <3>5, <3>6
  <2> QED
    BY <1>5, <2>1, <2>2 DEF Create
<1>6. CASE Cwd(c)
  <2>1. UNCHANGED <<sessions, status, onto, up>>
    BY <1>6 DEF Cwd, links
  <2>2. \E label \in {Made, "undo"} : Goto(c, label)
    BY <1>6 DEF Cwd
  <2> QED
    BY <2>1, <2>2, HeldGoto, ClaimsSame, FreshKept
<1>7. CASE Identify(c)
  <2>1. UNCHANGED <<sessions, status, onto, up>>
    BY <1>7 DEF Identify, links
  <2>2. CASE Goto(c, "undo")
    BY <2>1, <2>2, HeldGoto, ClaimsSame, FreshKept
  <2>3. ASSUME NEW r \in remoteSessions(call[c].target),
               GotoWith(c, "write", [e EXCEPT !.remote = r])
        PROVE  Claims' /\ SessionsAreFresh'
    <3>1. e # NoEntry /\ ~ReportsRemoteId /\ e.target = call[c].target
      BY <1>7, <1>a DEF Identify, At, Fits, EnsureLabels
    <3>2. r \in Remotes /\ Home[r] = e.target /\ status[r] # "free"
      BY <3>1 DEF remoteSessions
    <3>3. EntryIsSound(e) /\ Held(n, e) /\ n \in Names /\ e \in Draft
      BY <1>b, <3>1
    <3>4. PICK f \in Draft :
            /\ f = [e EXCEPT !.remote = r]
            /\ f.local = e.local /\ f.remote = r /\ f.target = e.target
      <4> DEFINE g == [e EXCEPT !.remote = r]
      <4>1. g \in Draft /\ g.local = e.local /\ g.remote = r /\ g.target = e.target
        BY <3>2, <3>3 DEF Draft
      <4> QED
        BY <4>1
    <3>5. GotoWith(c, "write", f)
      BY <2>3, <3>4
    <3>6. \A m \in Names, x \in Draft : Held(m, x)' => Held(m, x) \/ (m = n /\ x = f)
      BY <2>1, <3>5, HeldAdded
    <3>7. EntryIsSound(f)'
      BY <2>1, <3>1, <3>2, <3>3, <3>4 DEF EntryIsSound
    <3>8. Grow /\ SessionsAreFresh'
      BY <2>1, FreshKept
    <3> QED
      BY <3>1, <3>3, <3>4, <3>6, <3>7, <3>8, ClaimAdded
  <2> QED
    BY <1>7, <2>2, <2>3 DEF Identify
<1>8. CASE Undo(c)
  <2>1. UNCHANGED <<sessions, onto>> /\ up' \subseteq up
        /\ \A r \in Remotes : status'[r] = "free" => status[r] = "free"
    BY <1>8 DEF Undo, CloseSession, links, Stored
  <2> QED
    BY <1>8, <2>1, HeldReturn, ClaimsSame, FreshKept DEF Undo
<1>9. CASE Write(c)
  <2>1. UNCHANGED <<status, onto, up>>
    BY <1>9 DEF Write, links
  <2>2. \A m \in Names, x \in Draft : Held(m, x)' => Held(m, x)
    BY <1>9 DEF Write, Return, Idle, Held, Fit, Stored
  <2> QED
    BY <2>1, <2>2, ClaimsSame, FreshKept
<1> QED
  BY <1>1, <1>2, <1>3, <1>4, <1>5, <1>6, <1>7, <1>8, <1>9 DEF EnsureStep

LEMMA OtherClaims ==
  ASSUME Stored, Fit, Claims, SessionsAreFresh,
         \/ \E c \in Calls, n \in Names, t \in Targets : EnsureCall(c, n, t)
         \/ \E c \in Calls, n \in Names, op \in {"detach", "close"} : ReleaseCall(c, n, op)
         \/ \E c \in Calls : ReleaseStep(c) \/ Fail(c)
         \/ Environment
         \/ UNCHANGED vars
  PROVE  Claims' /\ SessionsAreFresh'
<1> USE SentinelAssumption
<1>1. ASSUME NEW c \in Calls, NEW n, NEW t, NEW label, Begin(c, n, t, label)
      PROVE  Claims' /\ SessionsAreFresh'
  <2> DEFINE k == [Idle EXCEPT !.pc = label, !.name = n, !.target = t]
  <2>1. k.entry = NoEntry
    BY DEF Idle
  <2>2. call' = [call EXCEPT ![c] = k] /\ UNCHANGED <<sessions, status, onto, up>>
    BY <1>1 DEF Begin, links
  <2> HIDE DEF k
  <2> QED
    BY <2>1, <2>2, HeldSame, ClaimsSame, FreshKept
<1>2. ASSUME NEW c \in Calls, Find(c) PROVE Claims' /\ SessionsAreFresh'
  <2>1. UNCHANGED <<sessions, status, onto, up>>
    BY <1>2 DEF Find, links
  <2>2. \A m \in Names, x \in Draft : Held(m, x)' => Held(m, x)
    <3>1. CASE Return(c)
      BY <2>1, <3>1, HeldReturn
    <3>2. CASE \E label \in Labels : GotoWith(c, label, sessions[call[c].name])
      BY <2>1, <3>2, HeldAdded DEF Held
    <3> QED
      BY <1>2, <3>1, <3>2 DEF Find, Labels
  <2> QED
    BY <2>1, <2>2, ClaimsSame, FreshKept
<1>3. ASSUME NEW c \in Calls, Detach(c) \/ Close(c) \/ Fail(c)
      PROVE  Claims' /\ SessionsAreFresh'
  <2>1. UNCHANGED <<sessions, onto>> /\ up' \subseteq up
        /\ \A r \in Remotes : status'[r] = "free" => status[r] = "free"
    BY <1>3 DEF Detach, Close, Fail, CloseSession, links, Stored
  <2>2. Return(c) \/ \E label \in Labels : Goto(c, label)
    BY <1>3 DEF Detach, Close, Fail, Labels
  <2> QED
    BY <2>1, <2>2, HeldReturn, HeldGoto, ClaimsSame, FreshKept
<1>4. ASSUME NEW c \in Calls, Remove(c) PROVE Claims' /\ SessionsAreFresh'
  <2>1. UNCHANGED <<status, onto, up>>
    BY <1>4 DEF Remove, links
  <2>2. \A m \in Names, x \in Draft : Held(m, x)' => Held(m, x)
    BY <1>4 DEF Remove, Return, Idle, Held, Fit, Stored
  <2> QED
    BY <2>1, <2>2, ClaimsSame, FreshKept
<1>5. CASE Environment \/ UNCHANGED vars
  <2>1. UNCHANGED <<sessions, onto>> /\ up' \subseteq up
        /\ \A r \in Remotes : status'[r] = "free" => status[r] = "free"
    BY <1>5 DEF Environment, RemoteDies, HandleDies, Crash, links, vars, Stored
  <2>2. call' = call \/ call' = [c \in Calls |-> Idle]
    BY <1>5 DEF Environment, RemoteDies, HandleDies, Crash, vars
  <2>3. \A m \in Names, x \in Draft : Held(m, x)' => Held(m, x)
    BY <2>1, <2>2 DEF Held, Idle
  <2> QED
    BY <2>1, <2>3, ClaimsSame, FreshKept
<1> QED
  BY <1>1, <1>2, <1>3, <1>4, <1>5 DEF EnsureCall, ReleaseCall, ReleaseStep

-----------------------------------------------------------------------------
(* The theorems.                                                           *)

LEMMA InitInv == Init => SessionInv
<1> SUFFICES ASSUME Init PROVE SessionInv
  OBVIOUS
<1>1. TypeOK /\ CallShape
  BY InitTypes DEF TypeInv
<1> QED
  BY <1>1, SentinelAssumption DEF Init, Idle, SessionInv, EntriesAreSound, SessionsHaveOneName, SessionsAreFresh

LEMMA NextInv == SessionInv /\ [Next]_vars => SessionInv'
<1> SUFFICES ASSUME SessionInv, [Next]_vars PROVE SessionInv'
  OBVIOUS
<1>1. TypeInv /\ Stored /\ Fit /\ SessionsAreFresh
  BY Split DEF SessionInv, TypeInv
<1>2. Claims
  BY <1>1, ClaimsSplit DEF SessionInv
<1>3. TypeInv'
  BY <1>1, NextTypes
<1>4. Claims' /\ SessionsAreFresh'
  BY <1>1, <1>2, EnsureClaims, OtherClaims DEF Next
<1>5. (EntriesAreSound /\ SessionsHaveOneName)'
  BY <1>3, <1>4, ClaimsSplitNext
<1> QED
  BY <1>3, <1>4, <1>5 DEF SessionInv, TypeInv

(* The entries, persisted and in flight, are sound in every reachable      *)
(* state of concurrent ensure, detach and close calls.                     *)
THEOREM SessionInvariant == Spec => []SessionInv
BY InitInv, NextInv, PTL DEF Spec

(* The handle a name hands out (publicResult) is one onto its target.      *)
THEOREM HandleAlwaysReachesTarget == Spec => []HandleReachesTarget
<1>1. SessionInv => HandleReachesTarget
  BY DEF SessionInv, TypeOK, Entry, Draft, EntriesAreSound, EntryIsSound, HandleReachesTarget
<1> QED
  BY <1>1, SessionInvariant, PTL

(* It is one onto the recorded session, also after reattachRemote.         *)
THEOREM HandleAlwaysReachesSession == Spec => []HandleReachesSession
<1>1. SessionInv => HandleReachesSession
  BY DEF SessionInv, TypeOK, Entry, Draft, EntriesAreSound, EntryIsSound, HandleReachesSession
<1> QED
  BY <1>1, SessionInvariant, PTL

(* No interleaving of ensures gives two names one session (writeSession).  *)
THEOREM NamesAlwaysHaveOwnSessions == Spec => []NamesHaveOwnSessions
<1>1. SessionInv => NamesHaveOwnSessions
  BY DEF SessionInv, SessionsHaveOneName, NamesHaveOwnSessions
<1> QED
  BY <1>1, SessionInvariant, PTL

-----------------------------------------------------------------------------
(* What a client that waits for the calls on a name relies on: what its    *)
(* call has read of the name stays true until the call ends.               *)

(* A handle is held for one name only.                                     *)
HandlesHaveOneName ==
  \A m, n \in Names, d, e \in Draft :
    Held(m, d) /\ Held(n, e) /\ d.local = e.local /\ d.local \in Handles => m = n

NamesHaveOneCall ==
  \A c, d \in Calls : call[c].name \in Names /\ call[c].name = call[d].name => c = d

(* What progress k of the only call on a name knows of that name's entry,  *)
(* and of the session it is making.                                        *)
Keeps(k) ==
  LET s == sessions[k.name]
      own == onto[k.entry.local]
  IN /\ k.pc = "read" => k.entry = NoEntry
     /\ k.pc \in {"probe", "forget", "detach", "forgetDetached", "close", "remove"} =>
          s = k.entry /\ k.entry.local \in Handles
     /\ k.pc \in {"list", "attach"} =>
          IF k.entry = NoEntry THEN s = NoEntry
          ELSE s # NoEntry /\ s.remote = k.entry.remote
     /\ k.pc \in {"create", "cwd", "identify", "undo"} =>
          s = NoEntry \/ status[s.remote] = "gone"
     /\ k.pc \in {"create", "cwd", "identify", "write"} /\ s # NoEntry => s.target = k.target
     /\ k.pc = "write" =>
          \/ s = NoEntry
          \/ status[s.remote] = "gone"
          \/ s.remote = k.entry.remote /\ own = k.entry.remote
     /\ k.pc = "remove" => status[own] = "gone"
     /\ \A r \in k.before : status[r] # "free"
     /\ k.pc \in {"cwd", "identify"} => own \notin k.before
     /\ k.pc = "write" /\ status[own] = "alive" => k.entry.remote = own

CallsKeep == \A c \in Calls, k \in Call : call[c] = k => Keeps(k)

-----------------------------------------------------------------------------
(* What any step does.                                                     *)

CallStep(c) ==
  \/ \E n \in Names, t \in Targets : EnsureCall(c, n, t)
  \/ \E n \in Names, op \in {"detach", "close"} : ReleaseCall(c, n, op)
  \/ EnsureStep(c) \/ ReleaseStep(c) \/ Fail(c)

LEMMA NextIs == Next <=> (\E c \in Calls : CallStep(c)) \/ Environment
BY DEF Next, CallStep

(* A session that is over stays over, and no handle changes its session.   *)
Ahead ==
  /\ \A r \in Remotes :
       /\ status[r] = "gone" => status'[r] = "gone"
       /\ status[r] # "free" => status'[r] # "free" /\ (status'[r] = "alive" => status[r] = "alive")
  /\ \A h \in Handles : onto[h] \in Remotes => onto'[h] = onto[h]

LEMMA NextAhead ==
  ASSUME Stored, [Next]_vars
  PROVE  Ahead
<1> USE SentinelAssumption DEF Ahead, Stored, links
<1>1. CASE Environment \/ UNCHANGED vars
  BY <1>1 DEF Environment, RemoteDies, HandleDies, Crash, vars
<1>2. ASSUME NEW c \in Calls, CallStep(c), ~Attach(c), ~Create(c) PROVE Ahead
  <2>1. /\ UNCHANGED onto
        /\ \/ UNCHANGED status
           \/ \E r : status' = [status EXCEPT ![r] = "gone"]
    BY <1>2 DEF CallStep, EnsureCall, ReleaseCall, Begin, EnsureStep, Read, Probe, Forget,
         List, Cwd, Identify, Undo, Write, ReleaseStep, Find, Detach, Close, Remove,
         Fail, CloseSession
  <2> QED
    BY <2>1
<1>3. ASSUME NEW c \in Calls, Attach(c) PROVE Ahead
  BY <1>3 DEF Attach, Connect
<1>4. ASSUME NEW c \in Calls, Create(c) PROVE Ahead
  BY <1>4 DEF Create, Connect
<1> QED
  BY <1>1, <1>2, <1>3, <1>4, NextIs

(* A call changes its own progress only, and what it writes of another     *)
(* name than its own is the loss of its own handle.                        *)
LEMMA OwnProgress ==
  ASSUME Fit, NEW c \in Calls, CallStep(c)
  PROVE  \A d \in Calls \ {c} : call'[d] = call[d]
BY DEF Fit, CallStep, EnsureCall, ReleaseCall, Begin, EnsureStep, Read, Probe, Forget, List,
     Attach, Create, Cwd, Identify, Undo, Write, ReleaseStep, Find, Detach, Close, Remove,
     Fail, Goto, GotoWith, Return

LEMMA OwnEntry ==
  ASSUME Stored, Fit, HandlesHaveOneName, CallsKeep, NEW c \in Calls, CallStep(c)
  PROVE  \A n \in Names \ {call[c].name} : sessions'[n] = sessions[n]
<1>1. CASE Forget(c)
  <2> SUFFICES ASSUME NEW n \in Names, n # call[c].name PROVE sessions'[n] = sessions[n]
    OBVIOUS
  <2>1. /\ Keeps(call[c]) /\ call[c].pc \in {"forget", "forgetDetached"} /\ call[c] \in Call
        /\ call[c].name \in Names /\ call[c].entry # NoEntry
    BY <1>1 DEF CallsKeep, Fit, Fits, Forget
  <2>2. call[c].entry \in Draft /\ call[c].entry.local \in Handles
    BY <2>1 DEF Keeps, Call
  <2>3. sessions[n] # NoEntry => sessions[n] \in Draft /\ sessions[n].local # call[c].entry.local
    BY <2>1, <2>2 DEF HandlesHaveOneName, Held, Stored, Entry
  <2> QED
    BY <1>1, <2>3 DEF Forget, Forgotten
<1>2. CASE ~Forget(c)
  BY <1>2 DEF CallStep, EnsureCall, ReleaseCall, Begin, EnsureStep, Read, Probe, List,
     Attach, Create, Cwd, Identify, Undo, Write, ReleaseStep, Find, Detach, Close, Remove,
     Fail, Stored
<1> QED
  BY <1>1, <1>2

(* An entry that is held after a step was held before, perhaps with its    *)
(* handle, or is one that the step has attached, created or identified.    *)
CopyOf(x, d) ==
  /\ x.remote = d.remote /\ x.target = d.target
  /\ x.local \in {d.local, NoHandle}

NewHandle(x) == x.local \in Handles /\ onto[x.local] = NoRemote /\ onto'[x.local] \in Remotes

LatestOf(c, x) ==
  \/ /\ Attach(c) /\ NewHandle(x)
     /\ onto'[x.local] = x.remote /\ x.remote = call[c].entry.remote
     /\ Held(call[c].name, call[c].entry) /\ call[c].entry \in Draft
  \/ /\ Create(c) /\ NewHandle(x) /\ status[onto'[x.local]] = "free"
     /\ x.remote \in {onto'[x.local], NoRemote}
  \/ /\ Identify(c) /\ remoteSessions(call[c].target) \ call[c].before = {x.remote}
     /\ x.local = call[c].entry.local
     /\ Held(call[c].name, call[c].entry) /\ call[c].entry \in Draft

LEMMA EntriesOfCall ==
  ASSUME Stored, Fit, NEW c \in Calls, CallStep(c)
  PROVE  \A m \in Names, x \in Draft : Held(m, x)' =>
           \/ \E d \in Draft : Held(m, d) /\ CopyOf(x, d)
           \/ m = call[c].name /\ LatestOf(c, x)
<1> USE SentinelAssumption
<1> DEFINE e == call[c].entry
           n == call[c].name
<1>a. Fits(call[c])
  BY DEF Fit
<1> DEFINE Goal(m, x) == \/ \E d \in Draft : Held(m, d) /\ CopyOf(x, d)
                         \/ m = call[c].name /\ LatestOf(c, x)
<1>b. ASSUME NEW m \in Names, NEW x \in Draft, Held(m, x) PROVE Goal(m, x)
  BY <1>b DEF CopyOf
<1> SUFFICES ASSUME NEW m \in Names, NEW x \in Draft, Held(m, x)' PROVE Goal(m, x)
  OBVIOUS
<1>1. CASE Forget(c)
  <2>1. call' = [call EXCEPT ![c] = Idle] \/ call' = [call EXCEPT ![c].pc = "list"]
    BY <1>1 DEF Forget, Return, Goto
  <2>2. \A d \in Calls :
          call'[d].entry # NoEntry => call'[d].entry = call[d].entry /\ call'[d].name = call[d].name
    BY <2>1 DEF Fit, Call, Idle
  <2>3. CASE sessions'[m] = x
    <3>1. /\ sessions[m] \in Draft
          /\ x \in {sessions[m], [sessions[m] EXCEPT !.local = NoHandle]}
      BY <1>1, <2>3 DEF Forget, Forgotten, Stored, Entry
    <3>2. CopyOf(x, sessions[m])
      BY <3>1 DEF CopyOf, Draft
    <3> QED
      BY <3>1, <3>2 DEF Held
  <2>4. CASE \E d \in Calls : call'[d].name = m /\ call'[d].entry = x
    <3>1. Held(m, x)
      BY <2>2, <2>4 DEF Held
    <3> QED
      BY <1>b, <3>1
  <2> QED
    BY <2>3, <2>4 DEF Held
<1>2. CASE Write(c) \/ Remove(c)
  <2>1. Held(m, x)
    BY <1>2 DEF Write, Remove, Return, Idle, Held, Fit, Stored
  <2> QED
    BY <2>1, <1>b
<1>3. CASE \/ \E p \in Names, t \in Targets : EnsureCall(c, p, t)
           \/ \E p \in Names, op \in {"detach", "close"} : ReleaseCall(c, p, op)
  <2>1. PICK p, t, label : Begin(c, p, t, label)
    BY <1>3 DEF EnsureCall, ReleaseCall
  <2>2. PICK k : k = [Idle EXCEPT !.pc = label, !.name = p, !.target = t]
    OBVIOUS
  <2>3. UNCHANGED sessions /\ call' = [call EXCEPT ![c] = k] /\ k.entry = NoEntry
    BY <2>1, <2>2 DEF Begin, Idle
  <2> QED
    BY <2>3, <1>b, HeldSame
<1>4. CASE UNCHANGED sessions /\ (Return(c) \/ \E label : Goto(c, label))
  BY <1>4, <1>b, HeldReturn, HeldGoto
<1>5. CASE UNCHANGED sessions /\ \E label : GotoWith(c, label, sessions[n])
  <2>1. Held(m, x)
    BY <1>5, HeldAdded DEF Held
  <2> QED
    BY <2>1, <1>b
<1>6. CASE List(c)
  <2>1. CASE Goto(c, "attach")
    BY <1>4, <1>6, <2>1 DEF List
  <2>2. CASE call' = [call EXCEPT ![c].pc = "create",
                                 ![c].before = remoteSessions(call[c].target)]
    <3>1. PICK k : k = [call[c] EXCEPT !.pc = "create", !.before = remoteSessions(call[c].target)]
      OBVIOUS
    <3>2. call' = [call EXCEPT ![c] = k] /\ UNCHANGED sessions
      BY <1>6, <2>2, <3>1 DEF List, Fit
    <3>3. k.name = call[c].name /\ k.entry = call[c].entry
      BY <3>1 DEF Fit, Call
    <3> QED
      BY <3>2, <3>3, <1>b, HeldSame
  <2> QED
    BY <1>6, <2>1, <2>2 DEF List
<1>7. CASE Attach(c)
  <2>1. UNCHANGED sessions /\ e \in Draft /\ Held(n, e) /\ e.remote \in Remotes
    BY <1>7, <1>a DEF Attach, At, Fits, Call, Held, Fit
  <2>2. ASSUME NEW h \in Handles, Connect(h, e.remote), GotoWith(c, "write", [e EXCEPT !.local = h])
        PROVE  Goal(m, x)
    <3>1. Held(m, x) \/ (m = n /\ x = [e EXCEPT !.local = h])
      BY <2>1, <2>2, HeldAdded
    <3>2. [e EXCEPT !.local = h].local = h /\ [e EXCEPT !.local = h].remote = e.remote
      BY <2>1 DEF Draft
    <3>3. onto[h] = NoRemote /\ onto'[h] = e.remote
      BY <2>2 DEF Connect, Stored
    <3>4. x = [e EXCEPT !.local = h] => LatestOf(c, x)
      BY <1>7, <2>1, <3>2, <3>3 DEF LatestOf, NewHandle
    <3> QED
      BY <3>1, <3>4, <1>b
  <2>3. Return(c) \/ \E h \in Handles : Connect(h, e.remote) /\ GotoWith(c, "write", [e EXCEPT !.local = h])
    BY <1>7 DEF Attach
  <2> QED
    BY <1>4, <2>1, <2>2, <2>3
<1>8. CASE Create(c)
  <2>1. UNCHANGED sessions /\ call[c].target \in Targets
    BY <1>8, <1>a DEF Create, At, Fits, EnsureLabels
  <2>2. ASSUME NEW r \in Remotes, NEW h \in Handles, NEW label, status[r] = "free", Connect(h, r),
               GotoWith(c, label, [target |-> call[c].target, local |-> h,
                                   remote |-> IF ReportsRemoteId THEN r ELSE NoRemote])
        PROVE  Goal(m, x)
    <3> DEFINE f == [target |-> call[c].target, local |-> h,
                     remote |-> IF ReportsRemoteId THEN r ELSE NoRemote]
    <3>1. Held(m, x) \/ (m = n /\ x = f)
      BY <2>1, <2>2, HeldAdded
    <3>2. onto[h] = NoRemote /\ onto'[h] = r
      BY <2>2 DEF Connect, Stored
    <3>3. x = f => LatestOf(c, x)
      BY <1>8, <2>2, <3>2 DEF LatestOf, NewHandle
    <3> QED
      BY <3>1, <3>3, <1>b
  <2>3. \/ Return(c)
        \/ \E r \in Remotes, h \in Handles : \E label :
             /\ status[r] = "free" /\ Connect(h, r)
             /\ GotoWith(c, label, [target |-> call[c].target, local |-> h,
                                    remote |-> IF ReportsRemoteId THEN r ELSE NoRemote])
    BY <1>8 DEF Create
  <2> QED
    BY <1>4, <2>1, <2>2, <2>3
<1>9. CASE Identify(c)
  <2>1. UNCHANGED sessions /\ e \in Draft /\ Held(n, e)
    BY <1>9, <1>a DEF Identify, At, Fits, Call, Held, Fit
  <2>2. ASSUME NEW r, remoteSessions(call[c].target) \ call[c].before = {r},
               GotoWith(c, "write", [e EXCEPT !.remote = r])
        PROVE  Goal(m, x)
    <3>1. Held(m, x) \/ (m = n /\ x = [e EXCEPT !.remote = r])
      BY <2>1, <2>2, HeldAdded
    <3>2. [e EXCEPT !.remote = r].local = e.local /\ [e EXCEPT !.remote = r].remote = r
      BY <2>1 DEF Draft
    <3>3. x = [e EXCEPT !.remote = r] => LatestOf(c, x)
      BY <1>9, <2>1, <2>2, <3>2 DEF LatestOf
    <3> QED
      BY <3>1, <3>3, <1>b
  <2>3. \/ Goto(c, "undo")
        \/ \E r : /\ remoteSessions(call[c].target) \ call[c].before = {r}
                  /\ GotoWith(c, "write", [e EXCEPT !.remote = r])
    BY <1>9 DEF Identify
  <2> QED
    BY <1>4, <2>1, <2>2, <2>3
<1>10. ASSUME Read(c) \/ Probe(c) \/ Cwd(c) \/ Undo(c) \/ Find(c) \/ Detach(c) \/ Close(c) \/ Fail(c)
       PROVE  UNCHANGED sessions /\ \/ Return(c)
                                    \/ \E label : Goto(c, label)
                                    \/ \E label : GotoWith(c, label, sessions[n])
  BY <1>10 DEF Read, Probe, Cwd, Undo, Find, Detach, Close, Fail
<1> QED
  BY <1>1, <1>2, <1>3, <1>4, <1>5, <1>6, <1>7, <1>8, <1>9, <1>10 DEF CallStep, EnsureStep, ReleaseStep

LEMMA EntriesOfEnvironment ==
  ASSUME Environment \/ UNCHANGED vars, NEW m \in Names, NEW x \in Draft, Held(m, x)'
  PROVE  Held(m, x)
<1>1. UNCHANGED sessions
  BY DEF Environment, RemoteDies, HandleDies, Crash, vars
<1>2. call' = call \/ call' = [c \in Calls |-> Idle]
  BY DEF Environment, RemoteDies, HandleDies, Crash, vars
<1> QED
  BY <1>1, <1>2, SentinelAssumption DEF Held, Idle

LEMMA HandlesNext ==
  ASSUME Stored, Fit, Claims, HandlesHaveOneName, [Next]_vars
  PROVE  HandlesHaveOneName'
<1> USE SentinelAssumption
<1>1. \A m \in Names, d \in Draft :
        Held(m, d) /\ d.local \in Handles => onto[d.local] # NoRemote
  BY DEF Claims, AllSound, EntryIsSound
<1> SUFFICES ASSUME NEW m \in Names, NEW n \in Names, NEW x \in Draft, NEW y \in Draft,
                    Held(m, x)', Held(n, y)', x.local = y.local, x.local \in Handles
             PROVE  m = n
  BY DEF HandlesHaveOneName
<1>2. CASE Environment \/ UNCHANGED vars
  BY <1>2, EntriesOfEnvironment DEF HandlesHaveOneName
<1>3. ASSUME NEW c \in Calls, CallStep(c) PROVE m = n
  <2>1. ASSUME NEW k \in Names, NEW z \in Draft, Held(k, z)', z.local \in Handles
        PROVE  \/ \E d \in Draft : Held(k, d) /\ d.local = z.local
               \/ k = call[c].name /\ onto[z.local] = NoRemote
    <3>1. \/ \E d \in Draft : Held(k, d) /\ CopyOf(z, d)
          \/ k = call[c].name /\ LatestOf(c, z)
      BY <1>3, <2>1, EntriesOfCall
    <3> QED
      BY <2>1, <3>1 DEF CopyOf, LatestOf, NewHandle
  <2>2. \/ \E d \in Draft : Held(m, d) /\ d.local = x.local
        \/ m = call[c].name /\ onto[x.local] = NoRemote
    BY <2>1
  <2>3. \/ \E d \in Draft : Held(n, d) /\ d.local = y.local
        \/ n = call[c].name /\ onto[y.local] = NoRemote
    BY <2>1
  <2> QED
    BY <1>1, <2>2, <2>3 DEF HandlesHaveOneName
<1> QED
  BY <1>2, <1>3, NextIs

(* A call that has returned, or has just begun, knows nothing.             *)
LEMMA BlankKeeps ==
  ASSUME NEW k \in Call, k.entry = NoEntry, k.before = {},
         k.pc \in {"idle", "read", "findDetach", "findClose"}
  PROVE  Keeps(k) /\ Keeps(k)'
BY DEF Keeps

(* What a call knows survives the steps of calls on other names.           *)
LEMMA OthersKeep ==
  ASSUME Stored, NEW k \in Call, Fits(k), SessionsAreFresh, Ahead,
         k.entry # NoEntry => EntryIsSound(k.entry), Keeps(k),
         k.name \in Names => sessions'[k.name] = sessions[k.name]
  PROVE  Keeps(k)'
<1> USE SentinelAssumption
<1>1. CASE k.pc \in {"idle", "read", "findDetach", "findClose"}
  BY <1>1 DEF Keeps, Ahead, Call
<1>2. CASE k.pc \notin {"idle", "read", "findDetach", "findClose"}
  <2> DEFINE s == sessions[k.name]
  <2>1. s' = s /\ (s # NoEntry => s \in Draft /\ s.remote \in Remotes)
    BY <1>2 DEF Fits, Stored, Entry
  <2>2. \A r \in k.before : r \in Remotes /\ status'[r] # "free"
    BY DEF Ahead, Keeps, Call
  <2>3. CASE k.entry = NoEntry
    <3>1. k.pc \in {"list", "create"}
      BY <1>2, <2>3 DEF Fits
    <3> QED
      BY <2>1, <2>2, <2>3, <3>1 DEF Keeps, Ahead
  <2>4. CASE k.entry # NoEntry
    <3>1. k.entry \in Draft /\ EntryIsSound(k.entry)
      BY <2>4 DEF Call
    <3>2. k.entry.local \in Handles =>
            /\ onto[k.entry.local] \in Remotes /\ onto'[k.entry.local] = onto[k.entry.local]
            /\ status[onto[k.entry.local]] # "free"
      BY <3>1 DEF EntryIsSound, Ahead, SessionsAreFresh
    <3>3. k.pc \in {"probe", "forget", "detach", "forgetDetached", "close", "remove",
                    "cwd", "identify", "undo", "write"} => k.entry.local \in Handles
      BY DEF Fits, Keeps
    <3> QED
      BY <1>2, <2>1, <2>2, <2>4, <3>2, <3>3 DEF Keeps, Ahead, Call, Labels, EnsureLabels
  <2> QED
    BY <2>3, <2>4
<1> QED
  BY <1>1, <1>2

(* What a call knows after its own step.                                   *)
LEMMA OwnKeep ==
  ASSUME Stored, Fit, AllSound, SessionsAreFresh, CallsKeep, Ahead,
         NEW c \in Calls, CallStep(c), NEW k \in Call, call'[c] = k
  PROVE  Keeps(k)'
<1> USE SentinelAssumption
<1> DEFINE e == call[c].entry
           n == call[c].name
           s == sessions[n]
           own == onto[e.local]
<1>a. Fits(call[c]) /\ call[c] \in Call /\ Keeps(call[c])
  BY DEF Fit, CallsKeep
<1>b. ASSUME e # NoEntry PROVE e \in Draft /\ n \in Names /\ EntryIsSound(e)
  <2>1. e \in Draft /\ n \in Names
    BY <1>a, <1>b DEF Fits, Call
  <2> QED
    BY <2>1 DEF AllSound, Held
<1>c. ASSUME n \in Names, s # NoEntry
      PROVE  s \in Draft /\ s.remote \in Remotes /\ EntryIsSound(s)
  <2>1. s \in Draft /\ s.remote \in Remotes
    BY <1>c DEF Stored, Entry
  <2> QED
    BY <1>c, <2>1 DEF AllSound, Held
<1>d. /\ \A label : Goto(c, label) => k = [call[c] EXCEPT !.pc = label]
      /\ \A label, f : GotoWith(c, label, f) => k = [call[c] EXCEPT !.pc = label, !.entry = f]
      /\ Return(c) => k = Idle
  BY DEF Goto, GotoWith, Return, Fit
<1>e. \A r \in call[c].before : r \in Remotes /\ status'[r] # "free"
  BY <1>a DEF Ahead, Keeps, Call
<1>0. CASE Return(c)
  BY <1>0, <1>d, BlankKeeps DEF Idle
<1>1. CASE \/ \E m \in Names, t \in Targets : EnsureCall(c, m, t)
           \/ \E m \in Names, op \in {"detach", "close"} : ReleaseCall(c, m, op)
  <2>1. PICK m, t, label : Begin(c, m, t, label) /\ label \in {"read", "findDetach", "findClose"}
    BY <1>1 DEF EnsureCall, ReleaseCall
  <2>2. k = [Idle EXCEPT !.pc = label, !.name = m, !.target = t]
    BY <2>1 DEF Begin, Fit
  <2>3. k.entry = NoEntry /\ k.before = {} /\ k.pc = label
    BY <2>2 DEF Idle
  <2> QED
    BY <2>1, <2>3, BlankKeeps
<1>2. CASE Read(c)
  <2>1. n \in Names /\ e = NoEntry
    BY <1>a, <1>2 DEF Read, At, Fits, Keeps
  <2>2. UNCHANGED <<sessions, status, onto, up>>
    BY <1>2 DEF Read, links
  <2>3. CASE s = NoEntry /\ Goto(c, "list")
    <3>1. k = [call[c] EXCEPT !.pc = "list"]
      BY <1>d, <2>3
    <3>2. k.name = n /\ k.pc = "list" /\ k.entry = NoEntry /\ k.before = call[c].before
      BY <1>a, <2>1, <3>1 DEF Call
    <3> QED
      BY <1>e, <2>1, <2>2, <2>3, <3>2 DEF Keeps
  <2>4. CASE s # NoEntry /\ GotoWith(c, IF s.local = NoHandle THEN "list" ELSE "probe", s)
    <3>1. k = [call[c] EXCEPT !.pc = IF s.local = NoHandle THEN "list" ELSE "probe", !.entry = s]
      BY <1>d, <2>4
    <3>2. /\ k.name = n /\ k.pc = IF s.local = NoHandle THEN "list" ELSE "probe"
          /\ k.entry = s /\ k.before = call[c].before
      BY <1>a, <3>1 DEF Call
    <3>3. s.local \in Handles \cup {NoHandle}
      BY <1>c, <2>1, <2>4 DEF Draft
    <3> QED
      BY <1>e, <2>2, <2>4, <3>2, <3>3 DEF Keeps
  <2> QED
    BY <1>0, <1>2, <2>3, <2>4 DEF Read
<1>3. CASE Probe(c)
  <2>1. UNCHANGED <<sessions, status, onto, up>> /\ At(c, "probe")
    BY <1>3 DEF Probe, links
  <2>2. CASE Goto(c, "forget")
    <3>1. k = [call[c] EXCEPT !.pc = "forget"]
      BY <1>d, <2>2
    <3>2. k.name = n /\ k.pc = "forget" /\ k.entry = e /\ k.before = call[c].before
      BY <1>a, <3>1 DEF Call
    <3> QED
      BY <1>a, <1>e, <2>1, <3>2 DEF Keeps, At
  <2> QED
    BY <1>0, <1>3, <2>2 DEF Probe
<1>4. CASE Forget(c)
  <2>1. UNCHANGED <<status, onto, up>>
    BY <1>4 DEF Forget, links
  <2>2. CASE At(c, "forget") /\ Goto(c, "list")
    <3>1. k = [call[c] EXCEPT !.pc = "list"]
      BY <1>d, <2>2
    <3>2. k.name = n /\ k.pc = "list" /\ k.entry = e /\ k.before = call[c].before
      BY <1>a, <3>1 DEF Call
    <3>3. e # NoEntry /\ n \in Names /\ s = e
      BY <1>a, <2>2 DEF At, Fits, Keeps
    <3>4. e \in Draft
      BY <1>b, <3>3
    <3>5. sessions'[n] = [e EXCEPT !.local = NoHandle]
      BY <1>4, <3>3 DEF Forget, Forgotten
    <3>6. sessions'[n] \in Draft /\ sessions'[n].remote = e.remote
      BY <3>4, <3>5 DEF Draft
    <3> QED
      BY <1>e, <3>2, <3>3, <3>6 DEF Keeps
  <2> QED
    BY <1>0, <1>4, <2>2 DEF Forget
<1>5. CASE List(c)
  <2>1. UNCHANGED <<sessions, status, onto, up>> /\ At(c, "list")
    BY <1>5 DEF List, links
  <2>2. CASE e # NoEntry /\ Goto(c, "attach")
    <3>1. k = [call[c] EXCEPT !.pc = "attach"]
      BY <1>d, <2>2
    <3>2. k.name = n /\ k.pc = "attach" /\ k.entry = e /\ k.before = call[c].before
      BY <1>a, <3>1 DEF Call
    <3> QED
      BY <1>a, <1>e, <2>1, <2>2, <3>2 DEF Keeps, At
  <2>3. CASE /\ e = NoEntry \/ e.remote \notin remoteSessions(call[c].target)
             /\ call' = [call EXCEPT ![c].pc = "create", ![c].before = remoteSessions(call[c].target)]
    <3>1. k = [call[c] EXCEPT !.pc = "create", !.before = remoteSessions(call[c].target)]
      BY <2>3 DEF Fit
    <3>2. /\ k.name = n /\ k.pc = "create" /\ k.entry = e /\ k.target = call[c].target
          /\ k.before = remoteSessions(call[c].target)
      BY <1>a, <3>1 DEF Call
    <3>3. s = NoEntry \/ (status[s.remote] = "gone" /\ s.target = call[c].target)
      <4>1. CASE e = NoEntry
        BY <1>a, <2>1, <4>1 DEF Keeps, At
      <4>2. CASE e # NoEntry
        <5>1. s.remote = e.remote /\ e.remote \in Remotes /\ e.target = call[c].target
          BY <1>a, <2>1, <4>2 DEF Keeps, At, Fits, EnsureLabels
        <5>2. Home[e.remote] = e.target /\ status[e.remote] # "free"
          BY <1>b, <4>2, <5>1 DEF EntryIsSound
        <5>3. s.target = Home[s.remote]
          BY <1>a, <1>b, <1>c, <2>1, <4>2, <5>1 DEF EntryIsSound, Keeps, At
        <5> QED
          BY <2>3, <4>2, <5>1, <5>2, <5>3 DEF remoteSessions, Stored
      <4> QED
        BY <4>1, <4>2
    <3> QED
      BY <2>1, <3>2, <3>3 DEF Keeps, remoteSessions
  <2> QED
    BY <1>5, <2>2, <2>3 DEF List
<1>6. CASE Attach(c)
  <2>1. UNCHANGED <<sessions, status>> /\ At(c, "attach")
    BY <1>6 DEF Attach
  <2>2. ASSUME NEW h \in Handles, Connect(h, e.remote), GotoWith(c, "write", [e EXCEPT !.local = h])
        PROVE  Keeps(k)'
    <3>1. e # NoEntry
      BY <1>a, <2>1 DEF At, Fits
    <3>2. k = [call[c] EXCEPT !.pc = "write", !.entry = [e EXCEPT !.local = h]]
      BY <1>d, <2>2
    <3>3. /\ k.name = n /\ k.pc = "write" /\ k.before = call[c].before /\ k.target = call[c].target
          /\ k.entry.local = h /\ k.entry.remote = e.remote
      BY <1>a, <1>b, <3>1, <3>2 DEF Call, Draft
    <3>4. onto'[h] = e.remote
      BY <2>2 DEF Connect, Stored
    <3>5. s # NoEntry /\ s.remote = e.remote
      BY <1>a, <2>1, <3>1 DEF Keeps, At
    <3>6. s.target = call[c].target
      <4>1. s.target = Home[s.remote]
        BY <1>b, <1>c, <3>1, <3>5 DEF EntryIsSound
      <4>2. e.target = Home[e.remote] /\ e.target = call[c].target
        BY <1>a, <1>b, <2>1, <3>1 DEF EntryIsSound, At, Fits, EnsureLabels
      <4> QED
        BY <3>5, <4>1, <4>2
    <3> QED
      BY <1>e, <2>1, <3>3, <3>4, <3>5, <3>6 DEF Keeps
  <2> QED
    BY <1>0, <1>6, <2>2 DEF Attach
<1>7. CASE Create(c)
  <2>1. UNCHANGED sessions /\ At(c, "create") /\ n \in Names
    BY <1>7, <1>a DEF Create, At, Fits
  <2>2. ASSUME NEW r \in Remotes, NEW h \in Handles, NEW label \in {"cwd", Made},
               status[r] = "free", Connect(h, r),
               GotoWith(c, label, [target |-> call[c].target, local |-> h,
                                   remote |-> IF ReportsRemoteId THEN r ELSE NoRemote])
        PROVE  Keeps(k)'
    <3>1. k = [call[c] EXCEPT !.pc = label,
                 !.entry = [target |-> call[c].target, local |-> h,
                            remote |-> IF ReportsRemoteId THEN r ELSE NoRemote]]
      BY <1>d, <2>2
    <3>2. /\ k.name = n /\ k.pc = label /\ k.before = call[c].before /\ k.target = call[c].target
          /\ k.entry.local = h /\ k.entry.remote = IF ReportsRemoteId THEN r ELSE NoRemote
      BY <1>a, <3>1 DEF Call
    <3>3. onto'[h] = r /\ r \notin call[c].before
      BY <1>a, <2>2 DEF Connect, Stored, Keeps
    <3>4. s = NoEntry \/ (status'[s.remote] = "gone" /\ s.target = call[c].target)
      BY <1>a, <1>c, <2>1 DEF Keeps, At, Ahead
    <3>5. label \in {"cwd", "identify", "write"} /\ (label = "write" => ReportsRemoteId)
      BY DEF Made
    <3> QED
      BY <1>e, <2>1, <3>2, <3>3, <3>4, <3>5 DEF Keeps
  <2> QED
    BY <1>0, <1>7, <2>2 DEF Create
<1>8. CASE Cwd(c)
  <2>1. UNCHANGED <<sessions, status, onto, up>> /\ At(c, "cwd")
    BY <1>8 DEF Cwd, links
  <2>2. ASSUME NEW label \in {Made, "undo"}, Goto(c, label) PROVE Keeps(k)'
    <3>1. k = [call[c] EXCEPT !.pc = label]
      BY <1>d, <2>2
    <3>2. /\ k.name = n /\ k.pc = label /\ k.entry = e
          /\ k.before = call[c].before /\ k.target = call[c].target
      BY <1>a, <3>1 DEF Call
    <3>3. label \in {"undo", "identify", "write"} /\ (label = "write" => ReportsRemoteId)
      BY DEF Made
    <3>4. e # NoEntry /\ e.local \in Handles
      BY <1>a, <2>1 DEF At, Fits
    <3>5. ReportsRemoteId => own = e.remote
      BY <1>b, <3>4 DEF EntryIsSound
    <3> QED
      BY <1>a, <1>e, <2>1, <3>2, <3>3, <3>5 DEF Keeps, At
  <2> QED
    BY <1>8, <2>2 DEF Cwd
<1>9. CASE Identify(c)
  <2>1. UNCHANGED <<sessions, status, onto, up>> /\ At(c, "identify")
    BY <1>9 DEF Identify, links
  <2>2. CASE Goto(c, "undo")
    <3>1. k = [call[c] EXCEPT !.pc = "undo"]
      BY <1>d, <2>2
    <3>2. k.name = n /\ k.pc = "undo" /\ k.entry = e /\ k.before = call[c].before
      BY <1>a, <3>1 DEF Call
    <3> QED
      BY <1>a, <1>e, <2>1, <3>2 DEF Keeps, At
  <2>3. ASSUME NEW r, remoteSessions(call[c].target) \ call[c].before = {r},
               GotoWith(c, "write", [e EXCEPT !.remote = r])
        PROVE  Keeps(k)'
    <3>1. k = [call[c] EXCEPT !.pc = "write", !.entry = [e EXCEPT !.remote = r]]
      BY <1>d, <2>3
    <3>2. e # NoEntry /\ e.local \in Handles /\ e.target = call[c].target
      BY <1>a, <2>1 DEF At, Fits, EnsureLabels
    <3>3. /\ k.name = n /\ k.pc = "write" /\ k.before = call[c].before /\ k.target = call[c].target
          /\ k.entry.local = e.local /\ k.entry.remote = r
      BY <1>a, <1>b, <3>1, <3>2 DEF Call, Draft
    <3>4. own \in Remotes /\ Home[own] = call[c].target /\ own \notin call[c].before
      BY <1>a, <1>b, <2>1, <3>2 DEF EntryIsSound, Keeps, At
    <3>5. status[own] = "alive" => r = own
      BY <2>3, <3>4 DEF remoteSessions
    <3>6. s = NoEntry \/ (status[s.remote] = "gone" /\ s.target = call[c].target)
      BY <1>a, <2>1 DEF Keeps, At
    <3> QED
      BY <1>e, <2>1, <3>3, <3>5, <3>6 DEF Keeps
  <2> QED
    BY <1>9, <2>2, <2>3 DEF Identify
<1>10. CASE Find(c)
  <2>1. UNCHANGED <<sessions, status, onto, up>> /\ n \in Names
    BY <1>10, <1>a DEF Find, Fits, links
  <2>2. ASSUME s # NoEntry, s.local # NoHandle, NEW label \in {"detach", "close"}, GotoWith(c, label, s)
        PROVE  Keeps(k)'
    <3>1. k = [call[c] EXCEPT !.pc = label, !.entry = s]
      BY <1>d, <2>2
    <3>2. k.name = n /\ k.pc = label /\ k.entry = s /\ k.before = call[c].before
      BY <1>a, <3>1 DEF Call
    <3>3. s.local \in Handles
      BY <1>c, <2>1, <2>2 DEF Draft
    <3> QED
      BY <1>e, <2>1, <2>2, <3>2, <3>3 DEF Keeps
  <2> QED
    BY <1>0, <1>10, <2>2 DEF Find
<1>11. CASE Detach(c)
  <2>1. UNCHANGED <<sessions, status, onto>> /\ At(c, "detach")
    BY <1>11 DEF Detach
  <2>2. CASE Goto(c, "forgetDetached")
    <3>1. k = [call[c] EXCEPT !.pc = "forgetDetached"]
      BY <1>d, <2>2
    <3>2. k.name = n /\ k.pc = "forgetDetached" /\ k.entry = e /\ k.before = call[c].before
      BY <1>a, <3>1 DEF Call
    <3> QED
      BY <1>a, <1>e, <2>1, <3>2 DEF Keeps, At
  <2> QED
    BY <1>0, <1>11, <2>2 DEF Detach
<1>12. CASE Close(c)
  <2>1. UNCHANGED sessions /\ At(c, "close")
    BY <1>12 DEF Close
  <2>2. CASE CloseSession(e.local) /\ Goto(c, "remove")
    <3>1. k = [call[c] EXCEPT !.pc = "remove"]
      BY <1>d, <2>2
    <3>2. k.name = n /\ k.pc = "remove" /\ k.entry = e /\ k.before = call[c].before
      BY <1>a, <3>1 DEF Call
    <3>3. e # NoEntry /\ e.local \in Handles /\ s = e
      BY <1>a, <2>1 DEF At, Fits, Keeps
    <3>4. own \in Remotes
      BY <1>b, <3>3 DEF EntryIsSound
    <3>5. onto' = onto /\ status'[own] = "gone"
      BY <2>2, <3>4 DEF CloseSession, Stored
    <3> QED
      BY <1>e, <2>1, <3>2, <3>3, <3>5 DEF Keeps
  <2> QED
    BY <1>0, <1>12, <2>2 DEF Close
<1> QED
  BY <1>0, <1>1, <1>2, <1>3, <1>4, <1>5, <1>6, <1>7, <1>8, <1>9, <1>10, <1>11, <1>12
     DEF CallStep, EnsureStep, ReleaseStep, Undo, Write, Remove, Fail

(* The calls in progress are of different names.                           *)
LEMMA NamesHaveOneCallNext ==
  ASSUME OneCallPerName, Fit, NamesHaveOneCall, [Next]_vars
  PROVE  NamesHaveOneCall'
<1> USE SentinelAssumption
<1>1. CASE Environment \/ UNCHANGED vars
  <2>1. call' = call \/ call' = [c \in Calls |-> Idle]
    BY <1>1 DEF Environment, RemoteDies, HandleDies, Crash, vars
  <2> QED
    BY <2>1 DEF NamesHaveOneCall, Idle
<1>2. ASSUME NEW c \in Calls, CallStep(c) PROVE NamesHaveOneCall'
  <2>1. \A d \in Calls \ {c} : call'[d] = call[d]
    BY <1>2, OwnProgress
  <2>2. \/ call'[c].name = call[c].name
        \/ call'[c].name = NoName
        \/ \A d \in Calls : call[d].name # call'[c].name
    <3>1. CASE \/ \E m \in Names, t \in Targets : EnsureCall(c, m, t)
               \/ \E m \in Names, op \in {"detach", "close"} : ReleaseCall(c, m, op)
      <4>1. PICK m, t, label : Begin(c, m, t, label)
        BY <3>1 DEF EnsureCall, ReleaseCall
      <4>2. \A d \in Calls : call[d].name # m
        BY <4>1 DEF Begin
      <4>3. call'[c] = [Idle EXCEPT !.pc = label, !.name = m, !.target = t]
        BY <4>1 DEF Begin, Fit
      <4>4. call'[c].name = m
        BY <4>3 DEF Idle
      <4> QED
        BY <4>2, <4>4
    <3>2. CASE Return(c)
      BY <3>2 DEF Return, Idle, Fit
    <3>3. CASE EnsureStep(c) \/ ReleaseStep(c) \/ Fail(c)
      <4>1. \/ Return(c)
            \/ \E label : Goto(c, label)
            \/ \E label, f : GotoWith(c, label, f)
            \/ call' = [call EXCEPT ![c].pc = "create", ![c].before = remoteSessions(call[c].target)]
        BY <3>3 DEF EnsureStep, Read, Probe, Forget, List, Attach, Create, Cwd, Identify,
             Undo, Write, ReleaseStep, Find, Detach, Close, Remove, Fail
      <4> QED
        BY <3>2, <4>1 DEF Goto, GotoWith, Fit, Call
    <3> QED
      BY <1>2, <3>1, <3>3 DEF CallStep
  <2> QED
    BY <2>1, <2>2 DEF NamesHaveOneCall
<1> QED
  BY <1>1, <1>2, NextIs

LEMMA CallsKeepNext ==
  ASSUME Stored, Fit, Fit', AllSound, SessionsAreFresh, HandlesHaveOneName,
         NamesHaveOneCall, CallsKeep, [Next]_vars
  PROVE  CallsKeep'
<1>0. Ahead
  BY NextAhead
<1>a. ASSUME NEW k \in Call, NEW d \in Calls, call[d] = k,
             k.name \in Names => sessions'[k.name] = sessions[k.name]
      PROVE  Keeps(k)'
  <2>1. Fits(k) /\ Keeps(k)
    BY <1>a DEF Fit, CallsKeep
  <2>2. k.entry # NoEntry => EntryIsSound(k.entry)
    BY <1>a, <2>1 DEF AllSound, Held, Fits, Call
  <2> QED
    BY <1>0, <1>a, <2>1, <2>2, OthersKeep
<1> SUFFICES ASSUME NEW d \in Calls, NEW k \in Call, call'[d] = k
             PROVE  Keeps(k)'
  BY DEF CallsKeep
<1>1. CASE Environment \/ UNCHANGED vars
  <2>1. UNCHANGED sessions /\ (call' = call \/ call' = [c \in Calls |-> Idle])
    BY <1>1 DEF Environment, RemoteDies, HandleDies, Crash, vars
  <2>2. k = call[d] \/ k = Idle
    BY <2>1
  <2>3. CASE k = Idle
    BY <2>3, BlankKeeps DEF Idle
  <2> QED
    BY <1>a, <2>1, <2>2, <2>3
<1>2. ASSUME NEW c \in Calls, CallStep(c) PROVE Keeps(k)'
  <2>1. CASE d = c
    BY <1>0, <1>2, <2>1, OwnKeep
  <2>2. CASE d # c
    <3>1. k = call[d]
      BY <1>2, <2>2, OwnProgress
    <3>2. k.name \in Names => k.name # call[c].name
      BY <2>2, <3>1 DEF NamesHaveOneCall
    <3>3. k.name \in Names => sessions'[k.name] = sessions[k.name]
      BY <1>2, <3>2, OwnEntry
    <3> QED
      BY <1>a, <3>1, <3>3
  <2> QED
    BY <2>1, <2>2
<1> QED
  BY <1>1, <1>2, NextIs

(* Together: the invariant of a client that waits.                         *)
PatientInv == SessionInv /\ HandlesHaveOneName /\ NamesHaveOneCall /\ CallsKeep

LEMMA PatientInvariant ==
  ASSUME OneCallPerName
  PROVE  Spec => []PatientInv
<1>1. Init => PatientInv
  <2> SUFFICES ASSUME Init PROVE PatientInv
    OBVIOUS
  <2>1. \A n \in Names, e \in Draft : ~Held(n, e)
    BY SentinelAssumption DEF Init, Held, Idle
  <2>2. \A c \in Calls, k \in Call : call[c] = k => Keeps(k)
    BY BlankKeeps DEF Init, Idle
  <2> QED
    BY <2>1, <2>2, InitInv, SentinelAssumption
       DEF PatientInv, HandlesHaveOneName, NamesHaveOneCall, CallsKeep, Init, Idle
<1>2. PatientInv /\ [Next]_vars => PatientInv'
  <2> SUFFICES ASSUME PatientInv, [Next]_vars PROVE PatientInv'
    OBVIOUS
  <2>1. SessionInv' /\ SessionInv
    BY NextInv DEF PatientInv
  <2>2. Stored /\ Fit /\ Fit' /\ SessionsAreFresh /\ TypeInv
    BY <2>1, Split DEF SessionInv, TypeInv
  <2>3. Claims /\ AllSound
    BY <2>1, <2>2, ClaimsSplit DEF SessionInv, Claims
  <2> QED
    BY <2>1, <2>2, <2>3, HandlesNext, NamesHaveOneCallNext, CallsKeepNext DEF PatientInv
<1> QED
  BY <1>1, <1>2, PTL DEF Spec

-----------------------------------------------------------------------------
(* Where nothing fails, breaks or restarts, no living session is orphaned. *)

(* The handle of a session in the making still works, if the session lives.*)
MakersConnect ==
  \A c \in Calls :
    call[c].pc \in {"cwd", "identify", "undo"} =>
      call[c].entry.local \in up \/ status[onto[call[c].entry.local]] # "alive"

Owns(n, r) ==
  /\ sessions[n] # NoEntry /\ sessions[n].remote = r
  /\ sessions[n].local \in Handles => onto[sessions[n].local] = r

Makes(c, r) ==
  call[c].pc \in {"cwd", "identify", "undo", "write"} /\ onto[call[c].entry.local] = r

Covered ==
  \A r \in Remotes :
    status[r] = "alive" => (\E n \in Names : Owns(n, r)) \/ (\E c \in Calls : Makes(c, r))

LEMMA MakersConnectNext ==
  ASSUME Stored, Fit, Fit', AllSound, SessionsAreFresh, HandlesHaveOneName,
         NamesHaveOneCall, MakersConnect, ~MayBreak, [Next]_vars
  PROVE  MakersConnect'
<1> USE SentinelAssumption
<1>0. Ahead
  BY NextAhead
<1> SUFFICES ASSUME NEW d \in Calls, call'[d].pc \in {"cwd", "identify", "undo"}
             PROVE  call'[d].entry.local \in up' \/ status'[onto'[call'[d].entry.local]] # "alive"
  BY DEF MakersConnect
<1> DEFINE h == call'[d].entry.local
<1>1. CASE Environment \/ UNCHANGED vars
  <2>1. UNCHANGED <<onto, up>> /\ call' = call
    BY <1>1 DEF Environment, RemoteDies, HandleDies, Crash, vars, links, Idle
  <2> QED
    BY <1>0, <2>1 DEF MakersConnect, Ahead, Fit, Fits, SessionsAreFresh, AllSound, Held, EntryIsSound, Call
<1>2. ASSUME NEW c \in Calls, CallStep(c), d # c
      PROVE  h \in up' \/ status'[onto'[h]] # "alive"
  <2> DEFINE k == call[d]
  <2>1. call'[d] = k /\ Fits(k) /\ k.pc \in {"cwd", "identify", "undo"}
    BY <1>2, OwnProgress DEF Fit
  <2>2. /\ h = k.entry.local /\ h \in Handles /\ k.entry \in Draft /\ k.name \in Names
        /\ Held(k.name, k.entry)
    BY <2>1 DEF Fits, Fit, Call, Held
  <2>3. onto[h] \in Remotes /\ onto'[h] = onto[h] /\ status[onto[h]] # "free"
    BY <1>0, <2>2 DEF AllSound, EntryIsSound, Ahead, SessionsAreFresh
  <2>4. h \in up \/ status[onto[h]] # "alive"
    BY <2>1, <2>2 DEF MakersConnect
  <2>5. CASE up \subseteq up'
    BY <1>0, <2>3, <2>4, <2>5 DEF Ahead
  <2>6. ASSUME NEW g, CloseSession(g) PROVE h \in up' \/ status'[onto'[h]] # "alive"
    BY <1>0, <2>3, <2>4, <2>6 DEF CloseSession, Stored, Ahead
  <2>7. CASE Detach(c)
    <3>1. call[c].entry # NoEntry /\ Fits(call[c]) /\ At(c, "detach")
      BY <2>7 DEF Detach, At, Fit, Fits
    <3>2. call[c].entry \in Draft /\ call[c].name \in Names /\ Held(call[c].name, call[c].entry)
      BY <3>1 DEF Fits, Fit, Call, Held, At
    <3>3. call[c].name # k.name
      BY <1>2, <3>2 DEF NamesHaveOneCall
    <3>4. call[c].entry.local # h
      BY <2>2, <3>2, <3>3 DEF HandlesHaveOneName
    <3>5. h \in up => h \in up'
      BY <2>7, <3>4 DEF Detach
    <3> QED
      BY <1>0, <2>3, <2>4, <3>5 DEF Ahead
  <2> QED
    <3>1. Detach(c) \/ up \subseteq up' \/ \E g : CloseSession(g)
      BY <1>2 DEF CallStep, EnsureCall, ReleaseCall, Begin, EnsureStep, Read, Probe, Forget, List,
         Attach, Create, Cwd, Identify, Undo, Write, ReleaseStep, Find, Close, Remove,
         Fail, Connect, links
    <3> QED
      BY <2>5, <2>6, <2>7, <3>1
<1>3. ASSUME NEW c \in Calls, CallStep(c), d = c
      PROVE  h \in up' \/ status'[onto'[h]] # "alive"
  <2> DEFINE e == call[c].entry
  <2>1. CASE Create(c)
    <3>1. PICK label, g, f : GotoWith(c, label, f) /\ f.local = g /\ up' = up \cup {g}
      <4>1. ASSUME NEW r, NEW g \in Handles, NEW label, Connect(g, r),
                   GotoWith(c, label, [target |-> call[c].target, local |-> g,
                                       remote |-> IF ReportsRemoteId THEN r ELSE NoRemote])
            PROVE  \E lab, j, f : GotoWith(c, lab, f) /\ f.local = j /\ up' = up \cup {j}
        BY <4>1 DEF Connect
      <4>2. ~Return(c)
        BY <1>3 DEF Return, Idle, Fit
      <4> QED
        BY <2>1, <4>1, <4>2 DEF Create
    <3>2. call'[c].entry = f
      BY <3>1 DEF GotoWith, Fit, Call
    <3> QED
      BY <1>3, <3>1, <3>2
  <2>2. CASE Cwd(c) \/ Identify(c)
    <3>1. UNCHANGED <<status, onto, up>> /\ call[c].pc \in {"cwd", "identify"}
      BY <2>2 DEF Cwd, Identify, At, links
    <3>2. \E label : Goto(c, label)
      <4>1. \A f : ~GotoWith(c, "write", f)
        BY <1>3 DEF GotoWith, Fit, Call
      <4> QED
        BY <2>2, <4>1 DEF Cwd, Identify
    <3>3. call'[c].entry = call[c].entry
      BY <3>2 DEF Goto, Fit, Call
    <3> QED
      BY <1>3, <3>1, <3>3 DEF MakersConnect
  <2>3. CASE ~Create(c) /\ ~Cwd(c) /\ ~Identify(c)
    <3> DEFINE Later == {"probe", "forget", "list", "attach", "write", "detach", "close",
                         "forgetDetached", "remove"}
    <3>1. CASE \/ \E m \in Names, t \in Targets : EnsureCall(c, m, t)
               \/ \E m \in Names, op \in {"detach", "close"} : ReleaseCall(c, m, op)
      <4>1. PICK m, t : \E label \in {"read", "findDetach", "findClose"} : Begin(c, m, t, label)
        BY <3>1 DEF EnsureCall, ReleaseCall
      <4> QED
        BY <1>3, <4>1 DEF Begin, Idle, Fit
    <3>2. CASE EnsureStep(c) \/ ReleaseStep(c) \/ Fail(c)
      <4>1. \/ Return(c)
            \/ \E label \in Later : Goto(c, label) \/ \E f : GotoWith(c, label, f)
            \/ call' = [call EXCEPT ![c].pc = "create", ![c].before = remoteSessions(call[c].target)]
        BY <2>3, <3>2 DEF EnsureStep, Read, Probe, Forget, List, Attach, Undo, Write, ReleaseStep,
           Find, Detach, Close, Remove, Fail
      <4>2. call'[c].pc \in Later \cup {"idle", "create"}
        BY <4>1 DEF Return, Goto, GotoWith, Idle, Fit, Call
      <4> QED
        BY <1>3, <4>2
    <3> QED
      BY <1>3, <3>1, <3>2 DEF CallStep
  <2> QED
    BY <2>1, <2>2, <2>3
<1> QED
  BY <1>1, <1>2, <1>3, NextIs

LEMMA CoveredNext ==
  ASSUME Stored, Fit, AllSound, SessionsAreFresh, HandlesHaveOneName,
         CallsKeep, MakersConnect, Covered, ~MayFail, ~MayCrash, [Next]_vars
  PROVE  Covered'
<1> USE SentinelAssumption
<1>0. Ahead
  BY NextAhead
<1> SUFFICES ASSUME NEW r \in Remotes, status'[r] = "alive"
             PROVE  (\E n \in Names : Owns(n, r)') \/ (\E c \in Calls : Makes(c, r)')
  BY DEF Covered
<1> DEFINE Goal == (\E n \in Names : Owns(n, r)') \/ (\E c \in Calls : Makes(c, r)')
<1>a. ASSUME NEW n \in Names, Owns(n, r), sessions'[n] = sessions[n]
      PROVE  Owns(n, r)'
  <2>1. sessions[n] \in Draft /\ EntryIsSound(sessions[n])
    BY <1>a DEF Owns, Stored, Entry, AllSound, Held
  <2> QED
    BY <1>0, <1>a, <2>1 DEF Owns, EntryIsSound, Ahead
<1>b. ASSUME NEW d \in Calls, Makes(d, r), call'[d] = call[d]
      PROVE  Makes(d, r)'
  BY <1>0, <1>b DEF Makes, Fit, Fits, Ahead
<1>1. CASE Environment \/ UNCHANGED vars
  <2>1. UNCHANGED <<sessions, onto, call>>
    BY <1>1 DEF Environment, RemoteDies, HandleDies, Crash, vars, links
  <2>2. status[r] = "alive"
    BY <1>1 DEF Environment, RemoteDies, HandleDies, Crash, vars, Stored
  <2> QED
    BY <1>a, <1>b, <2>1, <2>2 DEF Covered
<1>2. ASSUME NEW c \in Calls, CallStep(c) PROVE Goal
  <2> DEFINE k == call[c]
             e == call[c].entry
             n == call[c].name
  <2>a. /\ Fits(k) /\ k \in Call /\ Keeps(k)
        /\ e # NoEntry => e \in Draft /\ n \in Names /\ EntryIsSound(e)
    BY DEF Fit, Fits, CallsKeep, AllSound, Held, Call
  <2>b. \A d \in Calls \ {c} : call'[d] = call[d]
    BY <1>2, OwnProgress
  <2>c. \A m \in Names \ {n} : sessions'[m] = sessions[m]
    BY <1>2, OwnEntry
  <2>1. CASE status[r] # "alive"
    <3>1. Create(c)
      BY <1>0, <1>2, <2>1 DEF Ahead, CallStep, EnsureCall, ReleaseCall, Begin, EnsureStep, Read,
         Probe, Forget, List, Attach, Cwd, Identify, Undo, Write, ReleaseStep, Find, Detach,
         Close, Remove, Fail, CloseSession, Stored
    <3>2. PICK q \in Remotes, h \in Handles, label \in {"cwd", Made} :
            /\ status' = [status EXCEPT ![q] = "alive"] /\ Connect(h, q)
            /\ GotoWith(c, label, [target |-> call[c].target, local |-> h,
                                   remote |-> IF ReportsRemoteId THEN q ELSE NoRemote])
      BY <2>1, <3>1 DEF Create
    <3>3. q = r
      BY <2>1, <3>2 DEF Stored
    <3>4. call'[c].pc = label /\ call'[c].entry.local = h
      BY <3>2 DEF GotoWith, Fit, Call
    <3>5. onto'[h] = r
      BY <3>2, <3>3 DEF Connect, Stored
    <3> QED
      BY <3>4, <3>5 DEF Makes, Made
  <2>2. ASSUME NEW d \in Calls, Makes(d, r), d # c PROVE Goal
    BY <1>b, <2>2, <2>b
  <2>3. ASSUME NEW m \in Names, Owns(m, r), m # n PROVE Goal
    BY <1>a, <2>3, <2>c
  <2>4. CASE Makes(c, r)
    <3>1. k.pc \in {"cwd", "identify", "undo", "write"} /\ onto[e.local] = r
      BY <2>4 DEF Makes
    <3>2. e \in Draft /\ n \in Names /\ e.local \in Handles /\ onto'[e.local] = r
      BY <1>0, <2>a, <3>1 DEF Fits, Ahead
    <3>3. CASE \E label \in {"identify", "undo", "write"} : Goto(c, label)
      BY <3>2, <3>3 DEF Goto, Makes, Fit, Call
    <3>4. ASSUME NEW q, GotoWith(c, "write", [e EXCEPT !.remote = q]) PROVE Goal
      <4>1. call'[c].pc = "write" /\ call'[c].entry = [e EXCEPT !.remote = q]
        BY <3>4 DEF GotoWith, Fit, Call
      <4>2. call'[c].entry.local = e.local
        BY <3>2, <4>1 DEF Draft
      <4> QED
        BY <3>2, <4>1, <4>2 DEF Makes
    <3>5. CASE Undo(c)
      <4>1. e.local \in up
        BY <3>1, <3>5, <1>0, <2>2 DEF MakersConnect, Undo, At, Ahead, SessionsAreFresh, CloseSession, links
      <4>2. CloseSession(e.local)
        BY <3>5, <4>1 DEF Undo
      <4> QED
        BY <3>1, <4>2 DEF CloseSession, Stored
    <3>6. CASE Write(c)
      <4>1. /\ sessions'[n] = e /\ At(c, "write") /\ UNCHANGED <<status, onto>>
        BY <3>2, <3>6 DEF Write, Stored, links
      <4>2. e.remote = r
        BY <2>a, <3>1, <4>1 DEF Keeps, At
      <4> QED
        BY <3>2, <4>1, <4>2 DEF Owns
    <3> QED
      BY <1>2, <3>1, <3>3, <3>4, <3>5, <3>6
         DEF CallStep, EnsureCall, ReleaseCall, Begin, EnsureStep, Read, Probe, Forget, List,
             Attach, Create, Cwd, Identify, ReleaseStep, Find, Detach, Close, Remove,
             Fail, At, Made
  <2>5. CASE n \in Names /\ Owns(n, r)
    <3>1. sessions[n] \in Draft /\ sessions[n].remote = r /\ EntryIsSound(sessions[n])
      BY <2>5 DEF Owns, Stored, Entry, AllSound, Held
    <3>2. CASE sessions' = sessions
      BY <1>a, <2>5, <3>2
    <3>3. CASE Forget(c)
      <4>1. /\ sessions'[n] \in {sessions[n], [sessions[n] EXCEPT !.local = NoHandle]}
            /\ UNCHANGED onto
        BY <2>5, <3>3 DEF Forget, Forgotten, links
      <4>2. CASE sessions'[n] = [sessions[n] EXCEPT !.local = NoHandle]
        <5>1. sessions'[n] \in Draft /\ sessions'[n].remote = r /\ sessions'[n].local = NoHandle
          BY <3>1, <4>2 DEF Draft
        <5> QED
          BY <2>5, <5>1 DEF Owns
      <4> QED
        BY <1>a, <2>5, <4>1, <4>2
    <3>4. CASE Write(c)
      <4>1. sessions'[n] = e /\ At(c, "write") /\ UNCHANGED <<status, onto>> /\ e # NoEntry
        BY <2>5, <2>a, <3>4 DEF Write, Stored, links, At, Fits
      <4>2. status[r] = "alive"
        BY <4>1
      <4>3. e.remote = r /\ onto[e.local] = r
        BY <2>a, <3>1, <4>1, <4>2 DEF Keeps, At
      <4> QED
        BY <2>5, <4>1, <4>3 DEF Owns
    <3>5. CASE Remove(c)
      <4>1. At(c, "remove") /\ UNCHANGED <<status, onto>>
        BY <3>5 DEF Remove, links
      <4>2. sessions[n] = e /\ e.local \in Handles /\ status[onto[e.local]] = "gone"
        BY <2>a, <4>1 DEF Keeps, At
      <4> QED
        BY <2>5, <4>1, <4>2 DEF Owns
    <3> QED
      BY <1>2, <3>2, <3>3, <3>4, <3>5
         DEF CallStep, EnsureCall, ReleaseCall, Begin, EnsureStep, Read, Probe, List,
             Attach, Create, Cwd, Identify, Undo, ReleaseStep, Find, Detach, Close, Fail
  <2> QED
    BY <2>1, <2>2, <2>3, <2>4, <2>5 DEF Covered
<1> QED
  BY <1>1, <1>2, NextIs

(* A session that createSession has made is either identified and written, *)
(* or closed by the catch block: where closing works and the process goes  *)
(* on, none is left running without a name, whatever ensures, detaches and *)
(* closes of other names do meanwhile, and also when sessions end by       *)
(* themselves or cannot be told apart.                                     *)
THEOREM NoSessionIsOrphaned ==
  ASSUME OneCallPerName, ~MayFail, ~MayBreak, ~MayCrash
  PROVE  Spec => []NoOrphanSession
<1>1. Init => MakersConnect /\ Covered
  BY DEF Init, MakersConnect, Covered, Idle
<1>2. PatientInv /\ PatientInv' /\ MakersConnect /\ Covered /\ [Next]_vars
        => MakersConnect' /\ Covered'
  <2> SUFFICES ASSUME PatientInv, PatientInv', MakersConnect, Covered, [Next]_vars
               PROVE  MakersConnect' /\ Covered'
    OBVIOUS
  <2>1. Stored /\ Fit /\ Fit' /\ SessionsAreFresh /\ TypeInv
    BY Split DEF PatientInv, SessionInv, TypeInv
  <2>2. AllSound
    BY <2>1, ClaimsSplit DEF PatientInv, SessionInv, Claims
  <2> QED
    BY <2>1, <2>2, MakersConnectNext, CoveredNext DEF PatientInv
<1>3. PatientInv /\ Covered => NoOrphanSession
  <2> SUFFICES ASSUME PatientInv, Covered, NEW r \in Remotes, status[r] = "alive",
                      NEW c \in Calls, Makes(c, r)
               PROVE  /\ call[c].entry # NoEntry /\ call[c].entry.local # NoHandle
                      /\ onto[call[c].entry.local] = r
    BY DEF Covered, NoOrphanSession, Owns
  <2>1. Fits(call[c])
    BY Split DEF PatientInv, SessionInv, TypeInv, Fit
  <2> QED
    BY <2>1, SentinelAssumption DEF Makes, Fits
<1> QED
  BY <1>1, <1>2, <1>3, PatientInvariant, PTL DEF Spec

-----------------------------------------------------------------------------
(* A session has one name also where create_ssh_session does not name it,  *)
(* as long as sessions do not end by themselves.                           *)

Reaches(e, r) == e.remote = r \/ (e.local \in Handles /\ onto[e.local] = r)

SessionIsExclusive ==
  \A m, n \in Names, d, e \in Draft, r \in Remotes :
    Held(m, d) /\ Held(n, e) /\ Reaches(d, r) /\ Reaches(e, r) => m = n

HandlesAgree ==
  \A n \in Names, e \in Draft :
    Held(n, e) /\ e.remote \in Remotes /\ e.local \in Handles => onto[e.local] = e.remote

(* A session that is not identified yet is alive, and so among the new.    *)
MakersLive ==
  \A c \in Calls :
    call[c].pc \in {"cwd", "identify"} => status[onto[call[c].entry.local]] = "alive"

ExactInv == SessionIsExclusive /\ HandlesAgree /\ MakersLive

LEMMA MakersLiveNext ==
  ASSUME Stored, Fit, AllSound, SessionsAreFresh, NamesHaveOneCall,
         SessionIsExclusive, MakersLive, Mortal = {}, [Next]_vars
  PROVE  MakersLive'
<1> USE SentinelAssumption
<1>0. Ahead
  BY NextAhead
<1> SUFFICES ASSUME NEW d \in Calls, call'[d].pc \in {"cwd", "identify"}
             PROVE  status'[onto'[call'[d].entry.local]] = "alive"
  BY DEF MakersLive
<1>1. CASE Environment \/ UNCHANGED vars
  <2>1. call' = call /\ UNCHANGED <<status, onto>>
    BY <1>1 DEF Environment, RemoteDies, HandleDies, Crash, vars, links, Idle
  <2> QED
    BY <2>1 DEF MakersLive
<1>2. ASSUME NEW c \in Calls, CallStep(c), d # c
      PROVE  status'[onto'[call'[d].entry.local]] = "alive"
  <2> DEFINE k == call[d]
             own == onto[k.entry.local]
  <2>1. call'[d] = k /\ Fits(k) /\ k.pc \in {"cwd", "identify"}
    BY <1>2, OwnProgress DEF Fit
  <2>2. /\ k.entry.local \in Handles /\ k.entry \in Draft /\ k.name \in Names
        /\ Held(k.name, k.entry)
    BY <2>1 DEF Fits, Fit, Call, Held
  <2>3. own \in Remotes /\ onto'[k.entry.local] = own /\ status[own] = "alive"
    BY <1>0, <2>1, <2>2 DEF AllSound, EntryIsSound, Ahead, MakersLive
  <2>4. CASE (Undo(c) \/ Close(c)) /\ CloseSession(call[c].entry.local)
    <3> DEFINE e == call[c].entry
    <3>1. e # NoEntry /\ Fits(call[c])
      BY <2>4 DEF Undo, Close, At, Fit, Fits
    <3>2. e \in Draft /\ call[c].name \in Names /\ Held(call[c].name, e)
      BY <2>4, <3>1 DEF Fits, Fit, Call, Held, Undo, Close, At
    <3>3. e.local \in Handles
      BY <2>4 DEF CloseSession, Stored
    <3>4. call[c].name # k.name
      BY <1>2, <3>2 DEF NamesHaveOneCall
    <3>5. onto[e.local] # own
      BY <2>2, <2>3, <3>2, <3>3, <3>4 DEF SessionIsExclusive, Reaches
    <3> QED
      BY <2>1, <2>3, <2>4, <3>5 DEF CloseSession, Stored
  <2>5. CASE UNCHANGED status \/ Create(c)
    <3>1. status' = status \/ \E r \in Remotes : status' = [status EXCEPT ![r] = "alive"]
      BY <2>5 DEF Create
    <3>2. status'[own] = "alive"
      BY <2>3, <3>1 DEF Stored
    <3> QED
      BY <2>1, <2>3, <3>2
  <2> QED
    <3>1. \/ UNCHANGED status \/ Create(c)
          \/ (Undo(c) \/ Close(c)) /\ CloseSession(call[c].entry.local)
      BY <1>2 DEF CallStep, EnsureCall, ReleaseCall, Begin, EnsureStep, Read, Probe, Forget, List,
         Attach, Cwd, Identify, Undo, Write, ReleaseStep, Find, Detach, Close, Remove,
         Fail, links
    <3> QED
      BY <2>4, <2>5, <3>1
<1>3. ASSUME NEW c \in Calls, CallStep(c), d = c
      PROVE  status'[onto'[call'[d].entry.local]] = "alive"
  <2>1. CASE Create(c)
    <3>1. ~Return(c)
      BY <1>3 DEF Return, Idle, Fit
    <3>2. PICK r \in Remotes, h \in Handles :
            /\ status' = [status EXCEPT ![r] = "alive"] /\ Connect(h, r)
            /\ \E label, t :
                 GotoWith(c, label, [target |-> t, local |-> h,
                                     remote |-> IF ReportsRemoteId THEN r ELSE NoRemote])
      BY <2>1, <3>1 DEF Create
    <3>3. call'[c].entry.local = h
      BY <3>2 DEF GotoWith, Fit, Call
    <3> QED
      BY <1>3, <3>2, <3>3 DEF Connect, Stored
  <2>2. CASE Cwd(c)
    <3>1. UNCHANGED <<status, onto>> /\ At(c, "cwd") /\ \E label : Goto(c, label)
      BY <2>2 DEF Cwd, links
    <3>2. call'[c].entry = call[c].entry
      BY <3>1 DEF Goto, Fit, Call
    <3> QED
      BY <1>3, <3>1, <3>2 DEF MakersLive, At
  <2>3. CASE ~Create(c) /\ ~Cwd(c)
    <3> DEFINE Later == {"probe", "forget", "list", "attach", "undo", "write", "detach", "close",
                         "forgetDetached", "remove"}
    <3>1. CASE \/ \E m \in Names, t \in Targets : EnsureCall(c, m, t)
               \/ \E m \in Names, op \in {"detach", "close"} : ReleaseCall(c, m, op)
      <4>1. PICK m, t : \E label \in {"read", "findDetach", "findClose"} : Begin(c, m, t, label)
        BY <3>1 DEF EnsureCall, ReleaseCall
      <4> QED
        BY <1>3, <4>1 DEF Begin, Idle, Fit
    <3>2. CASE EnsureStep(c) \/ ReleaseStep(c) \/ Fail(c)
      <4>1. \/ Return(c)
            \/ \E label \in Later : Goto(c, label) \/ \E f : GotoWith(c, label, f)
            \/ call' = [call EXCEPT ![c].pc = "create", ![c].before = remoteSessions(call[c].target)]
        BY <2>3, <3>2 DEF EnsureStep, Read, Probe, Forget, List, Attach, Identify, Undo, Write,
           ReleaseStep, Find, Detach, Close, Remove, Fail
      <4>2. call'[c].pc \in Later \cup {"idle", "create"}
        BY <4>1 DEF Return, Goto, GotoWith, Idle, Fit, Call
      <4> QED
        BY <1>3, <4>2
    <3> QED
      BY <1>3, <3>1, <3>2 DEF CallStep
  <2> QED
    BY <2>1, <2>2, <2>3
<1> QED
  BY <1>1, <1>2, <1>3, NextIs

LEMMA ExactNext ==
  ASSUME Stored, Fit, AllSound, SessionsAreFresh, NamesHaveOneCall, CallsKeep,
         ExactInv, Mortal = {}, [Next]_vars
  PROVE  ExactInv'
<1> USE SentinelAssumption
<1>0. Ahead
  BY NextAhead
<1>1. MakersLive'
  BY MakersLiveNext DEF ExactInv
<1>a. ASSUME NEW m \in Names, NEW d \in Draft, Held(m, d)
      PROVE  /\ d.local \in Handles => onto[d.local] \in Remotes /\ onto'[d.local] = onto[d.local]
             /\ \A r \in Remotes : Reaches(d, r) => status[r] # "free" /\ Reaches(d, r)'
             /\ d.remote \in Remotes /\ d.local \in Handles => onto[d.local] = d.remote
  <2>1. EntryIsSound(d)
    BY <1>a DEF AllSound
  <2> QED
    BY <1>0, <1>a, <2>1 DEF EntryIsSound, Ahead, SessionsAreFresh, Reaches, ExactInv, HandlesAgree
<1> DEFINE From(m, x) == \E d \in Draft : Held(m, d) /\ \A r \in Remotes : Reaches(x, r)' => Reaches(d, r)
           New(x) == \A r \in Remotes : Reaches(x, r)' => status[r] = "free"
           Agrees(x) == x.remote \in Remotes /\ x.local \in Handles => onto'[x.local] = x.remote
<1>b. ASSUME NEW m \in Names, NEW x \in Draft, NEW d \in Draft, Held(m, d), CopyOf(x, d)
      PROVE  From(m, x) /\ Agrees(x)
  BY <1>a, <1>b DEF CopyOf, Reaches
<1>2. CASE Environment \/ UNCHANGED vars
  <2>1. \A m \in Names, x \in Draft : Held(m, x)' => From(m, x) /\ Agrees(x)
    BY <1>2, <1>b, EntriesOfEnvironment DEF CopyOf
  <2> HIDE DEF From, Agrees
  <2>2. HandlesAgree'
    BY <2>1 DEF HandlesAgree, Agrees
  <2>3. SessionIsExclusive'
    BY <2>1 DEF SessionIsExclusive, From, ExactInv
  <2> QED
    BY <1>1, <2>2, <2>3 DEF ExactInv
<1>3. ASSUME NEW c \in Calls, CallStep(c) PROVE ExactInv'
  <2> DEFINE n == call[c].name
             e == call[c].entry
  <2>1. ASSUME NEW m \in Names, NEW x \in Draft, m = n, LatestOf(c, x)
        PROVE  (From(m, x) \/ New(x)) /\ Agrees(x)
    <3>1. CASE Attach(c) /\ NewHandle(x) /\ onto'[x.local] = x.remote /\ x.remote = e.remote
               /\ Held(n, e) /\ e \in Draft
      BY <2>1, <3>1 DEF Reaches
    <3>2. CASE Create(c) /\ NewHandle(x) /\ status[onto'[x.local]] = "free"
               /\ x.remote \in {onto'[x.local], NoRemote}
      BY <2>1, <3>2 DEF Reaches
    <3>3. CASE Identify(c) /\ remoteSessions(call[c].target) \ call[c].before = {x.remote}
               /\ x.local = e.local /\ Held(n, e) /\ e \in Draft
      <4>1. At(c, "identify") /\ Fits(call[c]) /\ Keeps(call[c]) /\ e # NoEntry
        BY <3>3 DEF Identify, At, Fit, Fits, CallsKeep
      <4>2. e.local \in Handles /\ e.target = call[c].target /\ onto[e.local] \notin call[c].before
        BY <4>1 DEF Fits, At, Keeps, EnsureLabels
      <4>3. /\ onto[e.local] \in Remotes /\ Home[onto[e.local]] = e.target
            /\ status[onto[e.local]] = "alive"
        BY <2>1, <3>3, <4>1, <4>2 DEF AllSound, EntryIsSound, ExactInv, MakersLive, At
      <4>4. onto[e.local] \in remoteSessions(call[c].target) \ call[c].before
        BY <4>2, <4>3 DEF remoteSessions
      <4>5. x.remote = onto[e.local] /\ onto'[x.local] = x.remote
        BY <1>0, <3>3, <4>2, <4>3, <4>4 DEF Ahead
      <4> QED
        BY <2>1, <3>3, <4>2, <4>5 DEF Reaches
    <3> QED
      BY <2>1, <3>1, <3>2, <3>3 DEF LatestOf
  <2>2. ASSUME NEW m \in Names, NEW x \in Draft, Held(m, x)'
        PROVE  (From(m, x) \/ (m = n /\ New(x))) /\ Agrees(x)
    BY <1>3, <1>b, <2>1, <2>2, EntriesOfCall
  <2>3. \A m \in Names, r \in Remotes, d \in Draft : Held(m, d) /\ Reaches(d, r) => status[r] # "free"
    BY <1>a
  <2> HIDE DEF From, Agrees, New
  <2>4. HandlesAgree'
    BY <2>2 DEF HandlesAgree, Agrees
  <2>5. ASSUME NEW m \in Names, NEW k \in Names, NEW x \in Draft, NEW y \in Draft, NEW r \in Remotes,
               Held(m, x)', Held(k, y)', Reaches(x, r)', Reaches(y, r)'
        PROVE  m = k
    <3>1. (\E d \in Draft : Held(m, d) /\ Reaches(d, r)) \/ (m = n /\ status[r] = "free")
      BY <2>2, <2>5 DEF From, New
    <3>2. (\E d \in Draft : Held(k, d) /\ Reaches(d, r)) \/ (k = n /\ status[r] = "free")
      BY <2>2, <2>5 DEF From, New
    <3> QED
      BY <2>3, <3>1, <3>2 DEF ExactInv, SessionIsExclusive
  <2> QED
    BY <1>1, <2>4, <2>5 DEF ExactInv, SessionIsExclusive
<1> QED
  BY <1>2, <1>3, NextIs

LEMMA ExactInvariant ==
  ASSUME OneCallPerName, Mortal = {}
  PROVE  Spec => []ExactInv
<1>1. Init => ExactInv
  <2> SUFFICES ASSUME Init PROVE ExactInv
    OBVIOUS
  <2>1. \A n \in Names, e \in Draft : ~Held(n, e)
    BY SentinelAssumption DEF Init, Held, Idle
  <2> QED
    BY <2>1 DEF ExactInv, SessionIsExclusive, HandlesAgree, MakersLive, Init, Idle
<1>2. PatientInv /\ ExactInv /\ [Next]_vars => ExactInv'
  <2> SUFFICES ASSUME PatientInv, ExactInv, [Next]_vars PROVE ExactInv'
    OBVIOUS
  <2>1. Stored /\ Fit /\ SessionsAreFresh /\ TypeInv
    BY Split DEF PatientInv, SessionInv, TypeInv
  <2>2. AllSound
    BY <2>1, ClaimsSplit DEF PatientInv, SessionInv, Claims
  <2> QED
    BY <2>1, <2>2, ExactNext DEF PatientInv
<1> QED
  BY <1>1, <1>2, PatientInvariant, PTL DEF Spec

-----------------------------------------------------------------------------
(* The refinement of SessionNames.                                         *)

(* What makes writing and removing an entry steps of SessionNames.         *)
WritesOwnSession ==
  \A c \in Calls, m \in Names :
    call[c].pc = "write" /\ m # call[c].name /\ sessions[m] # NoEntry =>
      sessions[m].remote # call[c].entry.remote

RemovesOnlyClosed ==
  \A c \in Calls : call[c].pc = "remove" => status[call[c].entry.remote] = "gone"

LEMMA KeepsToItsOwn ==
  ASSUME PatientInv, ReportsRemoteId \/ ExactInv
  PROVE  WritesOwnSession /\ RemovesOnlyClosed
<1> USE SentinelAssumption
<1>1. Stored /\ Fit /\ TypeInv
  BY Split DEF PatientInv, SessionInv, TypeInv
<1>2. Claims
  BY <1>1, ClaimsSplit DEF PatientInv, SessionInv
<1>3. ASSUME NEW c \in Calls, call[c].pc \in {"write", "remove"}
      PROVE  /\ call[c].name \in Names /\ call[c].entry \in Draft
             /\ call[c].entry.remote \in Remotes /\ call[c].entry.local \in Handles
             /\ Held(call[c].name, call[c].entry) /\ Keeps(call[c])
  BY <1>1, <1>3 DEF Fit, Fits, Call, Held, PatientInv, CallsKeep, Keeps
<1>4. WritesOwnSession
  <2> SUFFICES ASSUME NEW c \in Calls, NEW m \in Names, call[c].pc = "write", sessions[m] # NoEntry,
                      sessions[m].remote = call[c].entry.remote
               PROVE  m = call[c].name
    BY DEF WritesOwnSession
  <2>1. sessions[m] \in Draft /\ Held(m, sessions[m])
    BY <1>1 DEF Stored, Entry, Held
  <2>2. CASE ReportsRemoteId
    BY <1>2, <1>3, <2>1, <2>2 DEF Claims, OneName
  <2>3. CASE ExactInv
    BY <1>3, <2>1, <2>3 DEF ExactInv, SessionIsExclusive, Reaches
  <2> QED
    BY <2>2, <2>3
<1>5. RemovesOnlyClosed
  <2> SUFFICES ASSUME NEW c \in Calls, call[c].pc = "remove"
               PROVE  status[call[c].entry.remote] = "gone"
    BY DEF RemovesOnlyClosed
  <2>1. status[onto[call[c].entry.local]] = "gone"
    BY <1>3 DEF Keeps
  <2>2. onto[call[c].entry.local] = call[c].entry.remote
    <3>1. CASE ReportsRemoteId
      BY <1>2, <1>3, <3>1 DEF Claims, AllSound, EntryIsSound
    <3>2. CASE ExactInv
      BY <1>3, <3>2 DEF ExactInv, HandlesAgree
    <3> QED
      BY <3>1, <3>2
  <2> QED
    BY <2>1, <2>2
<1> QED
  BY <1>4, <1>5

(* The state that SessionNames speaks of.                                  *)
Bound == [n \in Names |->
            IF sessions[n] = NoEntry THEN NoEntry
            ELSE [target |-> sessions[n].target, remote |-> sessions[n].remote]]
Over == {r \in Remotes : status[r] \in {"dead", "gone"}}

LEMMA NextRefinesNames ==
  ASSUME PatientInv, WritesOwnSession, RemovesOnlyClosed, [Next]_vars
  PROVE  [Registry!NamesNext]_(Registry!nameVars)
<1> USE SentinelAssumption
<1>0. Stored /\ Fit /\ SessionsAreFresh /\ TypeInv
  BY Split DEF PatientInv, SessionInv, TypeInv
<1>a. AllSound
  BY <1>0, ClaimsSplit DEF PatientInv, SessionInv, Claims
<1>b. ASSUME Bound' = Bound, Over' = Over PROVE UNCHANGED Registry!nameVars
  BY <1>b DEF Bound, Over, Registry!nameVars
<1>c. ASSUME NEW r \in Remotes, r \notin Over, Bound' = Bound, Over' = Over \cup {r}
      PROVE  Registry!End(r)
  BY <1>c DEF Bound, Over, Registry!End
<1>d. ASSUME sessions' = sessions PROVE Bound' = Bound
  BY <1>d DEF Bound
<1>e. ASSUME NEW r \in Remotes, status[r] # "free", sessions' = sessions,
             NEW s \in {"dead", "gone"}, status' = [status EXCEPT ![r] = s]
      PROVE  [Registry!NamesNext]_(Registry!nameVars)
  <2>1. Bound' = Bound
    BY <1>d, <1>e
  <2>2. CASE r \in Over
    <3>1. Over' = Over
      BY <1>0, <1>e, <2>2 DEF Over, Stored
    <3> QED
      BY <1>b, <2>1, <3>1
  <2>3. CASE r \notin Over
    <3>1. Over' = Over \cup {r}
      BY <1>0, <1>e, <2>3 DEF Over, Stored
    <3> QED
      BY <1>c, <2>1, <2>3, <3>1 DEF Registry!NamesNext
  <2> QED
    BY <2>2, <2>3
<1>f. ASSUME sessions' = sessions, status' = status
      PROVE  [Registry!NamesNext]_(Registry!nameVars)
  <2>1. Bound' = Bound /\ Over' = Over
    BY <1>d, <1>f DEF Over
  <2> QED
    BY <1>b, <2>1
<1>1. CASE Environment \/ UNCHANGED vars
  <2>1. ASSUME NEW r \in Remotes, RemoteDies(r) PROVE [Registry!NamesNext]_(Registry!nameVars)
    <3>1. status[r] # "free" /\ sessions' = sessions
          /\ \E s \in {"dead", "gone"} : status' = [status EXCEPT ![r] = s]
      BY <2>1 DEF RemoteDies
    <3> QED
      BY <1>e, <3>1
  <2>2. CASE (\E h \in Handles : HandleDies(h)) \/ Crash \/ UNCHANGED vars
    BY <1>f, <2>2 DEF HandleDies, Crash, vars
  <2> QED
    BY <1>1, <2>1, <2>2 DEF Environment
<1>2. ASSUME NEW c \in Calls, Forget(c) PROVE [Registry!NamesNext]_(Registry!nameVars)
  <2>1. ASSUME NEW n \in Names PROVE Bound'[n] = Bound[n]
    <3>1. CASE sessions'[n] = sessions[n]
      BY <3>1 DEF Bound
    <3>2. CASE sessions[n] # NoEntry /\ sessions'[n] = [sessions[n] EXCEPT !.local = NoHandle]
      <4>1. sessions[n] \in Draft
        BY <1>0, <3>2 DEF Stored, Entry
      <4>2. /\ sessions'[n] \in Draft /\ sessions'[n].target = sessions[n].target
            /\ sessions'[n].remote = sessions[n].remote
        BY <3>2, <4>1 DEF Draft
      <4> QED
        BY <3>2, <4>2 DEF Bound
    <3> QED
      BY <1>2, <3>1, <3>2 DEF Forget, Forgotten
  <2>2. Bound' = Bound
    BY <2>1 DEF Bound
  <2>3. Over' = Over
    BY <1>2 DEF Forget, Over
  <2> QED
    BY <1>b, <2>2, <2>3
<1>3. ASSUME NEW c \in Calls, Write(c) PROVE [Registry!NamesNext]_(Registry!nameVars)
  <2> DEFINE n == call[c].name
             e == call[c].entry
             s == sessions[n]
             b == [target |-> Home[e.remote], remote |-> e.remote]
  <2>1. /\ At(c, "write") /\ Fits(call[c]) /\ Keeps(call[c])
        /\ sessions' = [sessions EXCEPT ![n] = e] /\ Over' = Over
    BY <1>0, <1>3 DEF Write, Fit, PatientInv, CallsKeep, Over
  <2>2. n \in Names /\ e # NoEntry /\ e.remote \in Remotes /\ e.target = call[c].target
    BY <2>1 DEF At, Fits, EnsureLabels
  <2>3. e \in Draft /\ Home[e.remote] = e.target
    BY <1>0, <1>a, <2>2 DEF Fit, Call, AllSound, Held, EntryIsSound
  <2>p. PICK p \in Names, q \in Remotes : p = n /\ q = e.remote
    BY <2>2
  <2>4. Bound' = [Bound EXCEPT ![n] = b]
    BY <1>0, <2>1, <2>2, <2>3 DEF Bound, Stored
  <2>5. \A m \in Names : m # n => Bound[m] = NoEntry \/ Bound[m].remote # e.remote
    BY <1>3, <2>1, <2>2 DEF Bound, WritesOwnSession, At
  <2>6. CASE s # NoEntry /\ s.remote = e.remote
    <3>1. s.target = Home[s.remote]
      BY <1>0, <1>a, <2>2, <2>6 DEF Stored, Entry, AllSound, Held, EntryIsSound
    <3>2. Bound[n] = b
      BY <2>2, <2>6, <3>1 DEF Bound
    <3>3. Bound' = Bound
      BY <2>2, <2>4, <3>2 DEF Bound
    <3> QED
      BY <1>b, <2>1, <3>3
  <2>7. CASE s = NoEntry
    <3>1. Bound[n] = NoEntry
      BY <2>2, <2>7 DEF Bound
    <3>2. Registry!BindTo(p, q)
      BY <2>p, <2>1, <2>4, <2>5, <3>1 DEF Registry!BindTo, Registry!Unnamed, Bound, Over
    <3>3. Registry!Bind(p)
      BY <2>p, <3>1, <3>2 DEF Registry!Bind, Bound
    <3> QED
      BY <3>3 DEF Registry!NamesNext
  <2>8. CASE s # NoEntry /\ s.remote # e.remote
    <3>1. s \in Draft /\ s.remote \in Remotes /\ status[s.remote] = "gone" /\ s.target = e.target
      BY <1>0, <2>1, <2>2, <2>8 DEF Stored, Entry, Keeps, At
    <3>2. Bound[n] = [target |-> s.target, remote |-> s.remote]
      BY <2>2, <2>8 DEF Bound
    <3>3. Bound[n] # NoEntry /\ Bound[n].remote \in Over /\ Bound[n].remote # e.remote
          /\ Bound[n].target = Home[e.remote]
      BY <2>3, <2>8, <3>1, <3>2 DEF Over, Draft
    <3>4. Registry!BindTo(p, q)
      BY <2>p, <2>1, <2>4, <2>5, <3>3 DEF Registry!BindTo, Registry!Unnamed, Bound, Over
    <3>5. Registry!Rebind(p)
      BY <2>p, <3>3, <3>4 DEF Registry!Rebind, Bound, Over
    <3> QED
      BY <3>5 DEF Registry!NamesNext
  <2> QED
    BY <2>6, <2>7, <2>8
<1>4. ASSUME NEW c \in Calls, Remove(c) PROVE [Registry!NamesNext]_(Registry!nameVars)
  <2> DEFINE n == call[c].name
             s == sessions[n]
  <2>1. /\ At(c, "remove") /\ Fits(call[c]) /\ Keeps(call[c])
        /\ sessions' = [sessions EXCEPT ![n] = NoEntry] /\ Over' = Over
    BY <1>0, <1>4 DEF Remove, Fit, PatientInv, CallsKeep, Over
  <2>2. n \in Names /\ s = call[c].entry /\ s # NoEntry /\ status[s.remote] = "gone"
    BY <2>1 DEF At, Fits, Keeps, RemovesOnlyClosed
  <2>3. s \in Draft /\ s.remote \in Remotes
    BY <1>0, <2>2 DEF Stored, Entry
  <2>4. Bound' = [Bound EXCEPT ![n] = NoEntry]
    BY <1>0, <2>1, <2>2 DEF Bound, Stored
  <2>5. Bound[n] = [target |-> s.target, remote |-> s.remote]
    BY <2>2 DEF Bound
  <2>6. Bound[n] # NoEntry /\ Bound[n].remote \in Over
    BY <2>2, <2>3, <2>5 DEF Over, Draft
  <2> QED
    BY <2>1, <2>2, <2>4, <2>6 DEF Registry!NamesNext, Registry!Unbind, Bound, Over
<1>5. ASSUME NEW c \in Calls, CallStep(c), ~Forget(c), ~Write(c), ~Remove(c)
      PROVE  [Registry!NamesNext]_(Registry!nameVars)
  <2>1. sessions' = sessions
    BY <1>5 DEF CallStep, EnsureCall, ReleaseCall, Begin, EnsureStep, Read, Probe, List, Attach,
       Create, Cwd, Identify, Undo, ReleaseStep, Find, Detach, Close, Fail
  <2>2. CASE Create(c)
    <3>1. Over' = Over
      BY <1>0, <2>2 DEF Create, Over, Stored
    <3> QED
      BY <1>b, <1>d, <2>1, <3>1
  <2>3. ASSUME NEW h, CloseSession(h) PROVE [Registry!NamesNext]_(Registry!nameVars)
    <3>1. onto[h] \in Remotes /\ status[onto[h]] # "free"
          /\ status' = [status EXCEPT ![onto[h]] = "gone"]
      BY <1>0, <2>3 DEF CloseSession, SessionsAreFresh, Stored
    <3> QED
      BY <1>e, <2>1, <3>1
  <2> QED
    <3>1. UNCHANGED status \/ Create(c) \/ \E h : CloseSession(h)
      BY <1>5 DEF CallStep, EnsureCall, ReleaseCall, Begin, EnsureStep, Read, Probe, List, Attach,
         Cwd, Identify, Undo, ReleaseStep, Find, Detach, Close, Fail
    <3> QED
      BY <1>f, <2>1, <2>2, <2>3, <3>1
<1> QED
  BY <1>1, <1>2, <1>3, <1>4, <1>5, NextIs

(* Clients that wait for the calls on a name see SessionNames, through     *)
(* restarts, failures and broken connections: every step is one of its     *)
(* steps or changes nothing they see.  Without a reported session id this  *)
(* needs sessions that do not end by themselves, since the one session     *)
(* that is new when a call looks may otherwise be another call's.          *)
THEOREM RegistryImplementsNames ==
  ASSUME OneCallPerName, ReportsRemoteId \/ Mortal = {}
  PROVE  Spec => ImplementsSessionNames
<1>1. Init => Registry!NamesInit
  BY DEF Init, Registry!NamesInit
<1>2. CASE ReportsRemoteId
  <2>1. PatientInv /\ [Next]_vars => [Registry!NamesNext]_(Registry!nameVars)
    BY <1>2, KeepsToItsOwn, NextRefinesNames
  <2> QED
    BY <1>1, <2>1, PatientInvariant, PTL DEF Spec, ImplementsSessionNames, Registry!NamesSpec
<1>3. CASE Mortal = {}
  <2>1. PatientInv /\ ExactInv /\ [Next]_vars => [Registry!NamesNext]_(Registry!nameVars)
    BY KeepsToItsOwn, NextRefinesNames
  <2> QED
    BY <1>1, <1>3, <2>1, PatientInvariant, ExactInvariant, PTL
       DEF Spec, ImplementsSessionNames, Registry!NamesSpec
<1> QED
  BY <1>2, <1>3

-----------------------------------------------------------------------------
(* What the names promise, and the registry keeps by the refinement.       *)

(* The session of a name is replaced or given up only when it is over, and *)
(* a replacement is on the same target, through failed calls, lost handles *)
(* and restarts (ensureSession, 190; forgetLocalSessionHandle, 278).       *)
THEOREM NamesKeepTheirSessions ==
  ASSUME OneCallPerName, ReportsRemoteId \/ Mortal = {}
  PROVE  Spec => [][Registry!NamesKeepSessions]_(Registry!nameVars)
<1>1. ASSUME Registry!NamesNext PROVE Registry!NamesKeepSessions
  <2>1. PICK b, d : b = Bound /\ d = Bound'
    OBVIOUS
  <2>2. DOMAIN b = Names
    BY <2>1 DEF Bound
  <2>3. \/ d = b
        \/ \E n \in Names : d = [b EXCEPT ![n] = d[n]] /\
             \/ b[n] = NoEntry
             \/ b[n].remote \in Over /\ (d[n] # NoEntry => d[n].target = b[n].target)
    <3>1. CASE \E r \in Remotes : Registry!End(r)
      BY <2>1, <3>1 DEF Registry!End, Bound
    <3>2. ASSUME NEW n \in Names, Registry!Bind(n) \/ Registry!Rebind(n) \/ Registry!Unbind(n)
          PROVE  /\ d = [b EXCEPT ![n] = d[n]]
                 /\ \/ b[n] = NoEntry
                    \/ b[n].remote \in Over /\ (d[n] # NoEntry => d[n].target = b[n].target)
      <4>1. CASE Registry!Bind(n)
        BY <2>1, <2>2, <4>1 DEF Registry!Bind, Registry!BindTo, Bound
      <4>2. CASE Registry!Rebind(n)
        <5>1. b[n].remote \in Over
          BY <2>1, <4>2 DEF Registry!Rebind, Bound, Over
        <5>2. PICK r \in Remotes : Home[r] = b[n].target /\ d = [b EXCEPT ![n] = [target |-> Home[r], remote |-> r]]
          BY <2>1, <4>2 DEF Registry!Rebind, Registry!BindTo, Bound
        <5> QED
          BY <2>2, <5>1, <5>2
      <4>3. CASE Registry!Unbind(n)
        <5>1. b[n].remote \in Over /\ d = [b EXCEPT ![n] = NoEntry]
          BY <2>1, <4>3 DEF Registry!Unbind, Bound, Over
        <5> QED
          BY <2>2, <5>1
      <4> QED
        BY <3>2, <4>1, <4>2, <4>3
    <3> QED
      BY <1>1, <3>1, <3>2 DEF Registry!NamesNext
  <2>4. \A n \in Names : b[n] # NoEntry /\ d[n] # b[n] =>
          b[n].remote \in Over /\ (d[n] # NoEntry => d[n].target = b[n].target)
    BY <2>2, <2>3
  <2> QED
    BY <2>1, <2>4 DEF Registry!NamesKeepSessions, Bound, Over
<1> QED
  BY <1>1, RegistryImplementsNames, PTL DEF ImplementsSessionNames, Registry!NamesSpec
=============================================================================
