------------------------- MODULE ForwardManager_proofs -------------------------
(***************************************************************************)
(* Proofs about ForwardManager, for any number of calls, forwards, PIDs,   *)
(* names, ports and restarts: only the manager's own processes are         *)
(* signalled, a closed forward has no process, no process is forgotten,    *)
(* and names are unique unless creates overlap.                            *)
(***************************************************************************)
EXTENDS ForwardManager, TLAPS

(* The shape of the state, which is all that is needed of its types.       *)
CallForm ==
  call = [c \in Calls |-> [pc |-> call[c].pc, job |-> call[c].job, f |-> call[c].f,
                           pid |-> call[c].pid, checks |-> call[c].checks]]

WorldForm ==
  /\ at = [p \in Pids |-> at[p]]
  /\ def = [f \in Fwds |-> def[f]]
  /\ rec = [f \in Fwds |-> rec[f]]
  /\ \A f \in Fwds : rec[f] \in Pids \cup {NoPid}

(* The steps of a create that has not recorded its forward yet.            *)
Early == {"spawn", "startup", "identify", "put", "putFailed", "undo"}

(* If the ssh of f runs it is the process p.                               *)
OnlyAt(f, p) == \A q \in Pids : at[q] = f => q = p

(* What is true of a call at step a with job j, forward f and process p.   *)
Suits(a, j, f, p) ==
  /\ f \in Fwds \cup {NoFwd}
  /\ a = "idle" <=> f = NoFwd
  /\ a \in Early => j = "create" /\ ~Recorded(f)
  /\ a = "spawn" => ~Runs(f)
  /\ a \notin {"idle", "spawn", "find"} => p \in Pids /\ OnlyAt(f, p)
  /\ a \in {"identify", "undo", "term", "kill"} => at[p] \in {f, Free}
  /\ a \notin Early \cup {"idle"} => Recorded(f) \/ f \in closed
  /\ a = "delete" => ~Runs(f)

(* Nobody else knows a forward that is not recorded yet.                   *)
Alone(c) ==
  call[c].pc \in Early =>
    /\ \A d \in Calls \ {c} : call[d].f # call[c].f
    /\ call[c].f \notin closed \cup abandoned \cup signalled

CallFits(c) == Suits(call[c].pc, call[c].job, call[c].f, call[c].pid) /\ Alone(c)

(* A forward that is recorded, or is about to be, has a claim to its name. *)
Claims(f) ==
  \/ Recorded(f)
  \/ \E c \in Calls : /\ call[c].f = f /\ call[c].job = "create"
                      /\ call[c].pc \in {"spawn", "startup", "identify", "put"}

NamesClaimed ==
  raced \/ \A f, g \in Fwds :
    Claims(f) /\ Claims(g) /\ def[f].name = def[g].name /\ def[f].name # NoName => f = g

RecordsFit == \A f \in Fwds : Recorded(f) => OnlyAt(f, rec[f])

ForwardInv ==
  /\ CallForm /\ WorldForm
  /\ \A c \in Calls : CallFits(c)
  /\ RecordsFit
  /\ ~harmed /\ closed \subseteq Fwds
  /\ ClosedMeansGone /\ NoOrphanProcess /\ NamesClaimed

-----------------------------------------------------------------------------
(* Updates of one call.                                                    *)

Turns(c, a, j, f, p) ==
  /\ CallForm'
  /\ call'[c].pc = a /\ call'[c].job = j /\ call'[c].f = f /\ call'[c].pid = p
  /\ \A d \in Calls \ {c} : call'[d] = call[d]

LEMMA CallSet ==
  ASSUME CallForm, NEW c \in Calls, NEW a, NEW j, NEW f, NEW p, NEW k,
         call' = [call EXCEPT ![c] = [pc |-> a, job |-> j, f |-> f, pid |-> p, checks |-> k]]
  PROVE  Turns(c, a, j, f, p)
<1>1. DOMAIN call = Calls
  BY DEF CallForm
<1>2. \A d \in Calls : call[d] = [pc |-> call[d].pc, job |-> call[d].job, f |-> call[d].f,
                                  pid |-> call[d].pid, checks |-> call[d].checks]
  BY DEF CallForm
<1>3. /\ call'[c] = [pc |-> a, job |-> j, f |-> f, pid |-> p, checks |-> k]
      /\ \A d \in Calls \ {c} : call'[d] = call[d]
  BY <1>1
<1>4. \A d \in Calls : call'[d] = [pc |-> call'[d].pc, job |-> call'[d].job, f |-> call'[d].f,
                                   pid |-> call'[d].pid, checks |-> call'[d].checks]
  BY <1>2, <1>3
<1>5. call' = [d \in Calls |-> call'[d]]
  BY <1>1
<1>6. CallForm'
  BY <1>4, <1>5 DEF CallForm
<1> QED
  BY <1>3, <1>6 DEF Turns

LEMMA GotoTurns ==
  ASSUME CallForm, NEW c \in Calls, NEW a, Goto(c, a)
  PROVE  Turns(c, a, call[c].job, call[c].f, call[c].pid)
<1>1. call[c] = [pc |-> call[c].pc, job |-> call[c].job, f |-> call[c].f,
                 pid |-> call[c].pid, checks |-> call[c].checks]
  BY DEF CallForm
<1>2. [call[c] EXCEPT !.pc = a] = [pc |-> a, job |-> call[c].job, f |-> call[c].f,
                                   pid |-> call[c].pid, checks |-> call[c].checks]
  BY <1>1
<1>3. call' = [call EXCEPT ![c] = [pc |-> a, job |-> call[c].job, f |-> call[c].f,
                                   pid |-> call[c].pid, checks |-> call[c].checks]]
  BY <1>2 DEF Goto
<1> QED
  BY <1>3, CallSet

LEMMA GotoWithTurns ==
  ASSUME CallForm, NEW c \in Calls, NEW a, NEW p,
         call' = [call EXCEPT ![c].pc = a, ![c].pid = p]
  PROVE  Turns(c, a, call[c].job, call[c].f, p)
<1>1. call[c] = [pc |-> call[c].pc, job |-> call[c].job, f |-> call[c].f,
                 pid |-> call[c].pid, checks |-> call[c].checks]
  BY DEF CallForm
<1>2. PICK x : x = [call[c] EXCEPT !.pc = a]
  OBVIOUS
<1>3. x = [pc |-> a, job |-> call[c].job, f |-> call[c].f,
           pid |-> call[c].pid, checks |-> call[c].checks]
  BY <1>1, <1>2
<1>4. [x EXCEPT !.pid = p] = [pc |-> a, job |-> call[c].job, f |-> call[c].f,
                              pid |-> p, checks |-> call[c].checks]
  BY <1>3
<1>5. call' = [call EXCEPT ![c] = [[call[c] EXCEPT !.pc = a] EXCEPT !.pid = p]]
  BY DEF CallForm
<1>6. call' = [call EXCEPT ![c] = [pc |-> a, job |-> call[c].job, f |-> call[c].f,
                                   pid |-> p, checks |-> call[c].checks]]
  BY <1>2, <1>4, <1>5
<1> QED
  BY <1>6, CallSet

LEMMA RetryTurns ==
  ASSUME CallForm, NEW c \in Calls, NEW a,
         call' = [call EXCEPT ![c].pc = a, ![c].checks = @ + 1]
  PROVE  Turns(c, a, call[c].job, call[c].f, call[c].pid)
<1>1. call[c] = [pc |-> call[c].pc, job |-> call[c].job, f |-> call[c].f,
                 pid |-> call[c].pid, checks |-> call[c].checks]
  BY DEF CallForm
<1>2. PICK x : x = [call[c] EXCEPT !.pc = a]
  OBVIOUS
<1>3. x = [pc |-> a, job |-> call[c].job, f |-> call[c].f,
           pid |-> call[c].pid, checks |-> call[c].checks]
  BY <1>1, <1>2
<1>4. PICK k : k = x.checks + 1
  OBVIOUS
<1>5. [x EXCEPT !.checks = k] = [pc |-> a, job |-> call[c].job, f |-> call[c].f,
                                 pid |-> call[c].pid, checks |-> k]
  BY <1>3
<1>6. call' = [call EXCEPT ![c] = [x EXCEPT !.checks = k]]
  BY <1>2, <1>4 DEF CallForm
<1>7. call' = [call EXCEPT ![c] = [pc |-> a, job |-> call[c].job, f |-> call[c].f,
                                   pid |-> call[c].pid, checks |-> k]]
  BY <1>5, <1>6
<1> QED
  BY <1>7, CallSet

LEMMA IdleFor ==
  ASSUME NEW a, NEW f, NEW x, x = [Idle EXCEPT !.pc = a, !.f = f]
  PROVE  x = [pc |-> a, job |-> "create", f |-> f, pid |-> NoPid, checks |-> 0]
<1>1. PICK y : y = [Idle EXCEPT !.pc = a]
  OBVIOUS
<1>2. y = [pc |-> a, job |-> "create", f |-> NoFwd, pid |-> NoPid, checks |-> 0]
  BY <1>1 DEF Idle
<1>3. x = [y EXCEPT !.f = f]
  BY <1>1
<1> QED
  BY <1>2, <1>3

LEMMA IdleDoing ==
  ASSUME NEW a, NEW j, NEW f, NEW x, x = [Idle EXCEPT !.pc = a, !.job = j, !.f = f]
  PROVE  x = [pc |-> a, job |-> j, f |-> f, pid |-> NoPid, checks |-> 0]
<1>1. PICK y : y = [Idle EXCEPT !.pc = a]
  OBVIOUS
<1>2. y = [pc |-> a, job |-> "create", f |-> NoFwd, pid |-> NoPid, checks |-> 0]
  BY <1>1 DEF Idle
<1>3. PICK z : z = [y EXCEPT !.job = j]
  OBVIOUS
<1>4. z = [pc |-> a, job |-> j, f |-> NoFwd, pid |-> NoPid, checks |-> 0]
  BY <1>2, <1>3
<1>5. x = [z EXCEPT !.f = f]
  BY <1>1, <1>3
<1> QED
  BY <1>4, <1>5

LEMMA IdleWith ==
  ASSUME NEW a, NEW j, NEW f, NEW p, NEW x,
         x = [Idle EXCEPT !.pc = a, !.job = j, !.f = f, !.pid = p]
  PROVE  x = [pc |-> a, job |-> j, f |-> f, pid |-> p, checks |-> 0]
<1>1. PICK y : y = [Idle EXCEPT !.pc = a, !.job = j, !.f = f]
  OBVIOUS
<1>2. y = [pc |-> a, job |-> j, f |-> f, pid |-> NoPid, checks |-> 0]
  BY <1>1, IdleDoing
<1>3. x = [y EXCEPT !.pid = p]
  BY <1>1
<1> QED
  BY <1>2, <1>3

LEMMA ReturnTurns ==
  ASSUME CallForm, NEW c \in Calls, Return(c)
  PROVE  Turns(c, "idle", "create", NoFwd, NoPid)
<1>1. call' = [call EXCEPT ![c] = [pc |-> "idle", job |-> "create", f |-> NoFwd,
                                   pid |-> NoPid, checks |-> 0]]
  BY DEF Return, Idle
<1> QED
  BY <1>1, CallSet

LEMMA GiveUpTurns ==
  ASSUME CallForm, NEW c \in Calls, GiveUp(c)
  PROVE  Turns(c, "find", "giveUp", call[c].f, NoPid)
<1>1. call' = [call EXCEPT ![c] = [pc |-> "find", job |-> "giveUp", f |-> call[c].f,
                                   pid |-> NoPid, checks |-> 0]]
  <2>1. PICK a, j, f : a = "find" /\ j = "giveUp" /\ f = call[c].f
    OBVIOUS
  <2>2. PICK x : x = [Idle EXCEPT !.pc = a, !.job = j, !.f = f]
    OBVIOUS
  <2>3. x = [pc |-> a, job |-> j, f |-> f, pid |-> NoPid, checks |-> 0]
    BY ONLY <2>2, IdleDoing
  <2>4. call' = [call EXCEPT ![c] = x]
    BY <2>1, <2>2, Zenon DEF GiveUp
  <2> QED
    BY <2>1, <2>3, <2>4
<1> QED
  BY <1>1, CallSet

-----------------------------------------------------------------------------
(* Steps of one call.                                                      *)

MakingSteps == {"spawn", "startup", "identify", "put"}

(* A call goes on or returns, or takes up a recorded forward; what runs    *)
(* and what is recorded stay.                                              *)
LEMMA CallStep ==
  ASSUME ForwardInv, NEW c \in Calls, NEW a, NEW j, NEW f, NEW p, Turns(c, a, j, f, p),
         \/ f = call[c].f
         \/ f = NoFwd
         \/ call[c].pc = "idle" /\ f \in Fwds /\ Recorded(f),
         UNCHANGED <<at, rec, def, closed, raced>>, ~harmed',
         signalled \subseteq signalled', signalled' \subseteq signalled \cup {call[c].f},
         abandoned \subseteq abandoned', abandoned' \subseteq abandoned \cup {call[c].f},
         a \in Early => call[c].pc \in Early /\ UNCHANGED <<signalled, abandoned>>,
         a \in MakingSteps => call[c].pc \in MakingSteps,
         Suits(a, j, f, p),
         f = NoFwd /\ Runs(call[c].f) =>
           Recorded(call[c].f) \/ call[c].f \in signalled' \cup abandoned'
  PROVE  ForwardInv'
<1>1. \A d \in Calls : CallFits(d)
  BY DEF ForwardInv
<1>2. /\ call'[c].pc = a /\ call'[c].job = j /\ call'[c].f = f /\ call'[c].pid = p
      /\ \A d \in Calls \ {c} : call'[d] = call[d]
  BY DEF Turns
<1>3. \A g : Recorded(g)' = Recorded(g) /\ Runs(g)' = Runs(g)
  BY DEF Recorded, Runs
<1>4. \A b, k, g, q : Suits(b, k, g, q)' = Suits(b, k, g, q)
  BY <1>3 DEF Suits, OnlyAt
<1>5. \A d \in Calls : Suits(call[d].pc, call[d].job, call[d].f, call[d].pid)
  BY <1>1 DEF CallFits
<1>6. \A d \in Calls : Suits(call'[d].pc, call'[d].job, call'[d].f, call'[d].pid)
  BY <1>2, <1>5
<1>7. \A d \in Calls : Alone(d)'
  <2>1. ASSUME call'[c].pc \in Early PROVE Alone(c)'
    <3>1. call[c].pc \in Early /\ UNCHANGED <<signalled, abandoned>> /\ f \in Fwds
      BY <1>2, <2>1 DEF Suits, Early
    <3>2. f = call[c].f
      BY <3>1, ForwardAssumption DEF Early
    <3>3. Alone(c)
      BY <1>1 DEF CallFits
    <3> QED
      BY <1>2, <3>1, <3>2, <3>3 DEF Alone
  <2>2. ASSUME NEW d \in Calls \ {c}, call'[d].pc \in Early PROVE Alone(d)'
    <3>1. call'[d] = call[d] /\ call[d].pc \in Early
      BY <1>2, <2>2
    <3>2. Alone(d) /\ call[d].f \in Fwds /\ ~Recorded(call[d].f)
      BY <1>1, <1>5, <3>1 DEF CallFits, Suits, Early
    <3>3. call[c].f # call[d].f
      BY <3>1, <3>2 DEF Alone
    <3>4. f # call[d].f
      BY <3>2, <3>3, ForwardAssumption
    <3>5. call[d].f \notin signalled' \cup abandoned'
      BY <3>1, <3>2, <3>3 DEF Alone
    <3> QED
      BY <1>2, <3>1, <3>2, <3>4, <3>5 DEF Alone
  <2> QED
    BY <2>1, <2>2 DEF Alone
<1>8. \A d \in Calls : CallFits(d)'
  BY <1>4, <1>6, <1>7 DEF CallFits
<1>9. RecordsFit' /\ ClosedMeansGone'
  BY <1>3 DEF ForwardInv, RecordsFit, ClosedMeansGone, OnlyAt, Recorded
<1>10. NoOrphanProcess'
  <2> SUFFICES ASSUME NEW g \in Fwds, Runs(g), ~Recorded(g), g \notin signalled' \cup abandoned'
               PROVE  InHand(g)'
    BY <1>3 DEF NoOrphanProcess
  <2>1. InHand(g)
    BY DEF ForwardInv, NoOrphanProcess
  <2>2. PICK d \in Calls : call[d].f = g
    BY <2>1 DEF InHand
  <2>3. CASE d = c
    <3>1. call[c].pc # "idle"
      BY <1>5, <2>2, <2>3, ForwardAssumption DEF Suits
    <3>2. f = g
      BY <2>2, <2>3, <3>1
    <3> QED
      BY <1>2, <3>2 DEF InHand
  <2>4. CASE d # c
    BY <1>2, <2>2, <2>4 DEF InHand
  <2> QED
    BY <2>3, <2>4
<1>11. NamesClaimed'
  <2>1. ASSUME NEW g \in Fwds, Claims(g)' PROVE Claims(g)
    <3>1. CASE Recorded(g)'
      BY <1>3, <3>1 DEF Claims
    <3>2. ASSUME NEW d \in Calls, call'[d].f = g, call'[d].job = "create", call'[d].pc \in MakingSteps
          PROVE  Claims(g)
      <4>1. CASE d = c
        <5>1. call[c].pc \in MakingSteps /\ f = g /\ f \in Fwds
          BY <1>2, <3>2, <4>1
        <5>2. f = call[c].f /\ call[c].job = "create"
          BY <1>5, <5>1, ForwardAssumption DEF MakingSteps, Suits, Early
        <5> QED
          BY <5>1, <5>2 DEF Claims, MakingSteps
      <4>2. CASE d # c
        BY <1>2, <3>2, <4>2 DEF Claims, MakingSteps
      <4> QED
        BY <4>1, <4>2
    <3> QED
      BY <2>1, <3>1, <3>2 DEF Claims, MakingSteps
  <2> QED
    BY <2>1 DEF NamesClaimed, ForwardInv
<1>12. CallForm' /\ WorldForm'
  BY DEF Turns, ForwardInv, WorldForm
<1> QED
  BY <1>8, <1>9, <1>10, <1>11, <1>12 DEF ForwardInv

(* What a step is told by the invariant.                                   *)
LEMMA AtStep ==
  ASSUME ForwardInv, NEW c \in Calls, call[c].pc # "idle"
  PROVE  /\ CallForm /\ ~harmed /\ call[c].f \in Fwds /\ call[c].f # NoFwd
         /\ Suits(call[c].pc, call[c].job, call[c].f, call[c].pid)
         /\ call[c].pc \notin Early => (Runs(call[c].f) => Recorded(call[c].f))
         /\ call[c].pc \notin {"spawn", "find"} /\ ~Matches(c) => ~Runs(call[c].f)
<1>1. Suits(call[c].pc, call[c].job, call[c].f, call[c].pid) /\ CallForm /\ ~harmed
  BY DEF ForwardInv, CallFits
<1>2. call[c].f \in Fwds /\ call[c].f # NoFwd
  BY <1>1 DEF Suits
<1>3. call[c].pc \notin Early => (Runs(call[c].f) => Recorded(call[c].f))
  BY <1>1 DEF Suits, ForwardInv, ClosedMeansGone
<1>4. call[c].pc \notin {"spawn", "find"} /\ ~Matches(c) => ~Runs(call[c].f)
  BY <1>1 DEF Suits, OnlyAt, Matches, Runs
<1> QED
  BY <1>1, <1>2, <1>3, <1>4

LEMMA ReturnStep ==
  ASSUME ForwardInv, NEW c \in Calls, call[c].pc # "idle", Return(c),
         UNCHANGED <<at, rec, def, closed, raced>>, ~harmed',
         signalled \subseteq signalled', signalled' \subseteq signalled \cup {call[c].f},
         abandoned \subseteq abandoned', abandoned' \subseteq abandoned \cup {call[c].f},
         Runs(call[c].f) => Recorded(call[c].f) \/ call[c].f \in signalled' \cup abandoned'
  PROVE  ForwardInv'
<1>1. Turns(c, "idle", "create", NoFwd, NoPid)
  BY AtStep, ReturnTurns
<1>2. Suits("idle", "create", NoFwd, NoPid)
  BY DEF Suits, Early
<1> QED
  BY <1>1, <1>2, CallStep DEF Early, MakingSteps

LEMMA GotoStep ==
  ASSUME ForwardInv, NEW c \in Calls, call[c].pc # "idle", NEW a, Goto(c, a),
         UNCHANGED <<at, rec, def, closed, raced, harmed, abandoned>>,
         signalled \subseteq signalled', signalled' \subseteq signalled \cup {call[c].f},
         a \in Early => call[c].pc \in Early /\ signalled' = signalled,
         a \in MakingSteps => call[c].pc \in MakingSteps,
         Suits(a, call[c].job, call[c].f, call[c].pid)
  PROVE  ForwardInv'
<1>1. /\ Turns(c, a, call[c].job, call[c].f, call[c].pid)
      /\ call[c].f # NoFwd /\ ~harmed
  BY AtStep, GotoTurns
<1> QED
  BY <1>1, CallStep

-----------------------------------------------------------------------------
(* The actions.                                                            *)

LEMMA QuietStep ==
  ASSUME OnlyTheCallMoves
  PROVE  UNCHANGED <<at, rec, def, closed, raced, harmed, signalled, abandoned>>
BY DEF OnlyTheCallMoves, world, ghosts

(* A signal to a process that was just seen, or is gone since.             *)
LEMMA SignalStep ==
  ASSUME ForwardInv, NEW c \in Calls, call[c].pc \in {"undo", "term", "kill"}, Signal(c)
  PROVE  /\ UNCHANGED <<closed, abandoned, raced>> /\ ~harmed'
         /\ signalled \subseteq signalled' /\ signalled' \subseteq signalled \cup {call[c].f}
         /\ Runs(call[c].f) => call[c].f \in signalled'
<1>1. /\ Suits(call[c].pc, call[c].job, call[c].f, call[c].pid) /\ ~harmed
      /\ ~Matches(c) => ~Runs(call[c].f)
  BY AtStep
<1>2. at[call[c].pid] \in {call[c].f, Free}
  BY <1>1 DEF Suits
<1>3. ~harmed'
  BY <1>1, <1>2 DEF Signal
<1> QED
  BY <1>1, <1>3 DEF Signal

LEMMA EarlyInv ==
  ASSUME ForwardInv, NEW c \in Calls,
         \/ SpawnFails(c) \/ StartupEnds(c) \/ Identify(c) \/ IdentifyFails(c)
         \/ PutFails(c) \/ LookBeforeUndo(c) \/ LookBeforeUndoFails(c) \/ Undo(c)
  PROVE  ForwardInv'
<1>0. call[c].pc \in Early \ {"idle"}
  BY DEF SpawnFails, StartupEnds, Identify, IdentifyFails, PutFails, LookBeforeUndo,
         LookBeforeUndoFails, Undo, Early
<1>1. /\ ~harmed /\ call[c].pc # "idle"
      /\ Suits(call[c].pc, call[c].job, call[c].f, call[c].pid)
      /\ call[c].pc # "spawn" /\ ~Matches(c) => ~Runs(call[c].f)
  BY <1>0, AtStep DEF Early
<1>2. ASSUME Return(c), OnlyTheCallMoves, ~Runs(call[c].f)
      PROVE  ForwardInv'
  BY <1>1, <1>2, QuietStep, ReturnStep
<1>3. ASSUME NEW a \in {"identify", "put", "putFailed", "undo"}, Goto(c, a), OnlyTheCallMoves,
             a \in {"identify", "undo"} => Matches(c), call[c].pc # "spawn",
             a \in MakingSteps => call[c].pc \in MakingSteps
      PROVE  ForwardInv'
  <2>1. Suits(a, call[c].job, call[c].f, call[c].pid)
    BY <1>0, <1>1, <1>3 DEF Suits, Early, Matches
  <2> QED
    BY <1>0, <1>1, <1>3, <2>1, QuietStep, GotoStep
<1>4. ASSUME Return(c), Abandon(c), UNCHANGED <<world, rec>>
      PROVE  ForwardInv'
  BY <1>1, <1>4, ReturnStep DEF Abandon, world
<1>5. CASE SpawnFails(c)
  <2>1. ~Runs(call[c].f)
    BY <1>1, <1>5 DEF SpawnFails, Suits
  <2> QED
    BY <1>2, <1>5, <2>1 DEF SpawnFails
<1>6. CASE StartupEnds(c)
  BY <1>1, <1>2, <1>3, <1>6 DEF StartupEnds, MakingSteps
<1>7. CASE Identify(c)
  BY <1>1, <1>2, <1>3, <1>7 DEF Identify, MakingSteps
<1>8. CASE IdentifyFails(c)
  BY <1>4, <1>8 DEF IdentifyFails
<1>9. CASE PutFails(c)
  BY <1>3, <1>9 DEF PutFails, MakingSteps
<1>10. CASE LookBeforeUndo(c)
  BY <1>1, <1>2, <1>3, <1>10 DEF LookBeforeUndo, MakingSteps
<1>11. CASE LookBeforeUndoFails(c)
  BY <1>4, <1>11 DEF LookBeforeUndoFails
<1>12. CASE Undo(c)
  <2>1. Return(c) /\ UNCHANGED <<at, def, rec>>
    BY <1>12 DEF Undo, world
  <2>2. /\ UNCHANGED <<closed, abandoned, raced>> /\ ~harmed'
        /\ signalled \subseteq signalled' /\ signalled' \subseteq signalled \cup {call[c].f}
        /\ Runs(call[c].f) => call[c].f \in signalled'
    BY <1>12, SignalStep DEF Undo
  <2> QED
    BY <1>1, <2>1, <2>2, ReturnStep
<1> QED
  BY <1>5, <1>6, <1>7, <1>8, <1>9, <1>10, <1>11, <1>12

LEMMA LateInv ==
  ASSUME ForwardInv, NEW c \in Calls,
         \/ HealthId(c) \/ Healthy(c) \/ Unhealthy(c) \/ HealthFails(c)
         \/ Find(c) \/ LookBefore(c) \/ Terminate(c) \/ LookAfterTerm(c) \/ LookBeforeKill(c)
         \/ Kill(c) \/ LookAfterKill(c) \/ CloseFails(c)
  PROVE  ForwardInv'
<1> DEFINE Late == {"healthId", "healthProbe", "find", "before", "term", "afterTerm",
                    "beforeKill", "kill", "afterKill", "delete"}
<1>0. call[c].pc \in Late
  BY DEF HealthId, Healthy, Unhealthy, HealthFails, Find, LookBefore, Terminate, LookAfterTerm,
         LookBeforeKill, Kill, LookAfterKill, CloseFails
<1>1. /\ CallForm /\ ~harmed /\ call[c].pc # "idle" /\ call[c].f \in Fwds /\ call[c].f # NoFwd
      /\ Suits(call[c].pc, call[c].job, call[c].f, call[c].pid)
      /\ Runs(call[c].f) => Recorded(call[c].f)
      /\ call[c].pc # "find" /\ ~Matches(c) => ~Runs(call[c].f)
  BY <1>0, AtStep DEF Early
<1>2. Recorded(call[c].f) \/ call[c].f \in closed
  BY <1>0, <1>1 DEF Suits, Early
<1>3. ASSUME Return(c), OnlyTheCallMoves
      PROVE  ForwardInv'
  BY <1>1, <1>3, QuietStep, ReturnStep
<1>4. ASSUME NEW a \in Late \ {"find"}, Goto(c, a), call[c].pc # "find",
             UNCHANGED <<at, rec, def, closed, raced, harmed, abandoned>>,
             signalled \subseteq signalled', signalled' \subseteq signalled \cup {call[c].f},
             a \in {"term", "kill"} => Matches(c), a = "delete" => ~Matches(c)
      PROVE  ForwardInv'
  <2>1. Suits(a, call[c].job, call[c].f, call[c].pid)
    BY <1>0, <1>1, <1>2, <1>4 DEF Suits, Early, Matches
  <2> QED
    BY <1>1, <1>4, <2>1, GotoStep DEF Early, MakingSteps
<1>5. ASSUME NEW a \in Late \ {"find"}, Goto(c, a), call[c].pc # "find", OnlyTheCallMoves,
             a \in {"term", "kill"} => Matches(c), a = "delete" => ~Matches(c)
      PROVE  ForwardInv'
  BY <1>4, <1>5, QuietStep
<1>6. ASSUME NEW a \in {"find", "healthId", "before"}, NEW j, NEW p,
             Turns(c, a, j, call[c].f, p), OnlyTheCallMoves,
             a # "find" => p \in Pids /\ OnlyAt(call[c].f, p)
      PROVE  ForwardInv'
  <2>1. Suits(a, j, call[c].f, p)
    BY <1>1, <1>2, <1>6 DEF Suits, Early
  <2> QED
    BY <1>1, <1>6, <2>1, QuietStep, CallStep DEF Early, MakingSteps
<1>7. ASSUME GiveUp(c), OnlyTheCallMoves
      PROVE  ForwardInv'
  BY <1>1, <1>6, <1>7, GiveUpTurns
<1>8. CASE HealthId(c)
  BY <1>3, <1>5, <1>7, <1>8 DEF HealthId
<1>9. CASE Healthy(c)
  BY <1>3, <1>9 DEF Healthy
<1>10. CASE Unhealthy(c)
  <2>1. CASE call' = [call EXCEPT ![c].pc = "healthId", ![c].checks = @ + 1]
    <3>1. Turns(c, "healthId", call[c].job, call[c].f, call[c].pid)
      BY <1>1, <2>1, RetryTurns
    <3>2. call[c].pid \in Pids /\ OnlyAt(call[c].f, call[c].pid) /\ OnlyTheCallMoves
      BY <1>1, <1>10 DEF Unhealthy, Suits
    <3> QED
      BY <1>6, <3>1, <3>2
  <2>2. CASE Return(c) \/ GiveUp(c)
    BY <1>3, <1>7, <1>10, <2>2 DEF Unhealthy
  <2> QED
    BY <1>10, <2>1, <2>2 DEF Unhealthy
<1>11. CASE HealthFails(c) \/ CloseFails(c)
  BY <1>3, <1>11 DEF HealthFails, CloseFails
<1>12. CASE Find(c)
  <2>1. CASE Recorded(call[c].f)
    <3>1. call' = [call EXCEPT ![c].pc = "before", ![c].pid = rec[call[c].f]] /\ OnlyTheCallMoves
      BY <1>12, <2>1 DEF Find
    <3>2. Turns(c, "before", call[c].job, call[c].f, rec[call[c].f])
      BY <1>1, <3>1, GotoWithTurns
    <3>3. rec[call[c].f] \in Pids /\ OnlyAt(call[c].f, rec[call[c].f])
      BY <1>1, <2>1 DEF ForwardInv, RecordsFit, WorldForm, Recorded
    <3> QED
      BY <1>6, <3>1, <3>2, <3>3
  <2>2. CASE ~Recorded(call[c].f)
    BY <1>3, <1>12, <2>2 DEF Find
  <2> QED
    BY <2>1, <2>2
<1>13. CASE LookBefore(c)
  BY <1>3, <1>5, <1>13 DEF LookBefore
<1>14. CASE Terminate(c) \/ Kill(c)
  <2>1. PICK a \in {"afterTerm", "afterKill"} : Goto(c, a)
    BY <1>14 DEF Terminate, Kill
  <2>2. UNCHANGED <<at, def, rec>> /\ call[c].pc \in {"term", "kill"} /\ Signal(c)
    BY <1>14 DEF Terminate, Kill, world
  <2>3. /\ UNCHANGED <<closed, abandoned, raced>> /\ ~harmed'
        /\ signalled \subseteq signalled' /\ signalled' \subseteq signalled \cup {call[c].f}
    BY <2>2, SignalStep
  <2>4. Suits(a, call[c].job, call[c].f, call[c].pid)
    BY <1>1, <1>2, <2>1, <2>2 DEF Suits, Early
  <2>5. Turns(c, a, call[c].job, call[c].f, call[c].pid)
    BY <1>1, <2>1, GotoTurns
  <2> QED
    BY <1>1, <2>1, <2>2, <2>3, <2>4, <2>5, CallStep DEF Early, MakingSteps
<1>15. CASE LookAfterTerm(c)
  BY <1>5, <1>15 DEF LookAfterTerm
<1>16. CASE LookBeforeKill(c)
  BY <1>5, <1>16 DEF LookBeforeKill
<1>17. CASE LookAfterKill(c)
  BY <1>3, <1>5, <1>17 DEF LookAfterKill
<1> QED
  BY <1>8, <1>9, <1>10, <1>11, <1>12, <1>13, <1>14, <1>15, <1>16, <1>17

LEMMA TakeUpInv ==
  ASSUME ForwardInv, NEW c \in Calls, call[c].pc = "idle",
         NEW f \in Fwds, Recorded(f), NEW a \in {"healthId", "before"}, NEW j,
         call' = [call EXCEPT ![c] = [Idle EXCEPT !.pc = a, !.job = j, !.f = f, !.pid = rec[f]]],
         OnlyTheCallMoves
  PROVE  ForwardInv'
<1>1. PICK x, p : p = rec[f] /\ x = [Idle EXCEPT !.pc = a, !.job = j, !.f = f, !.pid = p]
  OBVIOUS
<1>2. x = [pc |-> a, job |-> j, f |-> f, pid |-> p, checks |-> 0]
  <2>1. x = [Idle EXCEPT !.pc = a, !.job = j, !.f = f, !.pid = p]
    BY <1>1
  <2> QED
    BY ONLY <2>1, IdleWith, ZenonT(30)
<1>3. call' = [call EXCEPT ![c] = [pc |-> a, job |-> j, f |-> f, pid |-> p, checks |-> 0]]
  BY <1>1, <1>2
<1>4. Turns(c, a, j, f, p)
  BY <1>3, CallSet DEF ForwardInv
<1>5. p \in Pids /\ OnlyAt(f, p)
  BY <1>1 DEF ForwardInv, WorldForm, RecordsFit, Recorded
<1>6. Suits(a, j, f, p) /\ f # NoFwd
  BY <1>5, ForwardAssumption DEF Suits, Early
<1>7. ~harmed
  BY DEF ForwardInv
<1> QED
  BY <1>4, <1>6, <1>7, QuietStep, CallStep DEF Early, MakingSteps

LEMMA CreateAnewInv ==
  ASSUME ForwardInv, NEW c \in Calls, call[c].pc = "idle",
         NEW f \in Fwds, NEW n \in Names \cup {NoName}, NEW q \in Ports, CreateAnew(c, f, n, q)
  PROVE  ForwardInv'
<1>0. /\ UNCHANGED <<at, rec, closed, abandoned, signalled, harmed>> /\ Fresh(f)
      /\ def' = [def EXCEPT ![f] = [name |-> n, port |-> q]]
      /\ Named(n) = {}
      /\ raced' = (raced \/ (n # NoName /\ Making(n) # {}))
  BY DEF CreateAnew
<1>1. Turns(c, "spawn", "create", f, NoPid)
  <2>1. PICK a, x : a = "spawn" /\ x = [Idle EXCEPT !.pc = a, !.f = f]
    OBVIOUS
  <2>2. x = [pc |-> a, job |-> "create", f |-> f, pid |-> NoPid, checks |-> 0]
    BY ONLY <2>1, IdleFor
  <2>3. call' = [call EXCEPT ![c] = x]
    BY <2>1, Zenon DEF CreateAnew
  <2> QED
    BY <2>1, <2>2, <2>3, CallSet DEF ForwardInv
<1>2. /\ call'[c].pc = "spawn" /\ call'[c].job = "create" /\ call'[c].f = f /\ call'[c].pid = NoPid
      /\ \A d \in Calls \ {c} : call'[d] = call[d]
  BY <1>1 DEF Turns
<1>3. /\ ~Recorded(f) /\ ~Runs(f) /\ f \notin closed \cup abandoned \cup signalled
      /\ \A d \in Calls : call[d].f # f
  BY <1>0 DEF Fresh, InHand
<1>4. \A g : Recorded(g)' = Recorded(g) /\ Runs(g)' = Runs(g)
  BY <1>0 DEF Recorded, Runs
<1>5. \A b, k, g, p : Suits(b, k, g, p)' = Suits(b, k, g, p)
  BY <1>0, <1>4 DEF Suits, OnlyAt
<1>6. \A d \in Calls : CallFits(d)
  BY DEF ForwardInv
<1>7. CallFits(c)'
  <2>1. Suits("spawn", "create", f, NoPid)
    BY <1>3, ForwardAssumption DEF Suits, Early
  <2>2. Alone(c)'
    BY <1>0, <1>2, <1>3 DEF Alone
  <2> QED
    BY <1>2, <1>5, <2>1, <2>2 DEF CallFits
<1>8. ASSUME NEW d \in Calls \ {c} PROVE CallFits(d)'
  <2>1. Alone(d) /\ Suits(call[d].pc, call[d].job, call[d].f, call[d].pid)
    BY <1>6 DEF CallFits
  <2>2. call[d].f # f
    BY <1>3
  <2>3. Alone(d)'
    BY <1>0, <1>2, <2>1, <2>2 DEF Alone
  <2> QED
    BY <1>2, <1>5, <2>1, <2>3 DEF CallFits
<1>9. RecordsFit' /\ ClosedMeansGone' /\ ~harmed'
  BY <1>0, <1>4 DEF ForwardInv, RecordsFit, ClosedMeansGone, OnlyAt, Recorded
<1>10. NoOrphanProcess'
  <2>1. \A g \in Fwds : InHand(g) => InHand(g)'
    <3>1. call[c].f = NoFwd
      BY <1>6 DEF CallFits, Suits
    <3> QED
      BY <1>2, <3>1, ForwardAssumption DEF InHand
  <2> QED
    BY <1>0, <1>4, <2>1 DEF ForwardInv, NoOrphanProcess
<1>11. NamesClaimed'
  <2> SUFFICES ASSUME ~raced', NEW g \in Fwds, NEW h \in Fwds, Claims(g)', Claims(h)',
                      def'[g].name = def'[h].name, def'[g].name # NoName
               PROVE  g = h
    BY DEF NamesClaimed
  <2>1. ~raced /\ (n # NoName => Making(n) = {})
    BY <1>0
  <2>2. DOMAIN def = Fwds
    BY DEF ForwardInv, WorldForm
  <2>3. /\ def'[f].name = n
        /\ \A k \in Fwds \ {f} : def'[k] = def[k]
    BY <1>0, <2>2
  <2>4. ASSUME NEW k \in Fwds \ {f}, Claims(k)' PROVE Claims(k)
    BY <1>2, <1>4, <2>4 DEF Claims
  <2>5. ASSUME NEW k \in Fwds \ {f}, Claims(k) PROVE def[k].name # n \/ n = NoName
    <3>1. CASE Recorded(k)
      BY <1>0, <3>1 DEF Named
    <3>2. CASE ~Recorded(k)
      BY <2>1, <2>5, <3>2 DEF Claims, Making
    <3> QED
      BY <3>1, <3>2
  <2>6. CASE g # f /\ h # f
    BY <2>1, <2>3, <2>4, <2>6 DEF ForwardInv, NamesClaimed
  <2>7. CASE g = f \/ h = f
    BY <2>3, <2>4, <2>5, <2>7
  <2> QED
    BY <2>6, <2>7
<1>12. WorldForm'
  BY <1>0 DEF ForwardInv, WorldForm
<1> QED
  BY <1>0, <1>1, <1>7, <1>8, <1>9, <1>10, <1>11, <1>12 DEF ForwardInv, Turns

LEMMA OpenInv ==
  ASSUME ForwardInv, NEW c \in Calls, Create(c) \/ Close(c)
  PROVE  ForwardInv'
<1>0. call[c].pc = "idle"
  BY DEF Create, Close
<1>1. CASE Close(c)
  BY <1>0, <1>1, TakeUpInv DEF Close
<1>2. ASSUME NEW f \in Fwds, NEW n \in Names \cup {NoName}, NEW q \in Ports,
             CreateByReuse(c, f, n, q)
      PROVE  ForwardInv'
  <2>1. Recorded(f)
    BY <1>2 DEF CreateByReuse, Named
  <2> QED
    BY <1>0, <1>2, <2>1, TakeUpInv DEF CreateByReuse
<1> QED
  BY <1>0, <1>1, <1>2, CreateAnewInv DEF Create

LEMMA SpawnInv ==
  ASSUME ForwardInv, NEW c \in Calls, Spawn(c)
  PROVE  ForwardInv'
<1>1. call[c].pc = "spawn"
  BY DEF Spawn
<1>2. PICK f \in Fwds : f = call[c].f /\ f # NoFwd
  BY <1>1, AtStep
<1>3. PICK p \in Pids : /\ Available(p)
                        /\ at' = [at EXCEPT ![p] = f]
                        /\ call' = [call EXCEPT ![c].pc = "startup", ![c].pid = p]
  BY <1>2 DEF Spawn
<1>4. UNCHANGED <<def, rec, closed, abandoned, signalled, raced, harmed>>
  BY DEF Spawn, ghosts
<1>5. Turns(c, "startup", call[c].job, f, p)
  BY <1>2, <1>3, GotoWithTurns DEF ForwardInv
<1>6. /\ call'[c].pc = "startup" /\ call'[c].job = call[c].job /\ call'[c].f = f /\ call'[c].pid = p
      /\ \A d \in Calls \ {c} : call'[d] = call[d]
  BY <1>5 DEF Turns
<1>7. /\ at'[p] = f /\ at[p] = Free
      /\ \A r \in Pids \ {p} : at'[r] = at[r]
      /\ at' = [r \in Pids |-> at'[r]]
  BY <1>3 DEF ForwardInv, WorldForm, Available
<1>8. /\ Suits("spawn", call[c].job, f, call[c].pid) /\ Alone(c)
      /\ ~Runs(f) /\ ~Recorded(f) /\ call[c].job = "create"
  BY <1>1, <1>2 DEF ForwardInv, CallFits, Suits, Early
<1>9. \A g \in Fwds \ {f} : Runs(g)' = Runs(g) /\ \A r : OnlyAt(g, r)' = OnlyAt(g, r)
  BY <1>7, ForwardAssumption DEF Runs, OnlyAt
<1>10. OnlyAt(f, p)'
  BY <1>7, <1>8 DEF Runs, OnlyAt
<1>11. \A g : Recorded(g)' = Recorded(g)
  BY <1>4 DEF Recorded
<1>12. CallFits(c)'
  <2>1. Suits("startup", "create", f, p)'
    BY <1>2, <1>8, <1>10, <1>11 DEF Suits, Early
  <2>2. Alone(c)'
    BY <1>1, <1>2, <1>4, <1>6, <1>8 DEF Alone, Early
  <2> QED
    BY <1>6, <1>8, <2>1, <2>2 DEF CallFits
<1>13. ASSUME NEW d \in Calls \ {c} PROVE CallFits(d)'
  <2>1. Alone(d) /\ Suits(call[d].pc, call[d].job, call[d].f, call[d].pid)
    BY DEF ForwardInv, CallFits
  <2>2. call[d].f # f
    BY <1>1, <1>2, <1>8 DEF Alone, Early
  <2>3. Alone(d)'
    BY <1>4, <1>6, <2>1, <2>2 DEF Alone
  <2>4. CASE call[d].f = NoFwd
    <3>1. call[d].pc = "idle"
      BY <2>1, <2>4 DEF Suits
    <3>2. Suits(call[d].pc, call[d].job, call[d].f, call[d].pid)'
      BY <1>6, <2>4, <3>1 DEF Suits, Early
    <3> QED
      BY <1>6, <2>3, <3>2 DEF CallFits
  <2>5. CASE call[d].f \in Fwds
    <3>1. /\ Runs(call[d].f)' = Runs(call[d].f)
          /\ OnlyAt(call[d].f, call[d].pid)' = OnlyAt(call[d].f, call[d].pid)
      BY <1>6, <1>9, <2>2, <2>5
    <3>2. call[d].pc \in {"identify", "undo", "term", "kill"} =>
            at'[call[d].pid] = at[call[d].pid]
      <4>1. call[d].pc \in {"identify", "undo", "term", "kill"} => call[d].pid \in Pids \ {p}
        BY <1>3, <2>1 DEF Available, Suits
      <4> QED
        BY <1>7, <4>1
    <3>3. Suits(call[d].pc, call[d].job, call[d].f, call[d].pid)'
      BY <1>4, <1>6, <1>11, <2>1, <3>1, <3>2 DEF Suits
    <3> QED
      BY <1>6, <2>3, <3>3 DEF CallFits
  <2> QED
    BY <2>1, <2>4, <2>5 DEF Suits
<1>14. RecordsFit'
  <2>1. \A g \in Fwds : Recorded(g) => OnlyAt(g, rec[g])
    BY DEF ForwardInv, RecordsFit
  <2> QED
    BY <1>4, <1>8, <1>9, <1>11, <2>1 DEF RecordsFit
<1>15. ClosedMeansGone'
  <2>1. f \notin closed
    BY <1>1, <1>2, <1>8 DEF Alone, Early
  <2>2. \A g \in closed : ~Runs(g) /\ ~Recorded(g)
    BY DEF ForwardInv, ClosedMeansGone
  <2>3. ASSUME NEW g \in closed PROVE ~Runs(g)'
    <3>1. CASE g \in Fwds
      BY <1>9, <2>1, <2>2, <2>3, <3>1
    <3>2. CASE g \notin Fwds
      BY <1>7, <2>2, <2>3, <3>2 DEF Runs
    <3> QED
      BY <3>1, <3>2
  <2> QED
    BY <1>4, <1>11, <2>2, <2>3 DEF ClosedMeansGone
<1>16. NoOrphanProcess'
  <2>1. InHand(f)' /\ \A g \in Fwds : InHand(g) => InHand(g)'
    BY <1>2, <1>6 DEF InHand
  <2> QED
    BY <1>4, <1>9, <1>11, <2>1 DEF ForwardInv, NoOrphanProcess
<1>17. NamesClaimed'
  <2>1. \A g : Claims(g)' => Claims(g)
    BY <1>1, <1>2, <1>6, <1>11 DEF Claims
  <2> QED
    BY <1>4, <2>1 DEF ForwardInv, NamesClaimed
<1>18. WorldForm' /\ ~harmed'
  BY <1>4, <1>7 DEF ForwardInv, WorldForm
<1> QED
  BY <1>4, <1>5, <1>12, <1>13, <1>14, <1>15, <1>16, <1>17, <1>18 DEF ForwardInv, Turns

LEMMA PutInv ==
  ASSUME ForwardInv, NEW c \in Calls, Put(c)
  PROVE  ForwardInv'
<1>1. call[c].pc = "put" /\ Goto(c, "healthId")
  BY DEF Put
<1>2. PICK f, p : f \in Fwds /\ f = call[c].f /\ p = call[c].pid /\ f # NoFwd
  BY <1>1, AtStep
<1>3. /\ rec' = [rec EXCEPT ![f] = p]
      /\ UNCHANGED <<at, def, closed, abandoned, signalled, raced, harmed>>
  BY <1>2 DEF Put, world, ghosts
<1>4. Turns(c, "healthId", call[c].job, f, p)
  BY <1>1, <1>2, GotoTurns DEF ForwardInv
<1>5. /\ call'[c].pc = "healthId" /\ call'[c].job = call[c].job /\ call'[c].f = f
      /\ call'[c].pid = p
      /\ \A d \in Calls \ {c} : call'[d] = call[d]
  BY <1>4 DEF Turns
<1>6. Suits("put", call[c].job, f, p) /\ Alone(c) /\ p \in Pids /\ OnlyAt(f, p)
  BY <1>1, <1>2 DEF ForwardInv, CallFits, Suits
<1>7. call[c].job = "create" /\ f \notin closed /\ \A d \in Calls \ {c} : call[d].f # f
  BY <1>1, <1>2, <1>6 DEF Suits, Alone, Early
<1>8. /\ rec'[f] = p
      /\ \A g \in Fwds \ {f} : rec'[g] = rec[g]
      /\ WorldForm'
  BY <1>2, <1>3, <1>6 DEF ForwardInv, WorldForm
<1>9. /\ Recorded(f)'
      /\ \A g \in Fwds \ {f} : Recorded(g)' = Recorded(g)
  BY <1>6, <1>8, ForwardAssumption DEF Recorded
<1>10. \A g, r : Runs(g)' = Runs(g) /\ OnlyAt(g, r)' = OnlyAt(g, r)
  BY <1>3 DEF Runs, OnlyAt
<1>11. CallFits(c)'
  <2>1. Suits("healthId", "create", f, p)'
    BY <1>2, <1>6, <1>9, <1>10 DEF Suits, Early
  <2> QED
    BY <1>5, <1>7, <2>1 DEF CallFits, Alone, Early
<1>12. ASSUME NEW d \in Calls \ {c} PROVE CallFits(d)'
  <2>1. Suits(call[d].pc, call[d].job, call[d].f, call[d].pid) /\ Alone(d) /\ call[d].f # f
    BY <1>7 DEF ForwardInv, CallFits
  <2>2. Suits(call[d].pc, call[d].job, call[d].f, call[d].pid)'
    BY <1>3, <1>5, <1>9, <1>10, <2>1 DEF Suits, Early
  <2>3. Alone(d)'
    BY <1>3, <1>5, <2>1 DEF Alone
  <2> QED
    BY <2>2, <2>3 DEF CallFits
<1>13. RecordsFit'
  <2>1. \A g \in Fwds : Recorded(g) => OnlyAt(g, rec[g])
    BY DEF ForwardInv, RecordsFit
  <2>2. \A g \in Fwds : Recorded(g)' => OnlyAt(g, rec'[g])
    BY <1>2, <1>6, <1>8, <1>9, <2>1
  <2> QED
    BY <1>3, <2>2 DEF RecordsFit, OnlyAt, Recorded
<1>14. ClosedMeansGone'
  <2>1. \A g \in closed : ~Runs(g) /\ rec[g] = NoPid
    BY DEF ForwardInv, ClosedMeansGone, Recorded
  <2>2. \A g \in closed : rec'[g] = rec[g]
    BY <1>3, <1>7 DEF ForwardInv, WorldForm
  <2> QED
    BY <1>3, <1>10, <2>1, <2>2 DEF ClosedMeansGone, Recorded
<1>15. NoOrphanProcess'
  <2>1. \A g \in Fwds : InHand(g) => InHand(g)'
    BY <1>2, <1>5 DEF InHand
  <2> QED
    BY <1>3, <1>9, <1>10, <2>1 DEF ForwardInv, NoOrphanProcess
<1>16. NamesClaimed'
  <2>1. Claims(f)
    BY <1>1, <1>2, <1>7 DEF Claims
  <2>2. \A g \in Fwds \ {f} : Claims(g)' => Claims(g)
    BY <1>5, <1>9 DEF Claims
  <2> QED
    BY <1>3, <2>1, <2>2 DEF ForwardInv, NamesClaimed
<1> QED
  BY <1>3, <1>4, <1>8, <1>11, <1>12, <1>13, <1>14, <1>15, <1>16 DEF ForwardInv, Turns

LEMMA DeleteInv ==
  ASSUME ForwardInv, NEW c \in Calls, Delete(c)
  PROVE  ForwardInv'
<1>1. call[c].pc = "delete" /\ Return(c)
  BY DEF Delete
<1>2. PICK f \in Fwds : f = call[c].f /\ f # NoFwd
  BY <1>1, AtStep
<1>3. /\ rec' = [rec EXCEPT ![f] = NoPid] /\ closed' = closed \cup {f}
      /\ UNCHANGED <<at, def, abandoned, signalled, raced, harmed>>
  BY <1>2 DEF Delete, world
<1>4. Turns(c, "idle", "create", NoFwd, NoPid)
  BY <1>1, ReturnTurns DEF ForwardInv
<1>5. /\ call'[c].pc = "idle" /\ call'[c].job = "create" /\ call'[c].f = NoFwd
      /\ call'[c].pid = NoPid
      /\ \A d \in Calls \ {c} : call'[d] = call[d]
  BY <1>4 DEF Turns
<1>6. ~Runs(f)
  BY <1>1, <1>2 DEF ForwardInv, CallFits, Suits
<1>7. /\ rec'[f] = NoPid
      /\ \A g \in Fwds \ {f} : rec'[g] = rec[g]
      /\ WorldForm'
  BY <1>3 DEF ForwardInv, WorldForm
<1>8. /\ ~Recorded(f)'
      /\ \A g \in Fwds \ {f} : Recorded(g)' = Recorded(g)
      /\ \A g \in Fwds : Recorded(g)' => Recorded(g)
  BY <1>7 DEF Recorded
<1>9. \A g, r : Runs(g)' = Runs(g) /\ OnlyAt(g, r)' = OnlyAt(g, r)
  BY <1>3 DEF Runs, OnlyAt
<1>10. CallFits(c)'
  <2>1. Suits("idle", "create", NoFwd, NoPid)'
    BY DEF Suits, Early
  <2> QED
    BY <1>5, <2>1 DEF CallFits, Alone, Early
<1>11. ASSUME NEW d \in Calls \ {c} PROVE CallFits(d)'
  <2>1. Suits(call[d].pc, call[d].job, call[d].f, call[d].pid) /\ Alone(d)
    BY DEF ForwardInv, CallFits
  <2>2. call[d].pc \in Early => call[d].f # f
    BY <1>2, <2>1 DEF Alone
  <2>3. call[d].f \in Fwds \cup {NoFwd} /\ (call[d].pc # "idle" => call[d].f \in Fwds)
    BY <2>1 DEF Suits
  <2>4. Suits(call[d].pc, call[d].job, call[d].f, call[d].pid)'
    BY <1>3, <1>5, <1>8, <1>9, <2>1, <2>3 DEF Suits, Early
  <2>5. Alone(d)'
    BY <1>3, <1>5, <2>1, <2>2, <2>3, ForwardAssumption DEF Alone, Early
  <2> QED
    BY <2>4, <2>5 DEF CallFits
<1>12. RecordsFit'
  <2>1. \A g \in Fwds : Recorded(g) => OnlyAt(g, rec[g])
    BY DEF ForwardInv, RecordsFit
  <2>2. \A g \in Fwds : Recorded(g)' => OnlyAt(g, rec'[g])
    BY <1>7, <1>8, <2>1
  <2> QED
    BY <1>3, <2>2 DEF RecordsFit, OnlyAt, Recorded
<1>13. ClosedMeansGone'
  <2>1. \A g \in closed : ~Runs(g) /\ rec[g] = NoPid
    BY DEF ForwardInv, ClosedMeansGone, Recorded
  <2>2. \A g \in closed \ {f} : rec'[g] = rec[g]
    BY <1>3 DEF ForwardInv, WorldForm
  <2> QED
    BY <1>3, <1>6, <1>8, <1>9, <2>1, <2>2 DEF ClosedMeansGone, Recorded
<1>14. NoOrphanProcess'
  <2>1. \A g \in Fwds \ {f} : InHand(g) => InHand(g)'
    BY <1>2, <1>5 DEF InHand
  <2> QED
    BY <1>3, <1>6, <1>8, <1>9, <2>1 DEF ForwardInv, NoOrphanProcess
<1>15. NamesClaimed'
  <2>1. \A g \in Fwds : Claims(g)' => Claims(g)
    BY <1>5, <1>8, ForwardAssumption DEF Claims
  <2> QED
    BY <1>3, <2>1 DEF ForwardInv, NamesClaimed
<1> QED
  BY <1>3, <1>4, <1>7, <1>10, <1>11, <1>12, <1>13, <1>14, <1>15 DEF ForwardInv, Turns

(* A process ends, or a stranger gets its PID.                             *)
LEMMA HostInv ==
  ASSUME ForwardInv, NEW p \in Pids, Exit(p) \/ PidReused(p)
  PROVE  ForwardInv'
<1>1. PICK x \in {Free, Stranger} :
        /\ at' = [at EXCEPT ![p] = x]
        /\ x = Stranger => Available(p)
        /\ UNCHANGED <<def, rec, call, closed, abandoned, signalled, raced, harmed>>
  <2>1. CASE Exit(p)
    <3>1. /\ at' = [at EXCEPT ![p] = Free]
          /\ UNCHANGED <<def, rec, call, closed, abandoned, signalled, raced, harmed>>
      BY <2>1 DEF Exit, ghosts
    <3> QED
      BY <3>1, ForwardAssumption
  <2>2. CASE PidReused(p)
    BY <2>2 DEF PidReused, ghosts
  <2> QED
    BY <2>1, <2>2
<1>2. /\ at'[p] = x
      /\ \A r \in Pids \ {p} : at'[r] = at[r]
      /\ at' = [r \in Pids |-> at'[r]]
  BY <1>1 DEF ForwardInv, WorldForm
<1>3. \A g \in Fwds : (Runs(g)' => Runs(g)) /\ \A r : OnlyAt(g, r) => OnlyAt(g, r)'
  BY <1>2, ForwardAssumption DEF Runs, OnlyAt
<1>4. \A g : Recorded(g)' = Recorded(g) /\ InHand(g)' = InHand(g)
  BY <1>1 DEF Recorded, InHand
<1>5. ASSUME NEW d \in Calls PROVE CallFits(d)'
  <2>1. Alone(d)' /\ Suits(call[d].pc, call[d].job, call[d].f, call[d].pid)
    BY <1>1 DEF ForwardInv, CallFits, Alone
  <2>2. CASE call[d].f = NoFwd
    <3>1. call[d].pc = "idle"
      BY <2>1, <2>2 DEF Suits
    <3>2. Suits(call[d].pc, call[d].job, call[d].f, call[d].pid)'
      BY <1>1, <2>2, <3>1 DEF Suits, Early
    <3> QED
      BY <2>1, <3>2 DEF CallFits
  <2>3. CASE call[d].f \in Fwds
    <3>1. call[d].pc \in {"identify", "undo", "term", "kill"} =>
            call[d].pid \in Pids /\ at'[call[d].pid] \in {call[d].f, Free}
      <4>1. ASSUME call[d].pc \in {"identify", "undo", "term", "kill"}
            PROVE  call[d].pid \in Pids /\ at[call[d].pid] \in {call[d].f, Free}
        BY <2>1, <4>1 DEF Suits
      <4> QED
        BY <1>1, <1>2, <4>1 DEF Available
    <3>2. /\ Runs(call[d].f)' => Runs(call[d].f)
          /\ OnlyAt(call[d].f, call[d].pid) => OnlyAt(call[d].f, call[d].pid)'
      BY <1>1, <1>3, <2>3
    <3>3. Suits(call[d].pc, call[d].job, call[d].f, call[d].pid)'
      BY <1>1, <1>4, <2>1, <3>1, <3>2 DEF Suits
    <3> QED
      BY <2>1, <3>3 DEF CallFits
  <2> QED
    BY <2>1, <2>2, <2>3 DEF Suits
<1>6. RecordsFit'
  <2>1. \A g \in Fwds : Recorded(g) => OnlyAt(g, rec[g])
    BY DEF ForwardInv, RecordsFit
  <2> QED
    BY <1>1, <1>3, <1>4, <2>1 DEF RecordsFit
<1>7. ClosedMeansGone'
  <2>1. \A g \in closed : ~Runs(g) /\ ~Recorded(g)
    BY DEF ForwardInv, ClosedMeansGone
  <2>2. \A g \in closed : g \in Fwds => ~Runs(g)'
    BY <1>3, <2>1
  <2>3. closed \subseteq Fwds
    BY DEF ForwardInv
  <2> QED
    BY <1>1, <1>4, <2>1, <2>2, <2>3 DEF ClosedMeansGone
<1>8. NoOrphanProcess'
  BY <1>1, <1>3, <1>4 DEF ForwardInv, NoOrphanProcess
<1>9. NamesClaimed'
  <2>1. \A g : Claims(g)' = Claims(g)
    BY <1>1 DEF Claims, Recorded
  <2> QED
    BY <1>1, <2>1 DEF ForwardInv, NamesClaimed
<1>10. CallForm' /\ WorldForm' /\ ~harmed'
  BY <1>1, <1>2 DEF ForwardInv, CallForm, WorldForm
<1> QED
  BY <1>1, <1>5, <1>6, <1>7, <1>8, <1>9, <1>10 DEF ForwardInv

LEMMA CrashInv ==
  ASSUME ForwardInv, Crash
  PROVE  ForwardInv'
<1>1. /\ call' = [c \in Calls |-> Idle]
      /\ abandoned' = abandoned \cup {call[c].f : c \in {d \in Calls :
                        call[d].job = "create" /\ call[d].pc # "idle"}}
      /\ UNCHANGED <<at, def, rec, closed, signalled, raced, harmed>>
  BY DEF Crash, world
<1>2. \A c \in Calls : /\ call'[c].pc = "idle" /\ call'[c].f = NoFwd /\ call'[c].pid = NoPid
                       /\ call'[c].job = "create"
  BY <1>1 DEF Idle
<1>3. CallForm'
  BY <1>1 DEF CallForm, Idle
<1>4. \A c \in Calls : CallFits(c)'
  <2>1. Suits("idle", "create", NoFwd, NoPid)'
    BY DEF Suits, Early
  <2> QED
    BY <1>2, <2>1 DEF CallFits, Alone, Early
<1>5. \A g : Recorded(g)' = Recorded(g) /\ Runs(g)' = Runs(g)
  BY <1>1 DEF Recorded, Runs
<1>6. RecordsFit' /\ ClosedMeansGone' /\ WorldForm' /\ ~harmed'
  BY <1>1, <1>5 DEF ForwardInv, RecordsFit, ClosedMeansGone, OnlyAt, Recorded, WorldForm
<1>7. NoOrphanProcess'
  <2> SUFFICES ASSUME NEW g \in Fwds, Runs(g), ~Recorded(g), g \notin signalled \cup abandoned
               PROVE  g \in abandoned'
    BY <1>1, <1>5 DEF NoOrphanProcess
  <2>1. InHand(g)
    BY DEF ForwardInv, NoOrphanProcess
  <2>2. PICK d \in Calls : call[d].f = g
    BY <2>1 DEF InHand
  <2>3. Suits(call[d].pc, call[d].job, g, call[d].pid)
    BY <2>2 DEF ForwardInv, CallFits
  <2>4. call[d].pc # "idle"
    BY <2>3, ForwardAssumption DEF Suits
  <2>5. call[d].pc \in Early
    BY <2>2, <2>4, AtStep
  <2>6. call[d].job = "create"
    BY <2>3, <2>5 DEF Suits
  <2> QED
    BY <1>1, <2>2, <2>4, <2>6
<1>8. NamesClaimed'
  <2>1. \A g : Claims(g)' => Claims(g)
    BY <1>2, <1>5 DEF Claims
  <2> QED
    BY <1>1, <2>1 DEF ForwardInv, NamesClaimed
<1> QED
  BY <1>1, <1>3, <1>4, <1>6, <1>7, <1>8 DEF ForwardInv

LEMMA NothingInv ==
  ASSUME ForwardInv, UNCHANGED <<at, def, rec, call, closed, abandoned, signalled, harmed, raced>>
  PROVE  ForwardInv'
<1>1. \A g : Recorded(g)' = Recorded(g) /\ Runs(g)' = Runs(g) /\ InHand(g)' = InHand(g)
  BY DEF Recorded, Runs, InHand
<1>2. \A c \in Calls : CallFits(c)'
  <2>1. \A c \in Calls : CallFits(c)
    BY DEF ForwardInv
  <2> QED
    BY <1>1, <2>1 DEF CallFits, Suits, Alone, OnlyAt
<1>3. NamesClaimed'
  <2>1. \A g : Claims(g)' = Claims(g)
    BY DEF Claims, Recorded
  <2> QED
    BY <2>1 DEF ForwardInv, NamesClaimed
<1> QED
  BY <1>1, <1>2, <1>3 DEF ForwardInv, CallForm, WorldForm, RecordsFit, OnlyAt, Recorded,
                          ClosedMeansGone, NoOrphanProcess

-----------------------------------------------------------------------------
(* The theorems.                                                           *)

(* The inductive invariant: where the ssh of a forward can run, who may    *)
(* know the forward, and who has a claim to its name, for each step that a *)
(* call can be at (create, 166; close, 226).                               *)
THEOREM ForwardInvariant == Spec => []ForwardInv
<1>1. Init => ForwardInv
  <2> SUFFICES ASSUME Init PROVE ForwardInv
    OBVIOUS
  <2>1. CallForm /\ WorldForm
    BY DEF Init, CallForm, WorldForm, Idle
  <2>2. \A c \in Calls : CallFits(c)
    BY DEF Init, Idle, CallFits, Suits, Alone, Early
  <2>3. \A f \in Fwds : ~Recorded(f) /\ ~Runs(f) /\ ~Claims(f)
    BY ForwardAssumption DEF Init, Idle, Recorded, Runs, Claims
  <2>4. /\ RecordsFit /\ ~harmed /\ closed \subseteq Fwds
        /\ ClosedMeansGone /\ NoOrphanProcess /\ NamesClaimed
    BY <2>3 DEF Init, RecordsFit, ClosedMeansGone, NoOrphanProcess, NamesClaimed
  <2> QED
    BY <2>1, <2>2, <2>4 DEF ForwardInv
<1>2. ForwardInv /\ [Next]_vars => ForwardInv'
  <2> SUFFICES ASSUME ForwardInv, [Next]_vars PROVE ForwardInv'
    OBVIOUS
  <2>1. ASSUME NEW c \in Calls, Step(c) PROVE ForwardInv'
    BY <2>1, OpenInv, SpawnInv, EarlyInv, PutInv, LateInv, DeleteInv DEF Step
  <2>2. ASSUME NEW f \in Fwds, Listen(f) PROVE ForwardInv'
    BY <2>2, NothingInv DEF Listen, ghosts
  <2>3. ASSUME NEW p \in Pids, Exit(p) \/ PidReused(p) PROVE ForwardInv'
    BY <2>3, HostInv
  <2>4. CASE Crash
    BY <2>4, CrashInv
  <2>5. CASE UNCHANGED vars
    BY <2>5, NothingInv DEF vars
  <2> QED
    BY <2>1, <2>2, <2>3, <2>4, <2>5 DEF Next
<1> QED
  BY <1>1, <1>2, PTL DEF Spec

(* Every signal goes to the ssh that the manager started for the forward,  *)
(* or to nobody (close, 252).                                              *)
THEOREM OnlyOwnSignalled == Spec => []OnlyOwnProcessesAreSignalled
<1>1. ForwardInv => OnlyOwnProcessesAreSignalled
  BY DEF ForwardInv, OnlyOwnProcessesAreSignalled
<1> QED
  BY <1>1, ForwardInvariant, PTL

(* A forward that a close deleted has no process and gets no record again  *)
(* (close, 287).                                                           *)
THEOREM ClosedForwardsAreGone == Spec => []ClosedMeansGone
<1>1. ForwardInv => ClosedMeansGone
  BY DEF ForwardInv
<1> QED
  BY <1>1, ForwardInvariant, PTL

(* An ssh that is not recorded and in no call's hands was signalled, or an *)
(* error or a restart interrupted its creation (create, 203).              *)
THEOREM ProcessesAreAccountedFor == Spec => []NoOrphanProcess
<1>1. ForwardInv => NoOrphanProcess
  BY DEF ForwardInv
<1> QED
  BY <1>1, ForwardInvariant, PTL

(* Unless two creates of one name overlap, a name has one recorded forward *)
(* (callForwardTool, 425).                                                 *)
THEOREM RecordedNamesAreUnique == Spec => []NamesAreUnique
<1>1. ForwardInv => NamesAreUnique
  BY DEF ForwardInv, NamesAreUnique, NamesClaimed, Claims
<1> QED
  BY <1>1, ForwardInvariant, PTL
=============================================================================
