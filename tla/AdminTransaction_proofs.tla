------------------------ MODULE AdminTransaction_proofs ------------------------
(***************************************************************************)
(* Proofs about AdminTransaction and the RemoteFiles it extends, for any   *)
(* set of callers, transactions, paths and contents and any number of      *)
(* faults: the helper is installed by one call at a time, a temporary file *)
(* has an owner, the outcome of a transaction tells what was done, and one *)
(* that rolled back or never began leaves the target as it was.            *)
(***************************************************************************)
EXTENDS AdminTransaction, TLAPS

(* The shape of the state, which is all that is needed of its types.       *)
RpcForm == rpc = [c \in Callers |-> [at |-> rpc[c].at, request |-> rpc[c].request]]

HelperForm ==
  helper = [c \in Callers |-> [at |-> helper[c].at, seen |-> helper[c].seen, answer |-> helper[c].answer]]

TxnForm ==
  txn = [t \in Txns |-> [at |-> txn[t].at, snapshot |-> txn[t].snapshot, after |-> txn[t].after,
                         state |-> txn[t].state]]

FsForm ==
  /\ RpcForm
  /\ HelperForm
  /\ DOMAIN result = Callers
  /\ result = [c \in Callers |-> result[c]]
  /\ installer \in Callers \cup {NoCaller}
  /\ temps \subseteq Callers

(* A call, its helper and its answer.                                      *)
CallFits(c) ==
  /\ rpc[c].at \in {"idle", "installing", "joining", "sent", "returned"}
  /\ rpc[c].at \in {"idle", "installing", "joining"} => helper[c].at = "off"
  /\ rpc[c].at = "returned" /\ result[c].ok => helper[c].at = "off"
  /\ helper[c].at \in {"off", "started", "checked", "answered", "killed"}
  /\ helper[c].at # "answered" => ~helper[c].answer.ok

FilesInv == FsForm /\ OneInstaller /\ TempsAreOwned /\ \A c \in Callers : CallFits(c)

(* The text of the current request of c has been put in place.             *)
Landed(c) ==
  /\ \/ helper[c].at = "answered" /\ helper[c].answer.ok
     \/ rpc[c].at = "returned" /\ result[c].ok
  /\ Stages(rpc[c].request)

-----------------------------------------------------------------------------
(* Updates of one record.                                                  *)

LEMMA RpcSet ==
  ASSUME RpcForm, NEW c \in Callers, NEW a, NEW r,
         rpc' = [rpc EXCEPT ![c] = [at |-> a, request |-> r]]
  PROVE  /\ RpcForm'
         /\ rpc'[c].at = a /\ rpc'[c].request = r
         /\ \A d \in Callers \ {c} : rpc'[d] = rpc[d]
<1>1. DOMAIN rpc = Callers
  BY DEF RpcForm
<1>2. \A d \in Callers : rpc[d] = [at |-> rpc[d].at, request |-> rpc[d].request]
  BY DEF RpcForm
<1>3. rpc'[c] = [at |-> a, request |-> r] /\ \A d \in Callers \ {c} : rpc'[d] = rpc[d]
  BY <1>1
<1>4. \A d \in Callers : rpc'[d] = [at |-> rpc'[d].at, request |-> rpc'[d].request]
  BY <1>2, <1>3
<1>5. rpc' = [d \in Callers |-> rpc'[d]]
  BY <1>1
<1>6. RpcForm'
  BY <1>4, <1>5 DEF RpcForm
<1> QED
  BY <1>3, <1>6

LEMMA RpcAt ==
  ASSUME RpcForm, NEW c \in Callers, NEW a, rpc' = [rpc EXCEPT ![c].at = a]
  PROVE  /\ RpcForm'
         /\ rpc'[c].at = a /\ rpc'[c].request = rpc[c].request
         /\ \A d \in Callers \ {c} : rpc'[d] = rpc[d]
<1>1. rpc[c] = [at |-> rpc[c].at, request |-> rpc[c].request]
  BY DEF RpcForm
<1>2. [rpc[c] EXCEPT !.at = a] = [at |-> a, request |-> rpc[c].request]
  BY <1>1
<1>3. rpc' = [rpc EXCEPT ![c] = [at |-> a, request |-> rpc[c].request]]
  BY <1>2
<1> QED
  BY <1>3, RpcSet

LEMMA HelperSet ==
  ASSUME HelperForm, NEW c \in Callers, NEW a, NEW s, NEW v,
         helper' = [helper EXCEPT ![c] = [at |-> a, seen |-> s, answer |-> v]]
  PROVE  /\ HelperForm'
         /\ helper'[c].at = a /\ helper'[c].answer = v
         /\ \A d \in Callers \ {c} : helper'[d] = helper[d]
<1>1. DOMAIN helper = Callers
  BY DEF HelperForm
<1>2. \A d \in Callers :
        helper[d] = [at |-> helper[d].at, seen |-> helper[d].seen, answer |-> helper[d].answer]
  BY DEF HelperForm
<1>3. /\ helper'[c] = [at |-> a, seen |-> s, answer |-> v]
      /\ \A d \in Callers \ {c} : helper'[d] = helper[d]
  BY <1>1
<1>4. \A d \in Callers :
        helper'[d] = [at |-> helper'[d].at, seen |-> helper'[d].seen, answer |-> helper'[d].answer]
  BY <1>2, <1>3
<1>5. helper' = [d \in Callers |-> helper'[d]]
  BY <1>1
<1>6. HelperForm'
  BY <1>4, <1>5 DEF HelperForm
<1> QED
  BY <1>3, <1>6

LEMMA HelperAt ==
  ASSUME HelperForm, NEW c \in Callers, NEW a, helper' = [helper EXCEPT ![c].at = a]
  PROVE  /\ HelperForm'
         /\ helper'[c].at = a /\ helper'[c].answer = helper[c].answer
         /\ \A d \in Callers \ {c} : helper'[d] = helper[d]
<1>1. helper[c] = [at |-> helper[c].at, seen |-> helper[c].seen, answer |-> helper[c].answer]
  BY DEF HelperForm
<1>2. [helper[c] EXCEPT !.at = a] = [at |-> a, seen |-> helper[c].seen, answer |-> helper[c].answer]
  BY <1>1
<1>3. PICK s, v : /\ v = helper[c].answer
                  /\ helper' = [helper EXCEPT ![c] = [at |-> a, seen |-> s, answer |-> v]]
  BY <1>2
<1>4. /\ HelperForm'
      /\ helper'[c].at = a /\ helper'[c].answer = v
      /\ \A d \in Callers \ {c} : helper'[d] = helper[d]
  BY ONLY HelperForm, c \in Callers, <1>3, HelperSet, ZenonT(60)
<1> QED
  BY <1>3, <1>4

LEMMA LaunchedIs ==
  ASSUME NEW c, NEW prog
  PROVE  \E a \in {"started", "answered"} :
           Launched(c, prog) = [at |-> a, seen |-> Unset, answer |-> Threw]
BY DEF Launched, NoHelper

LEMMA ThrewIsNotOk == ~Threw.ok /\ \A v : Gives(v).ok
BY DEF Threw, Gives

-----------------------------------------------------------------------------
(* The client and the helpers.                                             *)

(* What a step does to a call and its helper.                              *)
SameCall(c) == rpc'[c] = rpc[c] /\ helper'[c] = helper[c] /\ result'[c] = result[c]

LEMMA SameCallFits == ASSUME NEW c, CallFits(c), SameCall(c) PROVE CallFits(c)'
BY DEF CallFits, SameCall

LEMMA IssueInv ==
  ASSUME FilesInv, NEW c \in Callers, NEW r, Issue(c, r), helper[c].at = "off"
  PROVE  /\ FilesInv'
         /\ rpc'[c].request = r
         /\ rpc'[c].at \in {"installing", "joining", "sent"}
         /\ ~helper'[c].answer.ok
         /\ \A d \in Callers \ {c} : SameCall(d)
<1>0. FsForm /\ OneInstaller /\ TempsAreOwned /\ CallFits(c)
  BY DEF FilesInv
<1> DEFINE a == IF ready THEN "sent" ELSE IF installer # NoCaller THEN "joining" ELSE "installing"
<1>a. rpc' = [rpc EXCEPT ![c] = [at |-> a, request |-> r]]
  BY DEF Issue
<1>1. /\ a \in {"installing", "joining", "sent"}
      /\ a = IF ready THEN "sent" ELSE IF installer # NoCaller THEN "joining" ELSE "installing"
  OBVIOUS
<1> HIDE DEF a
<1>2. /\ RpcForm'
      /\ rpc'[c].at = a /\ rpc'[c].request = r
      /\ \A d \in Callers \ {c} : rpc'[d] = rpc[d]
  BY <1>0, <1>a, RpcSet DEF FsForm
<1>3. /\ HelperForm'
      /\ ~helper'[c].answer.ok
      /\ helper'[c].at \in {"off", "started", "answered"}
      /\ a \in {"installing", "joining"} => helper'[c].at = "off"
      /\ \A d \in Callers \ {c} : helper'[d] = helper[d]
  <2>1. CASE ready
    <3>1. PICK b \in {"started", "answered"} :
            helper' = [helper EXCEPT ![c] = [at |-> b, seen |-> Unset, answer |-> Threw]]
      BY <2>1, LaunchedIs DEF Issue
    <3>2. /\ HelperForm'
          /\ helper'[c].at = b /\ helper'[c].answer = Threw
          /\ \A d \in Callers \ {c} : helper'[d] = helper[d]
      BY <1>0, <3>1, HelperSet DEF FsForm
    <3> QED
      BY <1>1, <2>1, <3>2, ThrewIsNotOk
  <2>2. CASE ~ready
    <3>1. helper' = helper
      BY <2>2 DEF Issue
    <3> QED
      BY <1>0, <3>1 DEF FsForm, HelperForm, CallFits
  <2> QED
    BY <2>1, <2>2
<1>4. /\ UNCHANGED <<disk, temps, result, ready, program>>
      /\ installer' = IF ready \/ installer # NoCaller THEN installer ELSE c
      /\ rpc[c].at \in {"idle", "returned"}
  BY DEF Issue
<1>5. FsForm'
  BY <1>0, <1>2, <1>3, <1>4 DEF FsForm
<1>6. OneInstaller'
  <2>1. \A d \in Callers : rpc[d].at = "installing" <=> installer = d
    BY <1>0 DEF OneInstaller
  <2>2. \A d \in Callers : rpc[d].at = "joining" => installer # NoCaller
    BY <1>0 DEF OneInstaller
  <2>3. \A d \in Callers : rpc'[d].at = "installing" <=> installer' = d
    BY <1>1, <1>2, <1>4, <2>1, RemoteFilesAssumption
  <2>4. \A d \in Callers : rpc'[d].at = "joining" => installer' # NoCaller
    BY <1>1, <1>2, <1>4, <2>2, RemoteFilesAssumption
  <2> QED
    BY <2>3, <2>4 DEF OneInstaller
<1>7. TempsAreOwned'
  <2>1. c \notin temps
    BY <1>0 DEF TempsAreOwned
  <2> QED
    BY <1>0, <1>3, <1>4, <2>1 DEF TempsAreOwned, FsForm
<1>8. \A d \in Callers \ {c} : SameCall(d)
  BY <1>2, <1>3, <1>4 DEF SameCall
<1>9. \A d \in Callers : CallFits(d)'
  <2>1. CallFits(c)'
    BY <1>0, <1>1, <1>2, <1>3, <1>4 DEF CallFits
  <2>2. \A d \in Callers \ {c} : CallFits(d)
    BY DEF FilesInv
  <2>3. \A d \in Callers \ {c} : CallFits(d)'
    BY <1>8, <2>2, SameCallFits
  <2> QED
    BY <2>1, <2>3
<1>10. FilesInv'
  BY <1>5, <1>6, <1>7, <1>9 DEF FilesInv
<1> QED
  BY <1>1, <1>2, <1>3, <1>8, <1>10

(* What a step of the filesystem does to a call.                           *)
Lands(c) == helper[c].at = "checked" /\ Stages(rpc[c].request) /\ helper'[c].answer.ok

FsMoves(c) ==
  /\ rpc'[c].request = rpc[c].request
  /\ rpc[c].at \in {"idle", "returned"} => rpc'[c].at = rpc[c].at /\ result'[c] = result[c]
  /\ rpc[c].at # "idle" => rpc'[c].at # "idle"
  /\ Landed(c)' <=> (Landed(c) \/ Lands(c))

LEMMA SameCallMoves == ASSUME NEW c, CallFits(c), SameCall(c) PROVE FsMoves(c)
BY DEF CallFits, SameCall, FsMoves, Landed, Lands

(* One call and its helper move; nothing is installed.                     *)
LEMMA OneCallMoves ==
  ASSUME FilesInv, NEW c \in Callers, CallFits(c)', FsMoves(c),
         RpcForm', HelperForm', result' = [d \in Callers |-> result'[d]], DOMAIN result' = Callers,
         installer' = installer, rpc[c].at \notin {"installing", "joining"},
         rpc'[c].at \notin {"installing", "joining"},
         \A d \in Callers \ {c} : SameCall(d),
         temps' \subseteq temps \cup {c}, c \in temps' => helper'[c].at \in {"checked", "killed"}
  PROVE  FilesInv' /\ \A d \in Callers : FsMoves(d)
<1>1. FsForm'
  BY DEF FilesInv, FsForm
<1>2. OneInstaller'
  BY DEF FilesInv, OneInstaller, SameCall
<1>3. TempsAreOwned'
  BY <1>1 DEF FilesInv, TempsAreOwned, SameCall, FsForm
<1>4. \A d \in Callers \ {c} : CallFits(d)
  BY DEF FilesInv
<1>5. \A d \in Callers \ {c} : CallFits(d)' /\ FsMoves(d)
  BY <1>4, SameCallFits, SameCallMoves
<1> QED
  BY <1>1, <1>2, <1>3, <1>5 DEF FilesInv

LEMMA HelperInv ==
  ASSUME FilesInv, NEW c \in Callers, HelperStep(c)
  PROVE  FilesInv' /\ \A d \in Callers : FsMoves(d)
<1>0. FsForm /\ CallFits(c) /\ TempsAreOwned
  BY DEF FilesInv
<1>1. UNCHANGED clientVars
  BY DEF HelperStep, LookAndAnswer, Refuse, Check, SystemCall, SystemCallFails, Killed
<1>2. UNCHANGED <<rpc, result, installer>>
  BY <1>1 DEF clientVars
<1>3. helper[c].at \in {"started", "checked"}
  BY DEF HelperStep, LookAndAnswer, Refuse, Check, SystemCall, SystemCallFails, OSFails, Killed
<1>4. rpc[c].at \in {"sent", "returned"} /\ ~(rpc[c].at = "returned" /\ result[c].ok)
  BY <1>0, <1>3 DEF CallFits
<1>5. ASSUME NEW a \in {"checked", "answered", "killed"}, NEW v, NEW w,
             HelperForm', helper'[c].at = a, helper'[c].answer = v,
             \A d \in Callers \ {c} : helper'[d] = helper[d],
             v.ok => a = "answered",
             Stages(rpc[c].request) /\ v.ok => helper[c].at = "checked",
             temps' \subseteq temps \cup {c}, c \in temps' => a \in {"checked", "killed"}
      PROVE  FilesInv' /\ \A d \in Callers : FsMoves(d)
  <2>1. CallFits(c)'
    BY <1>0, <1>2, <1>4, <1>5 DEF CallFits
  <2>2. FsMoves(c)
    BY <1>0, <1>2, <1>3, <1>4, <1>5 DEF FsMoves, Landed, Lands
  <2>3. \A d \in Callers \ {c} : SameCall(d)
    BY <1>2, <1>5 DEF SameCall
  <2>4. RpcForm' /\ result' = [d \in Callers |-> result'[d]] /\ DOMAIN result' = Callers
    BY <1>0, <1>2 DEF FsForm, RpcForm
  <2>5. /\ rpc[c].at \notin {"installing", "joining"} /\ rpc'[c].at \notin {"installing", "joining"}
        /\ installer' = installer
        /\ c \in temps' => helper'[c].at \in {"checked", "killed"}
    BY <1>2, <1>4, <1>5
  <2> QED
    BY <1>5, <2>1, <2>2, <2>3, <2>4, <2>5, OneCallMoves
<1>6. ASSUME NEW a, NEW s, NEW v, Becomes(c, a, s, v)
      PROVE  /\ HelperForm'
             /\ helper'[c].at = a /\ helper'[c].answer = v
             /\ \A d \in Callers \ {c} : helper'[d] = helper[d]
  BY <1>0, <1>6, HelperSet DEF FsForm, Becomes
<1>7. CASE LookAndAnswer(c)
  <2>1. PICK v : Becomes(c, "answered", Unset, v) /\ (v.ok => ~Stages(rpc[c].request))
    BY <1>7 DEF LookAndAnswer, Stages
  <2>2. helper[c].at = "started" /\ temps' = temps /\ c \notin temps
    BY <1>0, <1>7 DEF LookAndAnswer, TempsAreOwned
  <2> QED
    BY <1>5, <1>6, <2>1, <2>2
<1>8. CASE Refuse(c)
  <2>1. Becomes(c, "answered", Unset, Threw) /\ temps' = temps /\ c \notin temps
    BY <1>0, <1>8 DEF Refuse, TempsAreOwned
  <2> QED
    BY <1>5, <1>6, <2>1, ThrewIsNotOk
<1>9. CASE Check(c)
  <2>1. Becomes(c, "checked", disk[rpc[c].request.path], Threw)
        /\ temps' \subseteq temps \cup {c}
    BY <1>9 DEF Check
  <2> QED
    BY <1>5, <1>6, <2>1, ThrewIsNotOk
<1>10. CASE SystemCall(c)
  <2>1. PICK v : Becomes(c, "answered", Unset, v)
    BY <1>10 DEF SystemCall
  <2>2. helper[c].at = "checked" /\ temps' = temps \ {c}
    BY <1>10 DEF SystemCall
  <2> QED
    BY <1>5, <1>6, <2>1, <2>2
<1>11. CASE SystemCallFails(c)
  <2>1. Becomes(c, "answered", Unset, Threw) /\ temps' = temps \ {c}
    BY <1>11 DEF SystemCallFails, OSFails
  <2> QED
    BY <1>5, <1>6, <2>1, ThrewIsNotOk
<1>12. CASE Killed(c)
  <2>1. helper' = [helper EXCEPT ![c].at = "killed"] /\ temps' = temps
    BY <1>12 DEF Killed
  <2>2. /\ HelperForm'
        /\ helper'[c].at = "killed" /\ helper'[c].answer = helper[c].answer
        /\ \A d \in Callers \ {c} : helper'[d] = helper[d]
    BY <1>0, <2>1, HelperAt DEF FsForm
  <2>3. ~helper'[c].answer.ok
    BY <1>0, <1>3, <2>2 DEF CallFits
  <2> QED
    BY <1>5, <2>1, <2>2, <2>3
<1> QED
  BY <1>7, <1>8, <1>9, <1>10, <1>11, <1>12 DEF HelperStep

LEMMA InstallSucceedsInv ==
  ASSUME FilesInv, NEW prog, InstallSucceeds(prog)
  PROVE  FilesInv' /\ \A c \in Callers : FsMoves(c)
<1>0. FsForm /\ OneInstaller /\ TempsAreOwned /\ \A c \in Callers : CallFits(c)
  BY DEF FilesInv
<1>1. /\ rpc' = [c \in Callers |-> IF Waits(c) THEN [rpc[c] EXCEPT !.at = "sent"] ELSE rpc[c]]
      /\ helper' = [c \in Callers |-> IF Waits(c) THEN Launched(c, prog) ELSE helper[c]]
      /\ installer' = NoCaller
      /\ UNCHANGED <<temps, result>>
  BY DEF InstallSucceeds
<1>2. \A c \in Callers : rpc[c] = [at |-> rpc[c].at, request |-> rpc[c].request]
  BY <1>0 DEF FsForm, RpcForm
<1>3. ASSUME NEW c \in Callers, Waits(c)
      PROVE  rpc'[c] = [at |-> "sent", request |-> rpc[c].request]
  <2>1. rpc[c] = [at |-> rpc[c].at, request |-> rpc[c].request]
    BY <1>2
  <2>2. [rpc[c] EXCEPT !.at = "sent"] = [at |-> "sent", request |-> rpc[c].request]
    BY <2>1
  <2>3. rpc'[c] = [rpc[c] EXCEPT !.at = "sent"]
    BY <1>1, <1>3, Zenon
  <2> QED
    BY <2>2, <2>3
<1>4. \A c \in Callers : Waits(c) => \E a \in {"started", "answered"} :
        helper'[c] = [at |-> a, seen |-> Unset, answer |-> Threw]
  BY <1>1, LaunchedIs
<1>5. \A c \in Callers : ~Waits(c) => SameCall(c)
  BY <1>1 DEF SameCall
<1>6. ASSUME NEW c \in Callers
      PROVE  /\ CallFits(c)' /\ FsMoves(c)
             /\ rpc'[c] = [at |-> rpc'[c].at, request |-> rpc'[c].request]
             /\ helper'[c] = [at |-> helper'[c].at, seen |-> helper'[c].seen, answer |-> helper'[c].answer]
             /\ rpc'[c].at \notin {"installing", "joining"}
             /\ c \in temps' => helper'[c].at \in {"checked", "killed"}
  <2>1. CASE Waits(c)
    <3>1. rpc[c].at \in {"installing", "joining"} /\ helper[c].at = "off" /\ CallFits(c)
      BY <1>0, <2>1 DEF Waits, CallFits
    <3>2. rpc'[c] = [at |-> "sent", request |-> rpc[c].request]
      BY <1>3, <2>1
    <3>3. PICK a \in {"started", "answered"} :
            helper'[c] = [at |-> a, seen |-> Unset, answer |-> Threw]
      BY <1>4, <2>1
    <3>4. CallFits(c)'
      BY <3>2, <3>3, ThrewIsNotOk DEF CallFits
    <3>5. FsMoves(c)
      BY <3>1, <3>2, <3>3, ThrewIsNotOk DEF FsMoves, Landed, Lands
    <3>6. c \notin temps'
      BY <1>0, <1>1, <3>1 DEF TempsAreOwned
    <3> QED
      BY <3>2, <3>3, <3>4, <3>5, <3>6
  <2>2. CASE ~Waits(c)
    <3>1. SameCall(c) /\ CallFits(c)
      BY <1>0, <1>5, <2>2
    <3>2. CallFits(c)' /\ FsMoves(c)
      BY <3>1, SameCallFits, SameCallMoves
    <3>3. /\ rpc'[c] = [at |-> rpc'[c].at, request |-> rpc'[c].request]
          /\ helper'[c] = [at |-> helper'[c].at, seen |-> helper'[c].seen, answer |-> helper'[c].answer]
      BY <1>0, <3>1 DEF SameCall, FsForm, RpcForm, HelperForm
    <3>4. rpc'[c].at \notin {"installing", "joining"}
      BY <2>2, <3>1 DEF SameCall, Waits
    <3>5. c \in temps' => helper'[c].at \in {"checked", "killed"}
      BY <1>0, <1>1, <3>1 DEF SameCall, TempsAreOwned
    <3> QED
      BY <3>2, <3>3, <3>4, <3>5
  <2> QED
    BY <2>1, <2>2
<1>7. RpcForm' /\ HelperForm'
  <2>1. rpc' = [c \in Callers |-> rpc'[c]] /\ helper' = [c \in Callers |-> helper'[c]]
    BY <1>1
  <2> QED
    BY <1>6, <2>1 DEF RpcForm, HelperForm
<1>8. FsForm'
  BY <1>0, <1>1, <1>7 DEF FsForm
<1>9. OneInstaller'
  BY <1>1, <1>6, RemoteFilesAssumption DEF OneInstaller
<1>10. TempsAreOwned'
  BY <1>6, <1>8 DEF TempsAreOwned, FsForm
<1> QED
  BY <1>6, <1>8, <1>9, <1>10 DEF FilesInv

LEMMA InstallFailsInv ==
  ASSUME FilesInv, InstallFails
  PROVE  FilesInv' /\ \A c \in Callers : FsMoves(c)
<1>0. FsForm /\ OneInstaller /\ TempsAreOwned /\ \A c \in Callers : CallFits(c)
  BY DEF FilesInv
<1>1. /\ rpc' = [c \in Callers |-> IF Waits(c) THEN [rpc[c] EXCEPT !.at = "returned"] ELSE rpc[c]]
      /\ result' = [c \in Callers |-> IF Waits(c) THEN Threw ELSE result[c]]
      /\ installer' = NoCaller
      /\ UNCHANGED <<temps, helper>>
  BY DEF InstallFails
<1>2. \A c \in Callers : rpc[c] = [at |-> rpc[c].at, request |-> rpc[c].request]
  BY <1>0 DEF FsForm, RpcForm
<1>3. ASSUME NEW c \in Callers, Waits(c)
      PROVE  rpc'[c] = [at |-> "returned", request |-> rpc[c].request] /\ result'[c] = Threw
  <2>1. rpc[c] = [at |-> rpc[c].at, request |-> rpc[c].request]
    BY <1>2
  <2>2. [rpc[c] EXCEPT !.at = "returned"] = [at |-> "returned", request |-> rpc[c].request]
    BY <2>1
  <2>3. rpc'[c] = [rpc[c] EXCEPT !.at = "returned"] /\ result'[c] = Threw
    BY <1>1, <1>3, Zenon
  <2> QED
    BY <2>2, <2>3
<1>4. \A c \in Callers : ~Waits(c) => SameCall(c)
  BY <1>1 DEF SameCall
<1>5. ASSUME NEW c \in Callers
      PROVE  /\ CallFits(c)' /\ FsMoves(c)
             /\ rpc'[c] = [at |-> rpc'[c].at, request |-> rpc'[c].request]
             /\ rpc'[c].at \notin {"installing", "joining"}
  <2>1. CASE Waits(c)
    <3>1. /\ rpc[c].at \in {"installing", "joining"} /\ helper[c].at = "off" /\ CallFits(c)
          /\ helper' = helper
      BY <1>0, <1>1, <2>1 DEF Waits, CallFits
    <3>2. rpc'[c] = [at |-> "returned", request |-> rpc[c].request] /\ result'[c] = Threw
      BY <1>3, <2>1
    <3>3. CallFits(c)'
      BY <3>1, <3>2, ThrewIsNotOk DEF CallFits
    <3>4. FsMoves(c)
      BY <3>1, <3>2, ThrewIsNotOk DEF FsMoves, Landed, Lands
    <3> QED
      BY <3>2, <3>3, <3>4
  <2>2. CASE ~Waits(c)
    <3>1. SameCall(c) /\ CallFits(c)
      BY <1>0, <1>4, <2>2
    <3>2. CallFits(c)' /\ FsMoves(c)
      BY <3>1, SameCallFits, SameCallMoves
    <3> QED
      BY <1>2, <2>2, <3>1, <3>2 DEF SameCall, Waits
  <2> QED
    BY <2>1, <2>2
<1>6. FsForm'
  <2>1. rpc' = [c \in Callers |-> rpc'[c]]
    BY <1>1
  <2>2. RpcForm'
    BY <1>5, <2>1 DEF RpcForm
  <2>3. HelperForm'
    BY <1>0, <1>1 DEF FsForm, HelperForm
  <2> QED
    BY <1>0, <1>1, <2>2, <2>3 DEF FsForm
<1>7. OneInstaller' /\ TempsAreOwned'
  BY <1>0, <1>1, <1>5, RemoteFilesAssumption DEF OneInstaller, TempsAreOwned
<1> QED
  BY <1>5, <1>6, <1>7 DEF FilesInv

LEMMA ReturnInv ==
  ASSUME FilesInv, NEW c \in Callers, Receive(c) \/ Lose(c)
  PROVE  FilesInv' /\ \A d \in Callers : FsMoves(d)
<1>0. FsForm /\ CallFits(c) /\ TempsAreOwned
  BY DEF FilesInv
<1>1. PICK v : /\ rpc' = [rpc EXCEPT ![c].at = "returned"]
               /\ result' = [result EXCEPT ![c] = v]
               /\ \/ v = helper[c].answer /\ helper[c].at = "answered"
                     /\ helper' = [helper EXCEPT ![c] = NoHelper]
                  \/ v = Threw /\ helper' = helper
  BY DEF Receive, Lose, Return
<1>2. rpc[c].at = "sent" /\ UNCHANGED <<temps, installer>>
  BY DEF Receive, Lose
<1>3. /\ RpcForm'
      /\ rpc'[c].at = "returned" /\ rpc'[c].request = rpc[c].request
      /\ \A d \in Callers \ {c} : rpc'[d] = rpc[d]
  BY <1>0, <1>1, RpcAt DEF FsForm
<1>4. /\ result' = [d \in Callers |-> result'[d]] /\ DOMAIN result' = Callers
      /\ result'[c] = v
      /\ \A d \in Callers \ {c} : result'[d] = result[d]
  BY <1>0, <1>1 DEF FsForm
<1>5. CASE v = helper[c].answer /\ helper[c].at = "answered" /\ helper' = [helper EXCEPT ![c] = NoHelper]
  <2>1. /\ HelperForm'
        /\ helper'[c].at = "off" /\ helper'[c].answer = Threw
        /\ \A d \in Callers \ {c} : helper'[d] = helper[d]
    BY <1>0, <1>5, HelperSet DEF FsForm, NoHelper
  <2>2. CallFits(c)'
    BY <1>3, <2>1, ThrewIsNotOk DEF CallFits
  <2>3. FsMoves(c)
    BY <1>2, <1>3, <1>4, <1>5, <2>1 DEF FsMoves, Landed, Lands
  <2>4. \A d \in Callers \ {c} : SameCall(d)
    BY <1>3, <1>4, <2>1 DEF SameCall
  <2>5. c \notin temps
    BY <1>0, <1>5 DEF TempsAreOwned
  <2> QED
    BY <1>2, <1>3, <1>4, <2>1, <2>2, <2>3, <2>4, <2>5, OneCallMoves
<1>6. CASE v = Threw /\ helper' = helper
  <2>1. HelperForm'
    BY <1>0, <1>6 DEF FsForm, HelperForm
  <2>2. CallFits(c)'
    BY <1>0, <1>3, <1>4, <1>6, ThrewIsNotOk DEF CallFits
  <2>3. FsMoves(c)
    BY <1>0, <1>2, <1>3, <1>4, <1>6, ThrewIsNotOk DEF FsMoves, Landed, Lands, CallFits
  <2>4. \A d \in Callers \ {c} : SameCall(d)
    BY <1>3, <1>4, <1>6 DEF SameCall
  <2>5. c \in temps => helper'[c].at \in {"checked", "killed"}
    BY <1>0, <1>6 DEF TempsAreOwned
  <2> QED
    BY <1>2, <1>3, <1>4, <2>1, <2>2, <2>3, <2>4, <2>5, OneCallMoves
<1> QED
  BY <1>1, <1>5, <1>6

(* A step that touches neither calls nor helpers.                          *)
LEMMA QuietInv ==
  ASSUME FilesInv, UNCHANGED <<temps, helper, rpc, result, installer>>
  PROVE  FilesInv' /\ \A c \in Callers : SameCall(c) /\ FsMoves(c)
<1>1. \A c \in Callers : CallFits(c) /\ SameCall(c)
  BY DEF FilesInv, SameCall
<1>2. \A c \in Callers : CallFits(c)' /\ FsMoves(c)
  BY <1>1, SameCallFits, SameCallMoves
<1>3. FsForm' /\ OneInstaller' /\ TempsAreOwned'
  BY DEF FilesInv, FsForm, RpcForm, HelperForm, OneInstaller, TempsAreOwned
<1> QED
  BY <1>1, <1>2, <1>3 DEF FilesInv

LEMMA FsNextInv ==
  ASSUME FilesInv, FsNext
  PROVE  FilesInv' /\ \A c \in Callers : FsMoves(c)
<1>1. CASE \E prog \in {"whole", "cut"} : InstallSucceeds(prog)
  BY <1>1, InstallSucceedsInv
<1>2. CASE InstallFails
  BY <1>2, InstallFailsInv
<1>3. CASE \E c \in Callers : Receive(c) \/ Lose(c) \/ HelperStep(c)
  BY <1>3, ReturnInv, HelperInv
<1>4. CASE \E p \in Paths, content \in Contents : Edit(p, content)
  <2>1. UNCHANGED <<temps, helper, rpc, result, installer>>
    BY <1>4 DEF Edit, clientVars
  <2> QED
    BY <2>1, QuietInv
<1>5. CASE CleanCache
  <2>1. UNCHANGED <<temps, helper, rpc, result, installer>>
    BY <1>5 DEF CleanCache
  <2> QED
    BY <2>1, QuietInv
<1> QED
  BY <1>1, <1>2, <1>3, <1>4, <1>5 DEF FsNext

-----------------------------------------------------------------------------
(* The transactions.                                                       *)

(* The phase that t is in, or the state it has reported.                   *)
Where(t) == IF txn[t].at = "done" THEN txn[t].state ELSE txn[t].at

Ends == {"committed", "precheck_failed", "snapshot_failed", "mutation_failed", "health_failed",
         "rolled_back", "rollback_failed"}
Phases == {"idle", "precheck", "stat", "read", "status", "mutate", "health", "undo", "verify"}

Known(t) ==
  \/ txn[t].at \in Phases /\ txn[t].state = "none"
  \/ txn[t].at = "done" /\ txn[t].state \in Ends

(* How many texts t had put in place before its current request.           *)
Prior(t, w) ==
  CASE w = "undo" -> 1
    [] w \in {"verify", "rolled_back"} -> 2
    [] w = "rollback_failed" -> IF Stages(rpc[t].request) THEN 1 ELSE 2
    [] OTHER -> 0

FileFits(t, w) ==
  /\ w # "status" /\ job[t].at = "none"
  /\ \A a \in Changing : job[t].earlier[a] = "none"
  /\ wrote[t] = Prior(t, w) + IF Landed(t) THEN 1 ELSE 0
  /\ w \in {"idle", "precheck", "precheck_failed"} <=> rpc[t].at = "idle"
  /\ w \in {"stat", "read", "verify", "snapshot_failed", "rolled_back"} => ~Stages(rpc[t].request)
  /\ w \in {"mutate", "health", "undo", "committed", "health_failed", "mutation_failed"}
       => Stages(rpc[t].request)
  /\ w \in {"health", "committed", "health_failed"} => rpc[t].at = "returned" /\ result[t].ok

(* How many changes the last command of each phase accounts for, k, of all *)
(* that were made.                                                         *)
Ran(t, a) == IF job[t].earlier[a] \in {"ran", "late"} THEN 1 ELSE 0
Wrote(t, k) == wrote[t] = k + Ran(t, "mutate") + Ran(t, "undo")

UnitFits(t, w) ==
  /\ rpc[t].at = "idle" /\ w \notin {"stat", "read"}
  /\ w \in {"idle", "precheck", "status", "precheck_failed", "snapshot_failed"} =>
       job[t].at = "none" /\ Wrote(t, 0) /\ job[t].earlier["mutate"] = "none"
  /\ w \in {"health", "committed", "health_failed"} => job[t].at = "none" /\ Wrote(t, 1)
  /\ w \in {"verify", "rolled_back"} => job[t].at = "none" /\ Wrote(t, 2)
  /\ w \in {"mutate", "mutation_failed"} =>
       \/ job[t].at = "queued" /\ Wrote(t, 0)
       \/ job[t].at = "applied" /\ Wrote(t, 1)
       \/ job[t].at = "none" /\ (Wrote(t, 0) \/ Wrote(t, 1)) /\ w = "mutation_failed"
  /\ w \in {"undo", "rollback_failed"} =>
       \/ job[t].at = "queued" /\ Wrote(t, 1)
       \/ job[t].at = "applied" /\ Wrote(t, 2)
       \/ job[t].at = "none" /\ (Wrote(t, 1) \/ Wrote(t, 2)) /\ w = "rollback_failed"
  /\ w \notin {"undo", "verify", "rolled_back", "rollback_failed"} => job[t].earlier["undo"] = "none"

Fits(t) ==
  /\ Known(t)
  /\ IF OnUnit(t) THEN UnitFits(t, Where(t)) ELSE FileFits(t, Where(t))

EffectForm ==
  /\ job = [t \in Txns |-> [at |-> job[t].at, earlier |-> job[t].earlier]]
  /\ \A t \in Txns : job[t].earlier \in [Changing -> {"none", "ran", "lost", "late"}]
  /\ wrote = [t \in Txns |-> wrote[t]]
  /\ \A t \in Txns : wrote[t] \in Nat

TxnInv == FilesInv /\ TxnForm /\ EffectForm /\ \A t \in Txns : Fits(t)

LEMMA StagesAre ==
  /\ \A q : ~Stages(Plain("stat", q)) /\ ~Stages(Plain("read", q))
  /\ \A q, x, e : Stages(Write(q, x, e)) /\ Stages(Patch(q, x, e))
BY DEF Stages, Plain, Write, Patch

(* A step takes the transaction t to w, and no other one.                  *)
Moved(t, w) ==
  /\ TxnForm'
  /\ Known(t)'
  /\ Where(t)' = w
  /\ \A u \in Txns \ {t} : txn'[u] = txn[u]

LEMMA TxnSet ==
  ASSUME TxnForm, NEW t \in Txns, NEW a, NEW s, NEW v, NEW e,
         txn' = [txn EXCEPT ![t] = [at |-> a, snapshot |-> s, after |-> v, state |-> e]]
  PROVE  /\ TxnForm'
         /\ txn'[t].at = a /\ txn'[t].state = e
         /\ \A u \in Txns \ {t} : txn'[u] = txn[u]
<1>1. DOMAIN txn = Txns
  BY DEF TxnForm
<1>2. \A u \in Txns : txn[u] = [at |-> txn[u].at, snapshot |-> txn[u].snapshot,
                               after |-> txn[u].after, state |-> txn[u].state]
  BY DEF TxnForm
<1>3. /\ txn'[t] = [at |-> a, snapshot |-> s, after |-> v, state |-> e]
      /\ \A u \in Txns \ {t} : txn'[u] = txn[u]
  BY <1>1
<1>4. \A u \in Txns : txn'[u] = [at |-> txn'[u].at, snapshot |-> txn'[u].snapshot,
                                after |-> txn'[u].after, state |-> txn'[u].state]
  BY <1>2, <1>3
<1>5. txn' = [u \in Txns |-> txn'[u]]
  BY <1>1
<1>6. TxnForm'
  BY <1>4, <1>5 DEF TxnForm
<1> QED
  BY <1>3, <1>6

LEMMA PhaseMoves ==
  ASSUME TxnForm, NEW t \in Txns, Known(t), txn[t].at # "done", NEW a \in Phases,
         \/ Phase(t, a)
         \/ \E s : txn' = [txn EXCEPT ![t].at = a, ![t].snapshot = s]
         \/ \E v : txn' = [txn EXCEPT ![t].at = a, ![t].after = v]
  PROVE  Moved(t, a)
<1>1. txn[t] = [at |-> txn[t].at, snapshot |-> txn[t].snapshot,
                after |-> txn[t].after, state |-> txn[t].state]
  BY DEF TxnForm
<1>2. DOMAIN txn = Txns
  BY DEF TxnForm
<1>3. \E s, v : txn' = [txn EXCEPT ![t] = [at |-> a, snapshot |-> s, after |-> v,
                                          state |-> txn[t].state]]
  <2>1. CASE Phase(t, a)
    <3>1. [txn[t] EXCEPT !.at = a] = [at |-> a, snapshot |-> txn[t].snapshot,
                                      after |-> txn[t].after, state |-> txn[t].state]
      BY <1>1
    <3>2. txn' = [txn EXCEPT ![t] = [txn[t] EXCEPT !.at = a]]
      BY <2>1 DEF Phase
    <3> QED
      BY <3>1, <3>2
  <2>2. ASSUME NEW s, txn' = [txn EXCEPT ![t].at = a, ![t].snapshot = s]
        PROVE  \E v : txn' = [txn EXCEPT ![t] = [at |-> a, snapshot |-> s, after |-> v,
                                                state |-> txn[t].state]]
    <3>1. [[txn[t] EXCEPT !.at = a] EXCEPT !.snapshot = s]
            = [at |-> a, snapshot |-> s, after |-> txn[t].after, state |-> txn[t].state]
      <4>1. PICK x : x = [txn[t] EXCEPT !.at = a]
        OBVIOUS
      <4>2. x = [at |-> a, snapshot |-> txn[t].snapshot,
                 after |-> txn[t].after, state |-> txn[t].state]
        BY <1>1, <4>1
      <4>3. [x EXCEPT !.snapshot = s] = [at |-> a, snapshot |-> s, after |-> txn[t].after, state |-> txn[t].state]
        BY <4>2
      <4> QED
        BY <4>1, <4>3, Zenon
    <3>2. txn' = [txn EXCEPT ![t] = [[txn[t] EXCEPT !.at = a] EXCEPT !.snapshot = s]]
      BY <1>2, <2>2
    <3> QED
      BY <3>1, <3>2
  <2>3. ASSUME NEW v, txn' = [txn EXCEPT ![t].at = a, ![t].after = v]
        PROVE  \E s : txn' = [txn EXCEPT ![t] = [at |-> a, snapshot |-> s, after |-> v,
                                                state |-> txn[t].state]]
    <3>1. [[txn[t] EXCEPT !.at = a] EXCEPT !.after = v]
            = [at |-> a, snapshot |-> txn[t].snapshot, after |-> v, state |-> txn[t].state]
      <4>1. PICK x : x = [txn[t] EXCEPT !.at = a]
        OBVIOUS
      <4>2. x = [at |-> a, snapshot |-> txn[t].snapshot,
                 after |-> txn[t].after, state |-> txn[t].state]
        BY <1>1, <4>1
      <4>3. [x EXCEPT !.after = v] = [at |-> a, snapshot |-> txn[t].snapshot, after |-> v, state |-> txn[t].state]
        BY <4>2
      <4> QED
        BY <4>1, <4>3, Zenon
    <3>2. txn' = [txn EXCEPT ![t] = [[txn[t] EXCEPT !.at = a] EXCEPT !.after = v]]
      BY <1>2, <2>3
    <3> QED
      BY <3>1, <3>2
  <2> QED
    BY <2>1, <2>2, <2>3
<1>4. PICK s, v : txn' = [txn EXCEPT ![t] = [at |-> a, snapshot |-> s, after |-> v,
                                           state |-> txn[t].state]]
  BY <1>3
<1>5. /\ TxnForm'
      /\ txn'[t].at = a /\ txn'[t].state = txn[t].state
      /\ \A u \in Txns \ {t} : txn'[u] = txn[u]
  BY ONLY TxnForm, t \in Txns, <1>4, TxnSet, ZenonT(60)
<1>6. txn[t].state = "none" /\ a # "done"
  BY DEF Known, Phases
<1> QED
  BY <1>5, <1>6 DEF Moved, Known, Where

LEMMA OutcomeMoves ==
  ASSUME TxnForm, NEW t \in Txns, NEW e \in Ends, Outcome(t, e)
  PROVE  Moved(t, e)
<1>1. txn[t] = [at |-> txn[t].at, snapshot |-> txn[t].snapshot,
                after |-> txn[t].after, state |-> txn[t].state]
  BY DEF TxnForm
<1>2. DOMAIN txn = Txns
  BY DEF TxnForm
<1>3. [[txn[t] EXCEPT !.at = "done"] EXCEPT !.state = e]
        = [at |-> "done", snapshot |-> txn[t].snapshot, after |-> txn[t].after, state |-> e]
  <2>1. PICK x : x = [txn[t] EXCEPT !.at = "done"]
    OBVIOUS
  <2>2. x = [at |-> "done", snapshot |-> txn[t].snapshot,
             after |-> txn[t].after, state |-> txn[t].state]
    BY <1>1, <2>1
  <2>3. [x EXCEPT !.state = e]
          = [at |-> "done", snapshot |-> txn[t].snapshot, after |-> txn[t].after, state |-> e]
    BY <2>2
  <2> QED
    BY <2>1, <2>3, Zenon
<1>4. txn' = [txn EXCEPT ![t] = [[txn[t] EXCEPT !.at = "done"] EXCEPT !.state = e]]
  BY <1>2 DEF Outcome
<1>5. PICK s, v : txn' = [txn EXCEPT ![t] = [at |-> "done", snapshot |-> s, after |-> v, state |-> e]]
  BY <1>3, <1>4
<1>6. /\ TxnForm'
      /\ txn'[t].at = "done" /\ txn'[t].state = e
      /\ \A u \in Txns \ {t} : txn'[u] = txn[u]
  BY ONLY TxnForm, t \in Txns, <1>5, TxnSet, ZenonT(60)
<1>7. Known(t)' /\ Where(t)' = e
  BY <1>6 DEF Known, Where
<1> QED
  BY <1>6, <1>7 DEF Moved

(* What a step leaves to a transaction that it does not touch.             *)
LEMMA SameTxnFits ==
  ASSUME NEW t, Fits(t), SameCall(t), txn'[t] = txn[t], job'[t] = job[t], wrote'[t] = wrote[t]
  PROVE  Fits(t)'
<1>1. Where(t)' = Where(t) /\ Known(t)'
  BY DEF Where, Known, Fits
<1>2. OnUnit(t)' = OnUnit(t) /\ Landed(t)' = Landed(t)
  BY DEF SameCall, OnUnit, Landed
<1>3. CASE OnUnit(t)
  <2>1. UnitFits(t, Where(t))
    BY <1>3 DEF Fits
  <2>2. UnitFits(t, Where(t))'
    BY <1>1, <2>1 DEF UnitFits, Wrote, Ran, SameCall
  <2> QED
    BY <1>1, <1>2, <1>3, <2>2 DEF Fits
<1>4. CASE ~OnUnit(t)
  <2>1. FileFits(t, Where(t))
    BY <1>4 DEF Fits
  <2>2. Prior(t, Where(t))' = Prior(t, Where(t))
    BY <1>1 DEF Prior, SameCall
  <2>3. FileFits(t, Where(t))'
    BY <1>1, <1>2, <2>1, <2>2 DEF FileFits, SameCall
  <2> QED
    BY <1>1, <1>2, <1>4, <2>3 DEF Fits
<1> QED
  BY <1>3, <1>4

LEMMA WhereIs ==
  ASSUME NEW t, Fits(t)
  PROVE  /\ txn[t].at # "done" => Where(t) = txn[t].at /\ Where(t) \in Phases
         /\ txn[t].state # "none" => Where(t) = txn[t].state
BY DEF Fits, Known, Where, Phases

LEMMA TxnMoves ==
  ASSUME TxnInv, NEW t \in Txns, NEW w, Moved(t, w), FilesInv', EffectForm',
         \A u \in Txns \ {t} : SameCall(u) /\ job'[u] = job[u] /\ wrote'[u] = wrote[u],
         IF OnUnit(t) THEN UnitFits(t, w)' ELSE FileFits(t, w)'
  PROVE  TxnInv'
<1>1. \A u \in Txns \ {t} : Fits(u)'
  <2>1. \A u \in Txns \ {t} : Fits(u) /\ txn'[u] = txn[u]
    BY DEF TxnInv, Moved
  <2> QED
    BY <2>1, SameTxnFits
<1>2. Fits(t)'
  <2>1. OnUnit(t)' = OnUnit(t)
    BY DEF OnUnit
  <2>2. Where(t)' = w /\ Known(t)'
    BY DEF Moved
  <2>3. UnitFits(t, Where(t))' = UnitFits(t, w)' /\ FileFits(t, Where(t))' = FileFits(t, w)'
    BY <2>2 DEF UnitFits, FileFits, Prior, Wrote, Ran
  <2> QED
    BY <2>1, <2>2, <2>3 DEF Fits
<1> QED
  BY <1>1, <1>2 DEF TxnInv, Moved

(* A transaction goes on, the target and the connection do not.            *)
LEMMA StillStep ==
  ASSUME TxnInv, NEW t \in Txns, NEW w, Moved(t, w),
         UNCHANGED <<temps, helper, rpc, result, installer, job, wrote>>,
         IF OnUnit(t) THEN UnitFits(t, w) ELSE FileFits(t, w)
  PROVE  TxnInv'
<1>1. FilesInv' /\ \A c \in Callers : SameCall(c)
  BY QuietInv DEF TxnInv
<1>2. EffectForm'
  BY DEF TxnInv, EffectForm
<1>3. \A u \in Txns \ {t} : SameCall(u) /\ job'[u] = job[u] /\ wrote'[u] = wrote[u]
  BY <1>1, TransactionAssumption
<1>4. IF OnUnit(t) THEN UnitFits(t, w)' ELSE FileFits(t, w)'
  BY DEF UnitFits, FileFits, Prior, Landed, Wrote, Ran
<1> QED
  BY <1>1, <1>2, <1>3, <1>4, TxnMoves

(* The command of a transaction, and no other one, becomes [a, e].         *)
JobBecomes(t, a, e) ==
  /\ EffectForm'
  /\ job'[t].at = a /\ job'[t].earlier = e
  /\ \A u \in Txns \ {t} : job'[u] = job[u]

LEMMA JobSet ==
  ASSUME EffectForm, NEW t \in Txns, NEW a, NEW e \in [Changing -> {"none", "ran", "lost", "late"}],
         job' = [job EXCEPT ![t] = [at |-> a, earlier |-> e]], \A u \in Txns : wrote'[u] \in Nat,
         wrote' = [u \in Txns |-> wrote'[u]]
  PROVE  JobBecomes(t, a, e)
<1>1. /\ DOMAIN job = Txns
      /\ \A u \in Txns : /\ job[u] = [at |-> job[u].at, earlier |-> job[u].earlier]
                         /\ job[u].earlier \in [Changing -> {"none", "ran", "lost", "late"}]
  BY DEF EffectForm
<1>2. /\ job'[t] = [at |-> a, earlier |-> e]
      /\ \A u \in Txns \ {t} : job'[u] = job[u]
  BY <1>1
<1>3. \A u \in Txns : job'[u] = [at |-> job'[u].at, earlier |-> job'[u].earlier]
  BY <1>1, <1>2
<1>4. \A u \in Txns : job'[u].earlier \in [Changing -> {"none", "ran", "lost", "late"}]
  BY <1>1, <1>2
<1>5. job' = [u \in Txns |-> job'[u]]
  BY <1>1
<1>6. job' = [u \in Txns |-> [at |-> job'[u].at, earlier |-> job'[u].earlier]]
  BY <1>3, <1>5
<1>7. EffectForm'
  BY <1>4, <1>6 DEF EffectForm
<1> QED
  BY <1>2, <1>7 DEF JobBecomes

LEMMA JobAt ==
  ASSUME EffectForm, NEW t \in Txns, NEW a, job' = [job EXCEPT ![t].at = a],
         \A u \in Txns : wrote'[u] \in Nat, wrote' = [u \in Txns |-> wrote'[u]]
  PROVE  JobBecomes(t, a, job[t].earlier)
<1>1. /\ job[t] = [at |-> job[t].at, earlier |-> job[t].earlier]
      /\ job[t].earlier \in [Changing -> {"none", "ran", "lost", "late"}]
  BY DEF EffectForm
<1>2. [job[t] EXCEPT !.at = a] = [at |-> a, earlier |-> job[t].earlier]
  BY <1>1
<1>3. job' = [job EXCEPT ![t] = [at |-> a, earlier |-> job[t].earlier]]
  BY <1>2
<1> QED
  BY <1>1, <1>3, JobSet

(* A transaction of a unit goes on, and its command is at a.               *)
LEMMA JobStep ==
  ASSUME TxnInv, NEW t \in Txns, NEW w, Moved(t, w), OnUnit(t), NEW a,
         UNCHANGED <<temps, helper, rpc, result, installer, wrote>>,
         job' = [job EXCEPT ![t].at = a],
         job'[t].at = a /\ job'[t].earlier = job[t].earlier => UnitFits(t, w)'
  PROVE  TxnInv'
<1>1. FilesInv' /\ \A c \in Callers : SameCall(c)
  BY QuietInv DEF TxnInv
<1>2. JobBecomes(t, a, job[t].earlier)
  <2>1. EffectForm /\ (\A u \in Txns : wrote'[u] \in Nat) /\ wrote' = [u \in Txns |-> wrote'[u]]
    BY DEF TxnInv, EffectForm
  <2> QED
    BY <2>1, JobAt
<1>3. \A u \in Txns \ {t} : SameCall(u) /\ job'[u] = job[u] /\ wrote'[u] = wrote[u]
  BY <1>1, <1>2, TransactionAssumption DEF JobBecomes
<1>4. EffectForm' /\ UnitFits(t, w)'
  BY <1>2 DEF JobBecomes
<1> QED
  BY <1>1, <1>3, <1>4, TxnMoves

(* A transaction of a file makes its next request.                         *)
LEMMA IssueStep ==
  ASSUME TxnInv, NEW t \in Txns, ~OnUnit(t), NEW r, Issue(t, r),
         rpc[t].at = "idle" \/ result[t].ok, UNCHANGED <<job, wrote>>,
         NEW w \in {"stat", "read", "mutate", "undo", "verify"}, Moved(t, w),
         w \in {"mutate", "undo"} <=> Stages(r),
         wrote[t] = IF w = "undo" THEN 1 ELSE IF w = "verify" THEN 2 ELSE 0
  PROVE  TxnInv'
<1>1. t \in Callers /\ FilesInv
  BY TransactionAssumption DEF TxnInv
<1>2. helper[t].at = "off"
  <2>1. rpc[t].at \in {"idle", "returned"}
    BY DEF Issue
  <2>2. CallFits(t)
    BY <1>1 DEF FilesInv
  <2> QED
    BY <2>1, <2>2 DEF CallFits
<1>3. /\ FilesInv'
      /\ rpc'[t].request = r
      /\ rpc'[t].at \in {"installing", "joining", "sent"}
      /\ ~helper'[t].answer.ok
      /\ \A d \in Callers \ {t} : SameCall(d)
  BY <1>1, <1>2, IssueInv
<1>4. ~Landed(t)'
  BY <1>3 DEF Landed
<1>5. FileFits(t, w)'
  <2>1. job[t].at = "none" /\ \A a \in Changing : job[t].earlier[a] = "none"
    BY DEF TxnInv, Fits, FileFits
  <2>2. Prior(t, w)' = IF w = "undo" THEN 1 ELSE IF w = "verify" THEN 2 ELSE 0
    BY DEF Prior
  <2>3. wrote'[t] = Prior(t, w)' + 0
    BY <2>2
  <2> QED
    BY <1>3, <1>4, <2>1, <2>3 DEF FileFits
<1>6. EffectForm'
  BY DEF TxnInv, EffectForm
<1>7. \A u \in Txns \ {t} : SameCall(u) /\ job'[u] = job[u] /\ wrote'[u] = wrote[u]
  BY <1>3, TransactionAssumption
<1> QED
  BY <1>3, <1>5, <1>6, <1>7, TxnMoves

LEMMA QuietVars ==
  ASSUME UNCHANGED fsVars \/ UNCHANGED <<disk, temps, helper, clientVars>>
  PROVE  UNCHANGED <<temps, helper, rpc, result, installer>>
BY DEF fsVars, clientVars

(* What the invariant says of a transaction about to move.                 *)
LEMMA AtPhase ==
  ASSUME TxnInv, NEW t \in Txns
  PROVE  /\ TxnForm /\ Known(t) /\ t \in Callers /\ CallFits(t) /\ wrote[t] \in Nat
         /\ OnUnit(t) => UnitFits(t, Where(t))
         /\ ~OnUnit(t) => FileFits(t, Where(t))
         /\ txn[t].at # "done" => Where(t) = txn[t].at /\ Where(t) \in Phases
<1>1. Fits(t)
  BY DEF TxnInv
<1> QED
  BY <1>1, WhereIs, TransactionAssumption DEF TxnInv, FilesInv, Fits, EffectForm

LEMMA SnapshotInv ==
  ASSUME TxnInv, NEW t \in Txns, txn[t].at \in {"idle", "precheck"}, Snapshot(t),
         UNCHANGED <<job, wrote>>
  PROVE  TxnInv'
<1>1. TxnForm /\ Known(t) /\ Where(t) = txn[t].at /\ CallFits(t) /\ wrote[t] \in Nat
  BY AtPhase
<1>2. CASE OnUnit(t)
  <2>1. Phase(t, "status") /\ UNCHANGED fsVars
    BY <1>2 DEF Snapshot
  <2>2. Moved(t, "status")
    BY <1>1, <2>1, PhaseMoves DEF Phases
  <2>3. UnitFits(t, Where(t))
    BY <1>2, AtPhase
  <2>4. UnitFits(t, "status")
    BY <1>1, <2>3 DEF UnitFits
  <2> QED
    BY <1>2, <2>1, <2>2, <2>4, QuietVars, StillStep
<1>3. CASE ~OnUnit(t)
  <2>1. Phase(t, "stat") /\ Issue(t, Plain("stat", Mutation[t].path))
    BY <1>3 DEF Snapshot
  <2>2. Moved(t, "stat")
    BY <1>1, <2>1, PhaseMoves DEF Phases
  <2>3. FileFits(t, Where(t))
    BY <1>3, AtPhase
  <2>4. rpc[t].at = "idle"
    BY <1>1, <2>3 DEF FileFits
  <2>5. ~Landed(t)
    BY <1>1, <2>4 DEF CallFits, Landed
  <2>6. Prior(t, Where(t)) = 0
    BY <1>1 DEF Prior
  <2>7. wrote[t] = 0
    BY <2>3, <2>5, <2>6 DEF FileFits
  <2> QED
    BY <1>3, <2>1, <2>2, <2>4, <2>7, StagesAre, IssueStep
<1> QED
  BY <1>2, <1>3

LEMMA PrecheckInv ==
  ASSUME TxnInv, NEW t \in Txns, Begin(t) \/ PrecheckPasses(t) \/ PrecheckFails(t)
  PROVE  TxnInv'
<1>1. /\ TxnForm /\ Known(t) /\ txn[t].at \in {"idle", "precheck"}
      /\ Where(t) = txn[t].at /\ UNCHANGED <<job, wrote>>
  BY AtPhase DEF Begin, PrecheckPasses, PrecheckFails
<1>2. CASE Snapshot(t)
  BY <1>1, <1>2, SnapshotInv
<1>3. ASSUME NEW w \in {"precheck", "precheck_failed"}, Moved(t, w), UNCHANGED fsVars
      PROVE  TxnInv'
  <2>1. IF OnUnit(t) THEN UnitFits(t, Where(t)) ELSE FileFits(t, Where(t))
    BY AtPhase
  <2>2. IF OnUnit(t) THEN UnitFits(t, w) ELSE FileFits(t, w)
    BY <1>1, <2>1 DEF UnitFits, FileFits, Prior
  <2> QED
    BY <1>1, <1>3, <2>2, QuietVars, StillStep
<1>4. CASE Phase(t, "precheck") /\ UNCHANGED fsVars
  BY <1>1, <1>3, <1>4, PhaseMoves DEF Phases
<1>5. CASE PrecheckFails(t)
  BY <1>1, <1>3, <1>5, OutcomeMoves DEF PrecheckFails, Ends
<1> QED
  BY <1>2, <1>4, <1>5 DEF Begin, PrecheckPasses

(* The answer to the transaction t of a file, in the phase a.              *)
LEMMA AnsweredIs ==
  ASSUME TxnInv, NEW t \in Txns, NEW a \in Phases, Answered(t, a)
  PROVE  /\ TxnForm /\ Known(t) /\ txn[t].at # "done" /\ ~OnUnit(t)
         /\ Where(t) = a /\ FileFits(t, a)
         /\ result[t].ok => (Landed(t) <=> Stages(rpc[t].request))
<1>1. txn[t].at = a /\ ~OnUnit(t) /\ rpc[t].at = "returned"
  BY DEF Answered
<1>2. /\ TxnForm /\ Known(t) /\ CallFits(t)
      /\ FileFits(t, Where(t))
      /\ txn[t].at # "done" => Where(t) = txn[t].at
  BY <1>1, AtPhase
<1>3. txn[t].at # "done"
  BY <1>1 DEF Phases
<1> QED
  BY <1>1, <1>2, <1>3 DEF Landed

LEMMA ReadInv ==
  ASSUME TxnInv, NEW t \in Txns, StatDone(t) \/ ReadDone(t)
  PROVE  TxnInv'
<1>1. ASSUME NEW a \in {"stat", "read"}, Answered(t, a), result[t].ok,
             NEW w \in {"read", "mutate"}, NEW r, Issue(t, r),
             \/ Phase(t, w)
             \/ \E s : txn' = [txn EXCEPT ![t].at = w, ![t].snapshot = s],
             w = "mutate" <=> Stages(r), UNCHANGED <<job, wrote>>
      PROVE  TxnInv'
  <2>1. /\ TxnForm /\ Known(t) /\ txn[t].at # "done" /\ ~OnUnit(t)
        /\ FileFits(t, a)
        /\ Landed(t) <=> Stages(rpc[t].request)
    BY <1>1, AnsweredIs DEF Phases
  <2>2. Moved(t, w)
    BY <1>1, <2>1, PhaseMoves DEF Phases
  <2>3. wrote[t] = 0
    <3>1. ~Landed(t) /\ Prior(t, a) = 0
      BY <2>1 DEF FileFits, Prior
    <3> QED
      BY <2>1, <3>1 DEF FileFits
  <2> QED
    BY <1>1, <2>1, <2>2, <2>3, IssueStep
<1>2. CASE StatDone(t)
  BY <1>1, <1>2, StagesAre DEF StatDone
<1>3. CASE ReadDone(t)
  <2>1. Stages(FileRequest(t, Got(t)))
    BY StagesAre DEF FileRequest
  <2>2. \E s : txn' = [txn EXCEPT ![t].at = "mutate", ![t].snapshot = s]
    BY <1>3 DEF ReadDone
  <2>3. Answered(t, "read") /\ result[t].ok /\ Issue(t, FileRequest(t, Got(t)))
        /\ UNCHANGED <<job, wrote>>
    BY <1>3 DEF ReadDone
  <2> QED
    BY <1>1, <2>1, <2>2, <2>3
<1> QED
  BY <1>2, <1>3

LEMMA SnapshotFailsInv ==
  ASSUME TxnInv, NEW t \in Txns, SnapshotFails(t)
  PROVE  TxnInv'
<1>1. /\ Outcome(t, "snapshot_failed") /\ UNCHANGED <<job, wrote>>
      /\ UNCHANGED <<temps, helper, rpc, result, installer>>
  BY QuietVars DEF SnapshotFails
<1>2. Moved(t, "snapshot_failed")
  BY <1>1, AtPhase, OutcomeMoves DEF Ends
<1>3. ASSUME NEW a \in {"stat", "read"}, Answered(t, a)
      PROVE  TxnInv'
  <2>1. ~OnUnit(t) /\ FileFits(t, a) /\ rpc[t].at = "returned"
    BY <1>3, AnsweredIs DEF Phases, Answered
  <2>2. FileFits(t, "snapshot_failed")
    BY <2>1 DEF FileFits, Prior
  <2> QED
    BY <1>1, <1>2, <2>1, <2>2, StillStep
<1>4. CASE txn[t].at = "status"
  <2>1. Where(t) = "status"
    BY <1>4, AtPhase
  <2>2. OnUnit(t) /\ UnitFits(t, "status")
    BY <2>1, AtPhase DEF FileFits
  <2>3. UnitFits(t, "snapshot_failed")
    BY <2>2 DEF UnitFits
  <2> QED
    BY <1>1, <1>2, <2>2, <2>3, StillStep
<1> QED
  BY <1>3, <1>4 DEF SnapshotFails

LEMMA StatusInv ==
  ASSUME TxnInv, NEW t \in Txns, StatusDone(t)
  PROVE  TxnInv'
<1>1. /\ txn[t].at = "status"
      /\ txn' = [txn EXCEPT ![t].at = "mutate", ![t].snapshot = RollbackPlan(t)]
      /\ job' = [job EXCEPT ![t].at = "queued"] /\ wrote' = wrote
      /\ UNCHANGED <<temps, helper, rpc, result, installer>>
  BY QuietVars DEF StatusDone
<1>2. TxnForm /\ Known(t) /\ Where(t) = "status"
  BY <1>1, AtPhase
<1>3. OnUnit(t) /\ UnitFits(t, "status")
  BY <1>2, AtPhase DEF FileFits
<1>4. Moved(t, "mutate")
  <2>1. \E s : txn' = [txn EXCEPT ![t].at = "mutate", ![t].snapshot = s]
    BY <1>1
  <2> QED
    BY <1>1, <1>2, <2>1, PhaseMoves DEF Phases
<1>5. job'[t].at = "queued" /\ job'[t].earlier = job[t].earlier => UnitFits(t, "mutate")'
  BY <1>1, <1>3 DEF UnitFits, Wrote, Ran
<1> QED
  BY <1>1, <1>3, <1>4, <1>5, JobStep

(* A command of t makes n changes, and t does not go on.                   *)
LEMMA CommandInv ==
  ASSUME TxnInv, NEW t \in Txns, NEW n \in {0, 1}, NEW a,
         NEW e \in [Changing -> {"none", "ran", "lost", "late"}],
         UNCHANGED <<txn, temps, helper, rpc, result, installer>>,
         wrote' = [wrote EXCEPT ![t] = wrote[t] + n],
         job' = [job EXCEPT ![t] = [at |-> a, earlier |-> e]], OnUnit(t),
         job'[t].at = a /\ job'[t].earlier = e /\ wrote'[t] = wrote[t] + n => UnitFits(t, Where(t))'
  PROVE  TxnInv'
<1>1. /\ \A u \in Txns : wrote[u] \in Nat
      /\ EffectForm /\ DOMAIN wrote = Txns
  BY DEF TxnInv, EffectForm
<1>2. /\ wrote'[t] = wrote[t] + n
      /\ \A u \in Txns \ {t} : wrote'[u] = wrote[u]
      /\ \A u \in Txns : wrote'[u] \in Nat
      /\ wrote' = [u \in Txns |-> wrote'[u]]
  <2>1. PICK k : k = wrote[t] + n /\ k \in Nat
    BY <1>1
  <2>2. wrote' = [wrote EXCEPT ![t] = k]
    BY <2>1, Zenon
  <2> QED
    BY <1>1, <2>1, <2>2
<1>3. JobBecomes(t, a, e)
  BY <1>1, <1>2, JobSet
<1>4. Moved(t, Where(t))
  BY AtPhase DEF Moved, TxnForm, Known, Where
<1>5. UnitFits(t, Where(t))'
  BY <1>2, <1>3 DEF JobBecomes
<1>6. FilesInv' /\ \A c \in Callers : SameCall(c)
  BY QuietInv DEF TxnInv
<1>7. \A u \in Txns \ {t} : SameCall(u) /\ job'[u] = job[u] /\ wrote'[u] = wrote[u]
  BY <1>2, <1>3, <1>6, TransactionAssumption DEF JobBecomes
<1>8. \A u \in Txns : Fits(u)'
  <2>1. \A u \in Txns : Fits(u) /\ txn'[u] = txn[u]
    BY DEF TxnInv
  <2>2. \A u \in Txns \ {t} : Fits(u)'
    BY <1>7, <2>1, SameTxnFits
  <2>3. Fits(t)'
    BY <1>5, AtPhase DEF Fits, Known, OnUnit
  <2> QED
    BY <2>2, <2>3
<1> QED
  BY <1>3, <1>4, <1>6, <1>8 DEF TxnInv, Moved, JobBecomes

LEMMA JobRecord ==
  ASSUME TxnInv, NEW t \in Txns
  PROVE  /\ job[t] = [at |-> job[t].at, earlier |-> job[t].earlier]
         /\ job[t].earlier \in [Changing -> {"none", "ran", "lost", "late"}]
         /\ wrote = [wrote EXCEPT ![t] = wrote[t] + 0]
BY DEF TxnInv, EffectForm

LEMMA SystemctlInv ==
  ASSUME TxnInv, NEW t \in Txns, SystemctlRuns(t)
  PROVE  TxnInv'
<1>1. /\ job[t].at = "queued"
      /\ job' = [job EXCEPT ![t].at = "applied"]
      /\ wrote' = [wrote EXCEPT ![t] = wrote[t] + 1]
      /\ UNCHANGED <<txn, temps, helper, rpc, result, installer>>
  BY QuietVars DEF SystemctlRuns
<1>2. OnUnit(t) /\ UnitFits(t, Where(t)) /\ wrote[t] \in Nat
  BY <1>1, AtPhase DEF FileFits
<1>3. job' = [job EXCEPT ![t] = [at |-> "applied", earlier |-> job[t].earlier]]
  <2>1. [job[t] EXCEPT !.at = "applied"] = [at |-> "applied", earlier |-> job[t].earlier]
    <3>1. job[t] = [at |-> job[t].at, earlier |-> job[t].earlier]
      BY JobRecord
    <3> QED
      BY <3>1
  <2> QED
    BY <1>1, <2>1
<1>4. Where(t)' = Where(t)
  BY <1>1 DEF Where
<1>5. job'[t].at = "applied" /\ job'[t].earlier = job[t].earlier /\ wrote'[t] = wrote[t] + 1
        => UnitFits(t, Where(t))'
  BY <1>1, <1>2, <1>4 DEF UnitFits, Wrote, Ran
<1> QED
  BY <1>1, <1>2, <1>3, <1>5, JobRecord, CommandInv

LEMMA SystemctlRepeatedInv ==
  ASSUME TxnInv, NEW t \in Txns, SystemctlRepeated(t)
  PROVE  TxnInv'
<1> DEFINE a == txn[t].at
           x == IF job[t].at = "applied" THEN "ran" ELSE "lost"
           e == [job[t].earlier EXCEPT ![a] = x]
<1>1. /\ a \in {"mutate", "undo"} /\ job[t].at # "none" /\ job[t].earlier[a] = "none"
      /\ job' = [job EXCEPT ![t] = [at |-> "queued", earlier |-> e]]
      /\ wrote' = wrote
      /\ UNCHANGED <<txn, temps, helper, rpc, result, installer>>
  BY QuietVars DEF SystemctlRepeated, Changing
<1>2. Where(t) = a
  BY <1>1, AtPhase
<1>3. OnUnit(t) /\ UnitFits(t, a) /\ wrote[t] \in Nat
  BY <1>1, <1>2, AtPhase DEF FileFits
<1>4. /\ e \in [Changing -> {"none", "ran", "lost", "late"}]
      /\ e[a] = x /\ \A b \in {"mutate", "undo"} \ {a} : e[b] = job[t].earlier[b]
  BY <1>1, JobRecord DEF Changing
<1>5. Where(t)' = Where(t)
  BY <1>1 DEF Where
<1> HIDE DEF e
<1>6. job'[t].at = "queued" /\ job'[t].earlier = e /\ wrote'[t] = wrote[t] + 0 => UnitFits(t, Where(t))'
  <2>1. CASE a = "mutate"
    BY <1>1, <1>2, <1>3, <1>4, <1>5, <2>1 DEF UnitFits, Wrote, Ran
  <2>2. CASE a = "undo"
    BY <1>1, <1>2, <1>3, <1>4, <1>5, <2>2 DEF UnitFits, Wrote, Ran
  <2> QED
    BY <1>1, <2>1, <2>2
<1>7. wrote' = [wrote EXCEPT ![t] = wrote[t] + 0]
  BY <1>1, JobRecord
<1> QED
  BY <1>1, <1>3, <1>4, <1>6, <1>7, CommandInv

(* A command that was given twice is not of a phase still to come.         *)
LEMMA EarlierIs ==
  ASSUME TxnInv, NEW t \in Txns, NEW a \in Changing, job[t].earlier[a] # "none"
  PROVE  /\ OnUnit(t) /\ UnitFits(t, Where(t))
         /\ Where(t) \notin {"idle", "precheck", "stat", "read", "status", "precheck_failed",
                            "snapshot_failed"}
<1>1. OnUnit(t) /\ UnitFits(t, Where(t))
  BY AtPhase DEF FileFits
<1> QED
  BY <1>1 DEF UnitFits, Changing

LEMMA EarlierRunsInv ==
  ASSUME TxnInv, NEW t \in Txns, EarlierRuns(t)
  PROVE  TxnInv'
<1>1. PICK a \in Changing :
        /\ job[t].earlier[a] = "lost"
        /\ job' = [job EXCEPT ![t] =
             [at |-> job[t].at, earlier |-> [job[t].earlier EXCEPT ![a] = "late"]]]
        /\ wrote' = [wrote EXCEPT ![t] = wrote[t] + 1]
        /\ UNCHANGED <<txn, temps, helper, rpc, result, installer>>
  BY QuietVars DEF EarlierRuns
<1> DEFINE e == [job[t].earlier EXCEPT ![a] = "late"]
<1>2. OnUnit(t) /\ UnitFits(t, Where(t)) /\ wrote[t] \in Nat
  BY <1>1, EarlierIs, AtPhase
<1>3. /\ e \in [Changing -> {"none", "ran", "lost", "late"}]
      /\ e[a] = "late" /\ \A b \in {"mutate", "undo"} \ {a} : e[b] = job[t].earlier[b]
  BY <1>1, JobRecord DEF Changing
<1>4. Where(t)' = Where(t)
  BY <1>1 DEF Where
<1>5. job' = [job EXCEPT ![t] = [at |-> job[t].at, earlier |-> e]]
  BY <1>1
<1> HIDE DEF e
<1>6. job'[t].at = job[t].at /\ job'[t].earlier = e /\ wrote'[t] = wrote[t] + 1 => UnitFits(t, Where(t))'
  <2>1. CASE a = "mutate"
    BY <1>1, <1>2, <1>3, <1>4, <2>1 DEF UnitFits, Wrote, Ran
  <2>2. CASE a = "undo"
    BY <1>1, <1>2, <1>3, <1>4, <2>2 DEF UnitFits, Wrote, Ran
  <2> QED
    BY <2>1, <2>2 DEF Changing
<1> QED
  BY <1>1, <1>2, <1>3, <1>5, <1>6, CommandInv

(* The command of a phase that is not about to run.                        *)
LEMMA JobInv ==
  ASSUME TxnInv, NEW t \in Txns, NEW a \in {"mutate", "undo"}, JobDone(t, a) \/ JobFails(t, a)
  PROVE  /\ TxnForm /\ Known(t) /\ txn[t].at # "done" /\ OnUnit(t) /\ UnitFits(t, a)
         /\ JobFails(t, a) => UNCHANGED <<temps, helper, rpc, result, installer>>
<1>1. txn[t].at = a /\ OnUnit(t)
  BY DEF JobDone, JobFails
<1>2. Where(t) = a /\ txn[t].at # "done"
  BY <1>1, AtPhase
<1>3. JobFails(t, a) => UNCHANGED <<temps, helper, rpc, result, installer>>
  BY QuietVars DEF JobFails
<1> QED
  BY <1>1, <1>2, <1>3, AtPhase

(* A command that failed, with its outcome for the transaction.            *)
LEMMA JobFailsInv ==
  ASSUME TxnInv, NEW t \in Txns, NEW a \in {"mutate", "undo"}, JobFails(t, a),
         NEW e, e = (IF a = "mutate" THEN "mutation_failed" ELSE "rollback_failed"), Outcome(t, e),
         wrote' = wrote
  PROVE  TxnInv'
<1>1. /\ TxnForm /\ OnUnit(t) /\ UnitFits(t, a)
      /\ UNCHANGED <<temps, helper, rpc, result, installer>>
  BY JobInv
<1>2. Moved(t, e)
  BY <1>1, OutcomeMoves DEF Ends
<1>3. CASE job' = job
  <2>1. UnitFits(t, e)
    BY <1>1 DEF UnitFits
  <2> QED
    BY <1>1, <1>2, <1>3, <2>1, StillStep
<1>4. CASE job' = [job EXCEPT ![t].at = "none"]
  <2>1. job'[t].at = "none" /\ job'[t].earlier = job[t].earlier => UnitFits(t, e)'
    BY <1>1 DEF UnitFits, Wrote, Ran
  <2> QED
    BY <1>1, <1>2, <1>4, <2>1, JobStep
<1> QED
  BY <1>3, <1>4 DEF JobFails

LEMMA MutationInv ==
  ASSUME TxnInv, NEW t \in Txns, MutationDone(t) \/ MutationFails(t)
  PROVE  TxnInv'
<1>1. wrote' = wrote
  BY DEF MutationDone, MutationFails
<1>2. ASSUME Answered(t, "mutate"), UNCHANGED <<fsVars, job>>,
             NEW w \in {"health", "mutation_failed"}, Moved(t, w), w = "health" => result[t].ok
      PROVE  TxnInv'
  <2>1. ~OnUnit(t) /\ FileFits(t, "mutate") /\ rpc[t].at = "returned"
    BY <1>2, AnsweredIs DEF Phases, Answered
  <2>2. FileFits(t, w)
    BY <1>2, <2>1 DEF FileFits, Prior
  <2>3. UNCHANGED <<temps, helper, rpc, result, installer>>
    BY <1>2, QuietVars
  <2> QED
    BY <1>1, <1>2, <2>1, <2>2, <2>3, StillStep
<1>3. CASE MutationDone(t)
  <2>1. CASE /\ Answered(t, "mutate") /\ result[t].ok
             /\ txn' = [txn EXCEPT ![t].at = "health", ![t].after = Got(t)]
             /\ job' = job
    <3>1. TxnForm /\ Known(t) /\ txn[t].at # "done"
      BY <2>1, AnsweredIs DEF Phases
    <3>2. \E v : txn' = [txn EXCEPT ![t].at = "health", ![t].after = v]
      BY <2>1
    <3>3. Moved(t, "health")
      BY <3>1, <3>2, PhaseMoves DEF Phases
    <3>4. UNCHANGED fsVars
      BY <1>3 DEF MutationDone
    <3> QED
      BY <1>2, <2>1, <3>3, <3>4
  <2>2. CASE JobDone(t, "mutate") /\ Phase(t, "health") /\ job' = [job EXCEPT ![t].at = "none"]
    <3>1. TxnForm /\ Known(t) /\ txn[t].at # "done" /\ OnUnit(t) /\ UnitFits(t, "mutate")
      BY <2>2, JobInv
    <3>2. Moved(t, "health")
      BY <2>2, <3>1, PhaseMoves DEF Phases
    <3>3. job[t].at = "applied" /\ UNCHANGED fsVars
      BY <1>3, <2>2 DEF JobDone, MutationDone
    <3>4. UNCHANGED <<temps, helper, rpc, result, installer>>
      BY <3>3, QuietVars
    <3>5. job'[t].at = "none" /\ job'[t].earlier = job[t].earlier => UnitFits(t, "health")'
      BY <1>1, <3>1, <3>3, <3>4 DEF UnitFits, Wrote, Ran
    <3> QED
      BY <1>1, <2>2, <3>1, <3>2, <3>4, <3>5, JobStep
  <2> QED
    BY <1>3, <2>1, <2>2 DEF MutationDone
<1>4. CASE MutationFails(t)
  <2>1. Outcome(t, "mutation_failed")
    BY <1>4 DEF MutationFails
  <2>2. CASE Answered(t, "mutate") /\ UNCHANGED <<fsVars, job>>
    <3>1. Moved(t, "mutation_failed")
      BY <2>1, AtPhase, OutcomeMoves DEF Ends
    <3> QED
      BY <1>2, <2>2, <3>1
  <2>3. CASE JobFails(t, "mutate")
    BY <1>1, <2>1, <2>3, JobFailsInv
  <2> QED
    BY <1>4, <2>2, <2>3 DEF MutationFails
<1> QED
  BY <1>3, <1>4

LEMMA HealthInv ==
  ASSUME TxnInv, NEW t \in Txns, Commit(t) \/ HealthFails(t)
  PROVE  TxnInv'
<1>1. txn[t].at = "health" /\ UNCHANGED <<fsVars, job, wrote>>
  BY DEF Commit, HealthFails
<1>2. Where(t) = "health" /\ TxnForm
  BY <1>1, AtPhase
<1>3. PICK e \in {"committed", "health_failed"} : Outcome(t, e)
  BY DEF Commit, HealthFails
<1>4. Moved(t, e)
  BY <1>2, <1>3, OutcomeMoves DEF Ends
<1>5. IF OnUnit(t) THEN UnitFits(t, "health") ELSE FileFits(t, "health")
  BY <1>2, AtPhase
<1>6. IF OnUnit(t) THEN UnitFits(t, e) ELSE FileFits(t, e)
  BY <1>5 DEF UnitFits, FileFits, Prior
<1> QED
  BY <1>1, <1>4, <1>6, QuietVars, StillStep

LEMMA RollBackInv ==
  ASSUME TxnInv, NEW t \in Txns, RollBack(t)
  PROVE  TxnInv'
<1>1. txn[t].at = "health" /\ Phase(t, "undo") /\ wrote' = wrote
  BY DEF RollBack
<1>2. TxnForm /\ Known(t) /\ Where(t) = "health" /\ txn[t].at # "done"
  BY <1>1, AtPhase
<1>3. Moved(t, "undo")
  BY <1>1, <1>2, PhaseMoves DEF Phases
<1>4. CASE OnUnit(t)
  <2>1. job' = [job EXCEPT ![t].at = "queued"] /\ UNCHANGED fsVars
    BY <1>4 DEF RollBack
  <2>2. UnitFits(t, "health") /\ UNCHANGED <<temps, helper, rpc, result, installer>>
    BY <1>2, <1>4, <2>1, AtPhase, QuietVars
  <2>3. job'[t].at = "queued" /\ job'[t].earlier = job[t].earlier => UnitFits(t, "undo")'
    BY <1>1, <2>2 DEF UnitFits, Wrote, Ran
  <2> QED
    BY <1>1, <1>3, <1>4, <2>1, <2>2, <2>3, JobStep
<1>5. CASE ~OnUnit(t)
  <2>1. /\ Issue(t, Write(Mutation[t].path, txn[t].snapshot, txn[t].after))
        /\ job' = job
    BY <1>5 DEF RollBack
  <2>2. FileFits(t, "health")
    BY <1>2, <1>5, AtPhase
  <2>3. result[t].ok /\ Landed(t) /\ Prior(t, "health") = 0
    BY <2>2 DEF FileFits, Landed, Prior
  <2>4. wrote[t] = 1
    BY <2>2, <2>3 DEF FileFits
  <2> QED
    BY <1>1, <1>3, <1>5, <2>1, <2>3, <2>4, StagesAre, IssueStep
<1> QED
  BY <1>4, <1>5

LEMMA UndoInv ==
  ASSUME TxnInv, NEW t \in Txns, UndoDone(t) \/ UndoFails(t)
  PROVE  TxnInv'
<1>1. wrote' = wrote
  BY DEF UndoDone, UndoFails
<1>2. ASSUME Answered(t, "undo")
      PROVE  /\ TxnForm /\ Known(t) /\ txn[t].at # "done" /\ ~OnUnit(t)
             /\ FileFits(t, "undo") /\ rpc[t].at = "returned"
             /\ result[t].ok => wrote[t] = 2
  <2>1. /\ TxnForm /\ Known(t) /\ txn[t].at # "done" /\ ~OnUnit(t)
        /\ FileFits(t, "undo")
        /\ result[t].ok => (Landed(t) <=> Stages(rpc[t].request))
    BY <1>2, AnsweredIs DEF Phases
  <2>2. Prior(t, "undo") = 1 /\ Stages(rpc[t].request)
    BY <2>1 DEF Prior, FileFits
  <2>3. result[t].ok => wrote[t] = 2
    BY <2>1, <2>2 DEF FileFits
  <2> QED
    BY <1>2, <2>1, <2>3 DEF Answered
<1>3. CASE UndoDone(t)
  <2>1. Phase(t, "verify")
    BY <1>3 DEF UndoDone
  <2>2. CASE /\ Answered(t, "undo") /\ result[t].ok
             /\ Issue(t, Plain("read", Mutation[t].path)) /\ job' = job
    <3>1. Moved(t, "verify")
      BY <1>2, <2>1, <2>2, PhaseMoves DEF Phases
    <3> QED
      BY <1>1, <1>2, <2>2, <3>1, StagesAre, IssueStep
  <2>3. CASE JobDone(t, "undo") /\ job' = [job EXCEPT ![t].at = "none"] /\ UNCHANGED fsVars
    <3>1. TxnForm /\ Known(t) /\ txn[t].at # "done" /\ OnUnit(t) /\ UnitFits(t, "undo")
      BY <2>3, JobInv
    <3>2. Moved(t, "verify")
      BY <2>1, <3>1, PhaseMoves DEF Phases
    <3>3. job[t].at = "applied" /\ UNCHANGED <<temps, helper, rpc, result, installer>>
      BY <2>3, QuietVars DEF JobDone
    <3>4. job'[t].at = "none" /\ job'[t].earlier = job[t].earlier => UnitFits(t, "verify")'
      BY <1>1, <3>1, <3>3 DEF UnitFits, Wrote, Ran
    <3> QED
      BY <1>1, <2>3, <3>1, <3>2, <3>3, <3>4, JobStep
  <2> QED
    BY <1>3, <2>2, <2>3 DEF UndoDone
<1>4. CASE UndoFails(t)
  <2>1. Outcome(t, "rollback_failed")
    BY <1>4 DEF UndoFails
  <2>2. CASE Answered(t, "undo") /\ UNCHANGED <<fsVars, job>>
    <3>1. Moved(t, "rollback_failed")
      BY <1>2, <2>1, <2>2, OutcomeMoves DEF Ends
    <3>2. FileFits(t, "rollback_failed")
      BY <1>2, <2>2 DEF FileFits, Prior
    <3> QED
      BY <1>1, <1>2, <2>2, <3>1, <3>2, QuietVars, StillStep
  <2>3. CASE JobFails(t, "undo")
    BY <1>1, <2>1, <2>3, JobFailsInv
  <2> QED
    BY <1>4, <2>2, <2>3 DEF UndoFails
<1> QED
  BY <1>3, <1>4

LEMMA VerifyInv ==
  ASSUME TxnInv, NEW t \in Txns, Verified(t) \/ NotVerified(t)
  PROVE  TxnInv'
<1>1. txn[t].at = "verify" /\ UNCHANGED <<fsVars, job, wrote>>
  BY DEF Verified, NotVerified, Answered
<1>2. Where(t) = "verify" /\ TxnForm
  BY <1>1, AtPhase
<1>3. PICK e \in {"rolled_back", "rollback_failed"} : Outcome(t, e)
  BY DEF Verified, NotVerified
<1>4. Moved(t, e)
  BY <1>2, <1>3, OutcomeMoves DEF Ends
<1>5. IF OnUnit(t) THEN UnitFits(t, "verify") ELSE FileFits(t, "verify")
  BY <1>2, AtPhase
<1>6. IF OnUnit(t) THEN UnitFits(t, e) ELSE FileFits(t, e)
  BY <1>5 DEF UnitFits, FileFits, Prior
<1> QED
  BY <1>1, <1>4, <1>6, QuietVars, StillStep

(* Steps of no transaction.                                                *)
LEMMA OthersInv ==
  ASSUME TxnInv, FilesInv', UNCHANGED <<txn, job, wrote>>, \A t \in Txns : SameCall(t)
  PROVE  TxnInv'
<1>1. \A t \in Txns : Fits(t)'
  BY SameTxnFits DEF TxnInv
<1> QED
  BY <1>1 DEF TxnInv, TxnForm, EffectForm

LEMMA ToolCallInv ==
  ASSUME TxnInv, NEW c \in Tools, ToolCall(c)
  PROVE  TxnInv'
<1>1. c \in Callers /\ c \notin Txns /\ FilesInv
  BY DEF Tools, TxnInv
<1>2. rpc[c].at = "idle" /\ UNCHANGED <<txn, job, wrote>>
  BY DEF ToolCall, txnVars
<1>3. PICK r : Issue(c, r)
  BY DEF ToolCall
<1>4. helper[c].at = "off"
  BY <1>1, <1>2 DEF FilesInv, CallFits
<1>5. FilesInv' /\ \A d \in Callers \ {c} : SameCall(d)
  BY <1>1, <1>3, <1>4, IssueInv
<1>6. \A t \in Txns : SameCall(t)
  BY <1>1, <1>5, TransactionAssumption
<1> QED
  BY <1>2, <1>5, <1>6, OthersInv

LEMMA FilesStepInv ==
  ASSUME TxnInv, FilesStep
  PROVE  TxnInv'
<1>1. FilesInv' /\ \A c \in Callers : FsMoves(c)
  BY FsNextInv DEF TxnInv, FilesStep
<1>2. UNCHANGED <<txn, job>>
  BY DEF FilesStep
<1>3. /\ wrote' = [t \in Txns |-> wrote'[t]]
      /\ \A t \in Txns : wrote'[t] = IF Lands(t) THEN wrote[t] + 1 ELSE wrote[t]
  BY DEF FilesStep, Lands
<1>4. EffectForm'
  <2>1. \A t \in Txns : wrote[t] \in Nat
    BY DEF TxnInv, EffectForm
  <2>2. \A t \in Txns : wrote'[t] \in Nat
    BY <1>3, <2>1
  <2> QED
    BY <1>2, <1>3, <2>2 DEF TxnInv, EffectForm
<1>5. ASSUME NEW t \in Txns
      PROVE  Fits(t)'
  <2>1. /\ Known(t) /\ CallFits(t) /\ FsMoves(t) /\ wrote[t] \in Nat
        /\ wrote'[t] = IF Lands(t) THEN wrote[t] + 1 ELSE wrote[t]
    BY <1>1, <1>3, AtPhase
  <2>2. PICK w : w = Where(t) /\ w = Where(t)'
    BY <1>2 DEF Where
  <2>3. Known(t)' /\ OnUnit(t)' = OnUnit(t)
    BY <1>2, <2>1 DEF Known, OnUnit
  <2>4. CASE OnUnit(t)
    <3>1. UnitFits(t, w)
      BY <2>2, <2>4, AtPhase
    <3>2. ~Lands(t) /\ rpc'[t].at = "idle"
      BY <2>1, <3>1 DEF UnitFits, CallFits, FsMoves, Lands
    <3>3. UnitFits(t, w)'
      BY <1>2, <2>1, <3>1, <3>2 DEF UnitFits, Wrote, Ran
    <3> QED
      BY <2>2, <2>3, <2>4, <3>3 DEF Fits
  <2>5. CASE ~OnUnit(t)
    <3>1. FileFits(t, w)
      BY <2>2, <2>5, AtPhase
    <3>2. rpc'[t].request = rpc[t].request /\ Prior(t, w)' = Prior(t, w)
      BY <2>1 DEF FsMoves, Prior
    <3>3. ~(Landed(t) /\ Lands(t)) /\ (Landed(t)' <=> Landed(t) \/ Lands(t))
      BY <2>1 DEF CallFits, FsMoves, Landed, Lands
    <3>4. Prior(t, w) \in Nat
      BY DEF Prior
    <3>5. wrote'[t] = Prior(t, w)' + IF Landed(t)' THEN 1 ELSE 0
      BY <2>1, <3>1, <3>2, <3>3, <3>4 DEF FileFits
    <3>6. /\ rpc'[t].at = "idle" <=> rpc[t].at = "idle"
          /\ rpc[t].at = "returned" => rpc'[t].at = "returned" /\ result'[t] = result[t]
      BY <2>1 DEF FsMoves
    <3>7. FileFits(t, w)'
      BY <1>2, <3>1, <3>2, <3>5, <3>6 DEF FileFits
    <3> QED
      BY <2>2, <2>3, <2>5, <3>7 DEF Fits
  <2> QED
    BY <2>4, <2>5
<1>6. TxnForm'
  BY <1>2 DEF TxnInv, TxnForm
<1> QED
  BY <1>1, <1>4, <1>5, <1>6 DEF TxnInv

LEMMA UnitChangesInv ==
  ASSUME TxnInv, UnitChanges
  PROVE  TxnInv'
<1>1. UNCHANGED <<txn, job, wrote>> /\ UNCHANGED <<temps, helper, rpc, result, installer>>
  BY DEF UnitChanges, clientVars
<1>2. FilesInv' /\ \A c \in Callers : SameCall(c)
  BY <1>1, QuietInv DEF TxnInv
<1> QED
  BY <1>1, <1>2, OthersInv, TransactionAssumption

-----------------------------------------------------------------------------
(* The theorems.                                                           *)

(* The inductive invariant: a call's answer, its helper and, of a          *)
(* transaction, the phase, the request or the commands under way and the   *)
(* changes made so far fit together (remote-fs-client.mjs, 133;            *)
(* admin-transaction.mjs, 305; root-exec.mjs, 341).                        *)
THEOREM TransactionInvariant == Spec => []TxnInv
<1>1. Init => TxnInv
  <2> SUFFICES ASSUME Init PROVE TxnInv
    OBVIOUS
  <2>1. FilesInv
    <3>1. \A c \in Callers : CallFits(c)
      BY DEF Init, FsInit, CallFits, NoHelper, Threw
    <3>2. OneInstaller /\ TempsAreOwned
      BY RemoteFilesAssumption DEF Init, FsInit, OneInstaller, TempsAreOwned
    <3>3. FsForm
      BY DEF Init, FsInit, FsForm, RpcForm, HelperForm, NoHelper
    <3> QED
      BY <3>1, <3>2, <3>3 DEF FilesInv
  <2>2. TxnForm /\ EffectForm
    BY DEF Init, TxnForm, EffectForm
  <2>3. ASSUME NEW t \in Txns
        PROVE  Fits(t)
    <3>1. /\ txn[t].at = "idle" /\ txn[t].state = "none" /\ job[t].at = "none" /\ wrote[t] = 0
          /\ \A a \in {"mutate", "undo"} : job[t].earlier[a] = "none"
          /\ rpc[t].at = "idle" /\ helper[t].at = "off"
      BY TransactionAssumption DEF Init, FsInit, NoHelper, Changing
    <3>2. Where(t) = "idle" /\ Known(t) /\ ~Landed(t) /\ Prior(t, "idle") = 0
      BY <3>1 DEF Where, Known, Phases, Landed, Prior
    <3> QED
      BY <3>1, <3>2 DEF Fits, UnitFits, FileFits, Wrote, Ran, Changing
  <2> QED
    BY <2>1, <2>2, <2>3 DEF TxnInv
<1>2. TxnInv /\ [Next]_vars => TxnInv'
  <2> SUFFICES ASSUME TxnInv, [Next]_vars PROVE TxnInv'
    OBVIOUS
  <2>1. CASE FilesStep
    BY <2>1, FilesStepInv
  <2>2. CASE UnitChanges
    BY <2>2, UnitChangesInv
  <2>3. ASSUME NEW c \in Tools, ToolCall(c) PROVE TxnInv'
    BY <2>3, ToolCallInv
  <2>4. ASSUME NEW t \in Txns, TxnStep(t) PROVE TxnInv'
    BY <2>4, PrecheckInv, ReadInv, SnapshotFailsInv, StatusInv, SystemctlInv, SystemctlRepeatedInv,
       EarlierRunsInv, MutationInv, HealthInv, RollBackInv, UndoInv, VerifyInv DEF TxnStep
  <2>5. CASE UNCHANGED vars
    <3>1. UNCHANGED <<txn, job, wrote>> /\ UNCHANGED <<temps, helper, rpc, result, installer>>
      BY <2>5 DEF vars, fsVars, txnVars
    <3>2. FilesInv' /\ \A c \in Callers : SameCall(c)
      BY <3>1, QuietInv DEF TxnInv
    <3> QED
      BY <3>1, <3>2, OthersInv, TransactionAssumption
  <2> QED
    BY <2>1, <2>2, <2>3, <2>4, <2>5 DEF Next
<1> QED
  BY <1>1, <1>2, PTL DEF Spec

(* The helper is installed on a target by one call at a time, the one that *)
(* all others wait for (ensureHelper, 133).                                *)
THEOREM HelperInstalledByOne == Spec => []OneInstaller
<1>1. TxnInv => OneInstaller
  BY DEF TxnInv, FilesInv
<1> QED
  BY <1>1, TransactionInvariant, PTL

(* A temporary file always has a helper that will replace or remove it, or *)
(* one that was killed (_atomic_write, 158).                               *)
THEOREM TemporaryFilesAreOwned == Spec => []TempsAreOwned
<1>1. TxnInv => TempsAreOwned
  BY DEF TxnInv, FilesInv
<1> QED
  BY <1>1, TransactionInvariant, PTL

(* The state that a transaction reports tells how often it has changed the *)
(* target and, but for two states, that it will not do so any more, where  *)
(* a command that two password providers were given counts for two         *)
(* (execute, 305).                                                         *)
THEOREM OutcomeTellsWhatWasDone == Spec => []OutcomeTellsEffects
<1>1. TxnInv => OutcomeTellsEffects
  <2> SUFFICES ASSUME TxnInv, NEW t \in Txns
               PROVE  CASE txn[t].state \in {"precheck_failed", "snapshot_failed"} -> Changes(t) = 0
                        [] txn[t].state \in {"committed", "health_failed"} ->
                             wrote[t] >= 1 /\ Changes(t) = Times(t, "mutate")
                        [] txn[t].state = "rolled_back" ->
                             wrote[t] >= 2 /\ Changes(t) = Times(t, "mutate") + Times(t, "undo")
                        [] txn[t].state = "mutation_failed" -> Changes(t) <= Times(t, "mutate")
                        [] txn[t].state = "rollback_failed" ->
                             wrote[t] >= 1 /\ Changes(t) <= Times(t, "mutate") + Times(t, "undo")
                        [] OTHER -> TRUE
    BY DEF OutcomeTellsEffects
  <2>1. PICK w : w = Where(t) /\ (txn[t].state # "none" => w = txn[t].state)
    BY WhereIs DEF TxnInv
  <2>2. CallFits(t) /\ wrote[t] \in Nat
    BY AtPhase
  <2>3. CASE OnUnit(t)
    <3>1. UnitFits(t, w)
      BY <2>1, <2>3, AtPhase
    <3>2. Pending(t) <=> job[t].at = "queued"
      BY <2>2, <3>1 DEF UnitFits, CallFits, Pending
    <3>3. \A a \in {"mutate", "undo"} : job[t].earlier[a] \in {"none", "ran", "lost", "late"}
      BY JobRecord DEF Changing
    <3>4. \A a \in {"mutate", "undo"} : Times(t, a) = 1 + Ran(t, a) + One(job[t].earlier[a] = "lost")
      BY <3>3 DEF Times, Ran, One
    <3>5. \A a \in {"mutate", "undo"} :
            /\ Ran(t, a) \in {0, 1} /\ One(job[t].earlier[a] = "lost") \in {0, 1}
            /\ job[t].earlier[a] = "none" => Ran(t, a) = 0 /\ One(job[t].earlier[a] = "lost") = 0
      BY DEF Ran, One
    <3>6. Changes(t) = wrote[t] + (IF job[t].at = "queued" THEN 1 ELSE 0)
                         + One(job[t].earlier["mutate"] = "lost") + One(job[t].earlier["undo"] = "lost")
      BY <3>2 DEF Changes, One
    <3> QED
      BY <2>1, <2>2, <3>1, <3>4, <3>5, <3>6 DEF UnitFits, Wrote
  <2>4. CASE ~OnUnit(t)
    <3>1. FileFits(t, w)
      BY <2>1, <2>4, AtPhase
    <3>2. Pending(t) => ~Landed(t) /\ Stages(rpc[t].request) /\ rpc[t].at # "idle"
      BY <2>2, <3>1 DEF FileFits, CallFits, Pending, Landed
    <3>3. rpc[t].at = "returned" /\ result[t].ok => ~Pending(t)
      BY <2>2, <3>1 DEF FileFits, CallFits, Pending
    <3>4. Landed(t) => Stages(rpc[t].request) /\ rpc[t].at # "idle"
      BY <2>2 DEF Landed, CallFits
    <3>5. rpc[t].at = "returned" /\ result[t].ok /\ Stages(rpc[t].request) => Landed(t)
      BY DEF Landed
    <3>6. Changes(t) = wrote[t] + (IF Pending(t) THEN 1 ELSE 0)
      BY <2>2, <3>1 DEF Changes, One, FileFits, Changing
    <3>7. Times(t, "mutate") = 1 /\ Times(t, "undo") = 1
      BY <3>1 DEF Times, One, FileFits, Changing
    <3> QED
      BY <2>1, <3>1, <3>2, <3>3, <3>4, <3>5, <3>6, <3>7 DEF FileFits, Prior
  <2> QED
    BY <2>3, <2>4
<1> QED
  BY <1>1, TransactionInvariant, PTL

-----------------------------------------------------------------------------
(* What nobody else has touched, a transaction that rolled back or never   *)
(* began leaves as it was.                                                 *)

Early == {"idle", "precheck", "stat", "read", "status", "precheck_failed", "snapshot_failed"}
Saved == {"mutate", "health", "undo", "verify", "rolled_back"}

(* The requests of t, and what it has read while nothing changed.          *)
Reads(t) ==
  LET r == rpc[t].request IN
  /\ helper[t].at = "checked" => Stages(r)
  /\ rpc[t].at # "idle" =>
       /\ r.path = Mutation[t].path
       /\ r.op \in {"stat", "read", "write", "patch"}
       /\ r.op = "read" =>
            /\ helper[t].at = "answered" /\ helper[t].answer.ok => helper[t].answer.value = disk[r.path]
            /\ rpc[t].at = "returned" /\ result[t].ok => result[t].value = disk[r.path]

(* A transaction of a file changes no other file and no unit.              *)
FileCalm(t, w) ==
  /\ unit = UnitBefore
  /\ disk = [Before EXCEPT ![Mutation[t].path] = disk[Mutation[t].path]]
  /\ w \in Early \cup {"rolled_back"} => disk = Before
  /\ w \in Saved => txn[t].snapshot = Before[Mutation[t].path]
  /\ w \in {"read", "verify"} => rpc[t].request.op = "read"
  /\ Reads(t)

(* A transaction of a unit changes no file, and of the unit what its plan  *)
(* restores.                                                               *)
PlanBefore(t) ==
  IF OfUnitFile(t)
    THEN /\ UnitBefore.file \in {"enabled", "disabled"}
         /\ txn[t].snapshot = IF UnitBefore.file = "enabled" THEN "enable" ELSE "disable"
    ELSE /\ UnitBefore.active \in {"active", "inactive"}
         /\ txn[t].snapshot = IF UnitBefore.active = "active" THEN "start" ELSE "stop"

NoneLate(t) == \A a \in Changing : job[t].earlier[a] # "late"

UnitCalm(t, w) ==
  /\ disk = Before
  /\ unit = IF OfUnitFile(t) THEN [UnitBefore EXCEPT !.file = unit.file]
                             ELSE [UnitBefore EXCEPT !.active = unit.active]
  /\ w \in Early => unit = UnitBefore
  /\ w = "rolled_back" /\ NoneLate(t) => unit = UnitBefore
  /\ w \notin Early => PlanBefore(t)

CalmInv ==
  /\ edits \in Nat
  /\ \A t \in Txns : Undisturbed(t) =>
       IF OnUnit(t) THEN UnitCalm(t, Where(t)) ELSE FileCalm(t, Where(t))

(* The steps of a command, with which its transaction does not go on.      *)
CommandStep(u) == SystemctlRuns(u) \/ SystemctlRepeated(u) \/ EarlierRuns(u)

LEMMA StepMoves ==
  ASSUME TxnInv, NEW u \in Txns, TxnStep(u), ~CommandStep(u)
  PROVE  txn[u].at # "done" /\ \E w \in (Phases \cup Ends) \ {"idle"} : Moved(u, w)
<1>1. TxnForm /\ Known(u)
  BY AtPhase
<1>2. /\ txn[u].at \in Phases
      /\ \/ \E a \in Phases \ {"idle"} : \/ Phase(u, a)
                                         \/ \E s : txn' = [txn EXCEPT ![u].at = a, ![u].snapshot = s]
                                         \/ \E v : txn' = [txn EXCEPT ![u].at = a, ![u].after = v]
         \/ \E e \in Ends : Outcome(u, e)
  <2>1. CASE Begin(u) \/ PrecheckPasses(u) \/ PrecheckFails(u)
    BY <2>1 DEF Begin, PrecheckPasses, PrecheckFails, Snapshot, Phases, Ends
  <2>2. CASE StatDone(u) \/ SnapshotFails(u) \/ ReadDone(u) \/ StatusDone(u)
    BY <2>2 DEF StatDone, SnapshotFails, ReadDone, StatusDone, Answered, Phases, Ends
  <2>3. CASE MutationDone(u) \/ MutationFails(u) \/ Commit(u) \/ HealthFails(u) \/ RollBack(u)
    BY <2>3 DEF MutationDone, MutationFails, Commit, HealthFails, RollBack, Answered, JobDone, JobFails,
       Phases, Ends
  <2>4. CASE UndoDone(u) \/ UndoFails(u) \/ Verified(u) \/ NotVerified(u)
    BY <2>4 DEF UndoDone, UndoFails, Verified, NotVerified, Answered, JobDone, JobFails, Phases, Ends
  <2> QED
    BY <2>1, <2>2, <2>3, <2>4 DEF TxnStep, CommandStep
<1>3. txn[u].at # "done"
  BY <1>2 DEF Phases
<1>4. ASSUME NEW a \in Phases \ {"idle"},
             \/ Phase(u, a)
             \/ \E s : txn' = [txn EXCEPT ![u].at = a, ![u].snapshot = s]
             \/ \E v : txn' = [txn EXCEPT ![u].at = a, ![u].after = v]
      PROVE  Moved(u, a)
  BY <1>1, <1>3, <1>4, PhaseMoves
<1>5. ASSUME NEW e \in Ends, Outcome(u, e)
      PROVE  Moved(u, e)
  BY <1>1, <1>5, OutcomeMoves
<1>6. "idle" \notin Ends
  BY DEF Ends
<1> QED
  BY <1>2, <1>3, <1>4, <1>5, <1>6

(* A call that was made is not unmade, and only t makes calls for t.       *)
LEMMA IssueMakes ==
  ASSUME TxnInv, NEW c \in Callers, NEW r, Issue(c, r)
  PROVE  rpc'[c].at # "idle" /\ \A d \in Callers \ {c} : rpc'[d] = rpc[d]
<1>1. PICK a : /\ a \in {"sent", "joining", "installing"}
               /\ rpc' = [rpc EXCEPT ![c] = [at |-> a, request |-> r]]
  BY DEF Issue
<1>2. RpcForm
  BY DEF TxnInv, FilesInv, FsForm
<1>3. rpc'[c].at = a /\ \A d \in Callers \ {c} : rpc'[d] = rpc[d]
  BY ONLY c \in Callers, <1>1, <1>2, RpcSet, ZenonT(60)
<1> QED
  BY <1>1, <1>3

LEMMA StepCalls ==
  ASSUME NEW u \in Txns, TxnStep(u)
  PROVE  (UNCHANGED rpc \/ \E r : Issue(u, r)) /\ UNCHANGED edits
<1>1. CASE UNCHANGED fsVars
  BY <1>1 DEF fsVars
<1>2. ASSUME NEW r, Issue(u, r), UNCHANGED boundVars
      PROVE  (UNCHANGED rpc \/ \E q : Issue(u, q)) /\ UNCHANGED edits
  BY <1>2 DEF boundVars
<1>3. ASSUME NEW a, JobFails(u, a)
      PROVE  UNCHANGED rpc /\ UNCHANGED edits
  BY <1>3 DEF JobFails, Fault, boundVars, clientVars
<1>4. CASE Begin(u) \/ PrecheckPasses(u) \/ PrecheckFails(u)
  BY <1>1, <1>2, <1>4 DEF Begin, PrecheckPasses, PrecheckFails, Snapshot
<1>5. CASE StatDone(u) \/ SnapshotFails(u) \/ ReadDone(u) \/ StatusDone(u) \/ CommandStep(u)
  <2>1. CASE StatDone(u)
    BY <1>2, <2>1 DEF StatDone, boundVars
  <2>2. CASE ReadDone(u)
    BY <1>2, <2>2 DEF ReadDone, boundVars
  <2>3. CASE SystemctlRepeated(u)
    BY <2>3 DEF SystemctlRepeated, Fault, clientVars
  <2> QED
    BY <1>1, <1>5, <2>1, <2>2, <2>3 DEF SnapshotFails, StatusDone, CommandStep, SystemctlRuns, EarlierRuns
<1>6. CASE MutationDone(u) \/ MutationFails(u) \/ Commit(u) \/ HealthFails(u) \/ RollBack(u)
  BY <1>1, <1>2, <1>3, <1>6 DEF MutationDone, MutationFails, Commit, HealthFails, RollBack
<1>7. CASE UndoDone(u) \/ UndoFails(u) \/ Verified(u) \/ NotVerified(u)
  BY <1>1, <1>2, <1>3, <1>7 DEF UndoDone, UndoFails, Verified, NotVerified
<1> QED
  BY <1>4, <1>5, <1>6, <1>7 DEF TxnStep, CommandStep

(* Who has touched the target has touched it.                              *)
LEMMA DisturbedStays ==
  ASSUME TxnInv, edits \in Nat, Next, NEW t \in Txns, Undisturbed(t)'
  PROVE  /\ Undisturbed(t) /\ edits' = 0
         /\ FilesStep \/ TxnStep(t)
<1>0. /\ edits' = 0
      /\ \A c \in Callers \ {t} : rpc'[c].at = "idle"
      /\ \A u \in Txns \ {t} : txn'[u].at = "idle"
      /\ Txns \subseteq Callers
  BY TransactionAssumption DEF Undisturbed
<1>1. CASE FilesStep
  <2>1. \A c \in Callers : FsMoves(c)
    BY <1>1, FsNextInv DEF TxnInv, FilesStep
  <2>2. \A c \in Callers \ {t} : rpc[c].at = "idle"
    BY <1>0, <2>1 DEF FsMoves
  <2>3. edits' = edits \/ edits' = edits + 1
    <3>1. FsNext
      BY <1>1 DEF FilesStep
    <3>2. ASSUME NEW prog, InstallSucceeds(prog) PROVE edits' = edits
      BY <3>2 DEF InstallSucceeds, Fault, boundVars
    <3>3. CASE InstallFails
      BY <3>3 DEF InstallFails, Fault
    <3>4. ASSUME NEW c, Receive(c) \/ Lose(c) PROVE edits' = edits
      BY <3>4 DEF Receive, Lose, Fault, boundVars
    <3>5. ASSUME NEW c, HelperStep(c) PROVE edits' = edits
      BY <3>5 DEF HelperStep, LookAndAnswer, Refuse, Check, SystemCall, SystemCallFails, OSFails, Killed,
         Fault, boundVars
    <3>6. ASSUME NEW q, NEW content, Edit(q, content) PROVE edits' = edits + 1
      BY <3>6 DEF Edit
    <3>7. CASE CleanCache
      BY <3>7 DEF CleanCache
    <3> QED
      BY <3>1, <3>2, <3>3, <3>4, <3>5, <3>6, <3>7 DEF FsNext
  <2> QED
    BY <1>0, <1>1, <2>2, <2>3 DEF Undisturbed, FilesStep
<1>2. CASE UnitChanges
  BY <1>0, <1>2 DEF UnitChanges
<1>3. ASSUME NEW c \in Tools, ToolCall(c) PROVE FALSE
  <2>1. c \in Callers \ {t}
    BY DEF Tools
  <2>2. PICK r : Issue(c, r)
    BY <1>3 DEF ToolCall
  <2> QED
    BY <1>0, <2>1, <2>2, IssueMakes
<1>4. ASSUME NEW u \in Txns, TxnStep(u) PROVE u = t /\ Undisturbed(t)
  <2>1. u = t
    <3>1. CASE CommandStep(u)
      <4>1. /\ UNCHANGED txn
            /\ job[u].at # "none" \/ \E a \in Changing : job[u].earlier[a] # "none"
        BY <3>1 DEF CommandStep, SystemctlRuns, SystemctlRepeated, EarlierRuns
      <4>2. Where(u) # "idle"
        BY <4>1, AtPhase, EarlierIs DEF UnitFits, FileFits
      <4>3. txn[u].at # "idle"
        BY <4>2 DEF Where
      <4> QED
        BY <1>0, <4>1, <4>3
    <3>2. CASE ~CommandStep(u)
      <4>1. PICK w \in (Phases \cup Ends) \ {"idle"} : Moved(u, w)
        BY <1>4, <3>2, StepMoves
      <4>2. Where(u)' = w
        BY <4>1 DEF Moved
      <4>3. txn'[u].at # "idle"
        BY <4>1, <4>2 DEF Where
      <4> QED
        BY <1>0, <4>3
    <3> QED
      BY <3>1, <3>2
  <2>2. \A c \in Callers \ {t} : rpc'[c] = rpc[c]
    BY <1>0, <1>4, <2>1, StepCalls, IssueMakes
  <2>3. \A v \in Txns \ {t} : txn'[v] = txn[v]
    <3>1. CASE CommandStep(t)
      BY <3>1 DEF CommandStep, SystemctlRuns, SystemctlRepeated, EarlierRuns
    <3>2. CASE ~CommandStep(t)
      BY <1>4, <2>1, <3>2, StepMoves DEF Moved
    <3> QED
      BY <3>1, <3>2
  <2>4. edits' = edits
    BY <1>4, StepCalls
  <2> QED
    BY <1>0, <2>1, <2>2, <2>3, <2>4 DEF Undisturbed
<1> QED
  BY <1>0, <1>1, <1>2, <1>3, <1>4 DEF Next

-----------------------------------------------------------------------------
(* The steps of a unit's transaction that nobody disturbs.                 *)

LEMMA MutationIs ==
  ASSUME NEW t \in Txns
  PROVE  /\ OnUnit(t) => Mutation[t].action \in Actions
         /\ ~OnUnit(t) => Mutation[t].path \in Paths
  BY TransactionAssumption DEF OnUnit, FileMutation, UnitMutation

LEMMA UnitForm ==
  /\ UnitBefore = [active |-> UnitBefore.active, file |-> UnitBefore.file]
  /\ UnitBefore.active \in Active /\ UnitBefore.file \in FileStates
BY TransactionAssumption DEF Unit

(* The snapshot of a transaction, apart from the steps that take it.       *)
LEMMA SnapshotStays ==
  ASSUME TxnForm, NEW t \in Txns, NEW a,
         Phase(t, a) \/ Outcome(t, a) \/ \E v : txn' = [txn EXCEPT ![t].at = a, ![t].after = v]
  PROVE  txn'[t].snapshot = txn[t].snapshot
<1>1. txn[t] = [at |-> txn[t].at, snapshot |-> txn[t].snapshot,
                after |-> txn[t].after, state |-> txn[t].state] /\ DOMAIN txn = Txns
  BY DEF TxnForm
<1>2. CASE Phase(t, a)
  <2>1. txn'[t] = [txn[t] EXCEPT !.at = a]
    BY <1>1, <1>2 DEF Phase
  <2> QED
    BY <1>1, <2>1
<1>3. PICK x : x = [txn[t] EXCEPT !.at = a]
  OBVIOUS
<1>4. x = [at |-> a, snapshot |-> txn[t].snapshot, after |-> txn[t].after, state |-> txn[t].state]
  BY <1>1, <1>3
<1>5. CASE Outcome(t, a)
  <2>1. PICK y : y = [txn[t] EXCEPT !.at = "done"]
    OBVIOUS
  <2>2. y = [at |-> "done", snapshot |-> txn[t].snapshot, after |-> txn[t].after, state |-> txn[t].state]
    BY <1>1, <2>1
  <2>3. txn' = [txn EXCEPT ![t] = [[txn[t] EXCEPT !.at = "done"] EXCEPT !.state = a]]
    BY <1>1, <1>5 DEF Outcome
  <2>4. txn'[t] = [[txn[t] EXCEPT !.at = "done"] EXCEPT !.state = a]
    BY <1>1, <2>3
  <2>5. txn'[t] = [y EXCEPT !.state = a]
    BY <2>1, <2>4, Zenon
  <2> QED
    BY <2>2, <2>5
<1>6. ASSUME NEW v, txn' = [txn EXCEPT ![t].at = a, ![t].after = v]
      PROVE  txn'[t].snapshot = txn[t].snapshot
  <2>1. txn' = [txn EXCEPT ![t] = [[txn[t] EXCEPT !.at = a] EXCEPT !.after = v]]
    BY <1>1, <1>6
  <2>2. txn'[t] = [[txn[t] EXCEPT !.at = a] EXCEPT !.after = v]
    BY <1>1, <2>1
  <2>3. txn'[t] = [x EXCEPT !.after = v]
    BY <1>3, <2>2, Zenon
  <2> QED
    BY <1>4, <2>3
<1> QED
  BY <1>2, <1>5, <1>6

LEMMA SnapshotTaken ==
  ASSUME TxnForm, NEW t \in Txns, NEW a, NEW s, txn' = [txn EXCEPT ![t].at = a, ![t].snapshot = s]
  PROVE  txn'[t].snapshot = s
<1>1. txn[t] = [at |-> txn[t].at, snapshot |-> txn[t].snapshot,
                after |-> txn[t].after, state |-> txn[t].state] /\ DOMAIN txn = Txns
  BY DEF TxnForm
<1>2. PICK x : x = [txn[t] EXCEPT !.at = a]
  OBVIOUS
<1>3. x = [at |-> a, snapshot |-> txn[t].snapshot, after |-> txn[t].after, state |-> txn[t].state]
  BY <1>1, <1>2
<1>4. txn' = [txn EXCEPT ![t] = [[txn[t] EXCEPT !.at = a] EXCEPT !.snapshot = s]]
  BY <1>1
<1>5. txn'[t] = [[txn[t] EXCEPT !.at = a] EXCEPT !.snapshot = s]
  BY <1>1, <1>4
<1>6. txn'[t] = [x EXCEPT !.snapshot = s]
  BY <1>2, <1>5, Zenon
<1> QED
  BY <1>3, <1>6

(* A step of a unit's transaction leaves the unit, but for the command     *)
(* itself.                                                                 *)
LEMMA UnitStays ==
  ASSUME TxnInv, NEW t \in Txns, OnUnit(t), TxnStep(t)
  PROVE  disk' = disk /\ (~CommandStep(t) => unit' = unit)
<1>1. \A a : ~Answered(t, a)
  BY DEF Answered
<1>2. CASE Begin(t) \/ PrecheckPasses(t) \/ PrecheckFails(t)
  BY <1>2 DEF Begin, PrecheckPasses, PrecheckFails, Snapshot, fsVars
<1>3. CASE StatDone(t) \/ SnapshotFails(t) \/ ReadDone(t) \/ StatusDone(t) \/ CommandStep(t)
  BY <1>1, <1>3 DEF StatDone, SnapshotFails, ReadDone, StatusDone, CommandStep, SystemctlRuns,
     SystemctlRepeated, EarlierRuns, fsVars
<1>4. CASE MutationDone(t) \/ MutationFails(t) \/ Commit(t) \/ HealthFails(t) \/ RollBack(t)
  BY <1>1, <1>4 DEF MutationDone, MutationFails, Commit, HealthFails, RollBack, JobFails, fsVars
<1>5. CASE UndoDone(t) \/ UndoFails(t) \/ Verified(t) \/ NotVerified(t)
  BY <1>1, <1>5 DEF UndoDone, UndoFails, Verified, NotVerified, JobFails, fsVars
<1> QED
  BY <1>2, <1>3, <1>4, <1>5 DEF TxnStep, CommandStep

LEMMA UnitCalmStep ==
  ASSUME TxnInv, NEW t \in Txns, OnUnit(t), UnitCalm(t, Where(t)), TxnStep(t)
  PROVE  UnitCalm(t, Where(t))'
<1>0. /\ TxnForm /\ Known(t) /\ UnitFits(t, Where(t)) /\ disk' = disk
      /\ (txn[t].at # "done" => Where(t) = txn[t].at)
      /\ \A a : ~Answered(t, a)
  BY AtPhase, UnitStays DEF Answered
<1>m. Mutation[t].action \in Actions
  BY MutationIs
(* The unit and the snapshot stay, and so does what the phase requires.    *)
<1>a. ASSUME NEW w, Moved(t, w), unit' = unit,
             w \in Early \cup {"rolled_back"} => unit = UnitBefore,
             w \notin Early => PlanBefore(t) /\ txn'[t].snapshot = txn[t].snapshot
      PROVE  UnitCalm(t, Where(t))'
  <2>1. Where(t)' = w
    BY <1>a DEF Moved
  <2>2. w \notin Early => PlanBefore(t)'
    BY <1>a DEF PlanBefore, OfUnitFile
  <2> QED
    BY <1>0, <1>a, <2>1, <2>2 DEF UnitCalm, OfUnitFile
<1>b. ASSUME NEW w \in Early, Phase(t, w) \/ Outcome(t, w), Moved(t, w), Where(t) \in Early, unit' = unit
      PROVE  UnitCalm(t, Where(t))'
  BY <1>a, <1>b DEF UnitCalm
<1>c. ASSUME NEW w, w \notin Early, w # "rolled_back", Phase(t, w) \/ Outcome(t, w), Moved(t, w),
             Where(t) \notin Early, unit' = unit
      PROVE  UnitCalm(t, Where(t))'
  BY <1>0, <1>a, <1>c, SnapshotStays DEF UnitCalm
<1>p. ASSUME NEW w \in Phases, Phase(t, w), txn[t].at # "done" PROVE Moved(t, w)
  BY <1>0, <1>p, PhaseMoves
<1>o. ASSUME NEW e \in Ends, Outcome(t, e) PROVE Moved(t, e)
  BY <1>0, <1>o, OutcomeMoves
<1>1. CASE Begin(t) \/ PrecheckPasses(t) \/ PrecheckFails(t) \/ SnapshotFails(t)
  <2>1. Where(t) \in Early /\ txn[t].at # "done" /\ unit' = unit
    BY <1>0, <1>1 DEF Begin, PrecheckPasses, PrecheckFails, SnapshotFails, Early
  <2>2. \E w \in {"precheck", "status"} : Phase(t, w) \/ \E e \in {"precheck_failed", "snapshot_failed"} : Outcome(t, e)
    BY <1>1 DEF Begin, PrecheckPasses, PrecheckFails, Snapshot, SnapshotFails
  <2> QED
    BY <1>b, <1>p, <1>o, <2>1, <2>2 DEF Early, Phases, Ends
<1>2. CASE StatusDone(t)
  <2>1. /\ txn[t].at = "status" /\ Restorable(t) /\ unit' = unit
        /\ txn' = [txn EXCEPT ![t].at = "mutate", ![t].snapshot = RollbackPlan(t)]
    BY <1>2 DEF StatusDone
  <2>2. unit = UnitBefore
    BY <1>0, <2>1 DEF UnitCalm, Early
  <2>3. Moved(t, "mutate") /\ txn'[t].snapshot = RollbackPlan(t)
    <3>1. \E s : txn' = [txn EXCEPT ![t].at = "mutate", ![t].snapshot = s]
      BY <2>1
    <3> QED
      BY <1>0, <2>1, <3>1, PhaseMoves, SnapshotTaken DEF Phases
  <2>4. PlanBefore(t)'
    BY <2>1, <2>2, <2>3 DEF PlanBefore, Restorable, RollbackPlan, OfUnitFile
  <2>5. Where(t)' = "mutate"
    BY <2>3 DEF Moved
  <2> QED
    BY <1>0, <2>1, <2>2, <2>4, <2>5 DEF UnitCalm, Early, OfUnitFile
(* A command of the phase a runs.                                          *)
<1>e. ASSUME NEW a \in Changing, unit' \in Effects(CommandOf(t, a)), txn' = txn, Where(t) \notin Early,
             Where(t) # "rolled_back" \/ ~NoneLate(t)'
      PROVE  UnitCalm(t, Where(t))'
  <2>3. PlanBefore(t)
    BY <1>e DEF UnitCalm
  <2>4. /\ CommandOf(t, a) \in Actions
        /\ CommandOf(t, a) \in {"enable", "disable"} <=> OfUnitFile(t)
    BY <1>m, <2>3 DEF CommandOf, PlanBefore, OfUnitFile, Actions
  <2>5. PICK x, y : unit = [active |-> x, file |-> y] /\ (IF OfUnitFile(t) THEN x = UnitBefore.active ELSE y = UnitBefore.file)
    BY UnitForm DEF UnitCalm
  <2>6. unit' = IF OfUnitFile(t) THEN [UnitBefore EXCEPT !.file = unit'.file]
                                 ELSE [UnitBefore EXCEPT !.active = unit'.active]
    <3>1. CASE OfUnitFile(t)
      <4>1. \E z : unit' = [unit EXCEPT !.file = z]
        BY <1>e, <2>4, <3>1 DEF Effects
      <4> QED
        BY <2>5, <3>1, <4>1, UnitForm
    <3>2. CASE ~OfUnitFile(t)
      <4>1. \E z : unit' = [unit EXCEPT !.active = z]
        BY <1>e, <2>4, <3>2 DEF Effects, Actions
      <4> QED
        BY <2>5, <3>2, <4>1, UnitForm
    <3> QED
      BY <3>1, <3>2
  <2>7. Where(t)' = Where(t) /\ PlanBefore(t)'
    BY <1>e, <2>3 DEF Where, PlanBefore, OfUnitFile
  <2> QED
    BY <1>0, <1>e, <2>6, <2>7 DEF UnitCalm, OfUnitFile
<1>3. CASE CommandStep(t)
  <2>1. CASE SystemctlRuns(t)
    <3>1. job[t].at = "queued" /\ unit' \in Effects(CommandOf(t, GivenIn(t))) /\ txn' = txn
      BY <2>1 DEF SystemctlRuns
    <3>2. Where(t) \notin Early \cup {"rolled_back"}
      BY <1>0, <3>1 DEF UnitFits, Early
    <3>3. GivenIn(t) \in Changing
      BY DEF GivenIn, Changing
    <3> QED
      BY <1>e, <3>1, <3>2, <3>3
  <2>2. CASE SystemctlRepeated(t)
    <3>1. txn[t].at \in {"mutate", "undo"} /\ UNCHANGED <<txn, unit>>
      BY <2>2 DEF SystemctlRepeated, Changing
    <3>2. Where(t) \notin Early \cup {"rolled_back"} /\ Where(t)' = Where(t)
      BY <1>0, <3>1 DEF Early, Where
    <3> QED
      BY <1>0, <3>1, <3>2 DEF UnitCalm, PlanBefore, OfUnitFile
  <2>3. CASE EarlierRuns(t)
    <3>1. PICK a \in Changing :
            /\ job[t].earlier[a] = "lost" /\ unit' \in Effects(CommandOf(t, a)) /\ txn' = txn
            /\ job' = [job EXCEPT ![t] =
                 [at |-> job[t].at, earlier |-> [job[t].earlier EXCEPT ![a] = "late"]]]
      BY <2>3 DEF EarlierRuns
    <3>2. Where(t) \notin Early
      BY <3>1, EarlierIs DEF Early
    <3>3. ~NoneLate(t)'
      <4>1. job'[t] = [at |-> job[t].at, earlier |-> [job[t].earlier EXCEPT ![a] = "late"]]
        BY <3>1 DEF TxnInv, EffectForm
      <4>2. DOMAIN job[t].earlier = Changing
        BY JobRecord
      <4>3. job'[t].earlier[a] = "late"
        BY <4>1, <4>2
      <4> QED
        BY <4>3 DEF NoneLate
    <3> QED
      BY <1>e, <3>1, <3>2, <3>3
  <2> QED
    BY <1>3, <2>1, <2>2, <2>3 DEF CommandStep
<1>4. CASE MutationDone(t) \/ MutationFails(t) \/ Commit(t) \/ HealthFails(t) \/ RollBack(t)
  <2>1. txn[t].at \in {"mutate", "health"} /\ unit' = unit
    BY <1>0, <1>4 DEF MutationDone, MutationFails, Commit, HealthFails, RollBack, JobDone, JobFails
  <2>2. Where(t) \notin Early
    BY <1>0, <2>1 DEF Early
  <2>3. \/ \E w \in {"health", "undo"} : Phase(t, w)
        \/ \E e \in {"mutation_failed", "committed", "health_failed"} : Outcome(t, e)
    BY <1>0, <1>4 DEF MutationDone, MutationFails, Commit, HealthFails, RollBack
  <2> QED
    BY <1>c, <1>p, <1>o, <2>1, <2>2, <2>3 DEF Early, Phases, Ends
<1>5. CASE UndoDone(t) \/ UndoFails(t) \/ NotVerified(t)
  <2>1. txn[t].at \in {"undo", "verify"} /\ unit' = unit
    BY <1>0, <1>5 DEF UndoDone, UndoFails, NotVerified, JobDone, JobFails
  <2>2. Where(t) \notin Early
    BY <1>0, <2>1 DEF Early
  <2>3. Phase(t, "verify") \/ Outcome(t, "rollback_failed")
    BY <1>0, <1>5 DEF UndoDone, UndoFails, NotVerified
  <2> QED
    BY <1>c, <1>p, <1>o, <2>1, <2>2, <2>3 DEF Early, Phases, Ends
<1>6. CASE Verified(t)
  <2>1. txn[t].at = "verify" /\ Restored(t) /\ unit' = unit /\ Outcome(t, "rolled_back")
    BY <1>0, <1>6 DEF Verified
  <2>2. Where(t) \notin Early
    BY <1>0, <2>1 DEF Early
  <2>3. PlanBefore(t)
    BY <2>2 DEF UnitCalm
  <2>4. unit = UnitBefore
    <3>1. PICK x, y : unit = [active |-> x, file |-> y] /\ (IF OfUnitFile(t) THEN x = UnitBefore.active ELSE y = UnitBefore.file)
      BY UnitForm DEF UnitCalm
    <3>2. x = UnitBefore.active /\ y = UnitBefore.file
      BY <2>1, <2>3, <3>1 DEF PlanBefore, Restored
    <3> QED
      BY <3>1, <3>2, UnitForm
  <2>5. Moved(t, "rolled_back") /\ txn'[t].snapshot = txn[t].snapshot
    BY <1>0, <1>o, <2>1, SnapshotStays DEF Ends
  <2> QED
    BY <1>a, <2>1, <2>3, <2>4, <2>5
<1>7. ~StatDone(t) /\ ~ReadDone(t)
  BY <1>0 DEF StatDone, ReadDone
<1> QED
  BY <1>1, <1>2, <1>3, <1>4, <1>5, <1>6, <1>7 DEF TxnStep, CommandStep

(* The filesystem moves under a transaction of a unit.                     *)
LEMMA UnitCalmFiles ==
  ASSUME TxnInv, NEW t \in Txns, OnUnit(t), Undisturbed(t), UnitCalm(t, Where(t)), FilesStep, edits' = 0
  PROVE  UnitCalm(t, Where(t))'
<1>1. \A c \in Callers : CallFits(c) /\ rpc[c].at = "idle"
  <2>1. rpc[t].at = "idle"
    BY AtPhase DEF UnitFits
  <2> QED
    BY <2>1 DEF Undisturbed, TxnInv, FilesInv
<1>2. \A c \in Callers : ~HelperStep(c) /\ ~Receive(c) /\ ~Lose(c)
  BY <1>1 DEF CallFits, HelperStep, LookAndAnswer, Refuse, Check, SystemCall, SystemCallFails, OSFails,
     Killed, Receive, Lose
<1>3. FsNext /\ UNCHANGED <<txn, unit, job>> /\ edits = 0
  BY DEF FilesStep, Undisturbed
<1>4. disk' = disk
  BY <1>2, <1>3 DEF FsNext, InstallSucceeds, InstallFails, Edit, CleanCache
<1>5. Where(t)' = Where(t)
  BY <1>3 DEF Where
<1> QED
  BY <1>3, <1>4, <1>5 DEF UnitCalm, PlanBefore, OfUnitFile, NoneLate

-----------------------------------------------------------------------------
(* The steps of a file's transaction that nobody disturbs.                 *)

(* A call of t that is not its helper's last step leaves the disk, and     *)
(* what t has read.                                                        *)
LEMMA ReadsStay ==
  ASSUME NEW t, Reads(t), UNCHANGED disk, SameCall(t)
  PROVE  Reads(t)'
BY DEF Reads, SameCall

LEMMA BecomesSet ==
  ASSUME HelperForm, NEW c \in Callers, NEW a, NEW s, NEW v, Becomes(c, a, s, v)
  PROVE  helper'[c].at = a /\ helper'[c].answer = v
BY HelperSet DEF Becomes

LEMMA FileCalmFiles ==
  ASSUME TxnInv, NEW t \in Txns, ~OnUnit(t), Undisturbed(t), FileCalm(t, Where(t)), FilesStep, edits' = 0
  PROVE  FileCalm(t, Where(t))'
<1> DEFINE p == Mutation[t].path
           r == rpc[t].request
<1>0. /\ FsNext /\ UNCHANGED <<txn, unit>> /\ edits = 0
      /\ t \in Callers /\ FilesInv /\ CallFits(t) /\ FileFits(t, Where(t))
      /\ FsMoves(t) /\ CallFits(t)'
  BY AtPhase, FsNextInv DEF FilesStep, Undisturbed, TxnInv, FilesInv
<1>1. \A c \in Callers \ {t} : ~HelperStep(c) /\ ~Receive(c) /\ ~Lose(c)
  <2>1. \A c \in Callers \ {t} : CallFits(c) /\ rpc[c].at = "idle"
    BY <1>0 DEF Undisturbed, FilesInv
  <2> QED
    BY <2>1 DEF CallFits, HelperStep, LookAndAnswer, Refuse, Check, SystemCall, SystemCallFails, OSFails,
       Killed, Receive, Lose
<1>2. Where(t)' = Where(t) /\ rpc'[t].request = r
  BY <1>0 DEF Where, FsMoves
<1>3. RpcForm /\ HelperForm /\ result = [c \in Callers |-> result[c]] /\ DOMAIN result = Callers
  BY <1>0 DEF FilesInv, FsForm
<1>f. ASSUME UNCHANGED disk, Reads(t)' PROVE FileCalm(t, Where(t))'
  BY <1>0, <1>2, <1>f DEF FileCalm
<1>r. Reads(t)
  BY DEF FileCalm
<1>b. ASSUME NEW a, NEW s, NEW v, Becomes(t, a, s, v)
      PROVE  helper'[t].at = a /\ helper'[t].answer = v
  BY <1>0, <1>3, <1>b, BecomesSet
<1>4. ASSUME NEW prog, InstallSucceeds(prog) PROVE FileCalm(t, Where(t))'
  <2>1. CASE Waits(t)
    <3>1. helper'[t] = Launched(t, prog) /\ rpc'[t] = [rpc[t] EXCEPT !.at = "sent"] /\ disk' = disk
      BY <1>0, <1>4, <2>1 DEF InstallSucceeds
    <3>2. helper'[t].at # "checked" /\ ~helper'[t].answer.ok
      BY <3>1, LaunchedIs, ThrewIsNotOk
    <3>3. rpc[t] = [at |-> rpc[t].at, request |-> rpc[t].request]
      BY <1>0, <1>3 DEF RpcForm
    <3>4. rpc'[t].at = "sent" /\ rpc[t].at # "idle"
      BY <2>1, <3>1, <3>3 DEF Waits
    <3>5. Reads(t)'
      BY <1>2, <1>r, <3>2, <3>4 DEF Reads
    <3> QED
      BY <1>f, <3>1, <3>5
  <2>2. CASE ~Waits(t)
    <3>1. SameCall(t) /\ UNCHANGED disk
      BY <1>0, <1>3, <1>4, <2>2 DEF InstallSucceeds, SameCall
    <3> QED
      BY <1>f, <1>r, <3>1, ReadsStay
  <2> QED
    BY <2>1, <2>2
<1>5. CASE InstallFails
  <2>1. CASE Waits(t)
    <3>1. helper'[t] = helper[t] /\ result'[t] = Threw /\ disk' = disk /\ rpc[t].at # "idle"
      BY <1>0, <1>5, <2>1 DEF InstallFails, Waits
    <3>2. Reads(t)'
      BY <1>2, <1>r, <3>1, ThrewIsNotOk DEF Reads
    <3> QED
      BY <1>f, <3>1, <3>2
  <2>2. CASE ~Waits(t)
    <3>1. SameCall(t) /\ UNCHANGED disk
      BY <1>0, <1>3, <1>5, <2>2 DEF InstallFails, SameCall
    <3> QED
      BY <1>f, <1>r, <3>1, ReadsStay
  <2> QED
    BY <2>1, <2>2
<1>6. CASE Receive(t)
  <2>1. /\ result'[t] = helper[t].answer /\ helper'[t] = NoHelper /\ disk' = disk
        /\ rpc[t].at = "sent" /\ helper[t].at = "answered"
    BY <1>0, <1>3, <1>6 DEF Receive, Return, HelperForm
  <2>2. helper'[t].at = "off"
    BY <2>1 DEF NoHelper
  <2>3. Reads(t)'
    BY <1>2, <1>r, <2>1, <2>2 DEF Reads
  <2> QED
    BY <1>f, <2>1, <2>3
<1>7. CASE Lose(t)
  <2>1. result'[t] = Threw /\ UNCHANGED <<helper, disk>> /\ rpc[t].at = "sent"
    BY <1>0, <1>3, <1>7 DEF Lose, Return
  <2>2. Reads(t)'
    BY <1>2, <1>r, <2>1, ThrewIsNotOk DEF Reads
  <2> QED
    BY <1>f, <2>1, <2>2
<1>8. CASE HelperStep(t)
  <2>1. rpc' = rpc /\ result' = result /\ helper[t].at \in {"started", "checked"} /\ rpc[t].at # "idle"
    BY <1>0, <1>8 DEF HelperStep, LookAndAnswer, Refuse, Check, SystemCall, SystemCallFails, OSFails,
       Killed, clientVars, CallFits
  <2>2. ~(rpc[t].at = "returned" /\ result[t].ok)
    BY <1>0, <2>1 DEF CallFits
  <2>3. r.path = p /\ r.op \in {"stat", "read", "write", "patch"}
    BY <1>r, <2>1 DEF Reads
  <2>4. ASSUME NEW a, NEW s, NEW v, Becomes(t, a, s, v),
               a = "checked" => Stages(r),
               r.op = "read" /\ v.ok => v.value = disk'[r.path]
        PROVE  Reads(t)'
    <3>1. helper'[t].at = a /\ helper'[t].answer = v
      BY <1>b, <2>4
    <3>2. rpc'[t] = rpc[t] /\ result'[t] = result[t] /\ ~(rpc'[t].at = "returned" /\ result'[t].ok)
      BY <2>1, <2>2
    <3>3. helper'[t].at = "checked" => Stages(r)
      BY <2>4, <3>1
    <3>4. r.op = "read" /\ helper'[t].answer.ok => helper'[t].answer.value = disk'[r.path]
      BY <2>4, <3>1
    <3>5. (helper[t].at = "checked" => Stages(rpc[t].request))'
      BY <3>2, <3>3 DEF Stages
    <3> QED
      BY <2>3, <3>2, <3>4, <3>5 DEF Reads
  <2>5. CASE LookAndAnswer(t)
    <3>1. disk' = disk
      BY <2>5 DEF LookAndAnswer
    <3>2. PICK v : Becomes(t, "answered", Unset, v) /\ (r.op = "read" /\ v.ok => v = Gives(disk[r.path]))
      BY <2>5, ThrewIsNotOk DEF LookAndAnswer
    <3>3. r.op = "read" /\ v.ok => v.value = disk'[r.path]
      BY <3>1, <3>2 DEF Gives
    <3> QED
      BY <1>f, <2>4, <3>1, <3>2, <3>3
  <2>6. CASE Refuse(t)
    BY <1>f, <2>4, <2>6, ThrewIsNotOk DEF Refuse
  <2>7. CASE Check(t)
    <3>1. Becomes(t, "checked", disk[r.path], Threw) /\ disk' = disk /\ Acceptable(r)
      BY <2>7 DEF Check
    <3>2. Stages(r)
      BY <2>3, <3>1 DEF Acceptable, Stages
    <3> QED
      BY <1>f, <2>4, <3>1, <3>2, ThrewIsNotOk
  <2>8. CASE SystemCall(t)
    <3>1. helper[t].at = "checked" /\ disk' = After(r)
      BY <2>8 DEF SystemCall
    <3>2. PICK v : Becomes(t, "answered", Unset, v)
      BY <2>8 DEF SystemCall
    <3>3. Stages(r) /\ r.op # "read"
      BY <1>r, <3>1 DEF Reads, Stages
    <3>4. disk' = [disk EXCEPT ![p] = NewText(r)]
      BY <2>3, <3>1, <3>3 DEF After
    <3>5. Reads(t)'
      BY <2>4, <3>2, <3>3
    <3>6. Where(t) \notin Early \cup {"rolled_back", "verify"}
      BY <1>0, <2>1, <3>3 DEF FileFits, Early
    <3>7. disk' = [Before EXCEPT ![p] = disk'[p]]
      <4>1. disk = [Before EXCEPT ![p] = disk[p]] /\ p \in Paths /\ DOMAIN Before = Paths
        BY MutationIs, RemoteFilesAssumption DEF FileCalm
      <4> HIDE DEF p
      <4>2. PICK x : disk = [Before EXCEPT ![p] = x]
        BY <4>1
      <4>3. disk' = [Before EXCEPT ![p] = NewText(r)]
        BY <3>4, <4>1, <4>2
      <4> QED
        BY <4>1, <4>3
    <3>8. Where(t)' = Where(t) /\ Where(t) # "read"
      BY <1>2, <3>6 DEF Early
    <3> QED
      BY <1>0, <3>5, <3>6, <3>7, <3>8 DEF FileCalm
  <2>9. CASE SystemCallFails(t)
    BY <1>f, <2>4, <2>9, ThrewIsNotOk DEF SystemCallFails, OSFails
  <2>10. CASE Killed(t)
    <3>1. helper' = [helper EXCEPT ![t].at = "killed"] /\ disk' = disk
      BY <2>10 DEF Killed
    <3>2. helper'[t].at = "killed"
      BY <1>0, <1>3, <3>1, HelperAt
    <3>3. Reads(t)'
      BY <2>1, <2>2, <2>3, <3>2 DEF Reads
    <3> QED
      BY <1>f, <3>1, <3>3
  <2> QED
    BY <1>8, <2>5, <2>6, <2>7, <2>8, <2>9, <2>10 DEF HelperStep
<1>9. ~CleanCache /\ \A q, x : ~Edit(q, x)
  BY <1>0 DEF CleanCache, Edit
<1> QED
  BY <1>0, <1>1, <1>4, <1>5, <1>6, <1>7, <1>8, <1>9 DEF FsNext

LEMMA IssueReads ==
  ASSUME TxnInv, NEW t \in Txns, ~OnUnit(t), NEW r, Issue(t, r), rpc[t].at = "idle" \/ result[t].ok,
         r.path = Mutation[t].path, r.op \in {"stat", "read", "write", "patch"}
  PROVE  Reads(t)' /\ rpc'[t].request = r /\ disk' = disk
<1>1. t \in Callers /\ FilesInv /\ CallFits(t) /\ HelperForm
  BY TransactionAssumption DEF TxnInv, FilesInv, FsForm
<1>2. helper[t].at = "off"
  BY <1>1 DEF CallFits, Issue
<1>3. rpc'[t].request = r /\ rpc'[t].at \in {"installing", "joining", "sent"} /\ ~helper'[t].answer.ok
  BY <1>1, <1>2, IssueInv
<1>4. helper'[t].at # "checked"
  <2>1. PICK a \in {"started", "answered"} : Launched(t, program) = [at |-> a, seen |-> Unset, answer |-> Threw]
    BY LaunchedIs
  <2>2. helper' = helper \/ helper' = [helper EXCEPT ![t] = [at |-> a, seen |-> Unset, answer |-> Threw]]
    BY <2>1 DEF Issue
  <2>3. CASE helper' = [helper EXCEPT ![t] = [at |-> a, seen |-> Unset, answer |-> Threw]]
    <3>1. helper'[t].at = a
      BY <1>1, <2>3, HelperSet
    <3> QED
      BY <2>1, <3>1
  <2> QED
    BY <1>2, <2>2, <2>3
<1> QED
  BY <1>3, <1>4 DEF Reads, Issue

(* The requests of a transaction of a file are all for its file.           *)
LEMMA RequestsOfFile ==
  ASSUME NEW p
  PROVE  /\ Plain("stat", p).path = p /\ Plain("stat", p).op = "stat"
         /\ Plain("read", p).path = p /\ Plain("read", p).op = "read"
         /\ \A x, e : Write(p, x, e).path = p /\ Write(p, x, e).op = "write"
         /\ \A h, e : Patch(p, h, e).path = p /\ Patch(p, h, e).op = "patch"
BY DEF Plain, Write, Patch

LEMMA FileCalmStep ==
  ASSUME TxnInv, NEW t \in Txns, ~OnUnit(t), FileCalm(t, Where(t)), TxnStep(t)
  PROVE  FileCalm(t, Where(t))'
<1> DEFINE p == Mutation[t].path
<1>0. /\ TxnForm /\ Known(t) /\ FileFits(t, Where(t)) /\ Reads(t) /\ unit = UnitBefore
      /\ disk = [Before EXCEPT ![p] = disk[p]] /\ p \in Paths /\ Before = [q \in Paths |-> Before[q]]
      /\ (txn[t].at # "done" => Where(t) = txn[t].at)
  BY AtPhase, MutationIs, RemoteFilesAssumption DEF FileCalm
<1>n. job[t].at = "none" /\ \A a : ~JobDone(t, a) /\ ~JobFails(t, a)
  BY <1>0 DEF FileFits, JobDone, JobFails
<1>p. ASSUME NEW w \in Phases, Phase(t, w), txn[t].at # "done"
      PROVE  Where(t)' = w /\ txn'[t].snapshot = txn[t].snapshot
  BY <1>0, <1>p, PhaseMoves, SnapshotStays DEF Moved
<1>o. ASSUME NEW e \in Ends, Outcome(t, e)
      PROVE  Where(t)' = e /\ txn'[t].snapshot = txn[t].snapshot
  BY <1>0, <1>o, OutcomeMoves, SnapshotStays DEF Moved
(* A step that calls nothing.                                              *)
<1>a. ASSUME NEW w, w \notin {"read", "verify"}, Where(t)' = w,
             txn'[t].snapshot = txn[t].snapshot, UNCHANGED <<fsVars, unit>>,
             w \in Early \cup {"rolled_back"} => disk = Before,
             w \in Saved => Where(t) \in Saved
      PROVE  FileCalm(t, Where(t))'
  <2>1. SameCall(t) /\ UNCHANGED <<disk, unit>>
    BY <1>a DEF fsVars, SameCall
  <2>2. Reads(t)'
    BY <1>0, <2>1, ReadsStay
  <2> QED
    BY <1>0, <1>a, <2>1, <2>2 DEF FileCalm
(* A step that makes the request r.                                        *)
<1>i. ASSUME NEW w, Where(t)' = w, NEW r, Issue(t, r), UNCHANGED unit,
             rpc[t].at = "idle" \/ result[t].ok,
             r.path = p, r.op \in {"stat", "read", "write", "patch"},
             w \in {"read", "verify"} => r.op = "read",
             w # "rolled_back", w \in Early => disk = Before,
             w \in Saved => txn'[t].snapshot = Before[p]
      PROVE  FileCalm(t, Where(t))'
  <2>1. Reads(t)' /\ rpc'[t].request = r /\ disk' = disk
    BY <1>i, IssueReads
  <2> QED
    BY <1>0, <1>i, <2>1 DEF FileCalm
<1>1. CASE Begin(t) \/ PrecheckPasses(t) \/ PrecheckFails(t)
  <2>1. /\ txn[t].at \in {"idle", "precheck"} /\ Where(t) = txn[t].at /\ rpc[t].at = "idle"
        /\ disk = Before /\ unit' = unit
    BY <1>0, <1>1 DEF Begin, PrecheckPasses, PrecheckFails, FileFits, FileCalm, Early
  <2>2. CASE Snapshot(t)
    BY <1>p, <1>i, <2>1, <2>2, RequestsOfFile DEF Snapshot, Saved, Phases
  <2>3. CASE Phase(t, "precheck") /\ UNCHANGED fsVars
    BY <1>p, <1>a, <2>1, <2>3 DEF Saved, Phases
  <2>4. CASE PrecheckFails(t)
    BY <1>o, <1>a, <2>1, <2>4 DEF PrecheckFails, Saved, Ends
  <2> QED
    BY <1>1, <2>2, <2>3, <2>4 DEF Begin, PrecheckPasses
<1>2. CASE StatDone(t)
  <2>1. /\ txn[t].at = "stat" /\ result[t].ok /\ Phase(t, "read") /\ Issue(t, Plain("read", p)) /\ unit' = unit
    BY <1>2 DEF StatDone, Answered
  <2>2. Where(t)' = "read" /\ disk = Before
    BY <1>0, <1>p, <2>1 DEF FileCalm, Early, Phases
  <2> QED
    BY <1>i, <2>1, <2>2, RequestsOfFile DEF Saved
<1>3. CASE SnapshotFails(t)
  <2>1. Where(t) \in {"stat", "read"}
    BY <1>0, <1>3 DEF SnapshotFails, Answered, FileFits
  <2> QED
    BY <1>3, <1>o, <1>a, <2>1 DEF SnapshotFails, FileCalm, Early, Saved, Ends
<1>4. CASE ReadDone(t)
  <2>1. /\ txn[t].at = "read" /\ rpc[t].at = "returned" /\ result[t].ok /\ unit' = unit
        /\ txn' = [txn EXCEPT ![t].at = "mutate", ![t].snapshot = Got(t)]
        /\ Issue(t, FileRequest(t, Got(t)))
    BY <1>4 DEF ReadDone, Answered
  <2>2. Where(t) = "read" /\ disk = Before /\ rpc[t].request.op = "read"
    BY <1>0, <2>1 DEF FileCalm, Early
  <2>3. Got(t) = Before[p]
    BY <1>0, <2>1, <2>2 DEF Reads, Got
  <2>4. Where(t)' = "mutate" /\ txn'[t].snapshot = Got(t)
    <3>1. \E s : txn' = [txn EXCEPT ![t].at = "mutate", ![t].snapshot = s]
      BY <2>1
    <3> QED
      BY <1>0, <2>1, <3>1, PhaseMoves, SnapshotTaken DEF Moved, Phases
  <2>5. FileRequest(t, Got(t)).path = p /\ FileRequest(t, Got(t)).op \in {"write", "patch"}
    BY RequestsOfFile DEF FileRequest
  <2> QED
    BY <1>i, <2>1, <2>3, <2>4, <2>5 DEF Early
<1>5. CASE MutationDone(t) \/ MutationFails(t)
  <2>1. /\ txn[t].at = "mutate" /\ UNCHANGED <<fsVars, unit>> /\ Where(t) \in Saved
        /\ \/ txn' = [txn EXCEPT ![t].at = "health", ![t].after = Got(t)]
           \/ Outcome(t, "mutation_failed")
    BY <1>0, <1>5, <1>n DEF MutationDone, MutationFails, Answered, Saved
  <2>2. CASE txn' = [txn EXCEPT ![t].at = "health", ![t].after = Got(t)]
    <3>1. \E v : txn' = [txn EXCEPT ![t].at = "health", ![t].after = v]
      BY <2>2
    <3>2. Where(t)' = "health" /\ txn'[t].snapshot = txn[t].snapshot
      BY <1>0, <2>1, <3>1, PhaseMoves, SnapshotStays DEF Moved, Phases
    <3> QED
      BY <1>a, <2>1, <3>2 DEF Early
  <2>3. CASE Outcome(t, "mutation_failed")
    BY <1>a, <1>o, <2>1, <2>3 DEF Early, Saved, Ends
  <2> QED
    BY <2>1, <2>2, <2>3
<1>6. CASE Commit(t) \/ HealthFails(t)
  BY <1>6, <1>a, <1>o DEF Commit, HealthFails, Early, Saved, Ends
<1>7. CASE RollBack(t)
  <2>1. /\ txn[t].at = "health" /\ Phase(t, "undo") /\ unit' = unit
        /\ Issue(t, Write(p, txn[t].snapshot, txn[t].after))
    BY <1>7 DEF RollBack
  <2>2. Where(t) = "health" /\ result[t].ok /\ txn[t].snapshot = Before[p]
    BY <1>0, <2>1 DEF FileFits, FileCalm, Saved
  <2>3. Where(t)' = "undo" /\ txn'[t].snapshot = txn[t].snapshot
    BY <1>p, <2>1 DEF Phases
  <2> QED
    BY <1>i, <2>1, <2>2, <2>3, RequestsOfFile DEF Early
<1>8. CASE UndoDone(t)
  <2>1. /\ txn[t].at = "undo" /\ Phase(t, "verify") /\ unit' = unit /\ result[t].ok
        /\ Issue(t, Plain("read", p))
    BY <1>8, <1>n DEF UndoDone, Answered
  <2>2. txn[t].snapshot = Before[p]
    BY <1>0, <2>1 DEF FileCalm, Saved
  <2>3. Where(t)' = "verify" /\ txn'[t].snapshot = txn[t].snapshot
    BY <1>p, <2>1 DEF Phases
  <2> QED
    BY <1>i, <2>1, <2>2, <2>3, RequestsOfFile DEF Early
<1>9. CASE UndoFails(t) \/ NotVerified(t)
  BY <1>9, <1>a, <1>o, <1>n DEF UndoFails, NotVerified, Answered, Early, Saved, Ends
<1>10. CASE Verified(t)
  <2>1. /\ txn[t].at = "verify" /\ rpc[t].at = "returned" /\ result[t].ok /\ Got(t) = txn[t].snapshot
        /\ Outcome(t, "rolled_back") /\ UNCHANGED <<fsVars, unit>>
    BY <1>10 DEF Verified, Answered
  <2>2. Where(t) = "verify" /\ txn[t].snapshot = Before[p] /\ rpc[t].request.op = "read"
    BY <1>0, <2>1 DEF FileCalm, Saved
  <2>3. disk[p] = Before[p]
    BY <1>0, <2>1, <2>2 DEF Reads, Got
  <2>4. disk = Before
    BY <1>0, <2>3
  <2> QED
    BY <1>a, <1>o, <2>1, <2>2, <2>4 DEF Saved, Ends
<1>11. ~StatusDone(t) /\ ~CommandStep(t)
  BY <1>0, <1>n DEF StatusDone, CommandStep, SystemctlRuns, SystemctlRepeated, EarlierRuns, FileFits
<1> QED
  BY <1>1, <1>2, <1>3, <1>4, <1>5, <1>6, <1>7, <1>8, <1>9, <1>10, <1>11 DEF TxnStep, CommandStep

-----------------------------------------------------------------------------

(* The changes that others make are counted.                               *)
LEMMA EditsCount ==
  ASSUME TxnInv, edits \in Nat, Next
  PROVE  edits' \in Nat
<1>1. CASE FilesStep
  <2>1. FsNext
    BY <1>1 DEF FilesStep
  <2>2. ASSUME NEW prog, InstallSucceeds(prog) PROVE edits' = edits
    BY <2>2 DEF InstallSucceeds, Fault, boundVars
  <2>3. CASE InstallFails
    BY <2>3 DEF InstallFails, Fault
  <2>4. ASSUME NEW c, Receive(c) \/ Lose(c) PROVE edits' = edits
    BY <2>4 DEF Receive, Lose, Fault, boundVars
  <2>5. ASSUME NEW c, HelperStep(c) PROVE edits' = edits
    BY <2>5 DEF HelperStep, LookAndAnswer, Refuse, Check, SystemCall, SystemCallFails, OSFails, Killed,
       Fault, boundVars
  <2>6. ASSUME NEW q, NEW content, Edit(q, content) PROVE edits' = edits + 1
    BY <2>6 DEF Edit
  <2>7. CASE CleanCache
    BY <2>7 DEF CleanCache
  <2> QED
    BY <2>1, <2>2, <2>3, <2>4, <2>5, <2>6, <2>7 DEF FsNext
<1>2. CASE UnitChanges
  BY <1>2 DEF UnitChanges
<1>3. ASSUME NEW c \in Tools, ToolCall(c) PROVE edits' = edits
  BY <1>3 DEF ToolCall, boundVars
<1>4. ASSUME NEW t \in Txns, TxnStep(t) PROVE edits' = edits
  BY <1>4, StepCalls
<1> QED
  BY <1>1, <1>2, <1>3, <1>4 DEF Next

(* A transaction leaves the target as it was when it says so, whatever     *)
(* failed on the way and for every target, mutation and number of callers, *)
(* if nobody else has changed it and no command ran after the one that     *)
(* repeated it was given (rollbackFile, 290; rollbackSystemd, 296).        *)
THEOREM RollbackLeavesTarget == Spec => []RollbackRestores
<1>1. Init => CalmInv
  <2> SUFFICES ASSUME Init PROVE CalmInv
    OBVIOUS
  <2>1. edits = 0 /\ disk = Before /\ unit = UnitBefore
    BY DEF Init, FsInit
  <2>2. ASSUME NEW t \in Txns
        PROVE  IF OnUnit(t) THEN UnitCalm(t, Where(t)) ELSE FileCalm(t, Where(t))
    <3>1. Where(t) = "idle" /\ rpc[t].at = "idle" /\ helper[t].at = "off"
      BY TransactionAssumption DEF Init, FsInit, NoHelper, Where
    <3>2. CASE OnUnit(t)
      <4>1. unit = [UnitBefore EXCEPT !.file = unit.file] /\ unit = [UnitBefore EXCEPT !.active = unit.active]
        BY <2>1, UnitForm
      <4> QED
        BY <2>1, <3>1, <3>2, <4>1 DEF UnitCalm, Early
    <3>3. CASE ~OnUnit(t)
      <4>1. disk = [Before EXCEPT ![Mutation[t].path] = disk[Mutation[t].path]]
        BY <2>1, <3>3, MutationIs, RemoteFilesAssumption
      <4>2. Reads(t)
        BY <3>1 DEF Reads
      <4> QED
        BY <2>1, <3>1, <3>3, <4>1, <4>2 DEF FileCalm, Early, Saved
    <3> QED
      BY <3>2, <3>3
  <2> QED
    BY <2>1, <2>2 DEF CalmInv
<1>2. TxnInv /\ CalmInv /\ [Next]_vars => CalmInv'
  <2> SUFFICES ASSUME TxnInv, CalmInv, [Next]_vars PROVE CalmInv'
    OBVIOUS
  <2>1. CASE UNCHANGED vars
    <3>1. UNCHANGED <<disk, helper, rpc, result, edits, txn, unit, job>>
      BY <2>1 DEF vars, fsVars, txnVars
    <3>2. ASSUME NEW t \in Txns
          PROVE  /\ Undisturbed(t)' = Undisturbed(t)
                 /\ Where(t)' = Where(t) /\ OnUnit(t)' = OnUnit(t)
                 /\ UnitCalm(t, Where(t))' = UnitCalm(t, Where(t))
                 /\ FileCalm(t, Where(t))' = FileCalm(t, Where(t))
      BY <3>1 DEF Undisturbed, Where, OnUnit, UnitCalm, NoneLate, PlanBefore, OfUnitFile, FileCalm, Reads,
         Stages
    <3> QED
      BY <3>1, <3>2 DEF CalmInv
  <2>2. CASE Next
    <3>1. edits' \in Nat
      BY <2>2, EditsCount DEF CalmInv
    <3>2. ASSUME NEW t \in Txns, Undisturbed(t)'
          PROVE  (IF OnUnit(t) THEN UnitCalm(t, Where(t)) ELSE FileCalm(t, Where(t)))'
      <4>1. Undisturbed(t) /\ edits' = 0 /\ (FilesStep \/ TxnStep(t))
        BY <2>2, <3>2, DisturbedStays DEF CalmInv
      <4>2. IF OnUnit(t) THEN UnitCalm(t, Where(t)) ELSE FileCalm(t, Where(t))
        BY <4>1 DEF CalmInv
      <4>3. OnUnit(t)' = OnUnit(t)
        BY DEF OnUnit
      <4>4. CASE OnUnit(t)
        BY <4>1, <4>2, <4>3, <4>4, UnitCalmFiles, UnitCalmStep
      <4>5. CASE ~OnUnit(t)
        BY <4>1, <4>2, <4>3, <4>5, FileCalmFiles, FileCalmStep
      <4> QED
        BY <4>4, <4>5
    <3> QED
      BY <3>1, <3>2 DEF CalmInv
  <2> QED
    BY <2>1, <2>2
<1>3. TxnInv /\ CalmInv => RollbackRestores
  <2> SUFFICES ASSUME TxnInv, CalmInv, NEW t \in Txns, Undisturbed(t),
                      txn[t].state \in {"rolled_back", "precheck_failed", "snapshot_failed"}, NoneLate(t)
               PROVE  disk = Before /\ unit = UnitBefore
    BY DEF RollbackRestores, NoneLate
  <2>1. Where(t) \in Early \cup {"rolled_back"}
    BY WhereIs DEF TxnInv, Early
  <2>2. IF OnUnit(t) THEN UnitCalm(t, Where(t)) ELSE FileCalm(t, Where(t))
    BY DEF CalmInv
  <2> QED
    BY <2>1, <2>2 DEF UnitCalm, FileCalm
<1> QED
  BY <1>1, <1>2, <1>3, TransactionInvariant, PTL DEF Spec

=============================================================================
