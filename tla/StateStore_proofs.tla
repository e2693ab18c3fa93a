-------------------------- MODULE StateStore_proofs --------------------------
(***************************************************************************)
(* Proofs about StateStore for every set of clients, keys and values: the  *)
(* inductive invariant, the three safety properties it contains, and that  *)
(* the store implements AtomicStore.                                       *)
(***************************************************************************)
EXTENDS StateStore, TLAPS

LEMMA ApplyType ==
  ASSUME NEW o \in Op, NEW s \in State
  PROVE  Apply(o, s) \in State
BY DEF Op, State, Apply

LEMMA EmptyStateType == EmptyState \in State
BY DEF EmptyState, State

LEMMA EmptyFileType == EmptyFile \in File
BY DEF EmptyFile, File

LEMMA NoCallType ==
  /\ <<>> \in Seq(Clients)
  /\ [c \in Clients |-> "none"] \in [Clients -> {"none", "ok", "failed"}]
  /\ [c \in Clients |-> BadOp] \in [Clients -> Op \cup {BadOp}]
OBVIOUS

LEMMA LoseMemoryType ==
  ASSUME TypeOK, LoseMemory, disk' \in File, stable' \in File
  PROVE  TypeOK'
BY EmptyFileType, NoCallType DEF TypeOK, LoseMemory, Phases

LEMMA InitInv == Init => StoreInv
<1> SUFFICES ASSUME Init PROVE StoreInv
  OBVIOUS
<1>1. disk \in File /\ disk.data \in State /\ disk.synced /\ stable = disk
  <2>1. PICK s \in State : disk = [data |-> s, synced |-> TRUE]
    BY DEF Init
  <2>2. stable = disk
    BY DEF Init
  <2> QED
    BY <2>1, <2>2 DEF File
<1>2. TypeOK
  BY <1>1, EmptyStateType, EmptyFileType, NoCallType DEF Init, TypeOK, Phases
<1>3. FileIsWhole
  BY <1>1, NullAssumption DEF FileIsWhole
<1> QED
  BY <1>2, <1>3 DEF Init, StoreInv, HeadIsRunning, DraftIsNextState,
     TempHoldsDraft, CacheMatchesFile, InitialReadPrecedesWrites

LEMMA NextInv == StoreInv /\ [Next]_vars => StoreInv'
<1> SUFFICES ASSUME StoreInv, [Next]_vars PROVE StoreInv'
  OBVIOUS
<1> USE NullAssumption, BadOpAssumption
<1> USE DEF StoreInv, HeadIsRunning, DraftIsNextState, TempHoldsDraft,
            FileIsWhole, CacheMatchesFile, InitialReadPrecedesWrites
<1>1. ASSUME NEW c \in Clients, ReadCached(c) PROVE StoreInv'
  BY <1>1 DEF ReadCached, TypeOK, files
<1>2. ASSUME NEW c \in Clients, ReadUncached(c) PROVE StoreInv'
  BY <1>2 DEF ReadUncached, TypeOK, files, Phases
<1>3. ASSUME NEW c \in Clients, NEW o \in Op \cup {BadOp}, Update(c, o)
      PROVE  StoreInv'
  <2>1. TypeOK'
    BY <1>3 DEF Update, TypeOK, files
  <2>2. queue # <<>> => /\ Head(queue') = Head(queue)
                        /\ op'[Head(queue)] = op[Head(queue)]
    BY <1>3 DEF Update, TypeOK, files, Busy
  <2>3. queue' # <<>>
    BY <1>3 DEF Update, TypeOK, files
  <2> QED
    BY <1>3, <2>1, <2>2, <2>3 DEF Update, files
<1>4. CASE InitialReadOk
  BY <1>4 DEF InitialReadOk, TypeOK, files, File, Phases
<1>5. CASE InitialReadFails
  BY <1>5 DEF InitialReadFails, TypeOK, files, Phases
<1>6. CASE StartUpdate
  BY <1>6 DEF StartUpdate, TypeOK, files, Phases
<1>7. CASE Mutate
  BY <1>7, ApplyType DEF Mutate, TypeOK, files, Phases
<1>8. CASE MakeDirectory
  BY <1>8 DEF MakeDirectory, TypeOK, Phases, files, calls
<1>9. CASE OpenTemp
  BY <1>9 DEF OpenTemp, TypeOK, Phases, files, calls, EmptyFile, File
<1>10. CASE WriteTemp
  BY <1>10 DEF WriteTemp, TypeOK, Phases, files, calls, File
<1>11. CASE SyncTemp
  BY <1>11 DEF SyncTemp, TypeOK, Phases, files, calls, File
<1>12. CASE CloseTemp
  BY <1>12 DEF CloseTemp, TypeOK, Phases, files, calls
<1>13. CASE RenameTemp
  BY <1>13 DEF RenameTemp, TypeOK, Phases, files, calls, EmptyFile, File
<1>14. CASE WriteFails
  BY <1>14 DEF WriteFails, TypeOK, Phases, files, calls
<1>15. CASE CleanUp
  BY <1>15 DEF CleanUp, TypeOK, Phases, files, calls, EmptyFile, File
<1>16. CASE Commit
  BY <1>16 DEF Commit, Settle, TypeOK, Phases, files
<1>17. CASE FailUpdate
  BY <1>17 DEF FailUpdate, Settle, TypeOK, Phases, files
<1>18. CASE Crash
  <2>1. TypeOK'
    BY <1>18, LoseMemoryType DEF Crash, TypeOK
  <2> QED
    BY <1>18, <2>1 DEF Crash, LoseMemory
<1>19. CASE PowerLoss
  <2>1. disk' \in {disk, stable} /\ stable' = disk'
    BY <1>19 DEF PowerLoss
  <2>2. TypeOK'
    BY <1>19, <2>1, LoseMemoryType DEF PowerLoss, TypeOK
  <2> QED
    BY <1>19, <2>1, <2>2 DEF PowerLoss, LoseMemory
<1>20. CASE FlushDirectory
  BY <1>20 DEF FlushDirectory, TypeOK, calls
<1>21. CASE UNCHANGED vars
  BY <1>21 DEF vars, TypeOK
<1> QED
  BY <1>1, <1>2, <1>3, <1>4, <1>5, <1>6, <1>7, <1>8, <1>9, <1>10, <1>11,
     <1>12, <1>13, <1>14, <1>15, <1>16, <1>17, <1>18, <1>19, <1>20, <1>21
     DEF Next, FinishInitialRead, AdvanceUpdate

(* The inductive invariant holds in every reachable state of the store.    *)
THEOREM StoreInvariant == Spec => []StoreInv
BY InitInv, NextInv, PTL DEF Spec

(* Whatever crash, power loss or failing file operation, the state file is *)
(* never torn (atomicWrite).                                               *)
THEOREM FileIsAlwaysWhole == Spec => []FileIsWhole
<1>1. StoreInv => FileIsWhole
  BY DEF StoreInv
<1> QED
  BY <1>1, StoreInvariant, PTL

(* The cache and the file agree except between rename and commit, so a     *)
(* reader is never served a state that a restart would not find, nor the   *)
(* reverse (performUpdate, load).                                          *)
THEOREM CacheAlwaysMatchesFile == Spec => []CacheMatchesFile
<1>1. StoreInv => CacheMatchesFile
  BY DEF StoreInv
<1> QED
  BY <1>1, StoreInvariant, PTL

(* The single-flight initial read never overlaps a write (load).           *)
THEOREM InitialReadAlwaysPrecedesWrites == Spec => []InitialReadPrecedesWrites
<1>1. StoreInv => InitialReadPrecedesWrites
  BY DEF StoreInv
<1> QED
  BY <1>1, StoreInvariant, PTL

-----------------------------------------------------------------------------
LEMMA InitRefines == Init => Promise!AbsInit
<1> SUFFICES ASSUME Init PROVE Promise!AbsInit
  OBVIOUS
<1>1. disk.data \in Promise!State
  BY DEF Init, State, Promise!State
<1> QED
  BY <1>1 DEF Init, EmptyState, Promise!EmptyState, Promise!AbsInit

LEMMA NextRefines == StoreInv /\ [Next]_vars => [Promise!AbsNext]_(Promise!absVars)
<1> SUFFICES ASSUME StoreInv, [Next]_vars
             PROVE  [Promise!AbsNext]_(Promise!absVars)
  OBVIOUS
<1> USE NullAssumption, BadOpAssumption
<1>1. ASSUME NEW c \in Clients, ReadCached(c) PROVE Promise!ReadAtOnce(c)
  BY <1>1 DEF ReadCached, files, Busy, StoreInv, TypeOK,
     Promise!ReadAtOnce, Promise!Answer, Promise!Busy
<1>2. ASSUME NEW c \in Clients, ReadUncached(c) PROVE Promise!BeginRead(c)
  BY <1>2 DEF ReadUncached, files, Busy, Promise!BeginRead, Promise!Busy
<1>3. ASSUME NEW c \in Clients, NEW o \in Op \cup {BadOp}, Update(c, o)
      PROVE  Promise!Submit(c, o)
  BY <1>3 DEF Update, files, Busy, Promise!Submit, Promise!Busy
<1>4. InitialReadOk => Promise!ReadOk
  BY DEF InitialReadOk, files, StoreInv, TypeOK, File, InitialReadPrecedesWrites,
     Promise!ReadOk, Promise!Answer
<1>5. InitialReadFails => Promise!ReadFail
  BY DEF InitialReadFails, files, StoreInv, TypeOK, Promise!ReadFail, Promise!Answer
<1>6. ASSUME \/ StartUpdate \/ Mutate
             \/ MakeDirectory \/ OpenTemp \/ WriteTemp \/ SyncTemp
             \/ CloseTemp \/ RenameTemp \/ WriteFails \/ CleanUp
             \/ UNCHANGED vars
      PROVE  UNCHANGED Promise!absVars
  <2>1. UNCHANGED <<stable, queue, op, readers, result, seen, cache>>
    BY <1>6 DEF StartUpdate, Mutate, MakeDirectory, OpenTemp, WriteTemp,
       SyncTemp, CloseTemp, RenameTemp, WriteFails, CleanUp, vars, calls, files
  <2>2. cache # NoState \/ UNCHANGED disk
    BY <1>6 DEF StartUpdate, Mutate, MakeDirectory, OpenTemp, WriteTemp,
       SyncTemp, CloseTemp, RenameTemp, WriteFails, CleanUp, vars, files,
       StoreInv, DraftIsNextState
  <2> QED
    BY <2>1, <2>2 DEF Promise!absVars
<1>7. Commit => Promise!UpdateOk
  BY DEF Commit, Settle, files, StoreInv, TypeOK, HeadIsRunning, DraftIsNextState,
     Promise!UpdateOk, Promise!Apply, Apply
<1>8. FailUpdate => Promise!UpdateFail
  BY DEF FailUpdate, Settle, files, StoreInv, HeadIsRunning, Promise!UpdateFail
<1>9. Promise!MayHold(disk.data)
  <2>1. CASE phase = "commit"
    <3>1. /\ queue # <<>>
          /\ cache # NoState
          /\ op[Head(queue)] # BadOp
          /\ disk.data = Apply(op[Head(queue)], cache)
      BY <2>1 DEF StoreInv, HeadIsRunning, DraftIsNextState, CacheMatchesFile
    <3> QED
      BY <3>1 DEF Promise!MayHold, Promise!Apply, Apply
  <2>2. CASE phase # "commit"
    BY <2>2 DEF StoreInv, CacheMatchesFile, Promise!MayHold
  <2> QED
    BY <2>1, <2>2
<1>10. Crash => Promise!AbsCrash
  BY <1>9 DEF Crash, LoseMemory, Promise!AbsCrash, Promise!ForgetCalls
<1>11. ASSUME PowerLoss PROVE Promise!AbsPowerLoss
  <2>1. disk' \in {disk, stable} /\ stable' = disk'
    BY <1>11 DEF PowerLoss, StoreInv, FileIsWhole
  <2>2. Promise!MayHold(disk'.data) \/ disk'.data = stable.data
    BY <1>9, <2>1
  <2> QED
    BY <1>11, <2>1, <2>2 DEF PowerLoss, LoseMemory, Promise!AbsPowerLoss,
       Promise!ForgetCalls
<1>12. FlushDirectory => Promise!AbsFlush
  BY <1>9 DEF FlushDirectory, calls, Promise!AbsFlush
<1> QED
  BY <1>1, <1>2, <1>3, <1>4, <1>5, <1>6, <1>7, <1>8, <1>10, <1>11, <1>12
     DEF Next, FinishInitialRead, AdvanceUpdate, Promise!AbsNext, Promise!Op, Op

(* The store implements AtomicStore: serial, all-or-nothing updates in     *)
(* submission order that survive a crash of the process, and linearizable  *)
(* reads (createStateStore).                                               *)
THEOREM StoreImplementsAtomicStore == Spec => ImplementsAtomicStore
BY InitRefines, NextRefines, StoreInvariant, PTL
   DEF Spec, ImplementsAtomicStore, Promise!AbsSpec
=============================================================================
