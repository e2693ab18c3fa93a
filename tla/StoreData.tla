------------------------------ MODULE StoreData ------------------------------
(***************************************************************************)
(* The data of the lifecycle store of src/state-store.mjs: a state maps    *)
(* each record key (a session name, a task id or a forward id) to a record *)
(* value or to Absent.  The three sections of the file behave alike, so    *)
(* they are one key space here.                                            *)
(***************************************************************************)
CONSTANTS
  Keys,       \* the record keys of all three sections
  Values,     \* record contents
  Absent,     \* no record under a key
  BadOp       \* an update whose mutator throws or yields an invalid state

State == [Keys -> Values \cup {Absent}]

(* What a mutator of putTask, putForward, deleteTask, deleteForward and of  *)
(* the session registry does to the draft: one record is set or deleted.   *)
Op == [key : Keys, val : Values \cup {Absent}]

ASSUME BadOpAssumption == BadOp \notin Op

EmptyState == [k \in Keys |-> Absent]

Apply(o, s) == [s EXCEPT ![o.key] = o.val]
=============================================================================
