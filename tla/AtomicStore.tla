----------------------------- MODULE AtomicStore -----------------------------
(***************************************************************************)
(* What createStateStore (src/state-store.mjs) promises its callers: one   *)
(* durable state; updates take effect whole, one at a time, in the order   *)
(* in which they were submitted, and exactly once if they are acknowledged *)
(* and not at all if they fail; a read returns the state of one moment     *)
(* between its call and its answer.  A crash forgets every call in flight; *)
(* only the oldest pending update may have taken effect.  A power loss may *)
(* also take the store back to an earlier whole state: the directory entry *)
(* that the last rename made is not forced to disk.                        *)
(***************************************************************************)
EXTENDS StoreData, Naturals, Sequences

CONSTANT Clients

VARIABLES
  store,      \* the state, as callers see it
  kept,       \* the state a power loss may fall back to
  pending,    \* clients with an update in flight, oldest first
  op,         \* op[c]: the update client c last submitted
  readers,    \* clients with a read in flight
  result,     \* result[c]: answer to c's last call
  seen        \* seen[c]: the state c's last successful read returned

absVars == <<store, kept, pending, op, readers, result, seen>>

Busy(c) == c \in readers \/ \E i \in 1..Len(pending) : pending[i] = c

AbsInit ==
  /\ store \in State
  /\ kept = store
  /\ pending = <<>>
  /\ op = [c \in Clients |-> BadOp]
  /\ readers = {}
  /\ result = [c \in Clients |-> "none"]
  /\ seen = [c \in Clients |-> EmptyState]

Submit(c, o) ==
  /\ ~Busy(c)
  /\ pending' = Append(pending, c)
  /\ op' = [op EXCEPT ![c] = o]
  /\ result' = [result EXCEPT ![c] = "none"]
  /\ UNCHANGED <<store, kept, readers, seen>>

UpdateOk ==
  /\ pending # <<>>
  /\ op[Head(pending)] # BadOp
  /\ store' = Apply(op[Head(pending)], store)
  /\ result' = [result EXCEPT ![Head(pending)] = "ok"]
  /\ pending' = Tail(pending)
  /\ UNCHANGED <<kept, op, readers, seen>>

UpdateFail ==
  /\ pending # <<>>
  /\ result' = [result EXCEPT ![Head(pending)] = "failed"]
  /\ pending' = Tail(pending)
  /\ UNCHANGED <<store, kept, op, readers, seen>>

BeginRead(c) ==
  /\ ~Busy(c)
  /\ readers' = readers \cup {c}
  /\ result' = [result EXCEPT ![c] = "none"]
  /\ UNCHANGED <<store, kept, pending, op, seen>>

Answer(R, answer, value) ==
  /\ readers' = readers \ R
  /\ result' = [c \in Clients |-> IF c \in R THEN answer ELSE result[c]]
  /\ seen' = [c \in Clients |-> IF c \in R THEN value[c] ELSE seen[c]]
  /\ UNCHANGED <<store, kept, pending, op>>

ReadOk == Answer(readers, "ok", [c \in Clients |-> store])

ReadFail == Answer(readers, "failed", seen)

ReadAtOnce(c) ==
  /\ ~Busy(c)
  /\ Answer({c}, "ok", [d \in Clients |-> store])

(* The state now, or once the oldest pending update has taken effect.      *)
MayHold(value) ==
  \/ value = store
  \/ /\ pending # <<>>
     /\ op[Head(pending)] # BadOp
     /\ value = Apply(op[Head(pending)], store)

ForgetCalls ==
  /\ pending' = <<>>
  /\ readers' = {}
  /\ result' = [c \in Clients |-> "none"]
  /\ UNCHANGED <<op, seen>>

AbsCrash == MayHold(store') /\ ForgetCalls /\ UNCHANGED kept

AbsPowerLoss ==
  /\ MayHold(store') \/ store' = kept
  /\ kept' = store'
  /\ ForgetCalls

AbsFlush == MayHold(kept') /\ UNCHANGED <<store, pending, op, readers, result, seen>>

AbsNext ==
  \/ \E c \in Clients, o \in Op \cup {BadOp} : Submit(c, o)
  \/ UpdateOk
  \/ UpdateFail
  \/ \E c \in Clients : BeginRead(c) \/ ReadAtOnce(c)
  \/ ReadOk
  \/ ReadFail
  \/ AbsCrash
  \/ AbsPowerLoss
  \/ AbsFlush

AbsSpec == AbsInit /\ [][AbsNext]_absVars
=============================================================================
