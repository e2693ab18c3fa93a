---------------------------- MODULE TaskLifecycle ----------------------------
(***************************************************************************)
(* What the persisted record of a task promises its readers: a task is     *)
(* queued when it is created, runs, and ends in one terminal state that    *)
(* never changes; its output cursor only grows; only the record of a task  *)
(* that never ran is removed.                                              *)
(***************************************************************************)
EXTENDS TaskStates, Naturals

CONSTANTS
  Tasks,      \* task ids
  Cursors     \* output cursors

VARIABLE life \* life[t]: the visible record of t

lifeVars == <<life>>

Visible == [state : TaskState \cup {"absent"},
            exit_code : Exits \cup {NoExit},
            cursor : Cursors]

Absent == [state |-> "absent", exit_code |-> NoExit, cursor |-> 0]

LifeInit ==
  life = [t \in Tasks |-> Absent]

Create(t) ==
  /\ life[t].state = "absent"
  /\ life' = [life EXCEPT ![t].state = "queued"]

(* The command has been sent into the task's session.                      *)
Started(t) ==
  /\ Accepts(life[t].state, "started")
  /\ life' = [life EXCEPT ![t] = transitionTask(@, "started", NoExit)]

(* Output is read and may hold the completion marker.                      *)
OutputRead(t) ==
  \E n \in Cursors :
    /\ n >= life[t].cursor
    /\ \/ /\ life[t].state \in TaskState
          /\ life' = [life EXCEPT ![t].cursor = n]
       \/ /\ life[t].state \in ActiveStates
          /\ \E e \in Exits :
               life' = [life EXCEPT ![t] =
                          [transitionTask(@, "exited", e) EXCEPT !.cursor = n]]

CancelledOrLost(t) ==
  \E event \in {"cancelled", "lost"} :
    /\ Accepts(life[t].state, event)
    /\ life' = [life EXCEPT ![t] = transitionTask(@, event, NoExit)]

(* A start that failed removes its record.                                 *)
Forget(t) ==
  /\ life[t].state = "queued"
  /\ life' = [life EXCEPT ![t] = Absent]

LifeNext ==
  \E t \in Tasks : Create(t) \/ Started(t) \/ OutputRead(t)
                   \/ CancelledOrLost(t) \/ Forget(t)

LifeSpec == LifeInit /\ [][LifeNext]_lifeVars

-----------------------------------------------------------------------------
(* How a task ended is never revised, nor forgotten, and nobody is sent    *)
(* back over output that was read (transitionTask of task-model.mjs).      *)
EndsAreFinal ==
  \A t \in Tasks :
    /\ life[t].state \in TerminalStates =>
         life'[t].state = life[t].state /\ life'[t].exit_code = life[t].exit_code
    /\ life'[t].state # "absent" => life'[t].cursor >= life[t].cursor
=============================================================================
