----------------------------- MODULE TaskStates ------------------------------
(***************************************************************************)
(* The task state machine of src/task-model.mjs.  Exit codes 0..255 are    *)
(* told apart only as zero and nonzero.                                    *)
(***************************************************************************)
ActiveStates == {"queued", "running"}
TerminalStates == {"succeeded", "failed", "cancelled", "lost"}
TaskState == ActiveStates \cup TerminalStates

Exits == {"zero", "nonzero"}
NoExit == "none"

mapExitCodeToTaskState(exit) == IF exit = "zero" THEN "succeeded" ELSE "failed"

(* The transitions transitionTask accepts; it throws on every other.       *)
Accepts(state, event) ==
  \/ state = "queued" /\ event \in {"started", "cancelled", "lost"}
  \/ state = "running" /\ event \in {"exited", "cancelled", "lost"}

(* The record transitionTask returns when it accepts the event.            *)
transitionTask(task, event, exit) ==
  [task EXCEPT !.state = IF event = "started" THEN "running"
                         ELSE IF event = "exited" THEN mapExitCodeToTaskState(exit)
                         ELSE event,
               !.exit_code = IF event = "exited" THEN exit ELSE @]
=============================================================================
