-------------------------- MODULE AtMostOnceChannel ---------------------------
(***************************************************************************)
(* What a caller of the upstream server may rely on, whatever happens to   *)
(* the transport: the server carries a call out at most once, an answer    *)
(* means that it did, and an error leaves open whether it did, even later. *)
(***************************************************************************)
EXTENDS Naturals

CONSTANT Tools    \* the calls

VARIABLES
  status,     \* status[c]: what the caller of c knows
  effects     \* effects[c]: how often the server carried c out

vars == <<status, effects>>

Init ==
  /\ status = [c \in Tools |-> "idle"]
  /\ effects = [c \in Tools |-> 0]

Submit(c) ==
  /\ status[c] = "idle"
  /\ status' = [status EXCEPT ![c] = "pending"]
  /\ UNCHANGED effects

(* The request may still be on its way when its caller has given up.       *)
CarryOut(c) ==
  /\ status[c] \in {"pending", "failed"}
  /\ effects[c] = 0
  /\ effects' = [effects EXCEPT ![c] = 1]
  /\ UNCHANGED status

Answer(c) ==
  /\ status[c] = "pending"
  /\ effects[c] = 1
  /\ status' = [status EXCEPT ![c] = "ok"]
  /\ UNCHANGED effects

Fail(c) ==
  /\ status[c] = "pending"
  /\ status' = [status EXCEPT ![c] = "failed"]
  /\ UNCHANGED effects

Next == \E c \in Tools : Submit(c) \/ CarryOut(c) \/ Answer(c) \/ Fail(c)

Spec == Init /\ [][Next]_vars

-----------------------------------------------------------------------------
(* A call is carried out once at most; one that is answered was carried    *)
(* out, and one that was not made was not (callTool of upstream-pty.mjs).  *)
AtMostOnce ==
  \A c \in Tools :
    /\ effects[c] \in {0, 1}
    /\ status[c] = "ok" => effects[c] = 1
    /\ status[c] = "idle" => effects[c] = 0

(* What a caller was told stays, and so does what was done for it.         *)
AnswersStand ==
  \A c \in Tools :
    /\ status[c] \in {"ok", "failed"} => status'[c] = status[c]
    /\ effects'[c] >= effects[c]
=============================================================================
