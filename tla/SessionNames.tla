----------------------------- MODULE SessionNames -----------------------------
(***************************************************************************)
(* What the registry of named sessions promises a client that makes one    *)
(* call at a time: a name stands for one persistent session on one target  *)
(* until that session is over, and never for another name's session.       *)
(***************************************************************************)
CONSTANTS
  Names, Targets, Remotes,
  Home,      \* Home[r]: the target on which the remote session r lives
  Unbound    \* the value of a name that stands for nothing

VARIABLES
  bound,     \* bound[n]: Unbound, or the target and session of n
  over       \* the sessions that have ended

nameVars == <<bound, over>>

Binding == [target : Targets, remote : Remotes]

NamesInit ==
  /\ bound = [n \in Names |-> Unbound]
  /\ over = {}

Unnamed(r) == \A n \in Names : bound[n] = Unbound \/ bound[n].remote # r

BindTo(n, r) ==
  /\ Unnamed(r)
  /\ bound' = [bound EXCEPT ![n] = [target |-> Home[r], remote |-> r]]
  /\ UNCHANGED over

Bind(n) == bound[n] = Unbound /\ \E r \in Remotes : BindTo(n, r)

(* Only the end of its session gives a name another one, on its own target.*)
Rebind(n) ==
  /\ bound[n] # Unbound
  /\ bound[n].remote \in over
  /\ \E r \in Remotes : Home[r] = bound[n].target /\ BindTo(n, r)

(* A name is given up only when its session has been closed.               *)
Unbind(n) ==
  /\ bound[n] # Unbound
  /\ bound[n].remote \in over
  /\ bound' = [bound EXCEPT ![n] = Unbound]
  /\ UNCHANGED over

End(r) ==
  /\ r \notin over
  /\ over' = over \cup {r}
  /\ UNCHANGED bound

NamesNext ==
  \/ \E n \in Names : Bind(n) \/ Rebind(n) \/ Unbind(n)
  \/ \E r \in Remotes : End(r)

NamesSpec == NamesInit /\ [][NamesNext]_nameVars

-----------------------------------------------------------------------------
(* A name keeps its session until that is over, and its target for as long *)
(* as it stands for something (ensureSession).                             *)
NamesKeepSessions ==
  \A n \in Names : bound[n] # Unbound /\ bound'[n] # bound[n] =>
    /\ bound[n].remote \in over
    /\ bound'[n] # Unbound => bound'[n].target = bound[n].target
=============================================================================
