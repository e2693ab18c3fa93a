-------------------------- MODULE MCAdminTransaction --------------------------
EXTENDS AdminTransaction, TLC
CONSTANTS t1, t2, c1, p, q, old, new

MCBefore == (p :> old) @@ (q :> Absent)
MCUnitBefore == [active |-> "inactive", file |-> "enabled"]

(* A file written and a unit started, while a tool patches the same file,  *)
(* moves it away or makes a directory in its place.                        *)
MCMutation ==
  (t1 :> [type |-> "remote_write", path |-> p, text |-> new, expected |-> Unset])
  @@ (t2 :> [type |-> "systemd_action", action |-> "start"])

MCToolRequests ==
  {Patch(p, [keys |-> "old_text", old |-> old, new |-> new], Unset),
   [Plain("move", p) EXCEPT !.to = q], Plain("mkdir", p)}

(* A patch of the file.                                                    *)
MCPatch == t1 :> [type |-> "remote_patch", path |-> p, old |-> old, new |-> new, expected |-> Unset]
=============================================================================
