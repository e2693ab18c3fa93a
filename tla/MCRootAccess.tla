----------------------------- MODULE MCRootAccess -----------------------------
EXTENDS RootAccess
CONSTANTS c1, c2

(* sudo may ask for a password or not, and the alias of the target may     *)
(* come to mean another machine, with docker.                              *)
MCWorlds ==
  {[identity |-> "host", grants |-> {"sudo_nopasswd", "sudo_password", "su_root_password"}],
   [identity |-> "other", grants |-> {"docker_host_root", "sudo_password"}]}
=============================================================================
