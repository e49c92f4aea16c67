------------------------------ MODULE MCSession ------------------------------
(***************************************************************************)
(* The runner's session with one canary, an address and a URL.             *)
(***************************************************************************)
EXTENDS Session

MCEmitted ==
  {[kind |-> "file", op |-> "read", key |-> "canary"]}
MCCommand == [kind |-> "proc", op |-> "exec", key |-> "sh"]
=============================================================================
