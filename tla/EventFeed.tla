------------------------------ MODULE EventFeed ------------------------------
(***************************************************************************)
(* What the stream of a run's events promises its client: the events of    *)
(* the log from the first one on, none left out, none unsaid again, none   *)
(* after the stream is closed.  One who comes when the run is over gets    *)
(* them all.                                                               *)
(***************************************************************************)
EXTENDS Naturals

CONSTANT Runs

VARIABLES
  log,     \* the length of each run's log
  client,  \* its client: "none", "open", "closed", or "gone"
  late,    \* clients that came when the run was over
  got      \* numbers of the events the client has been sent

vars == <<log, client, late, got>>

Init ==
  /\ log = [r \in Runs |-> 0]
  /\ client = [r \in Runs |-> "none"] /\ late = {}
  /\ got = [r \in Runs |-> {}]

\* Nothing is written to the log of a run that is over.
Write(r) ==
  /\ r \notin late
  /\ log' = [log EXCEPT ![r] = @ + 1]
  /\ UNCHANGED <<client, late, got>>

Come(r) ==
  /\ client[r] = "none" /\ client' = [client EXCEPT ![r] = "open"]
  /\ late' \in {late, late \cup {r}}
  /\ UNCHANGED <<log, got>>

Send(r) ==
  /\ client[r] = "open"
  /\ \E n \in 0..log[r] : got[r] \subseteq 1..n /\ got' = [got EXCEPT ![r] = 1..n]
  /\ UNCHANGED <<log, client, late>>

Close(r) ==
  /\ client[r] = "open" /\ client' = [client EXCEPT ![r] = "closed"]
  /\ r \in late => got[r] = 1..log[r]
  /\ UNCHANGED <<log, late, got>>

\* Clients go, or the server does.
Leave ==
  /\ client' \in [Runs -> {"none", "open", "closed", "gone"}]
  /\ \A r \in Runs : client'[r] = client[r] \/ (client[r] = "open" /\ client'[r] = "gone")
  /\ UNCHANGED <<log, late, got>>

Next == Leave \/ \E r \in Runs : Write(r) \/ Come(r) \/ Send(r) \/ Close(r)

Spec == Init /\ [][Next]_vars

\* At any time the client has the log up to some event; a late one that was let
\* go in order has all of it.
Whole == \A r \in Runs :
  /\ \E n \in 0..log[r] : got[r] = 1..n
  /\ r \in late /\ client[r] = "closed" => got[r] = 1..log[r]
=============================================================================
