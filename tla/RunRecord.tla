------------------------------ MODULE RunRecord ------------------------------
(***************************************************************************)
(* What meta.json promises whoever reads it: the status of a run goes on   *)
(* and never back, and its outcome is final, with the verdict in it.  Who  *)
(* starts a run waits for its outcome with a limit.  Beyond that the run   *)
(* is given up on, and nothing is promised of a runner that lives on.      *)
(***************************************************************************)
CONSTANTS
  Runs,
  Data,   \* what a record holds beside the status
  Last    \* [status, data] that may take the place of an outcome

VARIABLES
  status,  \* of each run
  data,    \* the rest of its record
  given    \* runs that have been given up on

vars == <<status, data, given>>

Outcome == {"finished", "killed", "error"}

Init ==
  /\ status \in [Runs -> {"none", "queued"}]
  /\ data \in [Runs -> Data]
  /\ given = {}

Put(r, s, d) ==
  /\ status' = [status EXCEPT ![r] = s] /\ data' = [data EXCEPT ![r] = d]
  /\ UNCHANGED given

\* The statuses that may follow.
After(s) ==
  CASE s = "none"    -> {"queued"}
    [] s = "queued"  -> {"running", "error"}
    [] s = "running" -> Outcome
    [] OTHER         -> {}

Goes(r) == \E s \in After(status[r]), d \in Data : Put(r, s, d)

\* An outcome is overruled.
Overrule(r) ==
  /\ status[r] \in Outcome
  /\ \E l \in Last : Put(r, l.status, l.data)

GiveUp(r) ==
  /\ given' = given \cup {r}
  /\ UNCHANGED <<status, data>>

Writes(r) == r \in given /\ \E s \in {"running"} \cup Outcome, d \in Data : Put(r, s, d)

Next == \E r \in Runs : Goes(r) \/ Overrule(r) \/ GiveUp(r) \/ Writes(r)

Spec == Init /\ [][Next]_vars

\* What it comes to for a reader: an outcome that was not given up on stays, or is
\* overruled.
Stays(r) == status'[r] = status[r] /\ data'[r] = data[r]
Kept     == \A r \in Runs \ given : status[r] \in Outcome =>
              Stays(r) \/ [status |-> status'[r], data |-> data'[r]] \in Last
Final    == [][Kept]_vars
=============================================================================
