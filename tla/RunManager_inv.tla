--------------------------- MODULE RunManager_inv ---------------------------
(***************************************************************************)
(* The inductive invariant of RunManager: what the request thread, the     *)
(* reaper, the runner and the run directory know of each other.            *)
(***************************************************************************)
EXTENDS RunManager

\* A slot is taken when it is admitted: admission adds up the two sets, which
\* overlap only while a thread is between the table and its finally clause.
SlotsWithinCap ==
  /\ IsFiniteSet(active) /\ IsFiniteSet(InStart)
  /\ Cardinality(active \cup InStart) <= MaxConcurrent

\* A run keeps its slot from admission until its reaper has waited for it.
SlotStage(r) ==
  /\ api[r] \in {"idle", "refused", "admitted", "created", "failed"} => proc[r] = "none"
  /\ api[r] \in {"spawned", "listed", "done"} => proc[r] # "none"
  /\ api[r] = "done" <=> reaper[r] # "none"
  /\ api[r] = "listed" \/ reaper[r] \in Reaping => r \in active
  /\ reaper[r] \in (Reaping \ {"wait"}) \cup {"done"} /\ Alive(r) => r \in lapsed

\* Only the runner produces a verdict, and its reaper writes after a look at a
\* status that is not terminal, at a time when the runner is gone or given up.
VerdictStage(r) ==
  /\ meta[r].verdict => meta[r].status \in Terminal
  /\ tmp[r].verdict  => tmp[r].status \in Terminal
  /\ proc[r] \in {"none", "boot", "begin", "run"} /\ r \notin lapsed => ~tmp[r].verdict
  /\ proc[r] \in {"none", "boot", "begin", "run", "final"} /\ r \notin lapsed =>
       ~meta[r].verdict
  /\ reaper[r] \in {"open", "read", "write", "rename"} /\ r \notin lapsed =>
       ~meta[r].verdict

\* What the index lacks is in the line being written or in the transaction.
IndexStage(r) ==
  /\ tail[r] = "torn" => log[r] < MaxLog
  /\ rows[r] <= log[r]
  /\ proc[r] # "dead" /\ tail[r] # "line" /\ r \notin txn => rows[r] = log[r]
  /\ proc[r] \in {"final", "close", "exited"} => tail[r] = "none"
  /\ proc[r] = "exited" => r \notin txn

\* A run that has an outcome is not about to be started.
OutcomeStage(r) ==
  api[r] \in {"idle", "admitted", "created"} => meta[r].status \notin Terminal

\* How far the status is, and what is about to be written, at each step of those
\* that write it, unless two of them are at it: the runner and a reaper that has
\* given up on it.
RecordStage(r) ==
  /\ api[r] \in {"idle", "admitted"} => meta[r] = NoMeta
  /\ api[r] = "created" => meta[r].status = "queued"
  /\ proc[r] # "none" => meta[r].status # "none"
  /\ tmp[r] = NoMeta \/ tmp[r].status \in {"running"} \cup Terminal
  /\ r \notin lapsed =>
       /\ proc[r] \in {"boot", "begin"} => meta[r].status = "queued"
       /\ proc[r] = "begin" => tmp[r].status = "running"
       /\ proc[r] \in {"run", "final"} => meta[r].status = "running"
       /\ proc[r] = "final" => tmp[r].status \in {"finished", "killed"}
       /\ reaper[r] \in {"open", "read", "write", "rename"} => meta[r].status \in {"queued", "running"}
       /\ reaper[r] = "rename" => tmp[r].status = "error"

\* The inductive invariant.
MInv ==
  /\ TypeOK
  /\ SlotsWithinCap
  /\ \A r \in Runs : SlotStage(r) /\ VerdictStage(r) /\ IndexStage(r) /\ OutcomeStage(r)
                     /\ RecordStage(r)
=============================================================================
