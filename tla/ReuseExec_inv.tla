--------------------------- MODULE ReuseExec_inv ---------------------------
(***************************************************************************)
(* The inductive invariant of ReuseExec: what the record, the locks, the   *)
(* marker, the process numbers and the lifecycle lock keep true together   *)
(* at every step, from which the safety properties follow.                 *)
(***************************************************************************)
EXTENDS ReuseExec

\* One process at a time holds the lifecycle lock.
LifecycleMutex ==
  /\ \A r, q \in Runs : host[r] \in Launching /\ host[q] \in Launching => r = q
  /\ idler # {} => \A r \in Runs : host[r] \notin Launching
  /\ \A a, b \in idler : a = b

\* How far the launching host is tells how far the record can be.
HostStage(r) ==
  /\ host[r] \in Launching \cup {"new", "created", "await"} => runner[r] = "none"
  /\ host[r] = "new" => phase[r] \in {"none", "bare", "stopped"}
  /\ host[r] \in Launching \cup {"created"} => phase[r] \in {"reserved", "stopped"}
  /\ host[r] = "await" => phase[r] \in {"pending", "stopped"}
  /\ phase[r] = "none" => host[r] = "new" /\ r \notin mark

\* How far the runner is tells the record, the lock and the workload.
RunnerStage(r) ==
  /\ lock[r] = "runner" <=> runner[r] \in {"launching", "forked"}
  /\ runner[r] \in {"none", "asked", "start"} =>
       leader[r] = "none" /\ phase[r] \notin {"launching", "running"}
  /\ runner[r] \in {"asked", "start"} => phase[r] \in {"pending", "stopped"}
  /\ runner[r] \in {"launching", "forked"} => phase[r] = "launching"
  /\ runner[r] = "launching" => leader[r] = "none"
  /\ runner[r] \in {"forked", "watch"} => Held(r)
  /\ runner[r] = "reap" => leader[r] = "zombie"
  /\ runner[r] \in {"reap", "final"} => ~GroupAlive(r)
  /\ runner[r] \in {"watch", "reap", "final"} => phase[r] \in {"running", "stopped"}

\* A group lives only between the launching record and its retirement.
GroupStage(r) ==
  /\ leader[r] = "none" => r \notin kids
  /\ phase[r] \in {"none", "bare", "reserved", "pending"} => leader[r] = "none"
  /\ phase[r] = "stopped" => ~GroupAlive(r)

\* The marker is there from registration to retirement, and the container that
\* a runner or a workload is in is the recorded one.
Tracked(r) ==
  /\ phase[r] = "pending" /\ (host[r] = "await" \/ runner[r] # "none") => r \in mark
  /\ phase[r] \in {"launching", "running"} => r \in mark
  /\ runner[r] \in Inside => cst = "running" /\ cid = rid[r]
  /\ runner[r] \in {"launching", "forked"} \/ GroupAlive(r) => Current(r)
  /\ rgen[r] <= cgen

\* A process number in use is used by one group.
OwnNumber ==
  \A r, q \in Runs : r # q /\ pgid[r] = pgid[q] /\ (Held(q) \/ GroupAlive(q)) =>
    ~Held(r) /\ ~GroupAlive(r)

\* The lock keeps a record that a stop has read, and a pidfd that was opened on
\* somebody else proves that the run's own leader is gone.
StopStage(r) ==
  /\ step[r] # "idle" => lock[r] \in Stoppers /\ phase[r] \in {"launching", "running"}
  /\ step[r] \in {"open", "armed"} => phase[r] = "running"
  /\ step[r] \in {"open", "armed"} /\ aim[r] # r => ~Held(r)
  /\ step[r] = "armed" => aim[r] = r

\* What the holder of the lifecycle lock has probed is not busy, and stays so.
Scanned ==
  /\ \A r, q \in Runs :
       host[r] = "scan" /\ RootOf[q] = RootOf[r] /\ q \notin scan => ~Busy(q)
  /\ \A r, q \in Runs : host[r] = "remove" => ~Busy(q)
  /\ \A root \in idler, q \in Runs : RootOf[q] = root /\ q \notin scan => ~Busy(q)

\* The inductive invariant.
IInv ==
  /\ TypeOK
  /\ LifecycleMutex
  /\ \A r \in Runs : /\ HostStage(r)  /\ RunnerStage(r) /\ GroupStage(r)
                     /\ Tracked(r)    /\ StopStage(r)
  /\ OwnNumber
  /\ Scanned
=============================================================================
