----------------------------- MODULE Supervisor -----------------------------
(***************************************************************************)
(* The supervisor of a shared container (containre/runtime/supervisor.py)  *)
(* and those who rely on it: hosts that wait for its readiness marker      *)
(* (docker.py, _wait_supervised_ready) and runners that check the marker   *)
(* again inside the container (runner.py).                                 *)
(*                                                                         *)
(* The marker is a file outside the container: it survives the container   *)
(* and names the generation, the init process, that wrote it.  The         *)
(* supervisor is that process.  It has one thread, which a signal handler  *)
(* interrupts between any two steps.  Who may create, replace and idle     *)
(* containers is the subject of ReuseExec.                                 *)
(***************************************************************************)
EXTENDS Naturals

CONSTANTS
  Runs,         \* runs that want the services
  MaxRestarts,  \* MAX_RESTARTS
  MaxGen        \* bound: starts of the container

ASSUME MaxRestartsAssumption == MaxRestarts \in Nat
ASSUME MaxGenAssumption == MaxGen \in Nat

VARIABLES
  cst,       \* the container
  gen,       \* its last init process
  marker,    \* generation in the readiness marker, 0 if there is no file
  pc,        \* what the supervisor does next
  up,        \* what answers: the sink, and the services the probe looks at
  stop,      \* _stop
  restarts,  \* recoveries of this supervisor
  run,       \* stage of each run
  reg        \* generation each run is registered against

daemon   == <<cst, gen>>
runs     == <<run, reg>>
vars     == <<daemon, marker, pc, up, stop, restarts, runs>>

\* Before bring_up has published, and between an outage and the next marker.
BringUp  == {"clear", "start", "setup", "verify", "verify_probe", "publish"}
Recovery == {"heal", "heal_probe", "recheck", "recheck_probe", "remark"}
Watching == {"sleep", "look", "look_probe", "mark", "unready"}

TypeOK ==
  /\ cst \in {"absent", "running", "stopped"}
  /\ gen \in 0..MaxGen /\ marker \in 0..MaxGen
  /\ pc \in BringUp \cup Recovery \cup Watching \cup {"off", "exited"}
  /\ up \in SUBSET {"sink", "service"} /\ stop \in {"no", "yes"}
  /\ restarts \in 0..(MaxRestarts + 1)
  /\ run \in [Runs -> {"new", "wait", "exec", "checked", "launched", "failed"}]
  /\ reg \in [Runs -> 0..MaxGen]

Init ==
  /\ cst = "absent" /\ gen = 0 /\ marker = 0
  /\ pc = "off" /\ up = {} /\ stop = "no" /\ restarts = 0
  /\ run = [r \in Runs |-> "new"] /\ reg = [r \in Runs |-> 0]

-----------------------------------------------------------------------------
(* The container.                                                          *)

Boot ==
  /\ gen < MaxGen
  /\ gen' = gen + 1
  /\ cst' = "running" /\ pc' = "clear"
  /\ up' = {} /\ stop' = "no" /\ restarts' = 0
  /\ UNCHANGED runs

\* _ensure_reuse_container: a stopped container is removed, the marker it may
\* have left is dropped, and docker run starts another one.
Create == cst # "running" /\ marker' = 0 /\ Boot

\* Somebody else starts the stopped container in place.
RestartedInPlace == cst = "stopped" /\ UNCHANGED marker /\ Boot

\* Killed: docker rm -f, out of memory, the end of docker stop's grace period.
Killed ==
  /\ cst = "running"
  /\ cst' = "stopped" /\ pc' = "off"
  /\ up' = {}
  /\ UNCHANGED <<gen, marker, stop, restarts, runs>>

\* The init process returns, and the container with it.
Exits ==
  /\ cst' = "stopped" /\ pc' = "exited"
  /\ up' = {}

-----------------------------------------------------------------------------
(* bring_up.                                                               *)

Continue(from, to) == pc = from /\ pc' = to

Clear ==
  /\ Continue("clear", "start")
  /\ marker' = 0
  /\ UNCHANGED <<daemon, up, stop, restarts, runs>>

\* _start_sink; an exception ends the process.
Start ==
  /\ \/ /\ Continue("start", "setup")
        /\ up' = up \cup {"sink"}
        /\ UNCHANGED cst
     \/ pc = "start" /\ Exits
  /\ UNCHANGED <<gen, marker, stop, restarts, runs>>

\* main shuts down and returns if bring_up returned False.
BringUpFails ==
  /\ Exits
  /\ stop' = "yes" /\ marker' = 0
  /\ UNCHANGED <<gen, restarts, runs>>

\* All setup commands exit 0, or bring_up fails.
Setup ==
  \/ /\ Continue("setup", "verify")
     /\ up' \in {up, up \cup {"service"}}
     /\ UNCHANGED <<daemon, marker, stop, restarts, runs>>
  \/ pc = "setup" /\ BringUpFails

\* The sink is asked, then the probe.
Asked(from, good, to) ==
  /\ good
  /\ Continue(from, to)
  /\ UNCHANGED <<daemon, marker, up, stop, restarts, runs>>

Verify ==
  \/ Asked("verify", "sink" \in up, "verify_probe")
  \/ Asked("verify_probe", "service" \in up, "publish")
  \/ pc = "verify" /\ "sink" \notin up /\ BringUpFails
  \/ pc = "verify_probe" /\ "service" \notin up /\ BringUpFails

-----------------------------------------------------------------------------
(* supervise and _recover.                                                 *)

\* _mark_ready: where the marker is written the last answers were good.
MarkReady ==
  /\ \E from \in {"publish", "mark", "remark"} : Continue(from, "sleep")
  /\ marker' = gen
  /\ UNCHANGED <<daemon, up, stop, restarts, runs>>

\* Mutant: the loop does not look at _stop.
SleepOn ==
  /\ Continue("sleep", "look")
  /\ UNCHANGED <<daemon, marker, up, stop, restarts, runs>>

Sleep ==
  /\ \/ stop = "yes" /\ pc = "sleep" /\ Exits
     \/ stop = "no" /\ Continue("sleep", "look") /\ UNCHANGED <<cst, up>>
  /\ UNCHANGED <<gen, marker, stop, restarts, runs>>

\* Mutant: the sink alone is looked at.
LookAtSink ==
  \/ Asked("look", "sink" \in up /\ marker = 0, "mark")
  \/ Asked("look", "sink" \in up /\ marker # 0, "sleep")
  \/ Asked("look", "sink" \notin up, "unready")

Look ==
  \/ Asked("look", "sink" \in up, "look_probe")
  \/ Asked("look_probe", "service" \in up /\ marker = 0, "mark")
  \/ Asked("look_probe", "service" \in up /\ marker # 0, "sleep")
  \/ Asked("look", "sink" \notin up, "unready")
  \/ Asked("look_probe", "service" \notin up, "unready")

\* Mutant: no limit on recoveries.
UnreadyForEver ==
  /\ pc = "unready"
  /\ marker' = 0
  /\ pc' = "heal"
  /\ UNCHANGED <<daemon, up, stop, restarts, runs>>

Unready ==
  /\ pc = "unready"
  /\ marker' = 0
  /\ restarts' = restarts + 1
  /\ IF restarts < MaxRestarts THEN pc' = "heal" /\ UNCHANGED <<cst, up>> ELSE Exits
  /\ UNCHANGED <<gen, stop, runs>>

\* A sink that does not answer is stopped and started again; an exception of
\* the start ends the process.
Heal ==
  /\ \/ Continue("heal", "heal_probe") /\ up' = up \cup {"sink"} /\ UNCHANGED cst
     \/ pc = "heal" /\ "sink" \notin up /\ Exits
  /\ UNCHANGED <<gen, marker, stop, restarts, runs>>

\* The setup commands are run again if the probe fails, whatever they return.
HealProbe ==
  /\ Continue("heal_probe", "recheck")
  /\ up' \in {up, up \cup {"service"}}
  /\ UNCHANGED <<daemon, marker, stop, restarts, runs>>

Recheck ==
  \/ Asked("recheck", "sink" \in up, "recheck_probe")
  \/ Asked("recheck_probe", "service" \in up, "remark")
  \/ Asked("recheck", "sink" \notin up, "sleep")
  \/ Asked("recheck_probe", "service" \notin up, "sleep")

\* The handler of SIGTERM, between any two steps: the loop notices _stop when
\* it comes to it.
Shutdown ==
  /\ cst = "running"
  /\ stop' = "yes"
  /\ marker' = 0
  /\ up' = up \ {"sink"}
  /\ UNCHANGED <<daemon, pc, restarts, runs>>

-----------------------------------------------------------------------------
(* Services fail, and a probe may also come good by itself.                *)

SinkFails ==
  /\ "sink" \in up /\ up' = up \ {"sink"}
  /\ UNCHANGED <<daemon, marker, pc, stop, restarts, runs>>

ServiceChanges ==
  /\ cst = "running"
  /\ up' = IF "service" \in up THEN up \ {"service"} ELSE up \cup {"service"}
  /\ UNCHANGED <<daemon, marker, pc, stop, restarts, runs>>

-----------------------------------------------------------------------------
(* Runs.                                                                   *)

RunGoes(r, from, to) == run[r] = from /\ run' = [run EXCEPT ![r] = to]

\* _start_reused, under the lifecycle lock.
Register(r) ==
  /\ cst = "running"
  /\ RunGoes(r, "new", "wait")
  /\ reg' = [reg EXCEPT ![r] = gen]
  /\ UNCHANGED <<daemon, marker, pc, up, stop, restarts>>

\* Mutant: any marker will do, as before markers had a generation.
AnyMarker(r) == marker # 0

\* The marker names the generation the run is registered against.
ReadyFor(r) == marker = reg[r]

WaitReady(r) ==
  /\ ReadyFor(r)
  /\ RunGoes(r, "wait", "exec")
  /\ UNCHANGED <<daemon, marker, pc, up, stop, restarts, reg>>

\* The container is not running, the run was cancelled, or ready_timeout_s over.
WaitFails(r) ==
  /\ RunGoes(r, "wait", "failed")
  /\ UNCHANGED <<daemon, marker, pc, up, stop, restarts, reg>>

\* The runner r was started by docker exec, which reaches whatever container
\* runs, and lives as long as that container does.
InPlace(r) == cst = "running" /\ gen = reg[r]

\* The runner in the container compares the init process with the record, and
\* the marker with both.
Check(r) ==
  /\ InPlace(r) /\ ReadyFor(r)
  /\ RunGoes(r, "exec", "checked")
  /\ UNCHANGED <<daemon, marker, pc, up, stop, restarts, reg>>

\* It looks at the marker no more: what the supervisor does until Popen, which
\* shares no lock with it, changes nothing.
Launch(r) ==
  /\ InPlace(r)
  /\ RunGoes(r, "checked", "launched")
  /\ UNCHANGED <<daemon, marker, pc, up, stop, restarts, reg>>

\* The check fails, or the container has taken the runner with it.
LaunchFails(r) ==
  /\ \/ ~ReadyFor(r) /\ RunGoes(r, "exec", "failed")
     \/ ~InPlace(r) /\ \E from \in {"exec", "checked"} : RunGoes(r, from, "failed")
  /\ UNCHANGED <<daemon, marker, pc, up, stop, restarts, reg>>

-----------------------------------------------------------------------------
Supervise == \/ Clear \/ Start \/ Setup \/ Verify \/ MarkReady \/ Sleep \/ Look
             \/ Unready \/ Heal \/ HealProbe \/ Recheck

Environment == \/ Create \/ RestartedInPlace \/ Killed \/ Shutdown
               \/ SinkFails \/ ServiceChanges

RunStep(r) == \/ Register(r) \/ WaitReady(r) \/ WaitFails(r)
              \/ Check(r) \/ Launch(r) \/ LaunchFails(r)

Next == Supervise \/ Environment \/ \E r \in Runs : RunStep(r)

Spec == Init /\ [][Next]_vars

\* Setup commands and probes have timeouts, so the supervisor goes on.
FairSpec == Spec /\ WF_vars(Supervise)

-----------------------------------------------------------------------------
(* Properties.                                                             *)

\* The runner fails closed: whatever markers other generations left, its check
\* passes neither while the supervisor of its container brings services up nor
\* while it repairs them, and no workload starts before bring-up has published
\* in the generation it runs in.  A launch whose check has passed may meet a repair.
LaunchFailsClosed ==
  [][\A r \in Runs : /\ Check(r) => pc \notin BringUp \cup Recovery
                     /\ Launch(r) => pc \notin BringUp]_vars

\* The inductive invariant: the marker never names a generation to come; while
\* services are brought up or repaired it does not name this one; and a runner
\* that has passed its check does not meet bring-up.
SupInv ==
  /\ TypeOK
  /\ marker <= gen
  /\ cst = "running" <=> pc \in BringUp \cup Recovery \cup Watching
  /\ cst = "running" => gen > 0 /\ restarts <= MaxRestarts
  /\ pc \in BringUp \cup Recovery => marker # gen
  /\ \A r \in Runs : /\ reg[r] <= gen
                     /\ run[r] = "checked" /\ InPlace(r) => pc \notin BringUp

\* An outage does not stay behind a marker.
OutageNoticed ==
  cst = "running" /\ marker = gen /\ up # {"sink", "service"} ~>
    cst # "running" \/ marker # gen \/ up = {"sink", "service"}

\* Bring-up and recovery come to an end: the services are ready again, or the
\* container is gone and can be replaced.
Settles == pc \in BringUp \cup Recovery ~> cst # "running" \/ marker = gen

\* A supervisor that is told to stop stops, wherever the signal meets it.
StopEnds == stop = "yes" ~> cst # "running"
=============================================================================
