----------------------------- MODULE ReuseExec -----------------------------
(***************************************************************************)
(* Executions in a shared ("reuse") Docker container.                      *)
(*                                                                         *)
(* Many runs share one container.  For each run a host process (the CLI or *)
(* the API server) reserves a run directory, ensures the container,        *)
(* registers the launch and asks the daemon to exec an in-container        *)
(* runner; the runner launches the workload as the leader of a new process *)
(* group, watches it, drains the group and retires the record.  Any number *)
(* of other host processes may at any time kill, reap or pre-emptively     *)
(* cancel a run, retire the container when it is idle, or replace it for a *)
(* run that needs another configuration.  They meet in the durable record  *)
(* <run_dir>/execution.json, under a file lock per run and one lifecycle   *)
(* lock per container name (containre/runtime/{reuse,execution,docker}.py, *)
(* containre/tracer/runner.py).                                            *)
(*                                                                         *)
(* A step is what happens between two points where another process can     *)
(* intervene; what one process does under a lock and nobody can see half   *)
(* done is one step, with its crash in the middle as another outcome.      *)
(* Every process may die at every step, the container may die or be        *)
(* restarted by somebody else, and every call of the Docker daemon may     *)
(* fail or lose its reply.                                                 *)
(***************************************************************************)
EXTENDS Naturals, FiniteSets

CONSTANTS
  Runs,       \* run ids
  Roots,      \* runs roots: a lister only sees the runs of one root
  Configs,    \* creation-time configurations of the container (their hashes)
  PGIDs,      \* process numbers a workload leader can get
  NoPGID,     \* no number yet
  RootOf,     \* the root a run is created under
  ConfigOf,   \* the container configuration a run asks for
  MaxGen      \* bound: container generations (creations and restarts)

ASSUME RootOfAssumption   == RootOf \in [Runs -> Roots]
ASSUME ConfigOfAssumption == ConfigOf \in [Runs -> Configs]
\* _reuse_config_hash hashes the runs root, which the container mounts.
ASSUME RootInConfig == \A r, q \in Runs : RootOf[r] # RootOf[q] => ConfigOf[r] # ConfigOf[q]
ASSUME MaxGenAssumption == MaxGen \in Nat
ASSUME PGIDsAssumption  == PGIDs # {} /\ NoPGID \notin PGIDs

VARIABLES
  \* the container
  cst,      \* "absent", "running" or "stopped"
  cid,      \* which creation of the container this is (its immutable id)
  cgen,     \* its generation: a new init process, by creation or restart
  ccfg,     \* the set holding the configuration it was created with
  \* <run_dir> on the host, shared with the container
  phase,    \* execution.json: "none" no directory, "bare" no record in it
  rid,      \* identity the launch was registered against: container id ...
  rgen,     \* ... and generation
  mark,     \* runs with a reuse_container marker
  owner,    \* runs with an owner file; the process it names may die unseen
  \* locks and the host processes
  lock,     \* who holds the execution lock of the run
  step,     \* how far the control() of the _stop_run that holds it has come
  aim,      \* the run whose leader the pidfd of that control() names
  scan,     \* runs the lifecycle holder's is_busy has yet to probe
  idler,    \* root of the stop_if_idle holding the lifecycle lock, if any
  host,     \* the launching host process of the run
  \* inside the container
  runner,   \* the run's in-container runner
  leader,   \* the workload's group leader
  kids,     \* runs whose group has live members besides the leader
  pgid      \* the leader's process number, hence the group's

container == <<cst, cid, cgen, ccfg>>
record    == <<phase, rid, rgen>>
tracking  == <<mark, owner>>
locks     == <<lock, step, aim>>
lifecycle == <<scan, idler>>
workload  == <<leader, kids, pgid>>
vars == <<container, record, tracking, locks, lifecycle, host, runner, workload>>

Stoppers  == {"host", "kill", "reap"}
Launching == {"scan", "remove", "create", "identify"}
Inside    == {"start", "launching", "forked", "watch", "reap", "final"}

TypeOK ==
  /\ cst \in {"absent", "running", "stopped"}
  /\ cid \in 0..MaxGen /\ cgen \in 0..MaxGen /\ ccfg \in SUBSET Configs
  /\ phase \in [Runs -> {"none", "bare", "reserved", "pending", "launching",
                         "running", "stopped"}]
  /\ rid \in [Runs -> 0..MaxGen] /\ rgen \in [Runs -> 0..MaxGen]
  /\ mark \in SUBSET Runs /\ owner \in SUBSET Runs
  /\ lock \in [Runs -> Stoppers \cup {"free", "runner"}]
  /\ step \in [Runs -> {"idle", "ask", "open", "armed"}] /\ aim \in [Runs -> Runs]
  /\ scan \in SUBSET Runs /\ idler \in SUBSET Roots
  /\ host \in [Runs -> Launching \cup {"new", "created", "await", "watch", "done"}]
  /\ runner \in [Runs -> Inside \cup {"none", "asked", "done"}]
  /\ leader \in [Runs -> {"none", "live", "zombie", "reaped"}]
  /\ kids \in SUBSET Runs
  /\ pgid \in [Runs -> PGIDs \cup {NoPGID}]

Init ==
  /\ cst = "absent" /\ cid = 0 /\ cgen = 0 /\ ccfg = {}
  /\ phase = [r \in Runs |-> "none"]
  /\ rid = [r \in Runs |-> 0] /\ rgen = [r \in Runs |-> 0]
  /\ mark = {} /\ owner = {}
  /\ lock = [r \in Runs |-> "free"] /\ step = [r \in Runs |-> "idle"]
  /\ aim = [r \in Runs |-> r]
  /\ scan = {} /\ idler = {}
  /\ host = [r \in Runs |-> "new"] /\ runner = [r \in Runs |-> "none"]
  /\ leader = [r \in Runs |-> "none"] /\ kids = {}
  /\ pgid = [r \in Runs |-> NoPGID]

-----------------------------------------------------------------------------
(* Process groups and what a probe of one can find out.                    *)

Held(r)       == leader[r] \in {"live", "zombie"}  \* its number names the leader
GroupAlive(r) == leader[r] = "live" \/ r \in kids
Members(p)    == {q \in Runs : pgid[q] = p /\ GroupAlive(q)}
\* The kernel gives out a number only when no process or group uses it.
FreeNumber(p) == \A q \in Runs : pgid[q] = p => ~Held(q) /\ ~GroupAlive(q)

\* control(): the group with the recorded number is provably not this run's
\* any more: nobody is in it, or its leader has another start token.
GroupGone(r) == \/ Members(pgid[r]) = {}
                \/ \E q \in Runs \ {r} : pgid[q] = pgid[r] /\ Held(q)

\* The container a launch was registered against is the one there is now: same
\* id (or the exec fails and the listing is empty), same init process.
Current(r) == cst = "running" /\ cid = rid[r] /\ cgen = rgen[r]

ControlGone(r) == ~Current(r) \/ (phase[r] = "running" /\ GroupGone(r))

\* Mutant: killpg on the recorded number.
VictimsByNumber(r) == {q \in Runs : pgid[q] = pgid[r]}

\* The groups a signal through the pidfd reaches.
Victims(r) == {aim[r]}


\* What is left of the groups in S after TERM and KILL; D-state processes and
\* late forks may survive.
Signal(S) ==
  /\ leader' = [q \in Runs |-> IF q \in S /\ leader[q] = "live"
                               THEN "zombie" ELSE leader[q]]
  /\ kids' = kids \ S
  /\ UNCHANGED pgid

\* The container's init process is gone, and everything in it: runners,
\* workloads, and the locks the runners held.
Vanish ==
  /\ leader' = [q \in Runs |-> IF leader[q] = "none" THEN "none" ELSE "reaped"]
  /\ kids' = {}
  /\ runner' = [q \in Runs |-> IF runner[q] \in Inside THEN "done" ELSE runner[q]]
  /\ lock' = [q \in Runs |-> IF lock[q] = "runner" THEN "free" ELSE lock[q]]
  /\ UNCHANGED <<pgid, step, aim>>

-----------------------------------------------------------------------------
(* The launching host process: create_run, then DockerRuntime._start_reused. *)

LifecycleFree == idler = {} /\ \A r \in Runs : host[r] \notin Launching

\* Mutant: mkdir(exist_ok=True), so that a tombstone is overwritten.
CreateRunOverwrite(r) ==
  /\ host[r] = "new" /\ lock[r] = "free"
  /\ phase' = [phase EXCEPT ![r] = "reserved"]
  /\ host' = [host EXCEPT ![r] = "created"]
  /\ UNCHANGED <<container, rid, rgen, tracking, locks, lifecycle, runner, workload>>

\* An exclusive mkdir and the reserved record, under the execution lock; a
\* crash between the two leaves a directory without a record.  A directory
\* that exists, a cancellation tombstone included, ends the launch: calling
\* again with a used run id does nothing.
CreateRun(r) ==
  /\ host[r] = "new" /\ lock[r] = "free"
  /\ \/ /\ phase[r] = "none"
        /\ \/ /\ phase' = [phase EXCEPT ![r] = "reserved"]
              /\ host' = [host EXCEPT ![r] = "created"]
           \/ /\ phase' = [phase EXCEPT ![r] = "bare"]
              /\ host' = [host EXCEPT ![r] = "done"]
     \/ /\ phase[r] # "none"
        /\ host' = [host EXCEPT ![r] = "done"]
        /\ UNCHANGED phase
  /\ UNCHANGED <<container, rid, rgen, tracking, locks, lifecycle, runner, workload>>

\* Take the lifecycle lock and inspect the container.
EnterLifecycle(r) ==
  /\ host[r] = "created" /\ LifecycleFree
  /\ \/ /\ cst # "absent" /\ ccfg # {ConfigOf[r]}
        /\ host' = [host EXCEPT ![r] = "scan"]
        /\ scan' = {q \in mark : RootOf[q] = RootOf[r]}
     \/ /\ cst # "absent" /\ ccfg = {ConfigOf[r]}
        /\ host' = [host EXCEPT ![r] = IF cst = "running" THEN "identify" ELSE "remove"]
        /\ UNCHANGED scan
     \/ /\ cst = "absent"
        /\ host' = [host EXCEPT ![r] = "create"]
        /\ UNCHANGED scan
  /\ UNCHANGED <<container, record, tracking, locks, idler, runner, workload>>

\* docker rm -f: of a container with another configuration once is_busy found
\* no live exec, or of one that was seen stopped.
RemoveContainer(r) ==
  /\ \/ host[r] = "scan" /\ scan = {}
     \/ host[r] = "remove"
  /\ cst' = "absent" /\ ccfg' = {}
  /\ Vanish
  /\ host' = [host EXCEPT ![r] = "create"]
  /\ UNCHANGED <<cid, cgen, record, tracking, lifecycle>>

\* docker run of a fresh container.
CreateContainer(r) ==
  /\ host[r] = "create" /\ cst = "absent" /\ cgen < MaxGen
  /\ cst' = "running" /\ ccfg' = {ConfigOf[r]}
  /\ cgen' = cgen + 1 /\ cid' = cgen + 1
  /\ host' = [host EXCEPT ![r] = "identify"]
  /\ UNCHANGED <<record, tracking, locks, lifecycle, runner, workload>>

\* Mutant: registration takes the lifecycle lock that it already holds.
RegisterNested(r) ==
  /\ host[r] = "identify" /\ cst = "running" /\ lock[r] = "free" /\ LifecycleFree
  /\ phase' = [phase EXCEPT ![r] = "pending"]
  /\ rid' = [rid EXCEPT ![r] = cid] /\ rgen' = [rgen EXCEPT ![r] = cgen]
  /\ mark' = mark \cup {r}
  /\ host' = [host EXCEPT ![r] = "await"]
  /\ UNCHANGED <<container, owner, locks, lifecycle, runner, workload>>

\* container_identity refuses a container that is not running; then, under
\* the execution lock too, reserved becomes pending and reuse.mark writes the
\* marker.  A record that was cancelled meanwhile is refused; a crash between
\* record and marker leaves a pending run nobody lists.
Register(r) ==
  /\ host[r] = "identify" /\ cst = "running" /\ lock[r] = "free"
  /\ \/ /\ phase[r] = "reserved"
        /\ phase' = [phase EXCEPT ![r] = "pending"]
        /\ rid' = [rid EXCEPT ![r] = cid] /\ rgen' = [rgen EXCEPT ![r] = cgen]
        /\ \/ /\ mark' = mark \cup {r}
              /\ host' = [host EXCEPT ![r] = "await"]
           \/ /\ UNCHANGED mark
              /\ host' = [host EXCEPT ![r] = "done"]
     \/ /\ phase[r] # "reserved"
        /\ host' = [host EXCEPT ![r] = "done"]
        /\ UNCHANGED <<record, mark>>
  /\ UNCHANGED <<container, owner, locks, lifecycle, runner, workload>>

\* The readiness wait ended well: name an owner if the policy has one, and
\* start the docker exec client.
Exec(r) ==
  /\ host[r] = "await"
  /\ owner' \in {owner, owner \cup {r}}
  /\ runner' = [runner EXCEPT ![r] = "asked"]
  /\ host' = [host EXCEPT ![r] = "watch"]
  /\ UNCHANGED <<container, record, mark, locks, lifecycle, workload>>

\* It ended by timeout, a dead container or a cancelled record:
\* _abandon_pending fences the launch and drops its marker.
Abandon(r) ==
  /\ host[r] = "await" /\ lock[r] = "free"
  /\ phase[r] \in {"reserved", "pending", "stopped"}
  /\ phase' = [phase EXCEPT ![r] = "stopped"]
  /\ mark' = mark \ {r}
  /\ owner' = owner \ {r}
  /\ host' = [host EXCEPT ![r] = "done"]
  /\ UNCHANGED <<container, rid, rgen, locks, lifecycle, runner, workload>>

\* The host process returns, fails or dies, anywhere: the kernel drops its
\* locks.
HostGone(r) ==
  /\ host[r] \notin {"new", "done"}
  /\ host' = [host EXCEPT ![r] = "done"]
  /\ lock' = [lock EXCEPT ![r] = IF @ = "host" THEN "free" ELSE @]
  /\ step' = [step EXCEPT ![r] = IF lock[r] = "host" THEN "idle" ELSE @]
  /\ aim' = [aim EXCEPT ![r] = IF lock[r] = "host" THEN r ELSE @]
  /\ scan' = IF host[r] = "scan" THEN {} ELSE scan
  /\ UNCHANGED <<container, record, tracking, idler, runner, workload>>

-----------------------------------------------------------------------------
(* is_busy and stop_if_idle, under the lifecycle lock.                     *)

IdleBegin(root) ==
  /\ LifecycleFree
  /\ idler' = {root}
  /\ scan' = {q \in mark : RootOf[q] = root}
  /\ UNCHANGED <<container, record, tracking, locks, host, runner, workload>>

\* Mutant: a launch that has no process yet is not live.
ProbeGoneUnlaunched(r) ==
  /\ r \in scan
  /\ \/ phase[r] \in {"reserved", "pending", "stopped"}
     \/ phase[r] \in {"launching", "running"} /\ ControlGone(r)
  /\ scan' = scan \ {r}
  /\ UNCHANGED <<container, record, tracking, locks, idler, host, runner, workload>>

\* list_live skips a run only if its record is retired or control proves the
\* recorded execution gone; everything else counts as live.
ProbeGone(r) ==
  /\ r \in scan
  /\ \/ phase[r] = "stopped"
     \/ phase[r] \in {"launching", "running"} /\ ControlGone(r)
  /\ scan' = scan \ {r}
  /\ UNCHANGED <<container, record, tracking, locks, idler, host, runner, workload>>

\* docker stop, once every run of the root was found gone.
IdleStop ==
  /\ idler # {} /\ scan = {} /\ cst # "absent"
  /\ cst' = "stopped"
  /\ Vanish
  /\ idler' = {}
  /\ UNCHANGED <<cid, cgen, ccfg, record, tracking, scan, host>>

\* Busy, not idle for long enough, docker stop failed, or the process died.
IdleGiveUp ==
  /\ idler # {}
  /\ idler' = {} /\ scan' = {}
  /\ UNCHANGED <<container, record, tracking, locks, host, runner, workload>>

-----------------------------------------------------------------------------
(* _stop_run, for its four callers.                                        *)

MayStop(r, who) ==
  \/ who = "host" /\ host[r] = "watch" /\ r \in mark     \* DockerRuntime.stop
  \/ who = "kill" /\ r \in mark                          \* reuse kill
  \/ who = "kill" /\ phase[r] # "none"                    \* reuse kill --reserve-cancel
  \/ who = "reap" /\ r \in mark \cap owner               \* reuse reap

\* Retire the record.  reap and DockerRuntime.stop then drop marker and
\* owner, unless they die first; kill leaves them.
Retire(r, who) ==
  /\ phase' = [phase EXCEPT ![r] = "stopped"]
  /\ \/ /\ who \in {"host", "reap"}
        /\ mark' = mark \ {r}
        /\ owner' = owner \ {r}
     \/ UNCHANGED tracking

\* Mutant: no finally around the locked section.
FreeLockNever(r) ==
  /\ step' = [step EXCEPT ![r] = "idle"] /\ aim' = [aim EXCEPT ![r] = r]
  /\ UNCHANGED lock

FreeLock(r) == /\ lock' = [lock EXCEPT ![r] = "free"]
               /\ step' = [step EXCEPT ![r] = "idle"]
               /\ aim' = [aim EXCEPT ![r] = r]

\* Mutant: a failed stop drops the owner, so that reap does not retry.
StopReplyDisowns(r, confirmed) ==
  /\ IF confirmed THEN Retire(r, lock[r])
     ELSE owner' = owner \ {r} /\ UNCHANGED <<phase, mark>>
  /\ FreeLock(r)

\* Confirmed or not, the lock is released; unconfirmed, tracking stays.
StopReply(r, confirmed) ==
  /\ IF confirmed THEN Retire(r, lock[r]) ELSE UNCHANGED <<phase, tracking>>
  /\ FreeLock(r)

\* A launch that has not started is fenced by the record alone.
StopUnstarted(r, who) ==
  /\ lock[r] = "free" /\ MayStop(r, who)
  /\ phase[r] \in {"reserved", "pending", "stopped"}
  /\ Retire(r, who)
  /\ UNCHANGED <<container, rid, rgen, locks, lifecycle, host, runner, workload>>

\* A started one needs control(), under the lock.  A record that cannot be
\* read is never taken for a stopped run.
StopEnter(r, who) ==
  /\ lock[r] = "free" /\ MayStop(r, who)
  /\ phase[r] \in {"launching", "running"}
  /\ lock' = [lock EXCEPT ![r] = who]
  /\ step' = [step EXCEPT ![r] = "ask"]
  /\ UNCHANGED <<aim, container, record, tracking, lifecycle, host, runner, workload>>

\* --reserve-cancel before the run exists: the tombstone is its directory, and
\* fences even when a crash leaves it without a record.
Tombstone(r) ==
  /\ lock[r] = "free" /\ phase[r] = "none"
  /\ \E ph \in {"stopped", "bare"} : phase' = [phase EXCEPT ![r] = ph]
  /\ UNCHANGED <<container, rid, rgen, tracking, locks, lifecycle, host, runner, workload>>

\* control() inside the recorded container.  It opens a pidfd by the recorded
\* number, whoever has the number now ...
StopOpen(r) ==
  /\ step[r] = "ask" /\ Current(r) /\ phase[r] = "running"
  /\ \E q \in Runs : /\ pgid[q] = pgid[r] /\ Held(q)
                     /\ aim' = [aim EXCEPT ![r] = q]
  /\ step' = [step EXCEPT ![r] = "open"]
  /\ UNCHANGED <<container, record, tracking, lock, lifecycle, host, runner, workload>>

\* ... then compares the start token of the number with the recorded one, and
\* looks whether the group has a member.
StopMatch(r) ==
  /\ step[r] = "open" /\ Current(r) /\ Held(r) /\ GroupAlive(r)
  /\ step' = [step EXCEPT ![r] = "armed"]
  /\ UNCHANGED <<container, record, tracking, lock, aim, lifecycle, host, runner, workload>>

\* Mutant: no answer counts as gone.
StopAnswerOptimist(r) ==
  /\ step[r] \in {"ask", "open"}
  /\ StopReply(r, TRUE)
  /\ UNCHANGED <<container, rid, rgen, lifecycle, host, runner, workload>>

\* Up to there the answer is "gone" for good reasons only; a daemon failure or
\* an identity that it cannot establish is "unknown".
StopAnswer(r) ==
  /\ step[r] \in {"ask", "open"}
  /\ \/ ControlGone(r) /\ StopReply(r, TRUE)
     \/ StopReply(r, FALSE)
  /\ UNCHANGED <<container, rid, rgen, lifecycle, host, runner, workload>>

\* From the first signal on: the pidfd's group gets TERM and KILL.  The reply
\* counts only if it finds the number without members and arrives; the signals
\* may work without it.
StopSignal(r) ==
  /\ step[r] = "armed"
  /\ \/ /\ Current(r)
        /\ \E S \in SUBSET Victims(r), arrives \in BOOLEAN :
             /\ Signal(S)
             /\ StopReply(r, Members(pgid[r]) \subseteq S /\ arrives)
     \/ /\ ~Current(r)
        /\ \E answered \in BOOLEAN : StopReply(r, answered)
        /\ UNCHANGED workload
  /\ UNCHANGED <<container, rid, rgen, lifecycle, host, runner>>

\* The stopping process (not the launcher, see HostGone) dies.
StopCrash(r) ==
  /\ lock[r] \in {"kill", "reap"}
  /\ FreeLock(r)
  /\ UNCHANGED <<container, record, tracking, lifecycle, host, runner, workload>>

-----------------------------------------------------------------------------
(* The in-container runner: _run_reused_workload.                          *)

\* The daemon starts the exec in the container it was asked for, however late.
RunnerStart(r) ==
  /\ runner[r] = "asked" /\ cst = "running" /\ cid = rid[r]
  /\ runner' = [runner EXCEPT ![r] = "start"]
  /\ UNCHANGED <<container, record, tracking, locks, lifecycle, host, workload>>

\* Mutant: the generation is not compared.
RunnerCheckAnyGeneration(r) ==
  /\ runner[r] = "start" /\ lock[r] = "free"
  /\ phase[r] = "pending"
  /\ phase' = [phase EXCEPT ![r] = "launching"]
  /\ runner' = [runner EXCEPT ![r] = "launching"]
  /\ lock' = [lock EXCEPT ![r] = "runner"]
  /\ UNCHANGED <<container, rid, rgen, tracking, step, aim, lifecycle, host, workload>>

\* Under the execution lock: a cancelled record, a record that is not pending,
\* another generation, services that are not ready or a kernel without group
\* signals end the run; otherwise the intent to launch is made durable and
\* the lock kept.
RunnerCheck(r) ==
  /\ runner[r] = "start" /\ lock[r] = "free"
  /\ \/ /\ phase[r] = "pending" /\ cgen = rgen[r]
        /\ phase' = [phase EXCEPT ![r] = "launching"]
        /\ runner' = [runner EXCEPT ![r] = "launching"]
        /\ lock' = [lock EXCEPT ![r] = "runner"]
     \/ /\ runner' = [runner EXCEPT ![r] = "done"]
        /\ UNCHANGED <<phase, lock>>
  /\ UNCHANGED <<container, rid, rgen, tracking, step, aim, lifecycle, host, workload>>

\* Popen(start_new_session=True).
Popen(r) ==
  /\ runner[r] = "launching"
  /\ \E p \in PGIDs :
       /\ FreeNumber(p)
       /\ pgid' = [pgid EXCEPT ![r] = p]
  /\ leader' = [leader EXCEPT ![r] = "live"]
  /\ runner' = [runner EXCEPT ![r] = "forked"]
  /\ UNCHANGED <<container, record, tracking, locks, lifecycle, host, kids>>

\* Record pgid and start token, release the lock; or fail at it, killing and
\* reaping the own child.
RunnerRecord(r) ==
  /\ runner[r] = "forked"
  /\ \/ /\ phase' = [phase EXCEPT ![r] = "running"]
        /\ runner' = [runner EXCEPT ![r] = "watch"]
        /\ UNCHANGED workload
     \/ /\ \E ph \in {"launching", "running"} : phase' = [phase EXCEPT ![r] = ph]
        /\ runner' = [runner EXCEPT ![r] = "done"]
        /\ leader' = [leader EXCEPT ![r] = "reaped"]
        /\ kids' = kids \ {r}
        /\ UNCHANGED pgid
  /\ lock' = [lock EXCEPT ![r] = "free"]
  /\ UNCHANGED <<container, rid, rgen, tracking, step, aim, lifecycle, host>>

\* The leader exited or the wallclock limit passed: drain the group.  The
\* leader is the runner's unreaped child, so its identity cannot be lost.
RunnerDrain(r) ==
  /\ runner[r] = "watch"
  /\ \E S \in SUBSET Victims(r) :
       /\ Signal(S)
       /\ runner' = [runner EXCEPT ![r] =
            IF r \in S \/ ~GroupAlive(r) THEN "reap" ELSE "done"]
  /\ UNCHANGED <<container, record, tracking, locks, lifecycle, host>>

\* Mutant: the leader is reaped as soon as it exits.
RunnerReapEarly(r) ==
  /\ runner[r] = "watch" /\ leader[r] = "zombie"
  /\ leader' = [leader EXCEPT ![r] = "reaped"]
  /\ runner' = [runner EXCEPT ![r] = "final"]
  /\ UNCHANGED <<container, record, tracking, locks, lifecycle, host, kids, pgid>>

RunnerReap(r) ==
  /\ runner[r] = "reap"
  /\ leader' = [leader EXCEPT ![r] = "reaped"]
  /\ runner' = [runner EXCEPT ![r] = "final"]
  /\ UNCHANGED <<container, record, tracking, locks, lifecycle, host, kids, pgid>>

\* Retire the record, under the lock.
RunnerFinal(r) ==
  /\ runner[r] = "final" /\ lock[r] = "free"
  /\ phase' = [phase EXCEPT ![r] = "stopped"]
  /\ runner' = [runner EXCEPT ![r] = "done"]
  /\ UNCHANGED <<container, rid, rgen, tracking, locks, lifecycle, host, workload>>

\* The exec never starts, the runner raises (Popen of a missing program
\* included) or is killed.
RunnerGone(r) ==
  /\ runner[r] \in Inside \cup {"asked"}
  /\ runner' = [runner EXCEPT ![r] = "done"]
  /\ lock' = [lock EXCEPT ![r] = IF @ = "runner" THEN "free" ELSE @]
  /\ UNCHANGED <<container, record, tracking, step, aim, lifecycle, host, workload>>

-----------------------------------------------------------------------------
(* The environment: workloads and the container.                           *)

LeaderExit(r) ==
  /\ leader[r] = "live"
  /\ leader' = [leader EXCEPT ![r] = "zombie"]
  /\ UNCHANGED <<container, record, tracking, locks, lifecycle, host, runner, kids, pgid>>

\* Members fork and exit.
Kids(r) ==
  /\ GroupAlive(r)
  /\ kids' \in {kids \cup {r}, kids \ {r}}
  /\ UNCHANGED <<container, record, tracking, locks, lifecycle, host, runner, leader, pgid>>

\* Once the runner is gone the container's init adopts the leader.
InitReap(r) ==
  /\ leader[r] = "zombie" /\ runner[r] = "done"
  /\ leader' = [leader EXCEPT ![r] = "reaped"]
  /\ UNCHANGED <<container, record, tracking, locks, lifecycle, host, runner, kids, pgid>>

\* OOM, daemon crash, docker kill or rm by somebody else, a docker stop or
\* rm that the daemon completes after its client timed out.
ContainerDies ==
  /\ cst = "running"
  /\ \/ cst' = "stopped" /\ UNCHANGED ccfg
     \/ cst' = "absent" /\ ccfg' = {}
  /\ Vanish
  /\ UNCHANGED <<cid, cgen, record, tracking, lifecycle, host>>

\* docker start, or a daemon restart, by somebody else.
ContainerRestarts ==
  /\ cst = "stopped" /\ cgen < MaxGen
  /\ cst' = "running" /\ cgen' = cgen + 1
  /\ UNCHANGED <<cid, ccfg, record, tracking, locks, lifecycle, host, runner, workload>>

-----------------------------------------------------------------------------
HostStep(r) == \/ CreateRun(r) \/ EnterLifecycle(r) \/ RemoveContainer(r)
               \/ CreateContainer(r) \/ Register(r) \/ Exec(r) \/ Abandon(r)
               \/ HostGone(r)

StopStep(r) == \/ \E who \in Stoppers : StopUnstarted(r, who) \/ StopEnter(r, who)
               \/ Tombstone(r) \/ StopOpen(r) \/ StopMatch(r) \/ StopAnswer(r)
               \/ StopSignal(r) \/ StopCrash(r)

RunnerStep(r) == \/ RunnerStart(r) \/ RunnerCheck(r) \/ Popen(r) \/ RunnerRecord(r)
                 \/ RunnerDrain(r) \/ RunnerReap(r) \/ RunnerFinal(r) \/ RunnerGone(r)

WorkloadStep(r) == LeaderExit(r) \/ Kids(r) \/ InitReap(r)

LifecycleStep == \/ \E root \in Roots : IdleBegin(root)
                 \/ \E r \in Runs : ProbeGone(r)
                 \/ IdleStop \/ IdleGiveUp

Next == \/ \E r \in Runs : HostStep(r) \/ StopStep(r) \/ RunnerStep(r) \/ WorkloadStep(r)
        \/ LifecycleStep
        \/ ContainerDies \/ ContainerRestarts

Spec == Init /\ [][Next]_vars

-----------------------------------------------------------------------------
(* Properties.                                                             *)

\* What must not lose its container: a live workload, or a listed launch that
\* is still to come.
Busy(r) == \/ GroupAlive(r)
           \/ r \in mark /\ phase[r] \in {"pending", "launching"} /\ Current(r)

\* A retired record means the group is gone: nobody who was told "stopped"
\* (and releases capacity for it) has a workload left, whatever became of
\* daemon replies, process numbers and container generations.
RetiredIsGone == \A r \in Runs : phase[r] = "stopped" => ~GroupAlive(r)

\* A live workload keeps its marker, so that lists, the busy guard and later
\* stops see it, and it runs in the very container its record names, so that
\* control() there can find it.
TrackedWhileAlive == \A r \in Runs : GroupAlive(r) => r \in mark /\ Current(r)

\* The zombie leader anchors the group's identity: only when the runner was
\* lost too can members outlive the process that names them.
Anchored == \A r \in Runs : r \in kids /\ ~Held(r) => runner[r] = "done"

\* A stop signals no group but that of its own run, even if the process number
\* in the record was given to another run between the check and the signal.
SignalsOwnGroup ==
  [][\A r, q \in Runs : StopSignal(r) /\ q # r =>
       leader'[q] = leader[q] /\ (q \in kids' <=> q \in kids)]_vars

\* Replacing or idling the container never takes down a busy run created under
\* the same runs root.
PeersSurvive ==
  [][/\ \A r, q \in Runs : RemoveContainer(r) /\ RootOf[q] = RootOf[r] => ~Busy(q)
     /\ \A q \in Runs : IdleStop /\ RootOf[q] \in idler => ~Busy(q)]_vars

\* "A changed configuration is refused while runs are live": whatever root
\* they were created under.
ChangeRefusedWhileLive ==
  [][\A r, q \in Runs : RemoveContainer(r) => ~GroupAlive(q)]_vars

\* The record is a fence in the sense of ExecFence.
FenceState(r) == CASE phase[r] = "stopped" -> "retired"
                   [] phase[r] # "stopped" /\ leader[r] # "none" -> "launched"
                   [] phase[r] \in {"none", "bare"} /\ leader[r] = "none" -> "open"
                   [] OTHER -> "admitted"
Fence == INSTANCE ExecFence WITH
           fence <- [r \in Runs |-> FenceState(r)],
           live  <- {r \in Runs : GroupAlive(r)}
FenceSpec == Fence!Spec

-----------------------------------------------------------------------------
(* Fairness and liveness.                                                  *)

\* A lifecycle holder goes on: every docker command has a timeout, and each
\* outcome other than success raises.  A crash is never needed.
Refused(r) == \/ host[r] = "scan" /\ scan # {}
              \/ host[r] = "create" /\ (cst # "absent" \/ cgen = MaxGen)
              \/ host[r] = "identify" /\ cst # "running"
LifecycleFairness ==
  /\ \A r \in Runs : WF_vars(\/ RemoveContainer(r) \/ CreateContainer(r) \/ Register(r)
                             \/ Refused(r) /\ HostGone(r))
  /\ WF_vars(\/ IdleStop
             \/ IdleGiveUp /\ (scan # {} \/ cst = "absent"))

\* A runner goes on: the wallclock limit ends its wait, and the waiters of a
\* file lock are queued.  A stop that holds the lock gets a reply or times out.
RunnerFairness == \A r \in Runs :
  /\ WF_vars(Popen(r)) /\ WF_vars(RunnerRecord(r))
  /\ WF_vars(RunnerDrain(r)) /\ WF_vars(RunnerReap(r))
  /\ SF_vars(RunnerCheck(r)) /\ SF_vars(RunnerFinal(r))
  /\ WF_vars(StopAnswer(r)) /\ WF_vars(StopSignal(r))

\* `reuse reap` runs on a timer, and the daemon does not fail every time.
ReapFairness == \A r \in Runs :
  /\ SF_vars(StopUnstarted(r, "reap") /\ r \notin mark')
  /\ SF_vars(StopEnter(r, "reap"))
  /\ SF_vars(lock[r] = "reap" /\ StopOpen(r)) /\ SF_vars(lock[r] = "reap" /\ StopMatch(r))
  /\ SF_vars(lock[r] = "reap" /\ StopAnswer(r) /\ r \notin mark')
  /\ SF_vars(StopSignal(r) /\ lock[r] = "reap" /\ r \notin mark')

FairSpec == Spec /\ LifecycleFairness /\ RunnerFairness /\ ReapFairness

\* Nobody keeps the lifecycle lock for ever, whatever it waits for.
LifecycleReleased == []<>LifecycleFree

\* A runner that started comes to its end, launched or refused, even under a
\* storm of stops that compete for the execution lock.
RunnerEnds == \A r \in Runs : runner[r] = "start" ~> runner[r] = "done"

\* Failed stops keep the marker for a retry, and retries succeed in the end:
\* an owned run is reclaimed, unless the crash of its runner left a group that
\* nothing identifies.
Unidentifiable(r) == phase[r] = "launching" \/ (~Held(r) /\ r \in kids)
OwnedIsReclaimed == \A r \in Runs :
  r \in mark \cap owner ~> r \notin mark \/ Unidentifiable(r)
=============================================================================
