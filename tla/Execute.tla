------------------------------- MODULE Execute -------------------------------
(***************************************************************************)
(* A synchronous run (execute in containre/control/orchestrator.py): the   *)
(* host starts a runtime, samples the container's resources while it       *)
(* waits (containre/runtime/cgroup.py), and makes of what the runner has   *)
(* left, and of what the kernel has counted, the result of the run.        *)
(*                                                                         *)
(* One counter stands for the event counters of the cgroup.  The kernel    *)
(* shows it twice, for the hierarchy and for the cgroup itself, and either *)
(* may be unreadable.  -1 is a value that is not there.                    *)
(***************************************************************************)
EXTENDS Integers

CONSTANTS
  Modes,   \* runtimes: "local", "docker", and "shared", a reused container
  Fatal,   \* whether kill_on names the counter's trigger
  MaxCount \* bound: what the counter reaches

ASSUME ExecuteAssumption ==
  Modes \subseteq {"local", "docker", "shared"} /\ Fatal \in BOOLEAN /\ MaxCount \in Nat

VARIABLES
  mode,     \* the runtime
  traced,   \* whether the policy has the specimen traced
  cgroup,   \* the container's cgroup: "none", "live", "gone"
  count,    \* its counter: [all, own]
  before,   \* what it was when the run began
  runner,   \* the runner: "none", "new", "busy", "ending", "dead"
  specimen, \* the specimen: "none" so far, "runs", "over" or never to come
  copy,     \* what the runner has read of meta.json and is about to write
  meta,     \* meta.json: status and whether a breach made it so
  pc,       \* the host
  client,   \* the docker client, or the local process: "up", "down"
  error,    \* execute has an error to report
  unkilled, \* the last stop of the runtime has failed
  outlived, \* the runner was alive when the host had judged the run
  sampler,  \* the sampler's thread
  got,      \* what it has read
  known,    \* _cg is set
  baseline, last, invalid,   \* what the samples amount to
  closed,   \* the sampler is sealed
  out,      \* what stop has returned
  shown     \* the highest value a sample has had

kernel   == <<cgroup, count>>
workload == <<runner, specimen, copy, client>>
samples  == <<baseline, last, invalid, shown>>
thread   == <<sampler, got, known>>
host     == <<mode, traced, before, error, unkilled, outlived>>
vars     == <<kernel, workload, samples, thread, host, meta, pc, closed, out>>

Terminal == {"finished", "killed", "error"}
None  == -1
Unset == -2

TypeOK ==
  /\ mode \in Modes /\ traced \in BOOLEAN
  /\ cgroup \in {"none", "live", "gone"}
  /\ count \in [all : 0..MaxCount, own : 0..MaxCount] /\ count.own <= count.all
  /\ before \in 0..MaxCount
  /\ runner \in {"none", "new", "busy", "ending", "dead"}
  /\ specimen \in {"none", "runs", "over"}
  /\ copy \in {"none", "running", "finished", "killed"}
  /\ client \in {"up", "down"}
  /\ meta \in [status : {"queued", "running"} \cup Terminal, fatal : BOOLEAN]
  /\ pc \in {"start", "wait", "seal", "join", "read", "publish", "judge", "mark", "breach",
             "returned", "raised"}
  /\ error \in BOOLEAN /\ unkilled \in BOOLEAN /\ outlived \in BOOLEAN
  /\ sampler \in {"off", "resolve", "read", "merge", "rest", "over"}
  /\ got \in None..MaxCount /\ known \in BOOLEAN
  /\ baseline \in [value : Unset..MaxCount, whole : BOOLEAN]
  /\ last \in None..MaxCount /\ shown \in None..MaxCount
  /\ invalid \in BOOLEAN /\ closed \in BOOLEAN
  /\ out \in [value : None..MaxCount, hits : 0..MaxCount]

Init ==
  /\ mode \in Modes /\ traced \in BOOLEAN
  /\ cgroup = IF mode = "shared" THEN "live" ELSE "none"
  /\ count \in {[all |-> n, own |-> n] : n \in IF mode = "shared" THEN 0..MaxCount ELSE {0}}
  /\ before = count.all
  /\ runner = "none" /\ specimen = "none" /\ copy = "none" /\ client = "up"
  /\ meta = [status |-> "queued", fatal |-> FALSE]
  /\ pc = "start" /\ error = FALSE /\ unkilled = FALSE /\ outlived = FALSE
  /\ sampler = "off" /\ got = None /\ known = FALSE
  /\ baseline = [value |-> Unset, whole |-> FALSE]
  /\ last = None /\ invalid = FALSE /\ shown = None
  /\ closed = FALSE /\ out = [value |-> None, hits |-> 0]

-----------------------------------------------------------------------------
(* The container, the runner in it, and the specimen.                      *)

\* A fork is refused, a process killed: in the cgroup itself or below it.  In a
\* shared container another run may be the one.
Breach ==
  /\ cgroup = "live" /\ count.all < MaxCount
  /\ count' = [all |-> count.all + 1, own |-> count.own + 1]
     \/ count' = [count EXCEPT !.all = @ + 1]
  /\ UNCHANGED <<cgroup, workload, samples, thread, host, meta, pc, closed, out>>

rest == <<kernel, samples, thread, host, pc, closed, out>>

\* update_meta(status="running"), and finalize: read, then written.
RunnerReads ==
  /\ runner \in {"new", "busy"} /\ copy = "none"
  /\ IF runner = "new" THEN copy' = "running" /\ runner' = "new"
     ELSE copy' \in {"finished", "killed"} /\ runner' = "ending" /\ specimen # "runs"
  /\ UNCHANGED <<specimen, client, meta, rest>>

RunnerWrites ==
  /\ copy # "none"
  /\ meta' = [meta EXCEPT !.status = copy]
  /\ copy' = "none"
  /\ runner' = IF runner = "new" THEN "busy" ELSE "dead"
  /\ UNCHANGED <<specimen, client, rest>>

\* In a session of its own, under the tracer or not.
SpecimenStarts ==
  /\ runner = "busy" /\ specimen = "none"
  /\ specimen' = "runs"
  /\ UNCHANGED <<runner, copy, client, meta, rest>>

\* It exits, or the runner's own limit ends it.
SpecimenEnds ==
  /\ specimen = "runs"
  /\ specimen' = "over"
  /\ UNCHANGED <<runner, copy, client, meta, rest>>

\* What becomes of the specimen when the runner dies, which is the init of a container
\* of the run's own, and may be the tracer (PTRACE_O_EXITKILL).
Taken == IF mode = "docker" \/ (mode = "local" /\ traced) THEN "over" ELSE specimen

RunnerDies ==
  /\ runner \notin {"none", "dead"}
  /\ runner' = "dead" /\ copy' = "none" /\ specimen' = Taken
  /\ UNCHANGED <<client, meta, rest>>

\* The cgroup goes with a container of the run's own.
ContainerGoes ==
  /\ runner = "dead" /\ cgroup = "live" /\ mode # "shared"
  /\ cgroup' = "gone"
  /\ UNCHANGED <<count, workload, samples, thread, host, meta, pc, closed, out>>

\* The docker client returns with its runner, or loses its daemon before.
ClientExits ==
  /\ client = "up" /\ runner # "none"
  /\ runner = "dead" \/ mode # "local"
  /\ client' = "down"
  /\ UNCHANGED <<runner, specimen, copy, meta, rest>>

-----------------------------------------------------------------------------
(* ResourceSampler, its thread.                                            *)

sampling == <<kernel, workload, host, meta, pc, closed, out>>

Resolve ==
  /\ sampler = "resolve"
  /\ \/ cgroup = "live" /\ ~closed /\ sampler' = "read"
     \/ sampler' = "rest"     \* not there yet, or docker does not say
  /\ UNCHANGED <<got, known, samples, sampling>>

\* What one reading of a cgroup may show of the counter: either interface or both.
Readings == IF cgroup = "live" THEN {count.all, count.own, None} ELSE {None}

Read ==
  /\ sampler = "read"
  /\ got' \in Readings /\ sampler' = "merge"
  /\ UNCHANGED <<known, samples, sampling>>

\* Mutant: the last reading counts.
MergeLast(n) ==
  /\ baseline' = IF baseline.value = Unset THEN [value |-> n, whole |-> n = count.all] ELSE baseline
  /\ invalid' = (invalid \/ (mode = "shared" /\ n # None /\ n < last))
  /\ last' = IF n = None THEN last ELSE n
  /\ shown' = IF n > shown THEN n ELSE shown

\* _merge; other values of the reading may be there when this one is not.
Merge(n) ==
  /\ baseline' = IF baseline.value = Unset THEN [value |-> n, whole |-> n = count.all] ELSE baseline
  /\ invalid' = (invalid \/ (mode = "shared" /\ n # None /\ n < last))
  /\ last' = IF n = None \/ (mode # "shared" /\ n < last) THEN last ELSE n
  /\ shown' = IF n > shown THEN n ELSE shown

\* Mutant: a reading that was under way when stop sealed the state is merged.
PublishLate ==
  /\ sampler = "merge"
  /\ sampler' = "rest" /\ known' = TRUE
  /\ Merge(got)
  /\ UNCHANGED <<got, sampling>>

\* Under the lock; nothing is merged when the whole reading has failed.
Publish ==
  /\ sampler = "merge"
  /\ IF closed THEN sampler' = "over" /\ UNCHANGED <<known, samples>>
     ELSE /\ sampler' = "rest" /\ known' = TRUE
          /\ Merge(got) \/ (got = None /\ UNCHANGED samples)
  /\ UNCHANGED <<got, sampling>>

Rest ==
  /\ sampler = "rest"
  /\ sampler' = IF closed THEN "over" ELSE IF known THEN "read" ELSE "resolve"
  /\ UNCHANGED <<got, known, samples, sampling>>

-----------------------------------------------------------------------------
(* start: what the policy makes of the container's network.                *)

\* _network_args; "refused" where it raises.
NetworkArgs(posture, docker_network, allow, tracer) ==
  IF docker_network = "none" THEN "none"
  ELSE IF docker_network = "host"
       THEN IF posture # "allow" /\ allow /\ tracer THEN "host" ELSE "refused"
  ELSE IF posture = "allow" \/ allow THEN IF tracer THEN "bridge" ELSE "refused"
  ELSE "none"

unstarted == <<kernel, samples, got, known, mode, traced, before, error, unkilled, outlived, closed, out>>

Launched ==
  /\ runner' = "new"
  /\ sampler' \in IF mode = "local" THEN {"off"} ELSE {"off", "resolve"}
  /\ pc' = "wait"
  /\ UNCHANGED <<specimen, copy, client, meta, unstarted>>

\* The run never began: it is on record as an error, and the caller hears of it.
NotLaunched ==
  /\ meta' = [meta EXCEPT !.status = "error"]
  /\ pc' = "raised"
  /\ UNCHANGED <<workload, sampler, unstarted>>

\* What runs in a shared container is not traced.
Start ==
  /\ pc = "start"
  /\ \E posture \in {"deny", "simulate", "allow"}, wanted \in {"none", "auto", "host"},
        allow \in BOOLEAN :
       LET refused == \/ mode = "docker" /\ NetworkArgs(posture, wanted, allow, traced) = "refused"
                      \/ mode = "shared" /\ traced
       IN  IF refused THEN NotLaunched ELSE Launched

StartFails == pc = "start" /\ NotLaunched

\* docker run brings the container up with the runner.
ContainerComes ==
  /\ mode = "docker" /\ runner \notin {"none", "dead"} /\ cgroup = "none"
  /\ cgroup' = "live"
  /\ UNCHANGED <<count, workload, samples, thread, host, meta, pc, closed, out>>

-----------------------------------------------------------------------------
(* wait, in its three forms, and stop.                                     *)

\* Mutant: docker exec's client is killed, and the group left alone.
StopsClient ==
  \/ /\ IF mode = "shared" THEN UNCHANGED <<runner, specimen, copy>>
        ELSE runner' = "dead" /\ copy' = "none" /\ specimen' = Taken
     /\ unkilled' = FALSE
  \/ mode # "local" /\ unkilled' = TRUE /\ UNCHANGED <<runner, specimen, copy>>

\* In a shared container the specimen's group is killed, or its launch fenced, and the
\* runner comes to its end by itself; otherwise it is the runner that is killed, or the
\* container with it.  A daemon that hangs does nothing.
Stops ==
  \/ /\ IF mode = "shared" THEN specimen' = "over" /\ UNCHANGED <<runner, copy>>
        ELSE runner' = "dead" /\ copy' = "none" /\ specimen' = Taken
     /\ unkilled' = FALSE
  \/ mode # "local" /\ unkilled' = TRUE /\ UNCHANGED <<runner, specimen, copy>>

unstopped == <<runner, specimen, copy, unkilled>>
waiting == <<kernel, samples, thread, mode, traced, before, outlived, meta, closed, out>>

\* The client is gone.  Only a shared container is looked after then.
Waited ==
  /\ pc = "wait" /\ client = "down"
  /\ IF mode = "shared" THEN Stops ELSE UNCHANGED unstopped
  /\ error' = TRUE /\ pc' = "seal"
  /\ UNCHANGED <<client, waiting>>

\* The result is there, although docker exec has not returned.
WaitedForMeta ==
  /\ pc = "wait" /\ mode = "shared" /\ meta.status \in Terminal
  /\ Stops
  /\ error' \in BOOLEAN   \* the exit code it reports may be none
  /\ client' = "down" /\ pc' = "seal"
  /\ UNCHANGED waiting

\* Timeout: the local runtime leaves the stop to execute.
WaitedTooLong ==
  /\ pc = "wait"
  /\ IF mode = "local" THEN UNCHANGED unstopped ELSE Stops
  /\ client' = IF mode = "shared" THEN "down" ELSE client
  /\ pc' = "seal"
  /\ UNCHANGED <<error, waiting>>

-----------------------------------------------------------------------------
(* ResourceSampler.stop, in the host's thread.                             *)

stopping == <<kernel, workload, host, meta>>

Seal ==
  /\ pc = "seal" /\ pc' = "join"
  /\ closed' = TRUE
  /\ UNCHANGED <<thread, samples, out, stopping>>

\* Mutant: stop waits for the thread for as long as it takes.
JoinForever ==
  /\ pc = "join" /\ sampler \in {"off", "over"}
  /\ pc' = "read"
  /\ UNCHANGED <<thread, samples, closed, out, stopping>>

\* The thread has ended, or poll_s + 1 have passed.
Join ==
  /\ pc = "join" /\ pc' = "read"
  /\ UNCHANGED <<thread, samples, closed, out, stopping>>

\* The final reading, if the thread had found the cgroup when stop was called.
FinalRead ==
  /\ pc = "read" /\ pc' = "publish"
  /\ IF known THEN \E n \in Readings : Merge(n) \/ (n = None /\ UNCHANGED samples)
     ELSE UNCHANGED samples
  /\ UNCHANGED <<thread, closed, out, stopping>>

\* Mutant: a shared container's counter is taken for the run's.
HitsInherited == IF last = None THEN 0 ELSE last

\* _counter: an increase since the first sample, or all of a container's own.
Hits ==
  IF last = None THEN 0
  ELSE IF mode # "shared" THEN last
  ELSE IF baseline.value < 0 \/ invalid THEN 0
  ELSE last - baseline.value

Out ==
  /\ pc = "publish" /\ pc' = "judge"
  /\ out' = [value |-> last, hits |-> Hits]
  /\ UNCHANGED <<thread, samples, closed, stopping>>

-----------------------------------------------------------------------------
(* The rest of execute.                                                    *)

judging == <<kernel, thread, samples, mode, traced, before, closed, out>>

\* A run that has timed out, and is not done all the same, is stopped.
Judge ==
  /\ pc = "judge"
  /\ IF error \/ meta.status \in Terminal THEN UNCHANGED <<unstopped, error>>
     ELSE Stops /\ error' = TRUE
  /\ pc' = "mark" /\ outlived' = (runner' # "dead")
  /\ UNCHANGED <<client, meta, judging>>

\* Mutant: only a run that has timed out is marked.
MarkTimeouts ==
  /\ pc = "mark"
  /\ meta' = IF error /\ client = "up" /\ meta.status \notin Terminal
             THEN [meta EXCEPT !.status = "error"] ELSE meta
  /\ pc' = "breach"
  /\ UNCHANGED <<workload, error, unkilled, outlived, judging>>

\* Mutant: a result that came in time is overwritten too.
MarkAlways ==
  /\ pc = "mark"
  /\ meta' = IF error THEN [meta EXCEPT !.status = "error"] ELSE meta
  /\ pc' = "breach"
  /\ UNCHANGED <<workload, error, unkilled, outlived, judging>>

Mark ==
  /\ pc = "mark"
  /\ meta' = IF error /\ meta.status \notin Terminal THEN [meta EXCEPT !.status = "error"] ELSE meta
  /\ pc' = "breach"
  /\ UNCHANGED <<workload, error, unkilled, outlived, judging>>

\* What was breached is recorded; in a container of the run's own it fails the run.
FailOnBreach ==
  /\ pc = "breach" /\ pc' = "returned"
  /\ meta' = IF Fatal /\ out.hits > 0 /\ mode # "shared"
             THEN [status |-> "error", fatal |-> TRUE] ELSE meta
  /\ UNCHANGED <<workload, error, unkilled, outlived, judging>>

\* Opening the store of a runner that still writes to it raises.
StoreLocked ==
  /\ runner \in {"busy", "ending"}
  /\ \/ pc = "mark" /\ error /\ meta.status \notin Terminal
     \/ pc = "breach" /\ baseline.value # Unset   \* there is something to record
  /\ pc' = "raised"
  /\ UNCHANGED <<workload, meta, error, unkilled, outlived, judging>>

-----------------------------------------------------------------------------
Container == \/ Breach \/ ContainerComes \/ ContainerGoes \/ ClientExits
             \/ RunnerReads \/ RunnerWrites \/ RunnerDies
             \/ SpecimenStarts \/ SpecimenEnds
Sampler == Resolve \/ Read \/ Publish \/ Rest
Wait == Waited \/ WaitedForMeta \/ WaitedTooLong
Host ==
  \/ Start \/ StartFails \/ Wait
  \/ Seal \/ Join \/ FinalRead \/ Out
  \/ Judge \/ Mark \/ FailOnBreach \/ StoreLocked

Next == Container \/ Sampler \/ Host

\* The host runs, and its timeouts pass.  Nothing is assumed of the container, nor
\* of the sampler's thread, whose reads may hang.
Spec == Init /\ [][Next]_vars /\ WF_vars(Host)

\* No sample is merged once stop has returned: a reading that was under way does
\* not change what the run is judged by (the docstring of ResourceSampler).
Sealed ==
  [][(pc \in {"judge", "mark", "breach", "returned"} => UNCHANGED samples)]_vars

\* A run in a shared container is not charged with what was counted before it
\* began, if its first sample was whole (_counter: "never charge inherited
\* history"); and no run with more than was counted.
NoInherited == baseline.whole \/ mode # "shared" => out.hits <= count.all - before

\* A run whose kill_on names the breach fails if any sample has shown it, though
\* a later one could not be read or was lower, and whatever the runner reported.
BreachFails ==
  pc = "returned" /\ mode = "docker" /\ Fatal /\ shown > 0 /\ ~outlived =>
    meta = [status |-> "error", fatal |-> TRUE]

\* Once execute has returned, the run is on record as over, unless its runner was
\* alive when the run was judged and writes on: a stop has failed, or it was one of the
\* specimen alone, in a shared container.
OverWhenReturned == pc = "returned" /\ ~outlived => meta.status \in Terminal

\* execute comes to its end although the sampler's thread hangs.
Returns == pc = "wait" ~> pc \in {"returned", "raised"}

\* When execute returns, the specimen does not run on nor start later, though the
\* runner may not have noticed yet and finishes by itself (stop: "reliably STOPPING the
\* specimen is the safety-critical property").  Three cases are left out, and are what
\* the code does: the last stop failed; the docker client of a container of the run's
\* own is gone, so that wait returns its exit code and nothing stops the container; the
\* runtime is local and the specimen not traced, so that nobody kills it.
NoOrphan ==
  pc = "returned" /\ specimen = "runs" =>
    \/ unkilled
    \/ mode = "docker" /\ client = "down"
    \/ mode = "local" /\ ~traced

\* The status of the run goes on and never back, though the runner and the host both
\* write it, and its outcome stays, but for the error that a breach makes of it; of a
\* runner that has outlived the stop nothing is said: RunRecord.
Record == INSTANCE RunRecord WITH
           Runs   <- {"run"},
           status <- [r \in {"run"} |-> meta.status],
           data   <- [r \in {"run"} |-> meta.fatal],
           given  <- IF outlived THEN {"run"} ELSE {},
           Data   <- BOOLEAN, Last <- {[status |-> "error", data |-> TRUE]}
OutcomeSpec == Record!Spec
=============================================================================
