# ContainRE in TLA+

ContainRE runs a binary in a sandbox (a host subprocess, a fresh Docker
container, or a *shared* Docker container that many runs use), traces it, and
keeps a directory per run with its events, artifacts and status.  This
directory holds TLA+ models of the parts of it whose correctness depends on
the order in which several processes do things, the TLC configurations that
check them on small instances, and theorems about them that TLAPS checks.

Contents: [inventory](#inventory), [plan](#plan),
[shared executions](#shared-executions-reuseexec),
[runs and streams of the API server](#runs-and-streams-of-the-api-server),
[the supervisor of a shared container](#the-supervisor-of-a-shared-container-supervisor),
[the tracer](#the-tracer-tracer),
[what the tracer believes of descriptors](#descriptors-and-flows-descriptors),
[the sink and the session](#the-sink-and-the-session-session),
[a synchronous run and its resources](#a-synchronous-run-and-its-resources-execute),
[proofs](#proofs), [findings](#findings),
[known deviations](#known-deviations), [not modelled](#not-modelled).

## Inventory

Paths are below `containre/` of the repository.

| Part | State it keeps | Operations | What is hard about it | What makes it correct |
| --- | --- | --- | --- | --- |
| Shared executions: `runtime/reuse.py`, `runtime/execution.py` | per run: `execution.json` (the *record*), marker, owner file, activity file; a file lock per run, one per container name | reserve, register, cancel, kill, reap, list, is_busy, stop_if_idle, control (pidfd) | any number of host processes and an in-container runner; crashes; docker replies that get lost; reused process numbers; container restarts | a record that says `stopped` means nothing is alive; what is alive is tracked; a stop touches its own group only; busy containers are kept |
| Docker runtime: `runtime/docker.py` | container (name, id, generation, configuration label), docker client processes | start (fresh, reused), wait, stop, abandon, checkpoint, restore | replacement against concurrent launches, readiness wait | as above |
| In-container runner: `tracer/runner.py`, `tracer/session.py` | the workload group, the session | check record, launch, watch, drain, retire, finalize | crash between intent and record; drain before reap | no launch behind a fence; the group leader anchors identity |
| Run creation, synchronous execution: `control/orchestrator.py` | run directory, `meta.json` | create_run, execute | cancellation before creation; late finalize | a used or cancelled run id is never launched |
| Supervisor of a shared container: `runtime/supervisor.py` | readiness marker, sink, restart count | bring up, supervise, recover, shut down | signal handler against the main loop; stale marker | a marker of this generation means services are up |
| Run manager: `api/manager.py`, `runtime/local.py` | active table, starting count, reaper threads | start, reap, stop, get, list, events | threads, timeouts, server restarts | bounded concurrency, slots come back, dead runs are reported |
| Event stream: `api/app.py`, `cli/main.py` | cursor of each client | page, send, status, close | events appended and status changed while a page is sent | all events, in order, then the end |
| Run store: `store/run_store.py` | `events.jsonl`, `index.sqlite`, `meta.json`, counts | write_event, commit, reconcile, update_meta, close | several openers, crash between log and index, batched commits | the index covers the log; status is not lost |
| Tracer: `tracer/ptrace_tracer.py`, `tracer/syscalls.py` | tracees, pending syscalls, descriptor and flow tables, kill reason | enter, exit, clone, exec, signal, watchdog, kill | entry/exit pairing, threads, watchdog thread | every tracee resumed, one reason, limits enforced |
| L2 engine: `tracer/l2.py`, `l2_engine.py`, `unicorn_region.py` | region window, step budget | arm, step, close | window ends on exit, exec, budget | tracing resumes after the window |
| Network sink: `net/sink.py`, `net/tls.py` | listeners, handler threads, the streams of a replayed connection | accept, detect, serve, replay, stop | handlers that outlive stop; clients that fall silent | what was observed is in the result, or a thread was left behind; one response to a call |
| Session: `tracer/session.py` | lock, detectors, verdict, counts | emit, record, finalize | several threads, writes that fail, reads without the lock | the result agrees with the log |
| Cgroup accounting: `runtime/cgroup.py` | baseline, last values, sealed result | sample, merge, stop | sampler thread against stop; partial reads | a sealed result does not change; evidence is not lost; nobody is charged with history |
| Policy, verdict, hooks: `policy.py`, `control/verdict.py`, `control/instrumentation.py` | verdict fold | absorb | precedence | verdict is order-independent |
| Detectors: `detect/*` | per-detector counters and sets | feed, close | stateful thresholds | one report per condition |
| Memory: `memory/snapshot.py` | none | capture, diff | ranges | diff equals a definition |
| Static analysis, ELF facts, report, pcap and HTTP/2 encoders, data model, contracts, versioning, web application, TLS shim, specimens, image | none that outlives a call | | none | |

## Plan

The modules, in the order in which they were written:

1. `ExecFence` - the abstract promise of the execution record.
2. `ReuseExec` - shared executions, the Docker reuse path and the in-container
   runner together; the inductive invariant and its proof; refinement of
   `ExecFence`.
3. `RunStore`, `RunManager`, `EventStream` - a run under the API server: store,
   manager with the local runtime, stream; their inductive invariants and proofs.
   `RunRecord` and `EventFeed` - what `meta.json` and the stream promise those who
   read them; the refinements.
4. `Supervisor` - the readiness marker of a shared container: the supervisor,
   the hosts that wait for it and the runners that check it; its inductive
   invariant and proof.
5. `Tracer` - the ptrace loop with the tasks of the specimen, the network
   policy, the watchdog and the single-step window; its inductive invariant and
   proof.
6. `GrpcReplay`, `NetSink`, `Detectors`, `Session` - the runner process of a
   run: the threads of the sink with the replayed connection, the detectors and
   the verdict, and the session and `execute` over them; proofs of its safety.
7. `Execute` - the host's side of a synchronous run, with the resource sampler
   and the three runtimes; its inductive invariant and proof; the refinement of
   `RunRecord`.
8. `Descriptors` - the tracer's tables of files and flows beside the kernel's; its
   inductive invariant and proof.

What would come next: checkpoint and restore under the manager, and the artifacts
of the store.

A run checks what no theorem states, and the properties that the theorems are
about; the type invariants and the inductive invariants (`IInv`, `MInv`, `SInv`,
`SupInv`, `TracerInv`, `Threading`, `Framing`, `Recording`) are proved, and are not repeated in a run.

## Shared executions (`ReuseExec`)

### What is modelled

`ReuseExec` puts together four pieces of code that only make sense together:
the launching host process (`create_run`, `DockerRuntime._start_reused`,
`_ensure_reuse_container`, `_abandon_pending`), the stops (`reuse._stop_run`
with its callers `kill`, `kill --reserve-cancel`, `reap` and
`DockerRuntime.stop`, and `execution.control` inside the container), the idle
retirement (`stop_if_idle`, `is_busy`, `list_live`) and the in-container runner
(`_run_reused_workload`).  Its state is

| Variables | In the code |
| --- | --- |
| `cst`, `cid`, `cgen`, `ccfg` | the container: state, docker id, init process (boot id and start token of process 1), configuration label |
| `phase`, `rid`, `rgen` | `execution.json`: phase and the identity the launch was registered against |
| `mark`, `owner` | the marker file and the owner file of a run |
| `lock`, `step`, `aim` | the file lock of the run, and how far the `control()` of its holder has come: the pidfd names the leader of run `aim` |
| `scan`, `idler`, `host` | lifecycle lock (held by the host that is in a `Launching` stage, or by `idler`), the runs `is_busy` has yet to probe, the stage of each launching host |
| `runner`, `leader`, `kids`, `pgid` | inside the container: runner stage, group leader (live, zombie, reaped), groups with other members, process number |

Each action is a piece of code between two points where another process can
intervene.  The decisions behind it:

* What a process does under a lock and nobody else can see half done is one
  step, because every other step commutes with its inner parts; a crash in the
  middle is another outcome of the step (`CreateRun` leaves a `bare` directory,
  `Register` a pending record without marker, `Retire` a retired record whose
  marker is still there).
* `control()` is *not* one step, although its caller holds the lock: process
  numbers are reused by others.  `StopOpen` opens a pidfd by number,
  `StopMatch` compares the start token and looks for members, `StopSignal`
  signals; in between leaders exit, are reaped, and other runs get the number.
  The control the runner calls on its own workload is one step, because the
  leader is its unreaped child, so that nobody else can have its number.
* Each docker command may fail, time out or lose its reply: an answer to a stop
  is `confirmed` only when control proved the group gone *and* the reply
  arrived; the signals may have worked without it.  A docker stop or rm that
  completes after its client gave up is a `ContainerDies` later.
* Any process may die at any step (`HostGone`, `StopCrash`, `IdleGiveUp`,
  `RunnerGone`), the container too (`ContainerDies`), and it may be restarted
  by somebody else (`ContainerRestarts`), which makes a new generation under
  the old id.
* The readiness wait of a supervised container is one nondeterministic outcome
  (`Exec` or `Abandon`) here, and the runner's own readiness check one of the
  reasons why `RunnerCheck` may refuse; `Supervisor` opens both.
* `docker run` may fail after `docker rm -f` (a name that is still taken): the
  host then ends through `HostGone`.
* The process group file of older versions (`leader.pgid` without a record) has
  no writer for shared runs any more; the reading side of it in `reuse.py` is
  not modelled.

`ExecFence` is what the record promises its users: one admission, at most one
launch between admission and retirement, and nothing alive after retirement.

### Runs

| Run | Instance | Checks |
| --- | --- | --- |
| `shared` | two runs of one root and configuration, two process numbers, one generation | `Anchored`, `SignalsOwnGroup`, and that `ReuseExec` implements `ExecFence` |
| `replace` | two runs that ask for different configurations, one process number, two generations | `RetiredIsGone`, `TrackedWhileAlive`, `PeersSurvive` when containers die, are restarted and replaced |
| `roots` | two runs of different roots | `ChangeRefusedWhileLive`, which fails: see [findings](#findings) |
| `live` | one run, two generations, fairness | `LifecycleReleased`, `RunnerEnds`, `OwnedIsReclaimed` |

Bounds.  Two runs are what it takes for every conflict in this code: a peer
whose container is replaced, whose process number is taken, who is signalled
by mistake, who waits for the lifecycle lock.  `MaxGen` bounds creations and
restarts of the container; two make a launch of an old generation meet a new
one.  `PGIDs` is the set of process numbers: with one, any two live groups would
have to share it, so that it is reused as early as possible; with two, groups
also live at the same time.  The theorems hold without these bounds.

Symmetry is used where all runs ask for the same and only safety is checked:
`Runs` and `PGIDs` are interchangeable there.

Fairness (`FairSpec`), used in `live` only: a lifecycle holder goes on, because
every docker command runs with a timeout and every failure raises
(`LifecycleFairness`); a runner goes on, because its wait has the wallclock
limit and file locks are granted in turn (`RunnerFairness`, strong for the
steps that need the lock); `reuse reap` is run again and again and the daemon
does not fail each time (`ReapFairness`).  No fairness is assumed of
workloads, of containers, of new launches or of `kill`.  One run suffices,
since each property is about one run against its stops and its container; the
contention of two runs for the lifecycle lock is part of the safety runs.

## Runs and streams of the API server

`RunStore` is the run directory: `meta.json` with its temporary file,
`events.jsonl` as a number of complete lines, the line being written (`tail`,
torn or whole), the committed rows of the index, and whether the session has a
write transaction open.  `RunManager` extends it with the server (`api`, the
request thread of each run; `active`; `reaper`; `stops`) and the runner
process and its specimen (`proc`, `work`) under `LocalRuntime`.  `EventStream`
extends that with one client per run (`view`, the next step of `stream_ep`;
`since`, `page`, `got`).

* `update_meta` of runner and reaper are read, write of the temporary file and
  rename, since both may be at it after a wait that timed out; the content is
  the status and whether the runner's verdict is in.  Truncating the temporary
  file and writing it is one step: a reader that finds it in between, after the
  other writer's rename, sees a `meta.json` without content for the time of one
  write, and then the content that is written; both writers are at it only for a
  run whose wait has lapsed, of which no property claims anything.
* `write_event` is a torn line, the line, and the row.  The insert opens a
  transaction that every 64th event commits: the model may commit at each.
  Opening a second store while the transaction is open and rows are missing
  raises (`Locked`); opening it between line and row replays the row, and the
  session's own insert raises then (`InsertRow` without a new row).
* `Wait` may time out whenever the runner is alive: the grace is wallclock plus
  30 seconds, and setup, teardown and post-processing have timeouts of their
  own that are not counted in it.  `lapsed` remembers that.
* `Dies` is every end of the runner without finalize; a traced specimen dies
  with it (PTRACE_O_EXITKILL), an untraced one does not.
* `Restart` is the death and restart of the server; runners outlive it.
* The stream reads a page, sends it, reads `meta.json`, reads the active table,
  and decides; each is a step, because the first and the two reads run in
  worker threads and sending awaits the socket.  A torn line at the end is not
  parsed, and the cursor stays before it.
* Thread creation is assumed to succeed.  The filter by kind and the HTTP
  endpoints that only read are left out.

Two abstract specifications say what the readers of a run are promised.
`RunRecord` is about `meta.json`: the status goes from queued to running to an
outcome, or from queued to an error, and never back, and an outcome is final with
what is in it.  Of a run that was given up on (`given`) it promises nothing but a
status that a runner or a reaper may write.  Several processes write the file, each
after a look at it some steps before; that they add up to this is what `RecordSpec`
claims, with `given` the runs whose wait lapsed (here), or whose runner has
outlived the stop (in [`Execute`](#a-synchronous-run-and-its-resources-execute)).
`EventFeed` is about the stream: whoever connects is sent the log from its first
event on, up to some event at any time, and all of it before the close if the run
was over when they came.  It knows neither pages nor cursors nor torn lines.

| Run | Instance | Checks |
| --- | --- | --- |
| `manager` | two requests, one slot, one event each, one server restart | `LiveWithinCap`, and that `RunManager` implements `RunRecord` (`RecordSpec`) |
| `stream` | one run of up to three events, pages of two, one restart; fairness | `IndexComplete`, that the stream implements `EventFeed` (`FeedSpec`), `SlotsReturn`, `DeadReported`, `StreamEnds` |

Two requests for one slot are what a race for a slot takes.  Three events and
pages of two give a full page, a short page and a page that is full and last.
`StreamFairSpec` assumes that the threads and the coroutine of the server run;
the runner may stop anywhere, and no client has to connect.

## The supervisor of a shared container (`Supervisor`)

A supervised container runs `runtime/supervisor.py` as its init process.  It
brings up the network sink and the services of the policy's setup commands,
publishes a marker file that names its generation (boot id and start token of
process 1), watches, repairs, and gives up after `MAX_RESTARTS` recoveries.
Hosts wait for the marker (`_wait_supervised_ready`), and the runner in the
container checks it again (`_run_reused_workload`).

| Variables | In the code |
| --- | --- |
| `cst`, `gen` | the container, and its last init process |
| `marker` | the generation in `.containre-ready`, on the host's disk |
| `pc` | the next statement of `bring_up`, `supervise` or `_recover` that others can notice |
| `up` | what answers: the sink, and the services the readiness probe looks at |
| `stop`, `restarts` | `_stop` and the local `restarts` of `supervise` |
| `run`, `reg` | each run between registration and launch, and the generation it is registered against |

* `_healthy` is two steps, sink and probe, as the probe may take its whole
  timeout; each answer may be out of date when the marker is written.
* The handler (`Shutdown`) runs in the main thread between any two of its
  steps and nothing runs meanwhile: it is one step and leaves `pc` alone.
* `Setup` may fail, succeed, or succeed without satisfying the probe; services
  fail and recover at any time (`SinkFails`, `ServiceChanges`).
* The container is killed without warning (`Killed`) and comes back as a new
  container, for which the host drops the marker (`Create`), or as the same
  one (`RestartedInPlace`), for which nobody does.
* The runner reads the marker (`Check`) and launches later (`Launch`): it asks
  for group signals and writes the record in between, under a lock of its own,
  while the supervisor may take the marker away and begin a repair.  It lives no
  longer than its container (`InPlace`).
* Who may create a container, and fences, are left to `ReuseExec`; a run that
  is cancelled while it waits is a `WaitFails`.

| Run | Instance | Checks |
| --- | --- | --- |
| `outage` | one run, the three recoveries of the code, two generations; fairness | `LaunchFailsClosed` (the check passes neither in bring-up nor in a repair, and no launch meets bring-up), `OutageNoticed`, `Settles`, `StopEnds` |

Runs only read the marker, so that one is as good as many; `MaxRestarts` has
the code's value; two generations let an old marker meet a new supervisor.
`FairSpec` assumes that the supervisor goes on: setup commands and probes have
a timeout, and the connection that tests the sink has one too.  Services need
not recover and runs need not start.

One thing the handler does is worth knowing: a SIGTERM between the last health
check and `_mark_ready` removes the marker, and the interrupted main thread
writes it again before it looks at `_stop`.  The next container is not misled,
since the marker names the old generation.

## The tracer (`Tracer`)

The tracer starts the specimen and is told of the stops of all its tasks:
entries and exits of system calls, clones, signals, ends.  One thread handles
one stop after the other while the other tasks run.  At the entry of a call
that reaches the network it decides, and either lets the call go on, makes the
kernel skip it, or rewrites its address to that of the sink.

| Variables | In the code |
| --- | --- |
| `st`, `call`, `grp`, `kid`, `mem` | the kernel's view of each task: what it does, its call as its arguments stand, its process, the task it cloned last, and with whom it shares memory |
| `tpc`, `cur`, `traced`, `seen` | where `run` is, the task whose stop it has, `debugger.list`, the stops that `waitpid` has reported |
| `posture`, `block`, `asked`, `over` | `net_posture`, the keys of `_pending_block`, `_kill_requested`, and whether `event_count` exceeds its maximum |
| `reason`, `how`, `wd` | `kill_reason`, return or exception, the watchdog thread |
| `way` | history: how the call of a task came to be what it is: decided on by the tracer, raised over, never read, or changed by another task |

* A call is one of seven kinds, by what the tracer would do with it as its
  arguments stand: a connect (which may be redirected), a send in its three forms,
  the creation of a ring, a call to an address that is permitted or not of INET, a
  call that touches a decoy, a clone, any other.  Handled calls may become `skip`
  or `sink`.
* Handling a stop is three steps (`Take`, `StepSyscall`, `GoOn` or `Break`),
  between which the task may be killed and the watchdog may strike.
* Recording an event raises when the store cannot write.  `_step_syscall`
  swallows that, and a call that is recorded before it is blocked is then not
  blocked: `NoEgress` exempts that one call (`raised`), and only until its exit.
  Elsewhere it ends the loop (`Raise`) or, in a window, `run` without its
  `finally` (`WindowRaises`).
* The arguments of a call are in memory.  Until the kernel has copied them, every
  task that shares it and is not stopped may make a forbidden address of a
  permitted one, or of the sink's (`Rewrite`).  Threads always share it; a process
  may (`CLONE_VM`, shared mappings), and is then not among the threads that
  `_is_multithreaded` counts (`Alone`).  That a process shares all of its memory is
  an upper bound of what it can change.
* A seek that cannot read the instruction steps on without its gate (`NotRead`),
  and so does one without a disassembler.
* The watchdog is two steps, waking and striking; in between run may end.
* The window is the phase before the loop.  A clone in it is added to
  `debugger.list` by the library, and the window ends (`_single_step_window`)
  or goes on (`_seek_to`).
* python-ptrace is modelled from its use: it tells entries from exits (also
  after an execve and a window), raises when a dead task is resumed, and quits
  by terminating all the tasks it knows.  Setting registers of a stopped task
  succeeds.

| Run | Instance | Checks |
| --- | --- | --- |
| `tracer` | two tasks, with and without a window or a seek, the two postures that forbid something, one kill trigger; fairness | `NoEgress`, `Quiet`, `Answered`, `EndsWithSpecimen` |

`NoEgress` says which ways lead past the policy, and that there is no other: a
call whose recording raised, an instruction that a seek could not read, a permitted
address that was changed after the decision, and a redirected one that another
*process* has changed.  What is left is what the code sees to: nothing that is to
be blocked is performed, wherever the call is met, and no thread takes a redirected
connect back.

The second task is a thread or a process, with memory of its own or not, which
gives a race for an address, a process that outlives the root, a parent and a child that wait to be
resumed, and a task that dies while the other's stop is handled; the theorems
hold for any number.  The specimen may make calls for ever.  `FairSpec` assumes
of `waitpid` that it passes no task over for ever (strong fairness of `Take` and
`Reap`: what is reported changes with the tasks), and that the loop, the window,
which has a budget, and the watchdog go on.  The specimen need not.

## Descriptors and flows (`Descriptors`)

The tracer names the file of a write and the peer of a transfer by two tables,
`fd_paths` and `flows`, which it keeps per task and number from the exits of
`open`, `close`, `connect` and `getsockopt`, and copies to each new task.  The
kernel keeps one table per process.  `Descriptors` has both, side by side.

| Variables | In the code |
| --- | --- |
| `group`, `table`, `sock` | the kernel: which tasks share a table, what its numbers stand for, the sockets |
| `call` | the call of each task between its entry and its exit |
| `fd_paths`, `flows`, `asked` | the tables of the tracer; `_kill_requested` for a decoy |
| `solo`, `silent`, `known`, `again` | history, in which the properties say what they leave out |

* An open or a close takes effect before the tracer sees its exit, and another
  task may run in between; a connect has a flow from its entry on, and an
  outcome that comes later, is refused, or is asked for with `SO_ERROR`.
* `dup2`, `fcntl`, `close_range`, an exec and a received descriptor change a
  number without a handler (`Silently`): nothing is claimed of a number from
  then on until it is opened or closed again.
* `solo` are the tasks that share no table and whose forebears shared none: the
  tables are copied where threads share one, so that nothing can be claimed of
  threads.  They are modelled nevertheless, as the forebears of others.
* Blocked connects are decided in `Tracer` and leave the tables alone.  A connect
  to an address that is not of INET, or unreadable, makes no flow and leaves the
  one that is there (`ConnectUnfollowed`).
* A file stands for its path as the tracer resolves it.  That a path is read at the
  exit of the open, against the tracer's working directory, and that a decoy is also
  recognized by its base name, is data the model leaves out: a decoy here is a file
  that is planted or has the name of one that is.

| Run | Instance | Checks |
| --- | --- | --- |
| `descriptors` | two tasks, one number, one socket, a canary and another file, two addresses | `PathsFollow`, `FlowsFollow`, `DecoyWrites` |

One number is what it takes: the hazard is a number that is used again, and the
tables have no other key.  Two tasks give a fork at any moment, in the middle of
no call but with every state of the table.  Two numbers and two tasks together
have more than ten million states.

## The sink and the session (`Session`)

The runner process of a traced run has a main thread (`execute`), one thread for
each listening socket of the sink, and one for each connection.  They all emit to
one session, which writes the event, asks the detectors, writes what they find
and folds it into the verdict, under one lock.  When the specimen has ended, the
main thread stops the sink, waits for its threads for three seconds in all, and
writes `meta.json` from the store's counts and the verdict.

`GrpcReplay` is the one handler that keeps state, the gRPC replay; `NetSink` the
threads; `Detectors` the functions from an event to findings and from findings to
a verdict; `Session` extends the last two with the session and with `execute`.

| Variables | In the code |
| --- | --- |
| `read`, `inner`, `late` | `saw_preface` and `buf`, by what they lack; whether an inner loop reads; whether `idle_deadline` has passed |
| `theirs`, `streams`, `ours` | the client's half of each stream (a monitor), the dictionary `streams`, and what the client has received |
| `hs`, `acc`, `quiet` | where the thread of each connection is, what each accept thread holds, and which replayed clients have fallen silent |
| `sinkstop`, `handlers`, `joined` | `_stop` and the closed listeners, `_handlers`, and the snapshot that `stop` joins |
| `em` | who holds `RunSession._lock`, and how far: line, row, findings |
| `told`, `found`, `lines` | `events.jsonl`: the events that are evidence, the findings in order, the number of lines |
| `seen`, `verdict`, `counts` | what the detectors remember, `Verdict`, `RunStore.counts` |
| `pc`, `taken`, `meta`, `drained`, `reason`, `raised`, `faults` | the main thread, what `finalize` has read, `meta.json`, the outcome of `stop`, `kill_reason`, an exception on its way, writes that failed |

* `finalize` reads the counts, then the verdict, without the session's lock,
  while a handler that has outlived the three seconds may be recording: three
  steps.  `close` and the writes take the store's lock.
* A write may fail (disk full, index locked) at the line, the row and either of
  them for a finding.  In a handler this ends the thread.  In the main thread it
  leads where `execute` catches it: `Raises` lists the places.
* A detector remembers what it reports before the session writes it; a failed
  write therefore loses that finding for good, and `Complete` is about runs in
  which none failed.
* In the replay, frames are steps; what a method or a message means is one of three
  kinds.  The client is the specimen and sends any frame on any stream, in any
  order: HEADERS replace the record of a stream, as they do in the code, RST_STREAM
  removes it, and DATA makes another.  `theirs` says how far the client has obeyed
  HTTP/2 on a stream, and is "amiss" once it has not.  What is sent on a stream is
  followed as the client sees it (`ours`), which becomes "broken" when HEADERS,
  DATA and trailers come in another order.
* Bytes are waited for in inner loops (`Receive`, `TimesOut`), and only the outer one
  looks at `_stop` and at the idle time (`Turn`, `ReplayLoops`).  The inner loops of
  a frame's header and of its rest, which are alike, are told apart by what is
  missing.  `peer_gone` is one of the ways to leave.
* An event is its kind, operation and key (path, address, URL, permissions).
  ATT&CK tags, `net_flows`, and the counts of snapshots and artifacts are left
  out: they are unions and counters beside the ones that are modelled.

| Run | Instance | Checks |
| --- | --- | --- |
| `session` | two connections, one of them TLS and replayed, one listener, one event of the main thread, one failed write; fairness | `Truthful`, `Complete`, `OneReport`, `SilentEnds`, `Finalized` |
| `unary` | the replayed connection by itself, three streams, two of them tracked | `UnaryFraming` |

Bounds.  Two connections give two handlers that meet the same evidence, or one
that is late while the other holds the lock.  One listener, since accept threads
meet only under the lock of `Register`, which is one step.  One event of the main
thread meets the events of the handlers; one failure meets each place, and a second
would meet a thread that is already over.  Streams touch nothing but the replayed
connection, so that `session` has none and `unary` nothing else; with three of them and room for two, one is dropped, tracked later, or
answered while the others are under way.  About 760,000 states at most.  The theorems
hold without these bounds, for the connection in its session.

`UnaryFraming` promises a client that obeys the protocol on a stream one answer
there, whatever it sends elsewhere.  To one that does not, the code promises
nothing, and keeps nothing: HEADERS after the answer, or DATA after a reset, are
answered again.

Fairness: while the specimen may send as it likes or fall silent, the thread of a
replayed connection goes on (`ReplayLoops`: a `recv` times out after half a second),
the idle time passes (`ReplayIdles`), and the thread takes the lock to report
(`EmitReport`); the holder of the lock goes on, and so does `execute` after the
trace.  That each inner loop leads back to the outer one is not assumed: it is what
`SilentEnds` is about, and it fails when one of them does not.

## A synchronous run and its resources (`Execute`)

`containre run` executes in one host process: it starts a runtime, and a thread
that reads the container's cgroup while it waits (`ResourceSampler`).  Afterwards
it stops what has not ended, sees to it that the run has a terminal status, and
fails a run that was starved.  `Execute` has the three runtimes (a process of the
host, a container of the run's own, a shared container), the runner with its two
writes of `meta.json`, the specimen, the kernel's counter, the sampler and the host.

| Variables | In the code |
| --- | --- |
| `mode`, `cgroup`, `count`, `before` | the runtime; the cgroup, its event counter in the two files that show it, and what it was before the run |
| `traced`, `specimen` | whether the policy has the specimen traced; the specimen |
| `runner`, `copy`, `client` | the runner, its pending write of `meta.json`, and the docker client (or the local process) that `wait` watches |
| `sampler`, `got`, `known` | the sampler's thread: where it is, what it has read, `_cg` |
| `baseline`, `last`, `invalid`, `closed`, `out` | `_baseline`, `_last`, `_invalid`, `_closed` and `_out` |
| `pc`, `meta`, `error` | `execute`, `meta.json`, its local `error` |
| `unkilled`, `outlived`, `shown` | history: a stop failed; the runner was alive when the run was judged; the highest sample |

* One counter stands for the three that are judged alike.  A reading may show
  the counter of the hierarchy, that of the cgroup itself, or none: the files
  are read one by one and may be gone.
* The sampler's thread is two steps, read and merge, with the seal of `stop` in
  between; it may hang anywhere, as no fairness is assumed of it.
* A stop (`Stops`) is what the runtime makes of it.  In a shared container it kills
  the specimen's group, or fences its launch, and the runner notices by itself;
  otherwise it kills the runner, or its container.  What dies with the runner
  (`Taken`) is what lives in its container or is traced by it.  `docker kill` and the
  stop of a shared run may fail (`unkilled`).
* A runner that a stop leaves alive may write its result after the host has judged
  the run (`outlived`): `OverWhenReturned` and `RunRecord` say nothing of it.
* The choice of the network is a part of `Start`, since it may raise.

| Run | Instance | Checks |
| --- | --- | --- |
| `execute` | all three runtimes, a counter up to two, a trigger that is fatal; fairness | `NoInherited`, `BreachFails`, `OverWhenReturned`, `NoOrphan`, `Sealed`, that the run's record is that of `RunRecord` (`OutcomeSpec`), `Returns` |

A counter up to two has a history, an increase and a value between the two
interfaces.  Fairness: the host goes on, because each of its waits has a timeout.
The theorems hold for every bound, and for both settings of `kill_on`.

## Proofs

TLAPS checks the theorems below for every value of the constants.  Each
component has an inductive invariant in the component's module or in one of its
own (`*_inv`), and the proofs in another (`*_proofs`).

### Shared executions

`IInv` (`ReuseExec_inv`) is the inductive invariant; `ReuseExec_proofs` proves that
it is initial and kept by every action, and derives the rest.  What makes the
properties inductive:

* `RetiredIsGone` needs to know why a stop that answers "confirmed" may
  retire: `GroupStage` says in which phases a group may live, `RunnerStage`
  ties phase, lock and leader to the place the runner has reached, and
  `HostStage` does the same for the launching host.
* `SignalsOwnGroup` needs `OwnNumber` (two groups that live, or whose leader is
  unreaped, have different numbers) and `StopStage`: a pidfd that was opened on
  somebody else's leader is evidence that the own leader is gone, and an armed
  stop aims at its own run.
* `PeersSurvive` needs `LifecycleMutex` and `Scanned`: a run the busy check has
  passed stays idle as long as the lifecycle lock is held, because only its
  holder registers and a fence keeps the others out.
* `TrackedWhileAlive` needs `Tracked`, where the generation comes in: a runner
  that passed its check is in the container of the record.

The refinement of `ExecFence` is by a mapping of the execution record; every
action is one of `ExecFence`'s or a stutter, and `OnlyLaunchedLive` carries the
abstract invariant back to `ReuseExec`.

Assumptions on the constants: a runs root and a configuration for each run
(`RootOfAssumption`, `ConfigOfAssumption`), a configuration determines its root,
as the root is hashed into it (`RootInConfig`), `MaxGen` a natural number
(`MaxGenAssumption`), and a process number that is none (`PGIDsAssumption`).

### Runs and streams

`MInv` (`RunManager_inv`) has six parts.  `SlotsWithinCap` bounds the union of
the active table and the runs being started: the sum that `start` compares may
count a run twice, so that it is the union that is inductive.  `SlotStage` says
that a run keeps its slot until its reaper has waited, and that a runner which
is alive after that has lapsed.  `VerdictStage` follows a verdict through the
shared temporary file.  `IndexStage` says where a line that has no row yet is
(being written, or in the open transaction).  `OutcomeStage` keeps ended runs
from being started.  `RecordStage` says how far the status is, and what is in the
temporary file, at each step of the request, the runner and the reaper, as long as
only one of the last two may be at it.  From it follow `LiveWithinCap`,
`VerdictKept` (a verdict in `meta.json` stays until the wait lapses) and
`IndexComplete`.

The refinement of `RunRecord` maps a run to its status and verdict, and the runs
that were given up on to those whose wait lapsed.  A rename is the step that
matters (`RecordRename`): by `RecordStage` it moves the status on, or its run has
lapsed.  `OutcomeFinal` carries the promise back: an outcome that was seen stays.

`SInv` (`EventStream_inv`) adds, for each client, that its events and the page
on its way are the events up to the cursor (`CursorStage`), and that the log of
a run that had ended when the client came does not grow any more, so that a page
that is not full has reached its end (`PostHocStage`).  That a run does not come
back is itself a lemma (`StaysOver`) on `MInv`.  From it follow `NoGap` (a client
that is up to date with its cursor has all before it) and `PostHocComplete`.

The refinement of `EventFeed` maps a coroutine that is under way to an open client.
Reading a page and the status are stutters; `CursorStage` makes of each page that is
sent a longer prefix of the log, and `PostHocStage` makes of a close for a late
client one with the whole log.  Only a live runner appends (`Appends`), so that the
log does not grow for a late client.  `FeedIsWhole` carries the abstract invariant
back, to every moment of a stream.

Assumptions: bounds are natural numbers, the cap and the page size are not zero,
`Traced` is a set of runs.  The set of runs need not be finite: the proof of the
cap carries the finiteness of the slots along.

### The supervisor

`LaunchFailsClosed` follows from `SupInv`, which says how the marker lags
behind the supervisor: it never names a generation to come (otherwise a start
would make an old marker valid) and, between the clearing of the marker and the
next full check, not the present one.  A runner that has passed its check is in a
generation that has published once, so that it does not meet bring-up any more;
it may meet a repair.  A container that starts has a new
generation, so that `Create` and `RestartedInPlace` keep it alike.  Assumptions:
the two bounds are natural numbers.

### The tracer

`TracerInv` contains the three safety properties and two parts that carry them.
`Gated` says that a redirected task is alone in its process: only its own clone
could change that, and it is in another call; and that a call which is to be blocked
and is not, between the decision and the resumption (`check`), is one whose recording
raised or that was changed since.  What others may do to the arguments is in the
monitor `way`, which each decision resets.
`Known` says that every task that can still act is in `debugger.list`, so that
`quit` finds it, and that the loop handles a stop that lasts or a dead task.
Assumptions: the root is a task, the postures are among the three, and `KillOn`
holds what the tracer can see (`RootAssumption`, `PosturesAssumption`,
`KillOnAssumption`).

### The session

`Session_inv` builds four parts on each other.  `Threading` is about the threads:
who may hold the lock, and that a handler is registered while it lives, so that
what `stop` has joined is all there is; this is where a check of `_stop` outside
the lock would fail.  `Reported` says that what is found, or about to be, has its
evidence in the log and is remembered, which gives `OneReport`.  `Accounted`
bounds the counts and the verdict by the log at each step of the holder, and with
them what `finalize` has taken, which gives `Truthful`.  `Whole` says, as long as
no write failed, exactly what is missing at each step of the holder; together
with `Threading` (nobody holds the lock once all threads are gone) it gives
`Complete`.  The lemmas they rest on say that the verdict is the maximum and the
union of what it has absorbed, whatever the order.  Assumptions: the bounds are
natural numbers, the two switches are Booleans, one connection is replayed, and
connections are not named like the values that stand for no connection.

`Framing` is an invariant of the replayed connection alone, which no other step
touches (`ReplaySteps`): `StreamStage` says, of a stream on which the client has
obeyed the protocol, that a unary call is either not answered, with nothing on the
wire, or answered and ended, and that a stream nobody tracks has nothing on the wire
as long as the client's half is open.
`UnaryFraming` follows.  `Bounded` counts the streams that are tracked, which gives
`StreamsBounded`: the limit holds for any number of streams, though the sink checks
it only when the headers of a stream arrive.

### The synchronous run

`Execute_inv`: `Phases` ties the sealed sampler to the host's stages, `Sampling`
says that samples lag behind the counter and a valid increase is above its
baseline, `Writing` that a result is the last thing a runner writes, `Leaving` when
the specimen is gone before the runner or with it, and `Ending` who may be alive
once the run is judged: a specimen is over or will not start (`Gone`), or it is one
of those that `NoOrphan` exempts (`Spared`).  `Recording` is inductive together with these: it says how far
the status is at each step of the runner, and that a runner which is alive after
the host has left it behind has `outlived` it.  From it follows the refinement of
`RunRecord`, with one record; an outcome is overruled only by a breach
(`FailOnBreach`), which by `Ending` comes after an outcome.  Assumptions: the
runtimes are among the three, the switch is a Boolean, the count is bounded by a
natural number.

### Descriptors

`IInv` (`Descriptors_inv`) relates the two kinds of tables while calls are under
way, for the tasks that share no table (`solo`).  `Groups` says that nobody shares
theirs.  `PathStage` is the reason why `PathsFollow` is not inductive by itself: an
open and a close take effect at once and are seen at their exit, so that in between
the path lags behind, and what has to be known is that the exit will set it right.
`FlowStage` does the same for flows, where it is the other way round: a connect has
a flow before it has an outcome, and a call that will drop a flow must have left the
socket unconnected, which only holds for sockets that were connected once
(`again`).  `Sockets` says that a socket a number stands for, or that somebody has
connected, is there: one that is made is nobody's yet.  `CallStage` types the calls.
A fork copies both tables at once (`CloneKeeps`).  Assumptions: the root
is a task, numbers are natural numbers, decoys are files, and the names that stand
for no task, no file and no address are none of these.

| Theorem | Says |
| --- | --- |
| `TypeCorrect`, `Invariance` | `ReuseExec` keeps `TypeOK` and `IInv` |
| `RetiredIsGoneHolds`, `TrackedWhileAliveHolds`, `AnchoredHolds` | its safety invariants |
| `SignalsOwnGroupHolds`, `PeersSurviveHolds` | its action properties |
| `Refinement`, `OnlyLaunchedLive` | it implements `ExecFence`; what that means for live groups |
| `ManagerTypeCorrect`, `ManagerInvariance` | `RunManager` keeps `TypeOK` and `MInv` |
| `LiveWithinCapHolds`, `IndexCompleteHolds`, `VerdictKeptHolds` | its safety properties |
| `RecordRefinement`, `OutcomeFinal` | it implements `RunRecord`; what that means for a reader |
| `StreamInvariance` | `EventStream` keeps `SInv` |
| `NoGapHolds`, `PostHocCompleteHolds` | its safety properties |
| `FeedRefinement`, `FeedIsWhole` | it implements `EventFeed`; what that means for a client |
| `SupervisorInvariance`, `LaunchFailsClosedHolds` | `Supervisor` keeps `SupInv`; runners fail closed |
| `TracerInvariance` | `Tracer` keeps `TracerInv` |
| `NoEgressHolds`, `QuietHolds`, `KillsHaveReasonHolds` | its safety properties |
| `ThreadingHolds`, `SinkTypeCorrect` | `Session` keeps `Threading` and the types of the sink |
| `OneReportHolds`, `TruthfulHolds`, `CompleteHolds` | its safety properties |
| `UnaryFramingHolds`, `StreamsBounded` | the replayed connection: framing, and the bound on its streams |
| `ExecuteInvariance`, `RecordingHolds` | `Execute` keeps `IInv` and `Recording` |
| `NoInheritedHolds`, `BreachFailsHolds`, `OverWhenReturnedHolds`, `NoOrphanHolds`, `SealedHolds` | its safety properties |
| `OutcomeRefinement` | it implements `RunRecord` |
| `DescriptorsInvariance` | `Descriptors` keeps `IInv` |
| `PathsFollowHolds`, `FlowsFollowHolds`, `DecoyWritesHolds` | its properties |

### Only model-checked

Liveness (`LifecycleReleased`, `RunnerEnds`, `OwnedIsReclaimed`, `SlotsReturn`,
`DeadReported`, `StreamEnds`, `OutageNoticed`, `Settles`, `StopEnds`,
`Answered`, `EndsWithSpecimen`, `SilentEnds`, `Finalized`, `Returns`) stays with TLC,
since the prover reasons neither about fairness nor about ENABLED.  Every safety
property that a passing run checks is a theorem.  The finding is a counterexample
of TLC.

## Findings

* `roots`: `documentation/batch-helper-services.md:64` says that a changed
  configuration is refused while runs are live.  The busy check lists the runs
  of the launching run's own runs root only, but the container name does not
  depend on the root and the configuration hash does: a run of another root
  with the same key always replaces the container, with whatever lives in it.

## Known deviations

What the models show beside the findings, and why no property claims it.

* The stream closes with events unsent when they are written between the page it
  has read and the status it reads after it (`api/app.py:247-260`, against the
  comment at 257).  `EventFeed` promises all to clients that come afterwards only.
* `interfaces.py:73` says that `stop` terminates a running specimen.
  `LocalRuntime.stop` ends the runner (`local.py:80-87`); a specimen that is not
  traced is in a session of its own (`runner.py:136`) and goes on, without its
  wallclock limit too.  `NoOrphan` names the exemption.
* `contracts/policy.v1.schema.json:39` calls `wallclock_s` an always-on safety
  timer, `SPEC.md:266` an always-on limit.  The watchdog kills the root's process,
  once (`ptrace_tracer.py:786`); processes that the specimen has forked go on, and
  the loop waits for them without a limit of its own.  (A host that waits with a
  limit, as `execute` and the reaper of the API do, ends the run from outside.)
* The comment at `supervisor.py:163` wants workloads in flight to fail closed before
  a repair.  The runner reads the marker once (`runner.py:168`) and launches later
  (176), under a lock the supervisor does not take: an outage noticed in between
  does not keep the workload from starting.  `LaunchFailsClosed` claims the check.
* A clone inside a single-step window or a seek is consumed there, and the new
  task is never resumed (`l2_engine.py:191`; `ptrace_tracer.py:912` says why it
  has to be).
* A SIGTERM between the last health check and `_mark_ready` leaves a marker
  behind, as described above; no property claims that it does not.
* The address of a permitted call can be changed by a thread until the kernel
  copies it, and a redirected one by a process that shares the memory
  (`ptrace_tracer.py:389-407`, 550-557; the comment at 408 speaks of `CLONE_VM`
  siblings and the check looks at threads).  A seek steps over an instruction that
  it cannot read without its gate (`l2_engine.py:125-129`).  `NoEgress` names the
  exemptions.
* A docker stop or rm that its caller has given up on may take effect later, on a
  container that has new runs (`reuse.py:289`).  In `ReuseExec` it is one of the
  deaths of the container that `RetiredIsGone` and `PeersSurvive` leave out.
* A runner that a stop of a shared run has left alive may write its result after
  `execute` has returned.
* `wait` of a container of the run's own returns when its docker client does
  (`docker.py:762-766`); a client that has lost its daemon is no proof that the
  container has ended, as the comment at 784 says of the shared one, and nothing
  stops the container then.  `NoOrphan` names the exemption.
* The hierarchy's counter and the cgroup's own are merged into one maximum
  (`cgroup.py:104`).  When a first sample could read only the lower one, the
  increase in a shared container contains history: `NoInherited` asks for a whole
  first sample.
* `close` drops the path of a number but not its flow
  (`ptrace_tracer.py:369-370`).  A number that has carried a connection is taken
  for it ever after: a write to a file that is opened under it later is
  captured as traffic and never reaches `_handle_write`, so that a decoy among
  them does not end the run.  `DecoyWrites` names the exemption.
* A second connection under the same number replaces the first in `flows`, with
  what was captured of it; the pcap file, which is written at the end, lacks it
  (`ptrace_tracer.py:429`, against `net/pcap.py:3-5`).
* A connect on a socket that is connected already (`EISCONN`), or that was
  interrupted, counts as a hard failure and drops a flow that is alive
  (`ptrace_tracer.py:513`, against the comment at 510); `FlowsFollow` leaves out
  sockets that are connected once more.
* Writes to a file by `writev`, `pwritev`, `sendfile` and the like are not seen
  as writes (`ptrace_tracer.py:342-344`).
* Threads get copies of the tables of the task that made them
  (`ptrace_tracer.py:946`), which go apart at once.
* When a teardown command cannot be recorded, `execute` leaves its `finally`
  block before `net_sink.stop` (`runner.py:305-313`) and the run has no terminal
  `meta.json`; `Finalized` begins where the sink is being stopped.
* A finding whose write fails is remembered as reported and not tried again.
* `sink.py:393` promises valid HTTP/2 and gRPC framing.  A streaming call that has
  been answered with the error, and its trailers, is sent messages for the DATA that
  follows: the branch at `sink.py:640` does not look at `responded`.  `UnaryFraming`
  is about unary calls.

## Not modelled

* The parts of the last row of the inventory have no state that outlives a call
  and nothing concurrent; TLA+ would restate them.  `report.py`,
  `static_analysis.py` and most of `cli/main.py`, a quarter of the program, are
  of this kind: they read a finished run, or one file, and render what is in it.
* Memory snapshots are one read of a stopped task; what a failing snapshot does to
  the tracer is swallowed.  The comparison of two snapshots is arithmetic on the
  contents of two files.
* Of the modelled parts: checkpoint and restore, artifacts and the contents of
  the pcap file, payload recording and HPACK in the sink, UDP, ATT&CK tags,
  the policy's defaults, disassembly and emulation in the window, the temporary
  file that two writers of `meta.json` share (except in `RunStore`), and process
  numbers that are used again while the tracer runs.
* The YARA, Capstone, Unicorn and python-ptrace libraries are outside this code.
