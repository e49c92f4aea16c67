----------------------------- MODULE RunManager -----------------------------
(***************************************************************************)
(* Runs under the API server: RunManager (containre/api/manager.py) with   *)
(* LocalRuntime (containre/runtime/local.py) and the runner process that   *)
(* it starts (containre/tracer/runner.py, execute, and session.py).        *)
(*                                                                         *)
(* A request thread admits and starts a run, a daemon thread (the reaper)  *)
(* waits for it with a timeout, reports it if it ended without a terminal  *)
(* status and gives its slot back; other threads stop runs.  The runner is *)
(* a process of its own: it outlives the server.  Server and runner meet   *)
(* in the run directory (RunStore).                                        *)
(***************************************************************************)
EXTENDS RunStore, FiniteSets

CONSTANTS
  Traced,         \* runs under ptrace; the others have trace.tracer=none
  MaxConcurrent,  \* max_concurrent
  MaxRestarts     \* bound: restarts of the server

ASSUME TracedAssumption   == Traced \subseteq Runs
ASSUME CapAssumption      == MaxConcurrent \in Nat \ {0}
ASSUME RestartsAssumption == MaxRestarts \in Nat

VARIABLES
  \* the server
  api,       \* the request thread that starts the run
  active,    \* _active
  reaper,    \* the reaper thread of the run
  copy,      \* runs whose reaper read a meta.json with a verdict
  lapsed,    \* runs whose wait() ended by its timeout
  stops,     \* runs that a stop request has the handle of
  restarts,  \* how often the server was restarted
  \* the host
  proc,      \* the runner process
  work       \* runs whose specimen is alive

server == <<api, active, reaper, copy, lapsed, stops, restarts>>
host   == <<proc, work>>
mvars  == <<store, server, host>>

Starting == {"admitted", "created", "spawned", "listed"}
Reaping  == {"wait", "check", "open", "read", "write", "rename", "pop"}
Live     == {"boot", "begin", "run", "final", "close"}

Alive(r) == proc[r] \in Live
\* What _starting counts.
InStart  == {r \in Runs : api[r] \in Starting}

TypeOK ==
  /\ StoreTypeOK
  /\ api \in [Runs -> Starting \cup {"idle", "refused", "failed", "done", "lost"}]
  /\ reaper \in [Runs -> Reaping \cup {"none", "done", "lost"}]
  /\ active \in SUBSET Runs /\ copy \in SUBSET Runs
  /\ lapsed \in SUBSET Runs /\ stops \in SUBSET Runs
  /\ restarts \in 0..MaxRestarts
  /\ proc \in [Runs -> Live \cup {"none", "exited", "dead"}]
  /\ work \in SUBSET Runs

Init ==
  /\ StoreInit
  /\ api = [r \in Runs |-> "idle"] /\ reaper = [r \in Runs |-> "none"]
  /\ active = {} /\ copy = {} /\ lapsed = {} /\ stops = {}
  /\ restarts = 0
  /\ proc = [r \in Runs |-> "none"] /\ work = {}

-----------------------------------------------------------------------------
(* start, in the thread of the request.                                    *)

\* Mutant: runs that are being started are not counted.
AdmitActiveOnly(r) ==
  /\ api[r] = "idle"
  /\ api' = [api EXCEPT ![r] = IF Cardinality(active) < MaxConcurrent
                               THEN "admitted" ELSE "refused"]
  /\ UNCHANGED <<store, active, reaper, copy, lapsed, stops, restarts, host>>

Admit(r) ==
  /\ api[r] = "idle"
  /\ api' = [api EXCEPT ![r] =
       IF Cardinality(active) + Cardinality(InStart) < MaxConcurrent
       THEN "admitted" ELSE "refused"]
  /\ UNCHANGED <<store, active, reaper, copy, lapsed, stops, restarts, host>>

\* create_run leaves a queued run; if it raises, there is no meta.json.
Create(r) ==
  /\ api[r] = "admitted"
  /\ \/ /\ PutMeta(r, [status |-> "queued", verdict |-> FALSE])
        /\ api' = [api EXCEPT ![r] = "created"]
     \/ /\ api' = [api EXCEPT ![r] = "failed"]
        /\ UNCHANGED store
  /\ UNCHANGED <<active, reaper, copy, lapsed, stops, restarts, host>>

\* runtime.start: Popen of the runner, or an exception that is recorded.
Spawn(r) ==
  /\ api[r] = "created"
  /\ \/ /\ proc' = [proc EXCEPT ![r] = "boot"]
        /\ api' = [api EXCEPT ![r] = "spawned"]
        /\ UNCHANGED store
     \/ /\ PutMeta(r, [status |-> "error", verdict |-> FALSE])
        /\ api' = [api EXCEPT ![r] = "failed"]
        /\ UNCHANGED proc
  /\ UNCHANGED <<active, reaper, copy, lapsed, stops, restarts, work>>

Enlist(r) ==
  /\ api[r] = "spawned"
  /\ active' = active \cup {r}
  /\ api' = [api EXCEPT ![r] = "listed"]
  /\ UNCHANGED <<store, reaper, copy, lapsed, stops, restarts, host>>

\* The finally clause, then the reaper thread.
StartReaper(r) ==
  /\ api[r] = "listed"
  /\ api' = [api EXCEPT ![r] = "done"]
  /\ reaper' = [reaper EXCEPT ![r] = "wait"]
  /\ UNCHANGED <<store, active, copy, lapsed, stops, restarts, host>>

-----------------------------------------------------------------------------
(* The runner process.                                                     *)

\* It exits without finalize: killed, out of memory, or by an exception.
\* PTRACE_O_EXITKILL takes a traced specimen along.
Dies(r) ==
  /\ proc' = [proc EXCEPT ![r] = "dead"]
  /\ work' = IF r \in Traced THEN work \ {r} ELSE work
  /\ Abandoned(r)

RunnerDies(r) == Alive(r) /\ Dies(r) /\ UNCHANGED server

\* update_meta(status="running"), then setup, then the specimen, if setup lets
\* it start.
RunnerBegin(r) ==
  /\ proc[r] = "boot"
  /\ WriteTmp(r, [status |-> "running", verdict |-> FALSE])
  /\ proc' = [proc EXCEPT ![r] = "begin"]
  /\ UNCHANGED <<server, work>>

RunnerRunning(r) ==
  /\ proc[r] = "begin"
  /\ \/ /\ Rename(r)
        /\ proc' = [proc EXCEPT ![r] = "run"]
        /\ work' \in {work, work \cup {r}}
     \/ TmpGone(r) /\ Dies(r)
  /\ UNCHANGED server

RunnerEvent(r) ==
  /\ proc[r] = "run"
  /\ BeginLine(r) \/ EndLine(r) \/ InsertRow(r)
  /\ UNCHANGED <<server, host>>

\* The specimen exits or is killed by the runner.
SpecimenEnds(r) ==
  /\ r \in work
  /\ work' = work \ {r}
  /\ UNCHANGED <<store, server, proc>>

\* finalize: the terminal status with counts and verdict, then close.
RunnerFinalize(r) ==
  /\ proc[r] = "run" /\ r \notin work /\ tail[r] = "none"
  /\ \E s \in {"finished", "killed"} : WriteTmp(r, [status |-> s, verdict |-> TRUE])
  /\ proc' = [proc EXCEPT ![r] = "final"]
  /\ UNCHANGED <<server, work>>

RunnerFinalized(r) ==
  /\ proc[r] = "final"
  /\ \/ /\ Rename(r)
        /\ proc' = [proc EXCEPT ![r] = "close"]
        /\ UNCHANGED work
     \/ TmpGone(r) /\ Dies(r)
  /\ UNCHANGED server

RunnerExits(r) ==
  /\ proc[r] = "close"
  /\ Close(r)
  /\ proc' = [proc EXCEPT ![r] = "exited"]
  /\ UNCHANGED <<server, work>>

-----------------------------------------------------------------------------
(* _reap: wait, _mark_unfinalized_run, and the slot.                       *)

Goto(r, stage) == reaper' = [reaper EXCEPT ![r] = stage]

\* Mutant: the wait has no timeout.
WaitForEver(r) ==
  /\ reaper[r] = "wait" /\ ~Alive(r)
  /\ Goto(r, "check")
  /\ UNCHANGED <<store, api, active, copy, lapsed, stops, restarts, host>>

\* proc.wait returns the exit code, or None after wallclock_s + 30 seconds.
Wait(r) ==
  /\ reaper[r] = "wait"
  /\ lapsed' = IF Alive(r) THEN lapsed \cup {r} ELSE lapsed
  /\ Goto(r, "check")
  /\ UNCHANGED <<store, api, active, copy, stops, restarts, host>>

\* Mutant: a terminal status is overwritten too.
CheckNothing(r) ==
  /\ reaper[r] = "check"
  /\ Goto(r, "open")
  /\ UNCHANGED <<store, api, active, copy, lapsed, stops, restarts, host>>

\* Mutant: only a missing meta.json is looked at.
CheckMissing(r) ==
  /\ reaper[r] = "check"
  /\ Goto(r, "pop")
  /\ UNCHANGED <<store, api, active, copy, lapsed, stops, restarts, host>>

Check(r) ==
  /\ reaper[r] = "check"
  /\ Goto(r, IF meta[r].status \in Terminal THEN "pop" ELSE "open")
  /\ UNCHANGED <<store, api, active, copy, lapsed, stops, restarts, host>>

\* RunStore(...), which raises while the session holds the index; the thread
\* then ends, through its finally clause.
OpenStore(r) ==
  /\ reaper[r] = "open"
  /\ \/ Reconcile(r) /\ Goto(r, "read")
     \/ Locked(r) /\ Goto(r, "pop") /\ UNCHANGED store
  /\ UNCHANGED <<api, active, copy, lapsed, stops, restarts, host>>

\* update_meta(status="error"), in three steps because the session may patch
\* the same file.
ReadMeta(r) ==
  /\ reaper[r] = "read"
  /\ copy' = IF meta[r].verdict THEN copy \cup {r} ELSE copy \ {r}
  /\ Goto(r, "write")
  /\ UNCHANGED <<store, api, active, lapsed, stops, restarts, host>>

WriteError(r) ==
  /\ reaper[r] = "write"
  /\ WriteTmp(r, [status |-> "error", verdict |-> r \in copy])
  /\ Goto(r, "rename")
  /\ UNCHANGED <<api, active, copy, lapsed, stops, restarts, host>>

RenameError(r) ==
  /\ reaper[r] = "rename"
  /\ \/ Rename(r)
     \/ TmpGone(r) /\ UNCHANGED store
  /\ copy' = copy \ {r}
  /\ Goto(r, "pop")
  /\ UNCHANGED <<api, active, lapsed, stops, restarts, host>>

\* The finally clause of _reap.
Pop(r) ==
  /\ reaper[r] = "pop"
  /\ active' = active \ {r}
  /\ Goto(r, "done")
  /\ UNCHANGED <<store, api, copy, lapsed, stops, restarts, host>>

-----------------------------------------------------------------------------
(* stop, and the server's end.                                             *)

\* Only an active run has a handle.
StopRequest(r) ==
  /\ r \in active
  /\ stops' = stops \cup {r}
  /\ UNCHANGED <<store, api, active, reaper, copy, lapsed, restarts, host>>

\* LocalRuntime.stop: terminate, and kill if need be, the runner if it has not
\* exited.
Stop(r) ==
  /\ r \in stops
  /\ IF Alive(r) THEN Dies(r) ELSE UNCHANGED <<store, host>>
  /\ stops' = stops \ {r}
  /\ UNCHANGED <<api, active, reaper, copy, lapsed, restarts>>

\* The server dies and comes back with an empty table and no threads.
Restart ==
  /\ restarts < MaxRestarts
  /\ restarts' = restarts + 1
  /\ active' = {} /\ stops' = {} /\ copy' = {}
  /\ api' = [r \in Runs |-> IF api[r] \in Starting THEN "lost" ELSE api[r]]
  /\ reaper' = [r \in Runs |-> IF reaper[r] \in Reaping THEN "lost" ELSE reaper[r]]
  /\ UNCHANGED <<store, lapsed, host>>

-----------------------------------------------------------------------------
StartStep(r)  == Admit(r) \/ Create(r) \/ Spawn(r) \/ Enlist(r) \/ StartReaper(r)

RunnerStep(r) == \/ RunnerBegin(r) \/ RunnerRunning(r) \/ RunnerEvent(r)
                 \/ RunnerFinalize(r) \/ RunnerFinalized(r) \/ RunnerExits(r)
                 \/ RunnerDies(r) \/ SpecimenEnds(r)

ReapStep(r)   == \/ Wait(r) \/ Check(r) \/ OpenStore(r) \/ ReadMeta(r)
                 \/ WriteError(r) \/ RenameError(r) \/ Pop(r)

StopStep(r)   == StopRequest(r) \/ Stop(r)

Next == \/ \E r \in Runs : StartStep(r) \/ RunnerStep(r) \/ ReapStep(r) \/ StopStep(r)
        \/ Restart

Spec == Init /\ [][Next]_mvars

-----------------------------------------------------------------------------
(* Properties.                                                             *)

\* Nobody of this server waits for the run any more, or ever did.
Unwatched(r) == r \in lapsed \/ api[r] = "lost" \/ reaper[r] = "lost"

\* The cap bounds the runner processes, those being started included, except
\* for the ones whose wait lapsed or whose server is gone.
LiveWithinCap == Cardinality({r \in Runs : Alive(r) /\ ~Unwatched(r)}) <= MaxConcurrent

\* A runner that finalized and exited leaves an index that covers its log, even
\* if another opener replayed rows under it.
IndexComplete == \A r \in Runs : proc[r] = "exited" => rows[r] = log[r]

\* The status and verdict that a runner finalized are never touched again,
\* unless its reaper had given up on it before.
VerdictKept ==
  [][\A r \in Runs : meta[r].verdict /\ r \notin lapsed => meta'[r] = meta[r]]_mvars

\* The status that readers of meta.json see goes on and never back, whoever writes
\* it (the runner, its reaper, a start that fails), and an outcome stays, until the
\* reaper gives up on the runner: RunRecord.
Record == INSTANCE RunRecord WITH
           status <- [r \in Runs |-> meta[r].status],
           data   <- [r \in Runs |-> meta[r].verdict],
           given  <- lapsed, Data <- BOOLEAN, Last <- {}
RecordSpec == Record!Spec
=============================================================================
