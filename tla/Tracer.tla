-------------------------------- MODULE Tracer --------------------------------
(***************************************************************************)
(* The ptrace tracer (containre/tracer/ptrace_tracer.py, l2_engine.py):    *)
(* one thread that waits for the stops of every task of the specimen,      *)
(* decides on each network call before the kernel performs it, and resumes *)
(* the task; a watchdog thread that enforces the time and disk limits; and *)
(* the single-step window that may precede tracing.                        *)
(*                                                                         *)
(* The specimen's tasks run between their stops, and die at any moment,    *)
(* also while they are stopped.  A call is named by what the tracer would  *)
(* do with it as its arguments stand.  They stand in the memory of the     *)
(* task, where a task that shares it can change them while the call is     *)
(* under way.  Recording an event may fail: the store writes to a disk.    *)
(* python-ptrace tells entries of calls from exits.                        *)
(***************************************************************************)

CONSTANTS
  Tasks,    \* threads and processes the specimen may have: the bound on clones
  Root,     \* the first of them, root_pid
  Postures, \* what the policy's net_posture may be
  KillOn,   \* the policy's kill_on, of which the tracer sees two triggers
  L2Modes   \* how a run may begin: "off", or single-stepped in a "window", or in
            \* a "seek" for the start of a region to emulate

ASSUME RootAssumption == Root \in Tasks
ASSUME PosturesAssumption == Postures \subseteq {"deny", "simulate", "allow"}
ASSUME KillOnAssumption == KillOn \subseteq {"egress_violation", "decoy_write"}

VARIABLES
  st,       \* the kernel's state of each task
  call,     \* the call it is in, or was in last
  grp,      \* its process: the first thread of its thread group
  kid,      \* the task its last clone made
  mem,      \* tasks with the same value may write to each other's memory
  way,      \* how its call came to be what it is: a monitor of the properties
  posture,  \* net_posture
  tpc,      \* where the tracer is
  cur,      \* the task whose stop it handles
  traced,   \* debugger.list
  block,    \* keys of _pending_block
  asked,    \* _kill_requested
  over,     \* event_count > max_events
  reason,   \* kill_reason
  how,      \* how run ends
  wd,       \* the watchdog
  seen      \* tasks whose present stop waitpid has reported

kernel == <<call, grp, kid, mem, way>>
policy == <<block, asked, over>>
ends   == <<reason, how>>
vars   == <<st, kernel, posture, tpc, cur, traced, policy, ends, wd, seen>>

\* Calls to INET addresses that only posture "allow" permits, and rings; a call
\* that is "permitted" goes to an address of the list, or to none of INET.
Egress   == {"connect", "send", "ring"}
Calls    == Egress \cup {"permitted", "touch", "clone", "other"}
Stops    == {"enter", "exit", "event", "pause"}
Absent   == {"none", "gone"}
Still    == Absent \cup {"born", "dead"}
Executes == {"run", "sys"}
Stepping == {"window", "seek"}

\* The tracer decided on the call as it stands; or it would have blocked it but
\* raised when it recorded it; or it never saw the call, in a seek; or it let
\* the call go on to a permitted address, or to the sink, and a task that shares
\* the memory changed the address: a thread of the process, or a process.
Ways == {"decided", "raised", "unread", "permitted", "thread", "process"}

TypeOK ==
  /\ st \in [Tasks -> Still \cup Stops \cup Executes \cup {"step"}]
  /\ call \in [Tasks -> Calls \cup {"skip", "sink"}]
  /\ grp \in [Tasks -> Tasks] /\ kid \in [Tasks -> Tasks]
  /\ mem \in [Tasks -> Tasks] /\ way \in [Tasks -> Ways]
  /\ posture \in Postures
  /\ tpc \in Stepping \cup {"wait", "syscall", "check", "event", "quit", "done"}
  /\ cur \in Tasks /\ traced \subseteq Tasks
  /\ block \subseteq Tasks
  /\ asked \in {"no", "yes"} /\ over \in {"no", "yes"}
  /\ reason \in {"none", "egress_violation", "decoy_write", "event_cap", "timeout"}
  /\ how \in {"returned", "raised"}
  /\ wd \in {"on", "due", "off"}
  /\ seen \subseteq Tasks

\* run, up to the loop: the specimen is created and resumed, or single-stepped.
Init ==
  /\ \E l2 \in L2Modes : tpc = IF l2 \in Stepping THEN l2 ELSE "wait"
  /\ st = [t \in Tasks |-> IF t # Root THEN "none"
                           ELSE IF tpc \in Stepping THEN "step" ELSE "run"]
  /\ call = [t \in Tasks |-> "other"]
  /\ grp = [t \in Tasks |-> t] /\ kid = [t \in Tasks |-> t]
  /\ mem = [t \in Tasks |-> t] /\ way = [t \in Tasks |-> "decided"]
  /\ posture \in Postures
  /\ cur = Root /\ traced = {Root}
  /\ block = {}
  /\ asked = "no" /\ over = "no"
  /\ reason = "none" /\ how = "returned"
  /\ wd = "on" /\ seen = {}

-----------------------------------------------------------------------------
(* The kernel and the specimen.                                            *)

tracer == <<posture, tpc, cur, traced, block, asked, over, ends, wd, seen>>

Forbidden(c) == posture # "allow" /\ c \in Egress

\* SIGKILL for a process, or a task's exit_group.
Killed(p) == [t \in Tasks |-> IF grp[t] = p /\ st[t] \notin Absent THEN "dead" ELSE st[t]]

Enter(t) ==
  /\ st[t] = "run"
  /\ st' = [st EXCEPT ![t] = "enter"]
  /\ \E c \in Calls : call' = [call EXCEPT ![t] = c]
  /\ way' = [way EXCEPT ![t] = "decided"]
  /\ UNCHANGED <<grp, kid, mem, tracer>>

\* _is_multithreaded is false: it looks at the thread group.
Alone(t) == \A u \in Tasks \ {t} : grp[u] = grp[t] => st[u] \in Absent

\* Until the kernel copies it, the address of a call that goes on, as it came or
\* redirected, can be changed by whoever shares the memory.
Rewrite(u, t) ==
  /\ st[u] \in Executes /\ u # t /\ mem[u] = mem[t]
  /\ st[t] \in {"enter", "sys"} /\ call[t] \in {"permitted", "sink"}
  /\ call' = [call EXCEPT ![t] = "connect"]
  /\ way' = [way EXCEPT ![t] = IF call[t] = "permitted" THEN "permitted"
                               ELSE IF grp[u] = grp[t] THEN "thread" ELSE "process"]
  /\ UNCHANGED <<st, grp, kid, mem, tracer>>

\* The kernel performs the call as it now stands, or skips it.
Perform(t) ==
  /\ st[t] = "sys"
  /\ st' = [st EXCEPT ![t] = "exit"]
  /\ UNCHANGED <<kernel, tracer>>

\* A new thread, or a new process with memory of its own or, after CLONE_VM or
\* through a shared mapping, with its parent's; stopped before its first
\* instruction.
Born(t, u) ==
  /\ st[u] = "none"
  /\ \E p \in {grp[t], u} : grp' = [grp EXCEPT ![u] = p]
  /\ kid' = [kid EXCEPT ![t] = u]
  /\ \E m \in {mem[t], u} : mem' = [mem EXCEPT ![u] = m]
  /\ grp'[u] # u => mem'[u] = mem[t]

Clone(t, u) ==
  /\ st[t] = "sys" /\ call[t] = "clone"
  /\ Born(t, u)
  /\ st' = [st EXCEPT ![t] = "event", ![u] = "born"]
  /\ call' = [call EXCEPT ![t] = "other"]
  /\ UNCHANGED <<way, tracer>>

\* A signal to deliver, or a program just executed.
Pause(t) ==
  /\ st[t] = "run"
  /\ st' = [st EXCEPT ![t] = "pause"]
  /\ UNCHANGED <<kernel, tracer>>

Die(t) ==
  /\ st[t] \in Executes \cup {"step"}
  /\ \/ st' = [st EXCEPT ![t] = "dead"]
     \/ st' = Killed(grp[t])
  /\ UNCHANGED <<kernel, tracer>>

-----------------------------------------------------------------------------
(* What ends a run.                                                        *)

\* _request_kill; why is "none" where the code does not call it.
RequestKill(why) ==
  IF why \in KillOn /\ asked = "no"
  THEN reason' = why /\ asked' = "yes"
  ELSE UNCHANGED <<reason, asked>>

\* What the policy blocks, other than a ring, counts as a violation; what it
\* simulates does not.
BlockReason(c) == IF posture = "deny" /\ c # "ring" THEN "egress_violation" ELSE "none"

\* Whatever emits may bring the count of events over its limit.
Counts == over' = over \/ over' = "yes"

\* Mutant: there is no finally.
RaiseAbandoning == tpc' = "done" /\ how' = "raised"

\* An exception leaves the loop, and the finally block runs.
Raise == tpc' = "quit" /\ how' = "raised"

-----------------------------------------------------------------------------
(* The loop: one stop at a time, while the other tasks go on.              *)

\* waitSyscall returns a stop; a clone's new task joins debugger.list.
Take(t) ==
  /\ tpc = "wait" /\ t \in traced /\ st[t] \in Stops /\ t \notin seen
  /\ cur' = t /\ seen' = seen \cup {t}
  /\ tpc' = IF st[t] \in {"enter", "exit"} THEN "syscall" ELSE "event"
  /\ traced' = IF st[t] = "event" THEN traced \cup {kid[t]} ELSE traced
  /\ UNCHANGED <<st, kernel, posture, policy, ends, wd>>

\* A process's first thread is reported when no other thread is left.
Reapable(t) ==
  /\ st[t] = "dead"
  /\ grp[t] = t => \A u \in Tasks \ {t} : grp[u] = t => st[u] \in Absent

\* ProcessExit: recording it may raise.
Reap(t) ==
  /\ tpc = "wait" /\ Reapable(t)
  /\ st' = [st EXCEPT ![t] = "gone"]
  /\ traced' = traced \ {t}
  /\ Counts
  /\ (t \in traced /\ Raise) \/ UNCHANGED <<tpc, how>>
  /\ UNCHANGED <<kernel, posture, cur, block, asked, reason, wd, seen>>

LoopEnds ==
  /\ tpc = "wait" /\ traced = {}
  /\ tpc' = "quit"
  /\ UNCHANGED <<st, kernel, posture, cur, traced, policy, ends, wd, seen>>

handler == <<st, grp, kid, mem, posture, cur, traced, how, wd, seen>>

\* The call of the task at hand becomes c, and that is how it stands.
Decide(c) ==
  /\ call' = [call EXCEPT ![cur] = c]
  /\ way' = [way EXCEPT ![cur] = "decided"]

\* _on_enter, for a call that goes on: permitted, or of no interest.
Pass ==
  /\ st[cur] = "enter" /\ ~Forbidden(call[cur])
  /\ Decide(call[cur])
  /\ UNCHANGED <<block, asked, reason>>

\* The sink raised before the handler could block the call.
Lose ==
  /\ st[cur] = "enter" /\ Forbidden(call[cur])
  /\ way' = [way EXCEPT ![cur] = "raised"]
  /\ UNCHANGED <<call, block, asked, reason>>

\* Mutant: the connects of threads are redirected as well.
RedirectThreaded ==
  /\ st[cur] = "enter" /\ call[cur] = "connect" /\ posture = "simulate"
  /\ Decide("sink")
  /\ UNCHANGED <<block, asked, reason>>

\* _redirect_connect.
Redirect ==
  /\ st[cur] = "enter" /\ call[cur] = "connect" /\ posture = "simulate"
  /\ Alone(cur)
  /\ Decide("sink")
  /\ UNCHANGED <<block, asked, reason>>

\* _block_at_enter, also when there is no sink or the rewriting fails.
Block ==
  /\ st[cur] = "enter" /\ Forbidden(call[cur])
  /\ Decide("skip")
  /\ block' = block \cup {cur}
  /\ RequestKill(BlockReason(call[cur]))

\* A file was renamed, removed or written to.
TouchesDecoy == cur \notin block /\ call[cur] = "touch"

\* _on_exit: a blocked call gets its error; a decoy may have been touched.
Leave ==
  /\ st[cur] = "exit"
  /\ block' = block \ {cur}
  /\ \/ RequestKill(IF TouchesDecoy THEN "decoy_write" ELSE "none")
     \/ TouchesDecoy /\ UNCHANGED <<asked, reason>>   \* recording raised
  /\ Decide("other")

\* The task was killed while it was stopped: its registers cannot be read.
Unreadable ==
  /\ st[cur] = "dead"
  /\ UNCHANGED <<call, way, block, asked, reason>>

\* _step_syscall swallows whatever its handler raises.
StepSyscall ==
  /\ tpc = "syscall" /\ tpc' = "check"
  /\ Pass \/ Lose \/ Redirect \/ Block \/ Leave \/ Unreadable
  /\ Counts
  /\ UNCHANGED handler

after == <<kernel, posture, cur, traced, policy, wd>>

\* A kill_on trigger, or the cap on events.
Break ==
  /\ tpc = "check" /\ "yes" \in {asked, over}
  /\ reason' = IF asked = "yes" THEN reason ELSE "event_cap"
  /\ st' = Killed(grp[cur])
  /\ tpc' = "quit"
  /\ UNCHANGED <<how, seen, after>>

\* Resuming a dead task raises.
GoOn ==
  /\ tpc = "check" /\ asked = "no" /\ over = "no"
  /\ IF st[cur] = "dead" THEN Raise /\ UNCHANGED <<st, seen>>
     ELSE /\ seen' = seen \ {cur}
          /\ st' = [st EXCEPT ![cur] = IF @ = "enter" THEN "sys" ELSE "run"]
          /\ tpc' = "wait" /\ UNCHANGED how
  /\ UNCHANGED <<reason, after>>

\* Mutant: the parent of a new task is forgotten.
ProceedChildOnly ==
  /\ tpc = "event" /\ st[cur] # "dead"
  /\ st[cur] = "event" => st[kid[cur]] = "born"
  /\ st' = IF st[cur] = "pause" THEN [st EXCEPT ![cur] = "run"]
           ELSE [st EXCEPT ![kid[cur]] = "run"]
  /\ tpc' = "wait"
  /\ Counts
  /\ UNCHANGED <<kernel, posture, cur, traced, block, asked, ends, wd, seen>>

\* ProcessSignal, ProcessExecution, NewProcessEvent: the task goes on, and
\* with it the one it has made.
Proceed ==
  /\ tpc = "event" /\ st[cur] # "dead"
  /\ st[cur] = "event" => st[kid[cur]] = "born"
  /\ st' = IF st[cur] = "pause" THEN [st EXCEPT ![cur] = "run"]
           ELSE [st EXCEPT ![cur] = "sys", ![kid[cur]] = "run"]
  /\ tpc' = "wait" /\ seen' = seen \ {cur}
  /\ Counts
  /\ UNCHANGED <<kernel, posture, cur, traced, block, asked, ends, wd>>

\* The event could not be recorded, or the task is dead.
EventRaises ==
  /\ tpc = "event" /\ Raise
  /\ UNCHANGED <<st, kernel, posture, cur, traced, policy, reason, wd, seen>>

\* debugger.quit terminates every task it knows and waits for its end.
Quit(t) ==
  /\ tpc = "quit" /\ t \in traced
  /\ st' = [Killed(grp[t]) EXCEPT ![t] = "gone"]
  /\ traced' = traced \ {t}
  /\ UNCHANGED <<kernel, posture, tpc, cur, policy, ends, wd, seen>>

Done ==
  /\ tpc = "quit" /\ traced = {}
  /\ tpc' = "done"
  /\ UNCHANGED <<st, kernel, posture, cur, traced, policy, ends, wd, seen>>

-----------------------------------------------------------------------------
(* The window: the root is single-stepped, without stops at its calls.     *)

InWindow == tpc \in Stepping /\ st[Root] = "step"

\* _l2_gate_egress makes the kernel skip a call it does not permit.
GateEgress(c) ==
  /\ call' = [call EXCEPT ![Root] = IF Forbidden(c) THEN "skip" ELSE c]
  /\ way' = [way EXCEPT ![Root] = "decided"]
  /\ RequestKill(BlockReason(c))
  /\ Counts

\* _l2_gate_egress_at_rip could not read the instruction: the seek steps on.
\* The window ends where it cannot read it, and the loop meets the call.
NotRead(c) ==
  /\ tpc = "seek"
  /\ call' = [call EXCEPT ![Root] = c]
  /\ way' = [way EXCEPT ![Root] = "unread"]
  /\ UNCHANGED <<over, asked, reason>>

\* A step performs the call at once.
WindowCall ==
  /\ InWindow
  /\ \E c \in Egress : GateEgress(c) \/ NotRead(c)
  /\ UNCHANGED <<st, grp, kid, mem, posture, tpc, cur, traced, block, how, wd, seen>>

\* The event of a clone: _single_step_window ends at it, _seek_to ignores it.
WindowFork(u) ==
  /\ InWindow
  /\ Born(Root, u)
  /\ traced' = traced \cup {u} /\ seen' = seen \cup {u}
  /\ IF tpc = "window"
     THEN tpc' = "wait" /\ st' = [st EXCEPT ![Root] = "sys", ![u] = "born"]
     ELSE UNCHANGED tpc /\ st' = [st EXCEPT ![u] = "born"]
  /\ call' = [call EXCEPT ![Root] = "other"]
  /\ way' = [way EXCEPT ![Root] = "decided"]
  /\ UNCHANGED <<posture, cur, policy, ends, wd>>

\* Its budget is spent, its end is reached, input or output or a signal is due.
WindowEnds ==
  /\ InWindow
  /\ st' = [st EXCEPT ![Root] = "run"] /\ tpc' = "wait"
  /\ UNCHANGED <<kernel, posture, cur, traced, policy, ends, wd, seen>>

\* Recording raises.  The loop's try has not begun: nothing calls debugger.quit.
WindowRaises ==
  /\ tpc \in Stepping
  /\ tpc' = "done" /\ how' = "raised"
  /\ UNCHANGED <<st, kernel, posture, cur, traced, policy, reason, wd, seen>>

\* Mutant: the window goes on when a step fails.
WindowRetries ==
  /\ tpc \in Stepping /\ Reapable(Root)
  /\ st' = [st EXCEPT ![Root] = "gone"] /\ traced' = traced \ {Root}
  /\ UNCHANGED <<tpc, kernel, posture, cur, policy, ends, wd, seen>>

\* The root dies; the window reaps it, or leaves that to the loop.
WindowDead ==
  /\ tpc \in Stepping /\ st[Root] = "dead"
  /\ \/ /\ Reapable(Root)
        /\ st' = [st EXCEPT ![Root] = "gone"] /\ traced' = traced \ {Root}
     \/ UNCHANGED <<st, traced>>
  /\ tpc' = "wait"
  /\ UNCHANGED <<kernel, posture, cur, policy, ends, wd, seen>>

-----------------------------------------------------------------------------
(* The watchdog thread.                                                    *)

Expire ==
  /\ wd = "on" /\ tpc \notin {"quit", "done"}
  /\ wd' = "due"
  /\ UNCHANGED <<st, kernel, posture, tpc, cur, traced, policy, ends, seen>>

\* It sets the reason whatever has happened since, and kills the root.
Strike ==
  /\ wd = "due" /\ wd' = "off"
  /\ reason' = "timeout"
  /\ st' = Killed(Root)
  /\ UNCHANGED <<kernel, posture, tpc, cur, traced, policy, how, seen>>

-----------------------------------------------------------------------------
Specimen ==
  \/ \E t \in Tasks : Enter(t) \/ Perform(t) \/ Pause(t) \/ Die(t)
  \/ \E t, u \in Tasks : Clone(t, u) \/ Rewrite(u, t)

Loop ==
  \/ \E t \in Tasks : Take(t) \/ Reap(t) \/ Quit(t)
  \/ LoopEnds \/ StepSyscall \/ Break \/ GoOn \/ Proceed \/ EventRaises \/ Done

Window ==
  \/ WindowCall \/ WindowEnds \/ WindowRaises \/ WindowDead
  \/ \E u \in Tasks : WindowFork(u)

Watchdog == Expire \/ Strike

Next == Specimen \/ Loop \/ Window \/ Watchdog

Spec == Init /\ [][Next]_vars

\* waitpid forgets no task, the window has a budget, the clock advances.
Fairness ==
  /\ \A t \in Tasks : SF_vars(Take(t)) /\ SF_vars(Reap(t)) /\ WF_vars(Quit(t))
  /\ WF_vars(LoopEnds) /\ WF_vars(Done)
  /\ WF_vars(StepSyscall) /\ WF_vars(Break \/ GoOn)
  /\ WF_vars(Proceed \/ EventRaises)
  /\ WF_vars(WindowEnds \/ WindowDead)
  /\ WF_vars(Expire) /\ WF_vars(Strike)

FairSpec == Spec /\ Fairness

-----------------------------------------------------------------------------
(* Properties.                                                             *)

\* The kernel is about to perform the call as it stands, or has in a step.
Performing(t) == st[t] = "sys" \/ (t = Root /\ InWindow)

\* The ways that lead past the policy: the handler raised while it recorded the
\* call, a seek could not read the instruction, or a task that shares the memory
\* changed the address of a call which the tracer had permitted, or, if that
\* task is in another process, of one which it had redirected.
Exempt == {"raised", "unread", "permitted", "process"}

\* No task reaches what the policy forbids in any other way: a call that is to
\* be blocked is never performed, and no thread of its process takes a
\* redirected call back to its address, however their steps interleave with the
\* tracer's, in and outside a window.
NoEgress == \A t \in Tasks : Performing(t) /\ Forbidden(call[t]) => way[t] \in Exempt

\* After run the specimen executes nothing, however run has ended: the session
\* then reads the files that the specimen wrote, and relies on that
\* (session.py, capture_artifacts).
Quiet == tpc = "done" => \A t \in Tasks : st[t] \notin Executes

\* debugger.quit finds tasks to terminate only if the run has a reason to
\* report or raises: no run reported as finished was cut short.
KillsHaveReason ==
  tpc = "quit" /\ traced # {} => reason # "none" \/ how = "raised"

\* What NoEgress rests on.  The tracer has decided on a call it lets go on, and
\* a redirected one has no thread of its process beside it.
Gated ==
  /\ \A t \in Tasks :
       /\ st[t] \in {"enter", "sys"} /\ call[t] = "sink" => Alone(t)
       /\ st[t] = "event" => call[t] = "other"
  /\ tpc = "check" /\ st[cur] = "enter" /\ Forbidden(call[cur]) => way[cur] \in Exempt

\* Every task that can still act is in debugger.list; the loop handles a stop
\* that lasts, or a dead task.
Known ==
  /\ tpc # "done" => \A t \in Tasks \ traced : st[t] \in Still
  /\ \A t \in Tasks : IF st[t] = "none" THEN grp[t] = t ELSE st[grp[t]] # "none"
  /\ tpc \in {"syscall", "check"} => cur \in traced /\ st[cur] \in {"enter", "exit", "dead"}
  /\ tpc = "event" => cur \in traced /\ st[cur] \in {"pause", "event", "dead"}
  /\ tpc = "event" /\ st[cur] = "event" => kid[cur] \in traced
  /\ tpc \in Stepping => /\ Root \in traced /\ st[Root] \in {"step", "dead"}
                         /\ \A t \in Tasks \ {Root} : st[t] \in Still

\* The three properties above, and why each step keeps them.
TracerInv ==
  /\ TypeOK
  /\ NoEgress /\ Quiet /\ KillsHaveReason
  /\ Gated /\ Known
  /\ asked = "yes" => reason # "none"

\* A stop that the loop is to handle, or a new task that it has been told of.
Told(t) ==
  \/ t \in traced /\ st[t] \in Stops
  \/ tpc = "event" /\ st[cur] = "event" /\ t = kid[cur]

\* Every such task is resumed or dies: no parent and no child is forgotten, and
\* no task waits for ever behind the stops of the others.
Answered == \A t \in Tasks : Told(t) ~> st[t] \notin Stops \cup {"born"}

\* When every task of the specimen has ended for good, run ends.
EndsWithSpecimen ==
  [](\A t \in Tasks : st[t] \in Absent \cup {"dead"}) ~> tpc = "done"
=============================================================================
