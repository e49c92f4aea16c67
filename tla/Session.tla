------------------------------- MODULE Session -------------------------------
(***************************************************************************)
(* The runner process of a run: its main thread (execute in                *)
(* containre/tracer/runner.py), which brings up the sink, has the specimen *)
(* traced, stops the sink and writes the result; the threads of the sink;  *)
(* and the session (containre/tracer/session.py) that records what all of  *)
(* them emit, looks for findings in it and keeps the verdict.              *)
(*                                                                         *)
(* The session's lock is held from an event to the last finding in it, the *)
(* store's from a line to its count.  finalize reads the counts and the    *)
(* verdict without the session's lock.  Writing may fail.                  *)
(***************************************************************************)
EXTENDS NetSink, Detectors, Sequences

CONSTANTS
  Emitted,     \* what the tracer may emit
  Command,     \* what a setup or a teardown command emits
  Url,         \* the URL of the specimen's requests
  MaxEmitted,  \* bound: events of the main thread
  MaxFaults    \* bound: writes that fail

ASSUME BoundAssumption == MaxEmitted \in Nat /\ MaxFaults \in Nat
ASSUME ThreadAssumption == {"main", "nobody", "wait", "ended"} \cap Conns = {}

VARIABLES
  pc,       \* the main thread
  em,       \* the thread that has the session's lock, and how far it is
  emitted,  \* events the main thread has emitted
  told,     \* the events in events.jsonl that are evidence of something
  found,    \* the findings in it, in order
  lines,    \* the number of its lines
  seen,     \* what the detectors remember
  verdict,  \* the session's verdict
  counts,   \* the store's counts
  taken,    \* what finalize has read of the two
  meta,     \* meta.json
  drained,  \* stop left no thread behind
  reason,   \* kill_reason, "none" or "given"
  raised,   \* an exception is on its way out of execute
  faults    \* writes that have failed

log     == <<told, found, lines>>
memory  == <<seen, verdict, counts>>
result  == <<taken, meta>>
main    == <<pc, result, drained, reason, raised>>
session == <<em, emitted, log, memory, main, faults>>
vars    == <<replay, netsink, session>>

Yara == Finding("yara", "artifact")
Free == [who |-> "nobody", at |-> "free", ev |-> Command, now |-> Yara, todo |-> {}]

NoCounts == [events |-> 0, detections |-> 0]
NoResult == [status |-> "running", counts |-> NoCounts, verdict |-> NoVerdict]
Terminal == {"finished", "killed"}

Init ==
  /\ NetSinkInit
  /\ \/ pc = "setup" /\ Started /\ reason = "none"
     \/ pc = "setup" /\ Absent /\ reason = "none"   \* not simulated, or no port
     \/ pc = "counts" /\ Absent /\ reason = "given"
  /\ em = Free /\ emitted = 0
  /\ told = {} /\ found = <<>> /\ lines = 0
  /\ seen = {} /\ verdict = NoVerdict /\ counts = NoCounts
  /\ taken = NoResult /\ meta = NoResult
  /\ drained = (sinkstop = "closed")
  /\ raised = FALSE /\ faults = 0

-----------------------------------------------------------------------------
(* emit and record_detection: who takes the lock.                          *)

Takes(t, e) ==
  /\ em.at = "free"
  /\ em' = [Free EXCEPT !.who = t, !.at = "event", !.ev = e]

Report(c) == [kind |-> "net", op |-> hs[c], key |-> Url]

\* on_interaction.
EmitReport(c) ==
  /\ hs[c] \in Reporting
  /\ Takes(c, Report(c))
  /\ UNCHANGED <<replay, netsink, emitted, log, memory, main, faults>>

\* The tracer's sink, and _run_runtime_commands.
EmitMain ==
  /\ pc \in {"setup", "trace", "teardown"} /\ emitted < MaxEmitted
  /\ \E e \in IF pc = "trace" THEN Emitted ELSE {Command} : Takes("main", e)
  /\ emitted' = emitted + 1
  /\ UNCHANGED <<replay, netsink, log, memory, main, faults>>

\* A rule matches a snapshot, or what the specimen has left (capture_artifacts).
RecordYara ==
  /\ pc \in {"trace", "post"} /\ emitted < MaxEmitted
  /\ em.at = "free"
  /\ em' = [Free EXCEPT !.who = "main", !.at = "finding", !.todo = {Yara}]
  /\ emitted' = emitted + 1
  /\ UNCHANGED <<replay, netsink, log, memory, main, faults>>

-----------------------------------------------------------------------------
(* What its holder does.                                                   *)

Closed == pc = "closed"

\* On to the next finding, or release: a handler's thread ends with its report.
Proceeds(todo) ==
  IF todo # {}
  THEN em' = [em EXCEPT !.at = "finding", !.todo = todo] /\ UNCHANGED hs
  ELSE /\ em' = Free
       /\ hs' = [c \in Conns |-> IF c = em.who THEN "over" ELSE hs[c]]

holding == <<replay, acc, quiet, sinkstop, handlers, joined, emitted, main, faults>>

\* write_event: the line.
WriteLine ==
  /\ em.at = "event" /\ ~Closed
  /\ em' = [em EXCEPT !.at = "row"]
  /\ told' = IF Findings(em.ev) = {} THEN told ELSE told \cup {em.ev}
  /\ lines' = lines + 1
  /\ UNCHANGED <<hs, found, memory, holding>>

\* The row and the count; then the detectors.
CountEvent ==
  /\ em.at = "row"
  /\ counts' = [counts EXCEPT !.events = @ + 1]
  /\ Proceeds(Feed(em.ev, seen))
  /\ UNCHANGED <<log, seen, verdict, holding>>

\* Mutant: the verdict takes a finding that is not written.
AbsorbOnly ==
  /\ em.at = "finding" /\ ~Closed
  /\ \E f \in em.todo :
       /\ em' = [em EXCEPT !.at = "count", !.now = f, !.todo = @ \ {f}]
       /\ verdict' = Absorb(verdict, f)
  /\ UNCHANGED <<hs, log, seen, counts, holding>>

\* A detector remembers a finding before it is written.
WriteFinding ==
  /\ em.at = "finding" /\ ~Closed
  /\ \E f \in em.todo :
       /\ em' = [em EXCEPT !.at = "count", !.now = f, !.todo = @ \ {f}]
       /\ seen' = seen \cup {f} /\ found' = Append(found, f)
  /\ lines' = lines + 1
  /\ UNCHANGED <<hs, told, verdict, counts, holding>>

CountFinding ==
  /\ em.at = "count"
  /\ em' = [em EXCEPT !.at = "absorb"]
  /\ counts' = [events |-> counts.events + 1, detections |-> counts.detections + 1]
  /\ UNCHANGED <<hs, log, seen, verdict, holding>>

AbsorbFinding ==
  /\ em.at = "absorb"
  /\ verdict' = Absorb(verdict, em.now)
  /\ Proceeds(em.todo)
  /\ UNCHANGED <<log, seen, counts, holding>>

\* Mutant: what a step of the post-processing raises goes on.
RaisesThrough ==
  /\ raised' = TRUE
  /\ pc' = IF pc \in {"setup", "trace"} THEN "teardown" ELSE "failed"

\* Where an exception of the main thread leads.  The tracer swallows what the
\* handlers of calls raise; after a teardown that raises, nothing stops the sink.
Raises ==
  \/ pc = "setup" /\ pc' = "teardown" /\ raised' = TRUE
  \/ pc = "trace" /\ pc' = "teardown" /\ raised' = TRUE
  \/ pc = "trace" /\ UNCHANGED <<pc, raised>>
  \/ pc = "teardown" /\ pc' = "failed" /\ raised' = TRUE
  \/ pc = "post" /\ UNCHANGED <<pc, raised>>

\* Recording ends there; the finding being recorded is remembered all the same.
Thrown ==
  /\ Proceeds({})
  /\ IF em.at = "finding" THEN \E f \in em.todo : seen' = seen \cup {f} ELSE UNCHANGED seen
  /\ IF em.who = "main" THEN Raises ELSE UNCHANGED <<pc, raised>>
  /\ UNCHANGED <<replay, acc, quiet, sinkstop, handlers, joined>>
  /\ UNCHANGED <<emitted, log, verdict, counts, result, drained, reason>>

\* The disk is full, or the index raises.
WriteFails ==
  /\ em.at \in {"event", "row", "finding", "count"} /\ faults < MaxFaults
  /\ faults' = faults + 1
  /\ Thrown

\* The store is closed: a thread that stop has left behind.
WriteTooLate ==
  /\ em.at \in {"event", "finding"} /\ Closed
  /\ UNCHANGED faults
  /\ Thrown

Holder ==
  \/ WriteLine \/ CountEvent \/ WriteFinding \/ CountFinding \/ AbsorbFinding
  \/ WriteTooLate

-----------------------------------------------------------------------------
(* execute.                                                                *)

Idle == em.who # "main"

others == <<replay, netsink, em, emitted, log, memory, faults>>

\* A setup command that fails ends the run before it has begun.
SetupEnds ==
  /\ pc = "setup" /\ Idle
  /\ \/ pc' = "trace" /\ UNCHANGED reason
     \/ pc' = "teardown" /\ reason' = "given"
  /\ UNCHANGED <<result, drained, raised, others>>

TraceEnds ==
  /\ pc = "trace" /\ Idle
  /\ pc' = "teardown"
  /\ reason' \in {reason, "given"}
  /\ UNCHANGED <<result, drained, raised, others>>

TeardownEnds ==
  /\ pc = "teardown" /\ Idle
  /\ pc' = IF sinkstop = "no" THEN "stop" ELSE IF raised THEN "failed" ELSE "post"
  /\ UNCHANGED <<result, drained, reason, raised, others>>

Stop ==
  /\ pc = "stop"
  /\ \/ StopSets /\ UNCHANGED pc
     \/ StopCloses /\ UNCHANGED pc
     \/ sinkstop = "closed" /\ StopSnapshots /\ pc' = "join"
  /\ UNCHANGED <<em, emitted, log, memory, result, drained, reason, raised, faults>>

\* All threads have ended, or drain_timeout has passed.
Join ==
  /\ pc = "join"
  /\ drained' = Ended
  /\ pc' = IF raised THEN "failed" ELSE "post"
  /\ UNCHANGED <<result, reason, raised, others>>

PostEnds ==
  /\ pc = "post" /\ Idle
  /\ pc' = "counts"
  /\ UNCHANGED <<result, drained, reason, raised, others>>

\* finalize: the counts, the verdict, meta.json, close.
TakeCounts ==
  /\ pc = "counts" /\ pc' = "verdict"
  /\ taken' = [taken EXCEPT !.counts = counts,
                            !.status = IF reason = "none" THEN "finished" ELSE "killed"]
  /\ UNCHANGED <<meta, drained, reason, raised, others>>

TakeVerdict ==
  /\ pc = "verdict" /\ pc' = "meta"
  /\ taken' = [taken EXCEPT !.verdict = verdict]
  /\ UNCHANGED <<meta, drained, reason, raised, others>>

StoreUnlocked == em.at \notin {"row", "count"}

WriteMeta ==
  /\ pc = "meta" /\ StoreUnlocked
  /\ meta' = taken /\ pc' = "close"
  /\ UNCHANGED <<taken, drained, reason, raised, others>>

MetaFails ==
  /\ pc = "meta" /\ faults < MaxFaults
  /\ faults' = faults + 1
  /\ pc' = "failed" /\ raised' = TRUE
  /\ UNCHANGED <<replay, netsink, em, emitted, log, memory, result, drained, reason>>

CloseStore ==
  /\ pc = "close" /\ StoreUnlocked
  /\ pc' = "closed"
  /\ UNCHANGED <<result, drained, reason, raised, others>>

\* The process ends, and its threads with it.
Exit ==
  /\ pc \in {"closed", "failed"} /\ pc' = "exit"
  /\ em' = Free
  /\ hs' = [c \in Conns |-> "over"] /\ acc' = [a \in Acceptors |-> "ended"]
  /\ sinkstop' = "closed" /\ quiet' = {} /\ Forget
  /\ UNCHANGED <<handlers, joined>>
  /\ UNCHANGED <<emitted, log, memory, result, drained, reason, raised, faults>>

Execute ==
  \/ SetupEnds \/ TraceEnds \/ TeardownEnds \/ Stop \/ Join \/ PostEnds
  \/ TakeCounts \/ TakeVerdict \/ WriteMeta \/ CloseStore \/ Exit

-----------------------------------------------------------------------------
Sink == pc # "exit" /\ (Specimen \/ Threads) /\ UNCHANGED session

Next ==
  \/ Sink
  \/ \E c \in Conns : EmitReport(c)
  \/ EmitMain \/ RecordYara
  \/ Holder \/ WriteFails
  \/ Execute \/ MetaFails

Spec == Init /\ [][Next]_vars

\* Time passes and recv returns, the lock is granted to who waits for it, its
\* holder goes on, and so does execute.  Nothing makes the specimen do anything:
\* its end is not assumed.
Fairness ==
  /\ \A c \in TlsClients :
       /\ WF_vars(pc # "exit" /\ ReplayLoops(c) /\ UNCHANGED session)
       /\ WF_vars(pc # "exit" /\ ReplayIdles(c) /\ UNCHANGED session)
       /\ WF_vars(EmitReport(c))
  /\ WF_vars(Holder)
  /\ WF_vars(pc \notin {"setup", "trace"} /\ Execute)

FairSpec == Spec /\ Fairness

-----------------------------------------------------------------------------
Found == {found[i] : i \in DOMAIN found}

\* What meta.json says is in events.jsonl: no more events and detections than it
\* has, no flag and no severity that a finding in it does not account for; and
\* each finding but yara's has its event there (finalize, which reads while a
\* thread that stop has left behind may be recording).
Truthful ==
  /\ meta.counts.events <= lines
  /\ meta.counts.detections <= Len(found)
  /\ meta.verdict.flags \subseteq VerdictOf(Found).flags
  /\ meta.verdict.severity <= VerdictOf(Found).severity
  /\ \A f \in Found \ {Yara} : \E e \in told : f \in Findings(e)

\* When stop has left no thread behind and no write has failed, the result is all
\* of it: meta.json counts every line, its verdict is the verdict of every
\* finding, and everything the log has evidence of was found (the comment in
\* stop, and the one on the lock in _accept_loop).
Complete ==
  meta.status \in Terminal /\ drained /\ faults = 0 =>
    /\ meta.counts = [events |-> lines, detections |-> Len(found)]
    /\ meta.verdict = VerdictOf(Found)
    /\ \A e \in told : Findings(e) \subseteq Found

\* The same finding is reported once, whichever threads meet it (_seen).
OneReport ==
  \A i, j \in DOMAIN found : found[i] = found[j] /\ i # j => found[i] = Yara

\* The thread of a replayed client that falls silent, in whichever of the three
\* inner loops, ends: it does not stay for the run (the comment in the preface
\* loop).
SilentEnds == \A c \in TlsClients : c \in quiet ~> hs[c] = "over"

\* Once the sink is being stopped, and unless an exception is on its way, the
\* run gets its terminal meta.json, or writing that itself failed: neither
\* handlers that hold the lock nor a step of the post-processing keep it from
\* that (the comment in execute).
Finalized ==
  pc = "stop" /\ ~raised ~>
    meta.status \in Terminal \/ (faults > 0 /\ taken.status \in Terminal)
=============================================================================
