----------------------------- MODULE Session_inv -----------------------------
(***************************************************************************)
(* The inductive invariant of Session: who may hold its lock, which        *)
(* threads may be left when the sink has been stopped, how far the log,    *)
(* the counts, the verdict and what the detectors remember may be apart at *)
(* each step of the holder; and Framing, of the replayed connection.       *)
(***************************************************************************)
EXTENDS Session

Events == Emitted \cup {Command} \cup {[kind |-> "net", op |-> o, key |-> Url] : o \in Reporting}
Every  == {Yara} \cup UNION {Findings(e) : e \in Events}
Flags  == {Flag(f.id) : f \in Every}

CountType   == [events : Nat, detections : Nat]
VerdictType == [severity : 0..4, flags : SUBSET Flags]
ResultType  == [status : {"running"} \cup Terminal, counts : CountType, verdict : VerdictType]

SessionTypeOK ==
  /\ hs \in [Conns -> {"none", "queued", "held", "over"} \cup Handled]
  /\ acc \in [Acceptors -> {"wait", "ended"} \cup Conns]
  /\ sinkstop \in {"no", "set", "closed"}
  /\ em \in [who : Conns \cup {"main", "nobody"},
             at : {"free", "event", "row", "finding", "count", "absorb"},
             ev : Events, now : Every, todo : SUBSET Every]
  /\ told \subseteq Events /\ found \in Seq(Every) /\ lines \in Nat
  /\ verdict \in VerdictType /\ counts \in CountType
  /\ taken \in ResultType /\ meta \in ResultType
  /\ drained \in BOOLEAN /\ faults \in Nat

\* An accept thread is the only one to know of the connection it holds.
Held ==
  /\ \A a \in Acceptors : acc[a] \in Conns => hs[acc[a]] = "held"
  /\ \A a, b \in Acceptors : acc[a] = acc[b] /\ acc[a] \in Conns => a = b

\* The lock is the main thread's, or a handler's that has something to report.
Locked ==
  /\ em.who = "nobody" <=> em.at = "free"
  /\ em.who = "main" => pc \in {"setup", "trace", "teardown", "post"}
  /\ em.who \in Conns => hs[em.who] \in Reporting
  /\ em.at \in {"free", "event", "row"} => em.todo = {}

\* Which handlers there are, and what stop knows of them.
Living ==
  /\ Alive \subseteq handlers
  /\ pc = "join" => sinkstop = "closed" /\ Alive \subseteq joined
  /\ drained => sinkstop = "closed" /\ Alive = {}

Threading == SessionTypeOK /\ Held /\ Locked /\ Living

\* What is found, or about to be, has its evidence in the log, and is remembered.
Evidence ==
  /\ em.at = "row" /\ Findings(em.ev) # {} => em.ev \in told
  /\ \A f \in (Found \cup em.todo) \ {Yara} : \E e \in told : f \in Findings(e)
Remembered ==
  /\ Found \subseteq seen
  /\ em.todo \cap seen \subseteq {Yara}
Reported == Evidence /\ Remembered /\ OneReport

\* The line is written before it is counted, the finding before it is absorbed.
Uncounted == IF em.at \in {"row", "count"} THEN 1 ELSE 0
Unfound   == IF em.at = "count" THEN 1 ELSE 0

NoMore(v, w) == v.flags \subseteq w.flags /\ v.severity <= w.severity
Within(r) ==
  /\ r.counts.events <= lines /\ r.counts.detections <= Len(found)
  /\ NoMore(r.verdict, VerdictOf(Found))

Accounted ==
  /\ counts.events + Uncounted <= lines
  /\ counts.detections + Unfound <= Len(found)
  /\ NoMore(verdict, VerdictOf(Found))
  /\ em.at \in {"count", "absorb"} => em.now \in Found
  /\ Within(taken) /\ Within(meta)

\* While no write fails, and until the store is closed on a thread that is left
\* behind, nothing is missing but what the holder is about to do.
Exact ==
  faults = 0 /\ (pc \in {"closed", "exit"} => drained) =>
    /\ counts.events + Uncounted = lines
    /\ counts.detections + Unfound = Len(found)
    /\ VerdictOf(Found) = IF em.at \in {"count", "absorb"} THEN Absorb(verdict, em.now) ELSE verdict
    /\ seen \subseteq Found
    /\ \A e \in told : Findings(e) \subseteq Found \cup em.todo \/ (em.at = "row" /\ e = em.ev)

Taken ==
  /\ drained /\ pc \in {"verdict", "meta"} => taken.counts = counts
  /\ drained /\ pc = "meta" => taken.verdict = verdict
  /\ meta.status \in Terminal => pc \in {"close", "closed", "exit"}

Whole == Exact /\ Taken /\ Complete

\* A stream of the replayed connection is begun, answered or given up, unless the
\* client has left the protocol on it.
StreamStage(s) ==
  theirs[s] # "amiss" =>
    /\ theirs[s] = "idle" => streams[s] = Fresh("none") /\ ours[s] = "idle"
    /\ theirs[s] = "open" /\ streams[s].mode = "none" => ours[s] = "idle"
    /\ streams[s].mode = "unary" =>
         \/ ~streams[s].responded /\ ~streams[s].headers_sent /\ ours[s] = "idle"
         \/ streams[s].responded /\ ours[s] = "ended"

\* What the loop remembers of a connection is bounded (_H2_MAX_STREAMS).
Bounded == IsFiniteSet(Tracked) /\ Cardinality(Tracked) <= MaxStreams

Framing == (\A s \in Streams : StreamStage(s)) /\ Bounded

IInv == Threading /\ Reported /\ Accounted /\ Whole
=============================================================================
