---------------------------- MODULE EventStream ----------------------------
(***************************************************************************)
(* The WebSocket stream of a run's events (containre/api/app.py,           *)
(* stream_ep), over the runs of RunManager: a coroutine per client reads a *)
(* page of the log, sends it, reads status and activity, and goes on until *)
(* the run has ended.  Both reads run in worker threads, so the runner and *)
(* the reaper go on in between.                                            *)
(***************************************************************************)
EXTENDS RunManager

CONSTANT Page   \* events per page

ASSUME PageAssumption == Page \in Nat \ {0}

VARIABLES
  view,     \* the client of the run: what its coroutine does next
  since,    \* the cursor: events of the log that were read
  page,     \* numbers of the events of the page that was read
  got,      \* numbers of the events the client received
  short,    \* runs whose last page was short: the backlog is drained
  over,     \* runs whose status was read as terminal
  posthoc   \* runs that had ended when their client connected

stream == <<view, since, page, got, short, over, posthoc>>
svars  == <<mvars, stream>>

\* Terminal, not active, and no process that could still write.
Ended(r) == meta[r].status \in Terminal /\ r \notin active /\ ~Alive(r)

StreamTypeOK ==
  /\ TypeOK
  /\ view \in [Runs -> {"none", "page", "send", "status", "active", "closed", "gone"}]
  /\ since \in [Runs -> 0..MaxLog]
  /\ page \in [Runs -> SUBSET (1..MaxLog)] /\ got \in [Runs -> SUBSET (1..MaxLog)]
  /\ short \in SUBSET Runs /\ over \in SUBSET Runs /\ posthoc \in SUBSET Runs

StreamInit ==
  /\ Init
  /\ view = [r \in Runs |-> "none"] /\ since = [r \in Runs |-> 0]
  /\ page = [r \in Runs |-> {}] /\ got = [r \in Runs |-> {}]
  /\ short = {} /\ over = {} /\ posthoc = {}

-----------------------------------------------------------------------------
\* A run without meta.json is refused.
Connect(r) ==
  /\ view[r] = "none" /\ meta[r] # NoMeta
  /\ view' = [view EXCEPT ![r] = "page"]
  /\ posthoc' = IF Ended(r) THEN posthoc \cup {r} ELSE posthoc
  /\ UNCHANGED <<mvars, since, page, got, short, over>>

Minimum(a, b) == IF a < b THEN a ELSE b

\* Mutant: the cursor moves past a line that did not parse.
ReadPagePastTorn(r) ==
  /\ view[r] = "page"
  /\ LET until == Minimum(log[r], since[r] + Page)
     IN  /\ page' = [page EXCEPT ![r] = (since[r] + 1)..until]
         /\ since' = [since EXCEPT ![r] =
              IF until = log[r] /\ tail[r] = "torn" THEN until + 1 ELSE until]
         /\ short' = IF until - since[r] < Page THEN short \cup {r} ELSE short \ {r}
  /\ view' = [view EXCEPT ![r] = "send"]
  /\ UNCHANGED <<mvars, got, over, posthoc>>

\* Mutant: a torn line counts as backlog.
ReadPageWaiting(r) ==
  /\ view[r] = "page"
  /\ LET until == Minimum(log[r], since[r] + Page)
     IN  /\ page' = [page EXCEPT ![r] = (since[r] + 1)..until]
         /\ since' = [since EXCEPT ![r] = until]
         /\ short' = IF until - since[r] < Page /\ tail[r] # "torn"
                     THEN short \cup {r} ELSE short \ {r}
  /\ view' = [view EXCEPT ![r] = "send"]
  /\ UNCHANGED <<mvars, got, over, posthoc>>

\* manager.events: the complete lines from the cursor on, at most a page of
\* them; a torn last line does not parse and stays ahead of the cursor.
ReadPage(r) ==
  /\ view[r] = "page"
  /\ LET until == Minimum(log[r], since[r] + Page)
     IN  /\ page' = [page EXCEPT ![r] = (since[r] + 1)..until]
         /\ since' = [since EXCEPT ![r] = until]
         /\ short' = IF until - since[r] < Page THEN short \cup {r} ELSE short \ {r}
  /\ view' = [view EXCEPT ![r] = "send"]
  /\ UNCHANGED <<mvars, got, over, posthoc>>

\* Every event of the page; a client that disconnects ends the coroutine.
SendPage(r) ==
  /\ view[r] = "send"
  /\ \/ /\ got' = [got EXCEPT ![r] = @ \cup page[r]]
        /\ view' = [view EXCEPT ![r] = "status"]
        /\ UNCHANGED short
     \/ /\ view' = [view EXCEPT ![r] = "gone"]
        /\ short' = short \ {r}
        /\ UNCHANGED got
  /\ page' = [page EXCEPT ![r] = {}]
  /\ UNCHANGED <<mvars, since, over, posthoc>>

\* manager.get reads meta.json first ...
ReadStatus(r) ==
  /\ view[r] = "status"
  /\ over' = IF meta[r].status \in Terminal THEN over \cup {r} ELSE over \ {r}
  /\ view' = [view EXCEPT ![r] = "active"]
  /\ UNCHANGED <<mvars, since, page, got, short, posthoc>>

\* Mutant: a run that has ended ends the stream, whatever is left to send.
DecideUndrained(r) ==
  /\ view[r] = "active"
  /\ view' = [view EXCEPT ![r] =
       IF r \in over /\ r \notin active THEN "closed" ELSE "page"]
  /\ over' = over \ {r} /\ short' = short \ {r}
  /\ UNCHANGED <<mvars, since, page, got, posthoc>>

\* ... then the active table, and decides.
Decide(r) ==
  /\ view[r] = "active"
  /\ view' = [view EXCEPT ![r] =
       IF r \in over /\ r \notin active /\ r \in short THEN "closed" ELSE "page"]
  /\ over' = over \ {r} /\ short' = short \ {r}
  /\ UNCHANGED <<mvars, since, page, got, posthoc>>

\* The clients of a server that dies are disconnected.
Disconnect ==
  /\ Restart
  /\ view' = [r \in Runs |-> IF view[r] \in {"none", "closed"} THEN view[r] ELSE "gone"]
  /\ page' = [r \in Runs |-> {}] /\ over' = {} /\ short' = {}
  /\ UNCHANGED <<since, got, posthoc>>

-----------------------------------------------------------------------------
RunStep(r)    == StartStep(r) \/ RunnerStep(r) \/ ReapStep(r) \/ StopStep(r)
StreamStep(r) == ReadPage(r) \/ SendPage(r) \/ ReadStatus(r) \/ Decide(r)

StreamNext == \/ \E r \in Runs : RunStep(r) /\ UNCHANGED stream
              \/ \E r \in Runs : Connect(r) \/ StreamStep(r)
              \/ Disconnect

StreamSpec == StreamInit /\ [][StreamNext]_svars

\* The threads and coroutines of the server run.  The runner owes nobody
\* anything, and no client has to connect.
StreamFairSpec ==
  /\ StreamSpec
  /\ \A r \in Runs : /\ WF_svars(StartStep(r) /\ UNCHANGED stream)
                     /\ WF_svars(ReapStep(r) /\ UNCHANGED stream)
                     /\ WF_svars(StreamStep(r))

-----------------------------------------------------------------------------
(* Properties.                                                             *)

\* A client that is up to date with its cursor has every event before it: no
\* gap, no matter how lines were torn and pages were cut.
NoGap == \A r \in Runs : view[r] \in {"status", "active", "page", "closed"} =>
           got[r] = 1..since[r]

\* A client that connects to a run that has ended gets the whole log before
\* the stream closes, however many pages that takes.
PostHocComplete == \A r \in Runs :
  view[r] = "closed" /\ r \in posthoc => got[r] = 1..log[r]

\* The stream is a feed in the sense of EventFeed, at every moment: what a client
\* has been sent is the log up to some event, and is all of it when the stream of a
\* run that was over is closed.
ClientOf(r) == IF view[r] \in {"none", "closed", "gone"} THEN view[r] ELSE "open"
Feed == INSTANCE EventFeed WITH
          late <- posthoc, client <- [r \in Runs |-> ClientOf(r)]
FeedSpec == Feed!Spec

\* A stream ends when its run has ended, also behind a torn line.
StreamEnds == \A r \in Runs :
  view[r] = "page" /\ Ended(r) ~> view[r] \in {"closed", "gone"}

\* A slot that was taken is given back, whatever became of the runner.
SlotsReturn == \A r \in Runs : r \in active ~> r \notin active

\* A run that starts is not left without an outcome when its runner dies, as
\* long as somebody watches it.
DeadReported == \A r \in Runs :
  proc[r] = "dead" ~> meta[r].status \in Terminal \/ Unwatched(r)
=============================================================================
